------------------------------ MODULE GuestDesk ------------------------------
(***************************************************************************)
(* Guest requests: asked of the web layer (_guest_decide in web/app.py),   *)
(* answered by the table over the evidence of the moment (guest/service.py *)
(* answer), and kept by RunStore.save_decision together with the task the  *)
(* decision raises - by the processes that have the same store file open.  *)
(*                                                                         *)
(* The evidence a request is decided over is the body of evidence its form *)
(* names, so two asks of one request may see different facts; it is any of *)
(* Lookups here.  The day is that body's as_of, or the form's.             *)
(***************************************************************************)
EXTENDS GuestDecision, FiniteSets

CONSTANTS
  Procs,          \* processes answering requests over one store file
  Reservations,
  AskedTimes,     \* times a guest asks for
  Days,           \* property days a request may be received on
  Policies,       \* what the tenant file may state
  Lookups,        \* outcomes of look_up()
  MaxDecisions    \* bound: a request is not asked once so many rows are stored

ASSUME DeskAssumption ==
  /\ AskedTimes \subseteq Nat /\ Days \subseteq Int
  /\ Policies \subseteq Policy /\ Lookups \subseteq Evidence

VARIABLES
  policy,     \* the policy block of the tenant file, as it is on disk
  decisions,  \* rows of the decisions table
  tasks,      \* decision id -> state of the task it raised
  pc,         \* process -> "idle" | "asked" | "answered"
  request,    \* process -> the request it parsed and the policy it loaded
  draft,      \* process -> the decision made, not stored yet
  answers     \* history: what guests were told, request by request

vars == <<policy, decisions, tasks, pc, request, draft, answers>>

\* The seven fields of the table's identity key; the digest is the policy.
DecisionId(ask, evidence) ==
  [reservation  |-> ask.reservation,
   departure    |-> IF evidence.absent THEN None ELSE evidence.departure,
   asked        |-> ask.asked,
   received_on  |-> ask.received_on,
   parameters   |-> ask.policy]

Init ==
  /\ policy \in {p \in Policies : Loads(p)}
  /\ decisions = {}
  /\ tasks = <<>>
  /\ pc = [p \in Procs |-> "idle"]
  /\ request = [p \in Procs |-> None]
  /\ draft = [p \in Procs |-> None]
  /\ answers = {}

\* A request is parsed and the policy on disk loaded; one that does not load is
\* refused before anything is looked up.
Ask(p, reservation, asked, day) ==
  /\ pc[p] = "idle"
  /\ Cardinality(decisions) < MaxDecisions
  /\ Loads(policy)
  /\ request' = [request EXCEPT ![p] =
       [reservation |-> reservation, asked |-> asked, received_on |-> day, policy |-> policy]]
  /\ pc' = [pc EXCEPT ![p] = "asked"]
  /\ UNCHANGED <<policy, decisions, tasks, draft, answers>>

\* answer(): the evidence is looked up, the table decides, the decision is named.
Answer(p, evidence) ==
  LET ask == request[p] IN
  /\ pc[p] = "asked"
  /\ draft' = [draft EXCEPT ![p] =
       [id       |-> DecisionId(ask, evidence),
        evidence |-> evidence,
        ruling   |-> Decide(ask.asked, ask.policy, evidence, ask.received_on)]]
  /\ pc' = [pc EXCEPT ![p] = "answered"]
  /\ UNCHANGED <<policy, decisions, tasks, request, answers>>

Stored(id) == {row \in decisions : row.id = id}

Respond(p, row) ==
  /\ answers' = answers \union {[ask |-> request[p], row |-> row]}
  /\ pc' = [pc EXCEPT ![p] = "idle"]
  /\ request' = [request EXCEPT ![p] = None]
  /\ draft' = [draft EXCEPT ![p] = None]

\* guest_task(): every decision but a denial raises one task, keyed by its id.
RaiseTask(row) ==
  tasks' = IF row.ruling.decision = DENIED THEN tasks
           ELSE [id \in DOMAIN tasks \union {row.id} |->
                   IF id \in DOMAIN tasks THEN tasks[id] ELSE "pending"]

\* The decision committed before its task: the process may end in between.
Save_TwoTransactions(p) ==
  /\ pc[p] = "answered"
  /\ IF Stored(draft[p].id) # {}
     THEN /\ \E row \in Stored(draft[p].id) : Respond(p, row)
          /\ UNCHANGED <<decisions, tasks>>
     ELSE /\ decisions' = decisions \union {draft[p]}
          /\ RaiseTask(draft[p]) \/ UNCHANGED tasks
          /\ Respond(p, draft[p])
  /\ UNCHANGED policy

\* INSERT OR REPLACE.
Save_Replace(p) ==
  /\ pc[p] = "answered"
  /\ decisions' = (decisions \ Stored(draft[p].id)) \union {draft[p]}
  /\ RaiseTask(draft[p])
  /\ Respond(p, draft[p])
  /\ UNCHANGED policy

\* The conflict noticed, and the new ruling answered all the same.
Save_OwnAnswer(p) ==
  /\ pc[p] = "answered"
  /\ Respond(p, draft[p])
  /\ IF Stored(draft[p].id) # {}
     THEN UNCHANGED <<decisions, tasks>>
     ELSE /\ decisions' = decisions \union {draft[p]}
          /\ RaiseTask(draft[p])
  /\ UNCHANGED policy

\* save_decision(): one transaction that begins with the INSERT.  An id that is
\* taken keeps its first row, and that row is the answer.
Save(p) ==
  /\ pc[p] = "answered"
  /\ IF Stored(draft[p].id) # {}
     THEN /\ \E row \in Stored(draft[p].id) : Respond(p, row)
          /\ UNCHANGED <<decisions, tasks>>
     ELSE /\ decisions' = decisions \union {draft[p]}
          /\ RaiseTask(draft[p])
          /\ Respond(p, draft[p])
  /\ UNCHANGED policy

\* A person does or dismisses the task (RunStore.transition, as in FindingsQueue).
MoveTask(p, id, state) ==
  /\ pc[p] = "idle"
  /\ tasks[id] = "pending"
  /\ tasks' = [tasks EXCEPT ![id] = state]
  /\ UNCHANGED <<policy, decisions, pc, request, draft, answers>>

\* The process ends, or the call raises, before the row is committed.
Abandon(p) ==
  /\ pc[p] # "idle"
  /\ pc' = [pc EXCEPT ![p] = "idle"]
  /\ request' = [request EXCEPT ![p] = None]
  /\ draft' = [draft EXCEPT ![p] = None]
  /\ UNCHANGED <<policy, decisions, tasks, answers>>

\* The hotel edits its policy block on disk.
EditPolicy(edited) ==
  /\ edited # policy
  /\ policy' = edited
  /\ UNCHANGED <<decisions, tasks, pc, request, draft, answers>>

Next ==
  \/ \E p \in Procs :
       \/ \E r \in Reservations, t \in AskedTimes, d \in Days : Ask(p, r, t, d)
       \/ \E evidence \in Lookups : Answer(p, evidence)
       \/ Save(p)
       \/ \E id \in DOMAIN tasks, state \in {"done", "dismissed"} : MoveTask(p, id, state)
       \/ Abandon(p)
  \/ \E edited \in Policies : EditPolicy(edited)

Spec == Init /\ [][Next]_vars

------------------------------------------------------------------------------
Ids == [reservation : Reservations, departure : Int \union {None}, asked : AskedTimes,
        received_on : Days, parameters : Policies]

\* Types of the variables; rows are typed by what a decision may hold.
TypeOK ==
  /\ policy \in Policies
  /\ \A row \in decisions \union {draft[p] : p \in {q \in Procs : pc[q] = "answered"}} :
       /\ row.id \in Ids
       /\ row.evidence \in Lookups
       /\ row.ruling.rule \in DOMAIN RULES
       /\ row.ruling.fee \in Nat \union {None}
  /\ DOMAIN tasks \subseteq {row.id : row \in decisions}
  /\ pc \in [Procs -> {"idle", "asked", "answered"}]

\* "Nothing below LC1 can be reached from missing evidence" (V10): a decision over
\* a gap is STAFF_REVIEW; a denial follows from the stay or the stated maximum; an
\* approval only for a guest shown checked in and departing on the day received,
\* no later than the hotel lets a request through without a person.
DecisionsAreEarned ==
  \A row \in decisions :
    LET parameters == row.id.parameters
        established == ~row.evidence.absent /\ None \notin {row.evidence.status, row.evidence.departure}
        decided == \A name \in PARAMETERS : parameters[name] # None
    IN
    /\ row.ruling.decision # STAFF_REVIEW => established /\ decided
    /\ row.ruling.decision = DENIED =>
         \/ row.evidence.status \in {"cancelled", "checked_out"}
         \/ row.evidence.departure < row.id.received_on
         \/ row.id.asked > parameters["maximum_time"]
    /\ row.ruling.decision \in {APPROVED, APPROVED_WITH_FEE} =>
         /\ row.evidence.status = "checked_in"
         /\ row.evidence.departure = row.id.received_on
         /\ row.id.asked <= parameters["approval_required_after"]
         /\ row.id.asked <= parameters["maximum_time"]

\* A fee is charged for the least number of whole hours that reaches the time
\* asked for (started_hour) or the greatest that does not pass it (completed_hour),
\* and there is a fee exactly when that number is not zero.
FeeIsByTheHour ==
  \A row \in decisions : row.ruling.rule = "LC11_fee" =>
    LET from     == row.id.parameters["charge_from"]
        rate     == row.id.parameters["fee_per_hour"]
        started  == row.id.parameters["hour_rounding"] = "started_hour"
        Reaches(h) == IF started THEN /\ from + h * Hour >= row.id.asked
                                      /\ from + (h - 1) * Hour < row.id.asked
                                 ELSE /\ from + h * Hour <= row.id.asked
                                      /\ from + (h + 1) * Hour > row.id.asked
    IN \E h \in 0 .. row.id.asked :
         /\ Reaches(h)
         /\ row.ruling.fee = IF h = 0 THEN None ELSE h * rate
         /\ row.ruling.decision = IF h = 0 THEN APPROVED ELSE APPROVED_WITH_FEE

Burden == [APPROVED |-> 0, APPROVED_WITH_FEE |-> 1, STAFF_REVIEW |-> 2, DENIED |-> 3]
Amount(ruling) == IF ruling.fee = None THEN 0 ELSE ruling.fee

\* Asking for more never gets an easier answer: of two requests that differ in the
\* time only, the later one is not decided more favourably, nor for a smaller fee.
LaterIsNeverEasier ==
  \A one, two \in decisions :
    /\ one.id.parameters = two.id.parameters /\ one.evidence = two.evidence
    /\ one.id.received_on = two.id.received_on /\ one.id.asked <= two.id.asked
    => /\ Burden[one.ruling.decision] <= Burden[two.ruling.decision]
       /\ two.ruling.decision = APPROVED_WITH_FEE => Amount(one.ruling) <= Amount(two.ruling)

\* "A crash between the two cannot leave a decision whose task never existed": a
\* stored decision has its one task exactly when it is not a denial.
DecisionHasItsTask ==
  DOMAIN tasks = {row.id : row \in {d \in decisions : d.ruling.decision # DENIED}}

\* Whoever asks, and however two processes race to store it, everybody who made
\* the request a decision is for was told that decision.
AnswersAgree ==
  \A answer \in answers :
    /\ answer.row \in decisions
    /\ \A row \in decisions : row.id = answer.row.id => row = answer.row

\* "The stored decision, unchanged": no later ask, lookup or edit rewrites a row.
FirstAnswerStands == [][decisions \subseteq decisions']_vars

\* "The same request twice is one decision and one task ... a double tap happens on
\* one day, so it still collapses to one decision": one reservation, one time, one
\* day and one policy.
DoubleTapIsOneDecision ==
  \A one, two \in answers : one.ask = two.ask => one.row = two.row
==============================================================================
