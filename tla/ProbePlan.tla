------------------------------ MODULE ProbePlan ------------------------------
(***************************************************************************)
(* What a probe may send (tools/probe.py): the calls the named controls    *)
(* would make with their dates resolved on one day, narrowed to an         *)
(* endpoint, with an option added to the population's question; or a       *)
(* recorded question asked again.  All of what was printed is sent, or     *)
(* nothing.                                                                *)
(***************************************************************************)
EXTENDS Recorder, Replay, SequencesExt

CONSTANTS
  Controls,     \* the rules, each with
  Query,        \*   its population query: dates are offsets from today
  References,   \*   [entity, kind, source, endpoint, window], in the rule's order
  FollowsUp,    \*   whether it needs a field that takes a call per record
  SampleRecord, \* the placeholder in a printed per-record call
  Committed     \* the questions of the recordings kept with the code

\* resolve_dates(): every relative date of a query, in the property's calendar.
Resolved(filters, today) ==
  LET Day(offset) == IF offset = Open THEN Open ELSE today + offset
  IN  [name \in DOMAIN filters |->
         IF name \in MiniHotel.windows
         THEN [from |-> Day(filters[name].from), to |-> Day(filters[name].to)]
         ELSE filters[name]]

\* build_request()
BuildRequest(control, today) ==
  [Query[control] EXCEPT !.filters = Resolved(@, today)]

Balance(id) == [endpoint |-> "GetReservationBalance",
                filters |-> [ReservationNumber |-> id]]

\* reference_window() and reference_request(): bounded when the rule says so.
ReferenceRequest(ref, today) ==
  [endpoint |-> ref.endpoint,
   filters  |-> IF ref.window = None THEN <<>>
                ELSE Resolved([DateRange |-> ref.window], today)]

\* The references that cost a call: not the property's own, and retrievable.
Retrievable(ref) == ref.source = "pms" /\ ref.endpoint # None
Calls(control, today) ==
  LET fetched == SelectSeq(References[control], Retrievable)
  IN  [i \in 1 .. Len(fetched) |-> ReferenceRequest(fetched[i], today)]

Stage(name, requests) == [name |-> name, requests |-> requests]
Held(stages) == SelectSeq(stages, LAMBDA stage : stage.requests # <<>>)
Printed(stages) == FlattenSeq([i \in 1 .. Len(stages) |-> stages[i].requests])

\* plan_for(): every call the control would make, in its order.
PlanFor(control, today) ==
  Held(<<Stage("population", <<BuildRequest(control, today)>>),
         Stage("references", Calls(control, today)),
         Stage("per record", IF FollowsUp[control] THEN <<Balance(SampleRecord)>> ELSE <<>>)>>)

Narrow(stages, endpoint) ==
  Held([i \in 1 .. Len(stages) |->
          Stage(stages[i].name,
                SelectSeq(stages[i].requests, LAMBDA q : q.endpoint = endpoint))])

\* _add(): only an option on ADDABLE, and never over what is asked already.
ADDABLE == {"IncludeRoomPrices"}
MayAdd(q, options) == options \subseteq ADDABLE /\ options \intersect DOMAIN q.filters = {}
Add(q, options) ==
  [q EXCEPT !.filters = [name \in DOMAIN @ \union options |->
                           IF name \in options THEN TRUE ELSE @[name]]]

\* with_options(): an option goes to the population's question, and nowhere else.
TakesOptions(stages, options) ==
  options # {} => /\ \E i \in 1 .. Len(stages) : stages[i].name = "population"
                  /\ \A i \in 1 .. Len(stages) : stages[i].name = "population" =>
                       \A k \in 1 .. Len(stages[i].requests) :
                         MayAdd(stages[i].requests[k], options)
WithOptions(stages, options) ==
  [i \in 1 .. Len(stages) |->
     IF stages[i].name # "population" THEN stages[i]
     ELSE Stage("population", [k \in 1 .. Len(stages[i].requests) |->
                                 Add(stages[i].requests[k], options)])]

\* prepare(): one section a control, narrowed, then widened by the options.
Section(control, order) ==
  LET stages == PlanFor(control, order.as_of)
  IN  IF order.endpoint = None THEN stages ELSE Narrow(stages, order.endpoint)
IsPrepared(order) ==
  \A i \in 1 .. Len(order.controls) :
    LET section == Section(order.controls[i], order)
    IN  section # <<>> /\ TakesOptions(section, order.additions)
Prepare(order) ==
  FlattenSeq([i \in 1 .. Len(order.controls) |->
                WithOptions(Section(order.controls[i], order), order.additions)])

\* reask(): a question of fixtures/<provider>/index.json, verbatim but for the options.
Reask(options) ==
  {<<Stage("re-ask", <<Add(q, options)>>)>> : q \in {q \in Committed : MayAdd(q, options)}}

\* sendable(): all of a plan or nothing of it, and no per-record call.
Sendable(stages) ==
  \A i \in 1 .. Len(stages) :
    /\ stages[i].name # "per record"
    /\ \A k \in 1 .. Len(stages[i].requests) : stages[i].requests[k] \in Encodable

\* What it returns: each distinct request, where it was printed first.
Once(requests) ==
  LET firsts == SelectSeq([i \in 1 .. Len(requests) |-> i],
                          LAMBDA i : \A j \in 1 .. i - 1 : requests[j] # requests[i])
  IN  [k \in 1 .. Len(firsts) |-> requests[firsts[k]]]

\* Every list of requests an operator who orders this may approve and send.
Approved(order) ==
  {Once(Printed(stages)) : stages \in
     {stages \in (IF order.controls = <<>> THEN Reask(order.additions)
                  ELSE IF IsPrepared(order) THEN {Prepare(order)} ELSE {}) :
        Sendable(stages)}}
==============================================================================
