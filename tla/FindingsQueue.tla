---------------------------- MODULE FindingsQueue ----------------------------
(***************************************************************************)
(* The findings queue of RunStore (hotelcontrols/store/sqlite.py), for the *)
(* records of one rule of one property, shared by the processes that have  *)
(* the same store file open.                                               *)
(*                                                                         *)
(* record_findings() is one SQLite transaction, but Python's sqlite3 opens *)
(* it at the first INSERT or UPDATE and not at a SELECT.  A batch with a   *)
(* FAIL starts with an INSERT and runs under the write lock throughout: it *)
(* is one atomic step here.  A batch of PASSes only starts with SELECTs in *)
(* autocommit: each is a step of its own, and the UPDATE that follows      *)
(* takes the lock and acts on what was read before it.                     *)
(*                                                                         *)
(* transition() reads the row, checks the move, and then writes in a       *)
(* transaction of its own, so it is two steps as well.                     *)
(***************************************************************************)
EXTENDS ActionRecords

CONSTANTS
  Records,   \* record ids of the rule's population
  Procs      \* processes with this store file open

ASSUME ProcsAssumption == Procs \subseteq Actors

VARIABLES
  actions,   \* record -> its row, or NoTask
  pc,        \* process -> where it is in a call to the store
  call,      \* process -> the arguments and reads that call carries
  fails,     \* history: record -> runs whose FAIL was recorded
  passes     \* history: record -> runs whose PASS was offered to its task

vars == <<actions, pc, call, fails, passes>>

Labels == {"idle", "reading", "annotating", "moving"}

\* run, todo, hit: a PASS-only batch, the records left, the row to annotate.
\* hit, target: a task being moved and where to.
Call == [run : Runs \union {None}, todo : SUBSET Records,
         hit : Records \union {None}, target : STATES]

NoCall == [run |-> None, todo |-> {}, hit |-> None, target |-> PENDING]

Init ==
  /\ actions = [r \in Records |-> NoTask]
  /\ pc = [p \in Procs |-> "idle"]
  /\ call = [p \in Procs |-> NoCall]
  /\ fails = [r \in Records |-> {}]
  /\ passes = [r \in Records |-> {}]

Finish(p) == /\ pc' = [pc EXCEPT ![p] = "idle"]
             /\ call' = [call EXCEPT ![p] = NoCall]

\* What the rows become when the FAILs and then the PASSes of a run are applied.
AfterFailing(failing, run) ==
  [r \in Records |-> IF r \in failing THEN RecordFailing(actions[r], run)
                                      ELSE actions[r]]

AfterPassing(rows, passing, run) ==
  [r \in Records |-> IF r \in passing THEN RecordPassing(rows[r], run)
                                      ELSE rows[r]]

\* A PASS says something about a row only when there is one.
Offer(rows, passing, run) ==
  passes' = [r \in Records |-> IF r \in passing /\ rows[r] # NoTask
                               THEN passes[r] \union {run} ELSE passes[r]]

\* record_findings() for a run with at least one FAIL: one transaction.
RecordFindings(p, run, failing, passing) ==
  LET rows == AfterFailing(failing, run) IN
  /\ pc[p] = "idle"
  /\ failing # {}
  /\ actions' = AfterPassing(rows, passing, run)
  /\ fails' = [r \in Records |-> IF r \in failing THEN fails[r] \union {run}
                                                  ELSE fails[r]]
  /\ Offer(rows, passing, run)
  /\ UNCHANGED <<pc, call>>

\* record_findings() for a run with PASSes only: no lock is held yet.
BeginPassing(p, run, passing) ==
  /\ pc[p] = "idle"
  /\ passing # {}
  /\ pc' = [pc EXCEPT ![p] = "reading"]
  /\ call' = [call EXCEPT ![p] = [NoCall EXCEPT !.run = run, !.todo = passing]]
  /\ UNCHANGED <<actions, fails, passes>>

\* One SELECT by natural key: the row is not news, so on to the next record.
SkipPassing(p, r) ==
  /\ pc[p] = "reading"
  /\ r \in call[p].todo
  /\ ~Annotates(actions[r], call[p].run)
  /\ IF call[p].todo = {r}
     THEN Finish(p)
     ELSE /\ call' = [call EXCEPT ![p].todo = @ \ {r}]
          /\ UNCHANGED pc
  /\ Offer(actions, {r}, call[p].run)
  /\ UNCHANGED <<actions, fails>>

\* One SELECT by natural key: the row is to be annotated, by the UPDATE to come.
HitPassing(p, r) ==
  /\ pc[p] = "reading"
  /\ r \in call[p].todo
  /\ Annotates(actions[r], call[p].run)
  /\ pc' = [pc EXCEPT ![p] = "annotating"]
  /\ call' = [call EXCEPT ![p].hit = r]
  /\ UNCHANGED <<actions, fails, passes>>

\* The first UPDATE takes the write lock; the rest of the batch runs under it.
\* It names the row by its id and asks nothing of the row as it now is.
AnnotatePassing(p) ==
  LET run  == call[p].run
      hit  == call[p].hit
      rows == [actions EXCEPT ![hit] = Annotate(@, run)]
  IN
  /\ pc[p] = "annotating"
  /\ actions' = AfterPassing(rows, call[p].todo \ {hit}, run)
  /\ Offer(actions, call[p].todo, run)
  /\ Finish(p)
  /\ UNCHANGED fails

\* transition(): the read, and the move checked against it.  A refused move
\* changes nothing.
ReadTask(p, r, target) ==
  /\ pc[p] = "idle"
  /\ actions[r] # NoTask
  /\ Allowed(actions[r], target)
  /\ pc' = [pc EXCEPT ![p] = "moving"]
  /\ call' = [call EXCEPT ![p] = [NoCall EXCEPT !.hit = r, !.target = target]]
  /\ UNCHANGED <<actions, fails, passes>>

\* transition(): the guarded write.
MoveTask(p) ==
  /\ pc[p] = "moving"
  /\ actions' = [actions EXCEPT ![call[p].hit] = Close(@, call[p].target, p)]
  /\ Finish(p)
  /\ UNCHANGED <<fails, passes>>

\* The process dies in the middle of a call, or the write lock is not had within
\* sqlite3's busy timeout and the call raises: nothing uncommitted survives.
Abandon(p) ==
  /\ pc[p] # "idle"
  /\ Finish(p)
  /\ UNCHANGED <<actions, fails, passes>>

Step(p) ==
  \/ \E run \in Runs, failing \in SUBSET Records :
        \E passing \in SUBSET (Records \ failing) :
           RecordFindings(p, run, failing, passing)
  \/ \E run \in Runs, passing \in SUBSET Records : BeginPassing(p, run, passing)
  \/ \E r \in Records : SkipPassing(p, r) \/ HitPassing(p, r)
  \/ AnnotatePassing(p)
  \/ \E r \in Records, target \in STATES : ReadTask(p, r, target)
  \/ MoveTask(p)
  \/ Abandon(p)

Next == \E p \in Procs : Step(p)

Spec == Init /\ [][Next]_vars

------------------------------------------------------------------------------
\* Types of the five variables.
TypeOK ==
  /\ actions \in [Records -> ActionRecord \union {NoTask}]
  /\ pc \in [Procs -> Labels]
  /\ call \in [Procs -> Call]
  /\ fails \in [Records -> SUBSET Runs]
  /\ passes \in [Records -> SUBSET Runs]

Task(r) == actions[r] # NoTask

\* A record has a task exactly when some run failed it, and the task's receipt
\* (last_failing_run) is the newest of all the runs that failed it, however the
\* runs were ordered when their findings arrived and whoever recorded them.
ReceiptIsNewestFailure ==
  \A r \in Records :
    /\ Task(r) <=> fails[r] # {}
    /\ Task(r) => /\ actions[r].last_failing_run \in fails[r]
                  /\ \A f \in fails[r] : At[f] <= At[actions[r].last_failing_run]

\* "No longer failing as of run X" is only ever shown when X passed the record
\* strictly after every failure of it that was recorded: record_findings promises
\* a PASS "Strictly LATER than the newest failure".  True when one process
\* writes the store.
AnnotationIsLater ==
  \A r \in Records : Task(r) /\ actions[r].cleared_by_run # None =>
    /\ actions[r].cleared_by_run \in passes[r]
    /\ \A f \in fails[r] : At[f] < At[actions[r].cleared_by_run]

\* The annotation is not lost either: when every PASS offered to a task is later
\* than every failure recorded for it, the task says so - whether a person closed
\* it meanwhile or not, and however late an older failure was delivered.
LaterPassIsShown ==
  \A r \in Records :
    /\ passes[r] # {}
    /\ \A p \in passes[r], f \in fails[r] : At[f] < At[p]
    => actions[r].cleared_by_run \in passes[r]

\* A closed task stays closed, by the person who closed it, whatever later runs
\* find and whichever process reads it before it was closed (D12).
ClosedStaysClosed ==
  [][\A r \in Records : Task(r) /\ actions[r].state # PENDING =>
        /\ Task(r)'
        /\ actions'[r].state = actions[r].state
        /\ actions'[r].state_changed_by = actions[r].state_changed_by]_vars

\* A run never rewrites who raised a task: the first failure is kept although
\* the same natural key is inserted by every later run that fails the record.
RaisedByNeverChanges ==
  [][\A r \in Records : Task(r) =>
        /\ Task(r)'
        /\ actions'[r].raised_by_run = actions[r].raised_by_run]_vars
==============================================================================
