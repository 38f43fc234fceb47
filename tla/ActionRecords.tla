---------------------------- MODULE ActionRecords ----------------------------
(***************************************************************************)
(* One row of the `actions` table and the three things that may happen to  *)
(* it: a FAIL of a run raises or refreshes it, a PASS of a run annotates   *)
(* it, a person closes it.  Constant-level operators only; FindingsQueue   *)
(* and RunPipeline apply them to the tables they keep.                     *)
(*                                                                         *)
(* A row names runs and not instants: a run's id is a digest of, among     *)
(* other things, the instant it was made at, so At recovers raised_at,     *)
(* last_failing_at and cleared_at from the run columns stored beside them. *)
(***************************************************************************)
EXTENDS Naturals

CONSTANTS
  Runs,      \* ids of stored runs
  At,        \* At[run]: the instant the run was made at (ties are legal)
  Actors,    \* who may close a task
  None,      \* SQL NULL
  NoTask     \* no row has this natural key

ASSUME AtAssumption   == At \in [Runs -> Nat]
ASSUME NoneAssumption == None \notin Runs /\ None \notin Actors

PENDING   == "pending"
DONE      == "done"
DISMISSED == "dismissed"
STATES    == {PENDING, DONE, DISMISSED}

\* The only moves there are.
TRANSITIONS == [s \in STATES |-> IF s = PENDING THEN {DONE, DISMISSED} ELSE {}]

ActionRecord == [state            : STATES,
                 state_changed_by : Actors \union {None},
                 raised_by_run    : Runs,
                 last_failing_run : Runs,
                 cleared_by_run   : Runs \union {None}]

ASSUME NoTaskAssumption == NoTask \notin ActionRecord

\* The row `_insert_action` writes when the natural key is new.
NewTask(run) == [state            |-> PENDING,
                 state_changed_by |-> None,
                 raised_by_run    |-> run,
                 last_failing_run |-> run,
                 cleared_by_run   |-> None]

\* What RecordFailing would be without the comparison of instants, were the
\* annotation removed unconditionally, and with INSERT OR REPLACE.
RecordFailing_Arrival(row, run) ==
  IF row = NoTask THEN NewTask(run)
  ELSE [row EXCEPT
          !.last_failing_run = run,
          !.cleared_by_run   = IF @ # None /\ At[run] >= At[@] THEN None ELSE @]

RecordFailing_Forget(row, run) ==
  IF row = NoTask THEN NewTask(run)
  ELSE [row EXCEPT
          !.last_failing_run = IF At[run] >= At[@] THEN run ELSE @,
          !.cleared_by_run   = None]

RecordFailing_Replace(row, run) ==
  IF row = NoTask \/ At[run] >= At[row.last_failing_run] THEN NewTask(run) ELSE row

\* A FAIL offered for a row: inserted by natural key, or - when the key is
\* taken - the receipt moves forward and a PASS it outdates is forgotten.
RecordFailing(row, run) ==
  IF row = NoTask THEN NewTask(run)
  ELSE [row EXCEPT
          !.last_failing_run = IF At[run] >= At[@] THEN run ELSE @,
          !.cleared_by_run   = IF @ # None /\ At[run] >= At[@] THEN None ELSE @]

\* Whether a PASS is news about a row: it exists, is not annotated already, and
\* the PASS is strictly later than the newest failure.
Annotates(row, run) ==
  /\ row # NoTask
  /\ row.cleared_by_run = None
  /\ At[run] > At[row.last_failing_run]

Annotate(row, run) == [row EXCEPT !.cleared_by_run = run]

RecordPassing(row, run) == IF Annotates(row, run) THEN Annotate(row, run) ELSE row

\* Close without the guard of the UPDATE.
Close_Unguarded(row, target, actor) ==
  [row EXCEPT !.state = target, !.state_changed_by = actor]

\* A person's move.  The UPDATE carries `AND state = 'pending'`, so a row
\* closed since it was read is left as it is and the move refused.
Allowed(row, target) == target \in TRANSITIONS[row.state]

Close(row, target, actor) ==
  IF row.state = PENDING
  THEN [row EXCEPT !.state = target, !.state_changed_by = actor]
  ELSE row
==============================================================================
