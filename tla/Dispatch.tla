------------------------------- MODULE Dispatch ------------------------------
(***************************************************************************)
(* Telling a task's audience about it, once (hotelcontrols/actions/        *)
(* notify.py), over the sent marker of the store (claim_notification,      *)
(* release_notification, note_notification in store/sqlite.py), by the     *)
(* processes that have the same store file open.                           *)
(*                                                                         *)
(* dispatch() walks the FAILs of one run.  For each it reads the row,      *)
(* decides from what it read, and then makes one store call or a claim, a  *)
(* send and perhaps a release: every one of them is a step of its own, and *)
(* the other processes, a person closing the task, and the end of the      *)
(* process come in between.                                                *)
(***************************************************************************)
EXTENDS Naturals

CONSTANTS
  Tasks,        \* tasks of the queue; dispatch() is handed some of them
  Procs,        \* processes with this store file open
  Notify,       \* the tasks whose rule asks for an email (kind "notify")
  AudienceOf,   \* task -> the audience its rule names, or None
  RouteTables,  \* the environments a process may be started with: for each,
                \*   the set of audiences that have an address in it
  CanCrash,     \* whether a process may end in the middle of a dispatch
  None          \* SQL NULL

NOTES == {"no_audience", "no_route", "failed"}

ASSUME NotifyAssumption == Notify \subseteq Tasks
ASSUME NoneAssumption   == None \notin Tasks \union NOTES
ASSUME CrashAssumption  == CanCrash \in BOOLEAN

\* Bound: messages of one task that are received although their send failed.
MaxDisowned == 1

VARIABLES
  rows,      \* task -> its row: state, the sent marker, the note
  routes,    \* process -> the route table of its environment
  pc,        \* process -> where dispatch() is
  batch,     \* process -> FAILs of the run still to be handled
  cur,       \* process -> the task being handled
  why,       \* process -> the note it is about to write
  accepted,  \* history: task -> sends of it that succeeded
  disowned,  \* history: task -> sends that failed after its server took the message
  tried      \* history: tasks a dispatch has returned a Delivery for

vars == <<rows, routes, pc, batch, cur, why, accepted, disowned, tried>>

PENDING == "pending"
CLOSED  == {"done", "dismissed"}
Labels  == {"idle", "next", "noting", "claiming", "sending", "releasing"}

Row == [state : {PENDING} \union CLOSED, notified : BOOLEAN, note : NOTES \union {None}]

Init ==
  /\ rows = [t \in Tasks |-> [state |-> PENDING, notified |-> FALSE, note |-> None]]
  /\ routes \in [Procs -> RouteTables]
  /\ pc = [p \in Procs |-> "idle"]
  /\ batch = [p \in Procs |-> {}]
  /\ cur = [p \in Procs |-> None]
  /\ why = [p \in Procs |-> None]
  /\ accepted = [t \in Tasks |-> 0]
  /\ disowned = [t \in Tasks |-> 0]
  /\ tried = {}

At(p, label) == pc[p] = label
Goto(p, label) == pc' = [pc EXCEPT ![p] = label]

\* The next FAIL of the run, or the end of dispatch().
Continue(p, rest) ==
  /\ Goto(p, IF rest = {} THEN "idle" ELSE "next")
  /\ cur' = [cur EXCEPT ![p] = None]
  /\ why' = [why EXCEPT ![p] = None]

\* dispatch() is called with the FAILs of a run; every one has its task by now.
Begin(p, failing) ==
  /\ At(p, "idle")
  /\ failing # {}
  /\ batch' = [batch EXCEPT ![p] = failing]
  /\ Goto(p, "next")
  /\ UNCHANGED <<rows, routes, cur, why, accepted, disowned, tried>>

------------------------------------------------------------------------------
(* _deliver(): the row is read, and what happens is decided from that read. *)

\* Sent already, or closed: nothing to tell anybody.
Settled(t) == rows[t].notified \/ rows[t].state # PENDING

Routed(p, t) == AudienceOf[t] # None /\ AudienceOf[t] \in routes[p]

TakeUp(p, t) ==
  /\ At(p, "next")
  /\ t \in batch[p]
  /\ batch' = [batch EXCEPT ![p] = @ \ {t}]

\* The task left in the work still to do.
LeaveAlone_Kept(p, t) ==
  /\ At(p, "next")
  /\ t \in batch[p]
  /\ Settled(t) \/ t \notin Notify
  /\ tried' = tried \union {t}
  /\ UNCHANGED <<rows, routes, pc, batch, cur, why, accepted, disowned>>

LeaveAlone(p, t) ==
  /\ TakeUp(p, t)
  /\ Settled(t) \/ t \notin Notify
  /\ Continue(p, batch[p] \ {t})
  /\ tried' = tried \union {t}
  /\ UNCHANGED <<rows, routes, accepted, disowned>>

Unroutable(p, t) ==
  /\ TakeUp(p, t)
  /\ ~Settled(t) /\ t \in Notify
  /\ ~Routed(p, t)
  /\ cur' = [cur EXCEPT ![p] = t]
  /\ why' = [why EXCEPT ![p] = IF AudienceOf[t] = None THEN "no_audience" ELSE "no_route"]
  /\ Goto(p, "noting")
  /\ UNCHANGED <<rows, routes, accepted, disowned, tried>>

Routable(p, t) ==
  /\ TakeUp(p, t)
  /\ ~Settled(t) /\ t \in Notify
  /\ Routed(p, t)
  /\ cur' = [cur EXCEPT ![p] = t]
  /\ Goto(p, "claiming")
  /\ UNCHANGED <<rows, routes, why, accepted, disowned, tried>>

------------------------------------------------------------------------------
(* The store calls.  Each is one guarded UPDATE.                            *)

\* The UPDATE without `AND notified_at IS NULL`.
Note_Unguarded(p) ==
  /\ At(p, "noting")
  /\ rows' = [rows EXCEPT ![cur[p]].note = why[p]]
  /\ tried' = tried \union {cur[p]}
  /\ Continue(p, batch[p])
  /\ UNCHANGED <<routes, batch, accepted, disowned>>

\* note_notification(): never on a task that was sent.
Note(p) ==
  /\ At(p, "noting")
  /\ rows' = IF rows[cur[p]].notified THEN rows
             ELSE [rows EXCEPT ![cur[p]].note = why[p]]
  /\ tried' = tried \union {cur[p]}
  /\ Continue(p, batch[p])
  /\ UNCHANGED <<routes, batch, accepted, disowned>>

\* The UPDATE without `AND notified_at IS NULL`.
Claim_Unguarded(p) ==
  /\ At(p, "claiming")
  /\ rows' = [rows EXCEPT ![cur[p]] = [@ EXCEPT !.notified = TRUE, !.note = None]]
  /\ Goto(p, "sending")
  /\ UNCHANGED <<routes, batch, cur, why, accepted, disowned, tried>>

\* claim_notification() changed one row: this process owns the send.
Claim(p) ==
  /\ At(p, "claiming")
  /\ ~rows[cur[p]].notified
  /\ rows' = [rows EXCEPT ![cur[p]] = [@ EXCEPT !.notified = TRUE, !.note = None]]
  /\ Goto(p, "sending")
  /\ UNCHANGED <<routes, batch, cur, why, accepted, disowned, tried>>

\* claim_notification() changed none: another dispatch won the claim.
LoseClaim(p) ==
  /\ At(p, "claiming")
  /\ rows[cur[p]].notified
  /\ tried' = tried \union {cur[p]}
  /\ Continue(p, batch[p])
  /\ UNCHANGED <<rows, routes, batch, accepted, disowned>>

\* The UPDATE with the marker's columns left out.
Release_NoteOnly(p) ==
  /\ At(p, "releasing")
  /\ rows' = [rows EXCEPT ![cur[p]].note = why[p]]
  /\ tried' = IF why[p] = None THEN tried \ {cur[p]} ELSE tried \union {cur[p]}
  /\ Continue(p, batch[p])
  /\ UNCHANGED <<routes, batch, accepted, disowned>>

\* release_notification(): with the reason, or with none when a defect is about
\* to surface (the exception is then what says so, not a Delivery).
Release(p) ==
  /\ At(p, "releasing")
  /\ rows' = [rows EXCEPT ![cur[p]] = [@ EXCEPT !.notified = FALSE, !.note = why[p]]]
  /\ tried' = IF why[p] = None THEN tried \ {cur[p]} ELSE tried \union {cur[p]}
  /\ Continue(p, batch[p])
  /\ UNCHANGED <<routes, batch, accepted, disowned>>

------------------------------------------------------------------------------
(* notifier.send(): external to the engine, so any of its outcomes.         *)

Accept(p) ==
  /\ At(p, "sending")
  /\ accepted' = [accepted EXCEPT ![cur[p]] = @ + 1]
  /\ tried' = tried \union {cur[p]}
  /\ Continue(p, batch[p])
  /\ UNCHANGED <<rows, routes, batch, disowned>>

\* NotifyFailed released without its reason.
Refuse_Wordless(p) ==
  /\ At(p, "sending")
  /\ tried' = tried \union {cur[p]}
  /\ rows' = [rows EXCEPT ![cur[p]].notified = FALSE]
  /\ Continue(p, batch[p])
  /\ UNCHANGED <<routes, batch, accepted, disowned>>

\* NotifyFailed, and no message went out.
Refuse(p) ==
  /\ At(p, "sending")
  /\ why' = [why EXCEPT ![p] = "failed"]
  /\ Goto(p, "releasing")
  /\ UNCHANGED <<rows, routes, batch, cur, accepted, disowned, tried>>

\* NotifyFailed from a connection that broke after the server took the message:
\* SMTP cannot tell the two apart.
AcceptThenFail(p) ==
  /\ At(p, "sending")
  /\ disowned[cur[p]] < MaxDisowned
  /\ disowned' = [disowned EXCEPT ![cur[p]] = @ + 1]
  /\ why' = [why EXCEPT ![p] = "failed"]
  /\ Goto(p, "releasing")
  /\ UNCHANGED <<rows, routes, batch, cur, accepted, tried>>

\* Any other exception, without the second `except`: the claim is left behind.
Defect_Leak(p) ==
  /\ At(p, "sending")
  /\ batch' = [batch EXCEPT ![p] = {}]
  /\ Continue(p, {})
  /\ UNCHANGED <<rows, routes, accepted, disowned, tried>>

\* Any other exception is a defect of the backend: released, and then it
\* propagates, so the rest of the batch is not dispatched.
Defect(p) ==
  /\ At(p, "sending")
  /\ batch' = [batch EXCEPT ![p] = {}]
  /\ Goto(p, "releasing")
  /\ UNCHANGED <<rows, routes, cur, why, accepted, disowned, tried>>

------------------------------------------------------------------------------
\* A person's move, RunStore.transition(), in a process that is not dispatching.
Close(p, t, state) ==
  /\ At(p, "idle")
  /\ rows[t].state = PENDING
  /\ rows' = [rows EXCEPT ![t].state = state]
  /\ UNCHANGED <<routes, pc, batch, cur, why, accepted, disowned, tried>>

\* The process ends and is started again, perhaps with other routes.
Restart(p, table) ==
  /\ At(p, "idle") \/ CanCrash
  /\ routes' = [routes EXCEPT ![p] = table]
  /\ batch' = [batch EXCEPT ![p] = {}]
  /\ Continue(p, {})
  /\ UNCHANGED <<rows, accepted, disowned, tried>>

\* The steps dispatch() takes by itself once it is called.
Work(p) ==
  \/ \E t \in Tasks : LeaveAlone(p, t) \/ Unroutable(p, t) \/ Routable(p, t)
  \/ Note(p) \/ Claim(p) \/ LoseClaim(p) \/ Release(p)
  \/ Accept(p) \/ Refuse(p) \/ AcceptThenFail(p) \/ Defect(p)

\* Whatever a process does while it lives.
Undisturbed(p) ==
  \/ \E failing \in SUBSET Tasks : Begin(p, failing)
  \/ Work(p)
  \/ \E t \in Tasks, state \in CLOSED : Close(p, t, state)

Step(p) ==
  \/ Undisturbed(p)
  \/ \E table \in RouteTables : Restart(p, table)

Next == \E p \in Procs : Step(p)

Spec == Init /\ [][Next]_vars

\* A called dispatch() runs.  The two strong conditions are about the world: a
\* run that fails t is made again and again while t is unsent, and the mail
\* server does not refuse t's message every time it is offered.
Fairness ==
  /\ \A p \in Procs : WF_vars(Work(p))
  /\ \A t \in Tasks :
       /\ SF_vars(\E p \in Procs, failing \in SUBSET Tasks :
                    t \in failing /\ Begin(p, failing))
       /\ SF_vars(\E p \in Procs : cur[p] = t /\ Accept(p))

------------------------------------------------------------------------------
\* Types of the variables.
TypeOK ==
  /\ rows \in [Tasks -> Row]
  /\ routes \in [Procs -> RouteTables]
  /\ pc \in [Procs -> Labels]
  /\ batch \in [Procs -> SUBSET Tasks]
  /\ cur \in [Procs -> Tasks \union {None}]
  /\ why \in [Procs -> NOTES \union {None}]
  /\ accepted \in [Tasks -> Nat]
  /\ disowned \in [Tasks -> 0 .. MaxDisowned]
  /\ tried \in SUBSET Tasks

\* The process is between its claim of t and the end of the send or release.
Holds(p, t) == cur[p] = t /\ pc[p] \in {"sending", "releasing"}
Held(t) == \E p \in Procs : Holds(p, t)

\* One email per record per channel: whatever dispatches race, fail, crash and
\* are repeated, at most one send of a task succeeds.  A message whose send was
\* reported as failed does not count: the code takes that report at its word.
AtMostOneEmail == \A t \in Tasks : accepted[t] <= 1

\* A note says why an unsent task is unsent, "never on one that was sent": a
\* claimed or sent task carries none, although notes of dispatches that read the
\* row before the claim are still to be written.
NoteOnlyOnUnsent == \A t \in Tasks : rows[t].notified => rows[t].note = None

\* Nothing is silently dropped: a pending notify task that a dispatch has
\* returned for without sending says why on itself.
UnsentSaysWhy ==
  \A t \in tried \cap Notify :
    rows[t].state = PENDING /\ ~rows[t].notified => rows[t].note # None

\* While processes do not end mid-dispatch, the sent marker means what it says:
\* set exactly on the tasks that are being sent or were sent.
MarkerIsHonest ==
  \A t \in Tasks : rows[t].notified <=> Held(t) \/ accepted[t] > 0

\* "A closed task is never emailed - a person already decided it."  True of one
\* process: it does not close a task while it dispatches.
ClosedIsNeverEmailed ==
  [][\A t \in Tasks : rows[t].state # PENDING =>
       accepted'[t] = accepted[t] /\ disowned'[t] = disowned[t]]_vars

\* The state of the right to mail t, as MailOnce sees it.
Marker(t) == IF Held(t) THEN "held" ELSE IF rows[t].notified THEN "spent" ELSE "free"

Abstract == INSTANCE MailOnce WITH marker <- [t \in Tasks |-> Marker(t)],
                                   inbox  <- accepted

\* Every dispatch step is a step of the sent marker's promise, or none of its
\* business.
ImplementsMailOnce == Abstract!Spec
==============================================================================
