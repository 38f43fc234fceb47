----------------------------- MODULE CalmDispatch ----------------------------
(***************************************************************************)
(* Dispatch in two worlds at once: a calm one, where no process ends and   *)
(* every one has an address for every audience a rule names, and the one   *)
(* of Dispatch, where processes end in the middle of a dispatch and come   *)
(* back with other routes.  What dispatch() promises of its marker and of  *)
(* the people it should reach, it promises of the calm one.                *)
(***************************************************************************)
EXTENDS Dispatch

VARIABLE calm

world == <<vars, calm>>

WorldInit ==
  /\ Init
  /\ calm \in BOOLEAN
  /\ calm => \A p \in Procs, t \in Tasks : AudienceOf[t] # None => Routed(p, t)

WorldNext ==
  /\ UNCHANGED calm
  /\ IF calm THEN \E p \in Procs : Undisturbed(p) ELSE Next

WorldSpec == WorldInit /\ [][WorldNext]_world /\ Fairness

------------------------------------------------------------------------------
\* While processes do not end mid-dispatch, the sent marker means what it says:
\* set exactly on the tasks that are being sent or were sent.
CalmMarkerIsHonest == calm => MarkerIsHonest

\* dispatch() returns, whatever the other process and the backend do.
CalmDispatchEnds == \A p \in Procs : calm /\ pc[p] # "idle" ~> pc[p] = "idle"

\* A failed or lost delivery does not strand a task: while runs keep finding it
\* failing and the server does not refuse for ever, a pending notify task with a
\* route in every process is received or closed by a person.
CalmOwedIsEmailed ==
  \A t \in Notify :
    AudienceOf[t] # None =>
      (calm /\ rows[t].state = PENDING ~> accepted[t] > 0 \/ rows[t].state # PENDING)
==============================================================================
