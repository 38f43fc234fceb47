------------------------------- MODULE MailOnce ------------------------------
(***************************************************************************)
(* What the sent marker of a task promises, without processes, rows or     *)
(* notes: the right to mail a task is free, held by somebody, or spent; a  *)
(* message is posted only by spending it; and what is spent stays spent.   *)
(* The abstract specification Dispatch implements.                         *)
(***************************************************************************)
EXTENDS Naturals

CONSTANT Tasks

VARIABLES
  marker,    \* task -> "free" | "held" | "spent"
  inbox      \* task -> messages posted by spending that right

vars == <<marker, inbox>>

Init ==
  /\ marker = [t \in Tasks |-> "free"]
  /\ inbox = [t \in Tasks |-> 0]

Take(t) ==
  /\ marker[t] = "free"
  /\ marker' = [marker EXCEPT ![t] = "held"]
  /\ UNCHANGED inbox

Post(t) ==
  /\ marker[t] = "held"
  /\ marker' = [marker EXCEPT ![t] = "spent"]
  /\ inbox' = [inbox EXCEPT ![t] = @ + 1]

GiveBack(t) ==
  /\ marker[t] = "held"
  /\ marker' = [marker EXCEPT ![t] = "free"]
  /\ UNCHANGED inbox

\* The holder is gone and nobody knows whether it posted: never tried again.
Lose(t) ==
  /\ marker[t] = "held"
  /\ marker' = [marker EXCEPT ![t] = "spent"]
  /\ UNCHANGED inbox

Next == \E t \in Tasks : Take(t) \/ Post(t) \/ GiveBack(t) \/ Lose(t)

Spec == Init /\ [][Next]_vars
==============================================================================
