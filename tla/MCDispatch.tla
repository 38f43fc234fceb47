----------------------------- MODULE MCDispatch ------------------------------
(* An instance of CalmDispatch for TLC: a task its audience must hear of and *)
(* one whose rule names no audience.                                        *)
EXTENDS CalmDispatch, TLC

CONSTANTS owed, orphan, desk

WithOrphan == owed :> desk @@ orphan :> None
==============================================================================
