--------------------------- MODULE MCFindingsQueue ---------------------------
(* Instances of FindingsQueue for TLC.  FourRuns has a tie (two captures    *)
(* describe one instant) and lets every order of arrival happen.            *)
EXTENDS FindingsQueue, TLC

CONSTANTS run1, run2, run2b, run3

FourRuns == {run1, run2, run2b, run3}
FourAt   == run1 :> 1 @@ run2 :> 2 @@ run2b :> 2 @@ run3 :> 3

Symmetry == Permutations(Records) \union Permutations(Procs)
==============================================================================
