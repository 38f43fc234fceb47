---------------------------- MODULE MCRunPipeline ----------------------------
(* Instances of RunPipeline for TLC: three rules - the first, an edit of it  *)
(* that forgot the version, a new version - over two captures whose record   *)
(* fails, passes, cannot be told or cannot be had at all depending on rule   *)
(* and settings.                                                             *)
EXTENDS RunPipeline, TLC

CONSTANTS run1, run2, a, clerk, strict, loose

TwoRuns == {run1, run2}
TwoAt   == run1 :> 1 @@ run2 :> 2

v1       == [version |-> 1, digest |-> "d1"]
unbumped == [version |-> 1, digest |-> "d1b"]
v2       == [version |-> 2, digest |-> "d2"]
ThreeRules == {v1, unbumped, v2}
BumpedOnly == {v1, v2}

By(x, y)     == strict :> x @@ loose :> y
Always(x)    == By(x, x)
Says(answer) == a :> answer

Answers ==
  run1 :> ("d1"  :> By(Says("FAIL"), BLOCKED) @@
           "d1b" :> Always(Says("PASS")) @@
           "d2"  :> Always(Says("FAIL"))) @@
  run2 :> ("d1"  :> Always(Says("PASS")) @@
           "d1b" :> Always(Says("FAIL")) @@
           "d2"  :> By(Says("UNKNOWN"), Says("FAIL")))

BumpedAnswers == [run \in TwoRuns |-> [d \in {"d1", "d2"} |-> Answers[run][d]]]
==============================================================================
