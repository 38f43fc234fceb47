CONSTANTS
  run1 = run1
  run2 = run2
  a = a
  clerk = clerk
  strict = strict
  loose = loose
  None = None
  NoTask = NoTask
  Runs <- TwoRuns
  At <- TwoAt
  Actors = {clerk}
  Records = {a}
  Rules <- ThreeRules
  Settings = {strict, loose}
  Verdicts <- Answers
  FirstRule <- v1
SPECIFICATION Spec
INVARIANTS
  ReceiptsAreStored
  TaskIsItsRules
  CompletedRunsRaised
PROPERTIES
  OtherVersionsUntouched
