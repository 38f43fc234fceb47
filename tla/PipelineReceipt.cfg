CONSTANTS
  run1 = run1
  run2 = run2
  a = a
  clerk = clerk
  strict = strict
  loose = loose
  None = None
  NoTask = NoTask
  Runs <- TwoRuns
  At <- TwoAt
  Actors = {clerk}
  Records = {a}
  Rules <- BumpedOnly
  Settings = {strict, loose}
  Verdicts <- BumpedAnswers
  FirstRule <- v1
SPECIFICATION Spec
INVARIANTS
  ReceiptShowsTheFailure
