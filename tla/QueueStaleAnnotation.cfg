CONSTANTS
  run1 = run1
  run2 = run2
  run2b = run2b
  run3 = run3
  Runs <- FourRuns
  At <- FourAt
  Records = {a}
  Procs = {p1, p2}
  Actors = {p1, p2}
  None = None
  NoTask = NoTask
SPECIFICATION Spec
INVARIANTS
  AnnotationIsLater

SYMMETRY Symmetry
