CONSTANTS
  guest = guest
  None = None
  Hour = 3
  p1 = p1
  Procs = {p1}
  Reservations = {guest}
  AskedTimes = {4}
  Days = {5}
  Policies <- TwoPolicies
  Lookups <- FewLookups
  MaxDecisions = 3
SPECIFICATION MCSpec
INVARIANTS
  DoubleTapIsOneDecision
