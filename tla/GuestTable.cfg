CONSTANTS
  guest = guest
  None = None
  Hour = 3
  p1 = p1
  p2 = p2
  Procs = {p1, p2}
  Reservations = {guest}
  AskedTimes <- Afternoon
  Days = {5}
  Policies <- AllPolicies
  Lookups <- AllLookups
  MaxDecisions = 2
SPECIFICATION MCSpec
INVARIANTS
  DecisionsAreEarned
  FeeIsByTheHour
  LaterIsNeverEasier
  DecisionHasItsTask
  AnswersAgree
PROPERTIES
  FirstAnswerStands
