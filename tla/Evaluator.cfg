SPECIFICATION Spec
CONSTANTS
  Cases <- MCCases
  Readings <- MCReadings
  Answers <- MCAnswers
  Plausible <- MCPlausible
  Today = 2
  LastDay = 7
CHECK_DEADLOCK FALSE
INVARIANTS
  VerdictsAreEarned
  EstablishedIsDecided
PROPERTIES
  ConclusionsStand
