CONSTANTS
  owed = owed
  orphan = orphan
  desk = desk
  None = None
  Tasks = {owed, orphan}
  Notify = {owed, orphan}
  AudienceOf <- WithOrphan
  Procs = {p1, p2}
  RouteTables = {{}, {desk}}
  CanCrash = TRUE
SPECIFICATION WorldSpec
INVARIANTS
  AtMostOneEmail
  NoteOnlyOnUnsent
  UnsentSaysWhy
  CalmMarkerIsHonest
PROPERTIES
  ImplementsMailOnce
  CalmDispatchEnds
  CalmOwedIsEmailed
