SPECIFICATION MCSpec
CONSTANTS
  DayLength = 4
  Unreadable = Unreadable
  None = None
  Horizon = 12
  Hotels <- SixHotels
  Providers <- ThreeProviders
  Kinds = {"stay", "turn", "room"}
  TellsOf <- BothTell
  Controls <- SixControls
  Sources = {"live", "replayed", "undated"}
  Reviewed = {"capacity", "protection"}
  Rules = {"rule", "another"}
  Notes = {"note", "reworded"}
  LastVersion = 2
  Absent = Absent
  Nothing = Nothing
  Dotted = {"status", "room", "number", "closed", "closed_to", "from", "occupied", "plan", "bogus"}
  EntityOf <- Entities
  SubjectEntities = {"stay", "room"}
  ReferenceEntities = {"room", "occupancy", "rate_plan"}
  Registry <- SmallRegistry
  RelativeDates = {"today"}
  MalformedDates = {"todayish"}
  north = north
  south = south
  nowhere = nowhere
  Tenants <- TwoTenants
  Library <- TwoControls
  Windows <- TheirWindows
  Settings <- TheirSettings
  Tokens <- SixTokens
  Names = {north, south, nowhere}
  Conversations = {"c1", "c2"}
  Replies <- FewReplies
  Sense <- PlainSense
  DraftIds <- ThreeIds
  MAXIMUM_LIFETIME = 4
  TurnsKept = 2
  TalksKept = 2
  LastInstant = 1
  Sentences <- ManySentences
  MaxSaid = 3
  MaxDrafts = 2
INVARIANT OneReading
