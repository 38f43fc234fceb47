CONSTANTS
  a = a
  b = b
  c = c
  d = d
  sample = sample
  room1 = room1
  room2 = room2
  type1 = type1
  type2 = type2
  monday = monday
  tuesday = tuesday
  None = None
  Disabled = Disabled
  Huge = Huge
  Unread = Unread
  Open = Open
  Absent = Absent
  Capacity = 2
  Interval = 1
  Drifts = {3}
  MaxDrifts = 1
  Requests <- AllRequests
  Encodable <- Known
  Errors <- AllErrors
  Backoff = 2
  Captures = {monday, tuesday}
  Records <- FourRecords
  IdOf <- Identities
  KeyOf <- LocalKeys
  Controls <- AllControls
  Query <- Queries
  References <- AllReferences
  FollowsUp <- PerRecord
  SampleRecord = sample
  Committed <- Fixtures
  Rules = {"money", "validity"}
  Today = 3
  Remote <- RemoteRecords
  RemoteKey <- RemoteKeys
  Holds <- RoomCodes
  Owed <- Balances
  Bookings <- Week
  Attempts = 2
  Budgets = {2, 6}
  Orders <- AllOrders
  MaxSessions = 2
  Fields <- AllFields
  Texts <- AllTexts
  Lineages <- AllLineages
  Tenant <- Sandbox
  DemoTenant <- DemoHotel
SPECIFICATION Spec
INVARIANTS
  RateIsBounded
  NothingIsInvented
  GapsHaveTheirCause
  CallsAreBounded
  IndexTellsTheTruth
  ReplayMissesNothing
  DemoIsTheSameHotel
PROPERTIES
  RefusedIsFinal
  SessionsEnd
CHECK_DEADLOCK FALSE
