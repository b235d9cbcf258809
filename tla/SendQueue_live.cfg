SPECIFICATION FairSpec
CONSTANTS
  r1 = r1
  r2 = r2
  roomA = roomA
  NoRoom = NoRoom
  NoRequest = NoRequest
  Requests <- TwoRequests
  Rooms <- MCRooms
  VerbOf <- SendTransferVerbs
  RoomOf <- SendTransferRooms
  MaxBudget = 2
  ServerCodes = {"A", "C", "unknown"}
  MaxSessions = 1
  MaxPushes = 1
PROPERTIES EventuallyResolved
CHECK_DEADLOCK FALSE
