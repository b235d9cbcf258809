SPECIFICATION Spec
CONSTANTS
  r1 = r1
  r2 = r2
  roomA = roomA
  NoRoom = NoRoom
  NoRequest = NoRequest
  Requests <- TwoRequests
  Rooms <- MCRooms
  VerbOf <- SendHistoryVerbs
  RoomOf <- SendHistoryRooms
  MaxBudget = 2
  ServerCodes = {"A", "B", "C"}
  MaxSessions = 2
  MaxPushes = 0
INVARIANTS TypeOK OneOutstanding AppliedAtMostOnce SurfacedNeverApplied AckedWasApplied BudgetRespected
PROPERTIES ResendOnlyRejected DeliversAtMostOnce
CHECK_DEADLOCK FALSE
