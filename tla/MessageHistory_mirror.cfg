CONSTANTS
  MaxMsgs = 2
  MaxChanges = 1
  MaxGen = 2
  MaxAsks = 1
  MaxMoves = 2
  MaxFlight = 2
  Window = 1
  Page = 1
SPECIFICATION Spec
INVARIANTS
  DeletedForAll
  PaneFollowsStore
  SpinnerOutlivesOnlySweeps
CHECK_DEADLOCK FALSE
