SPECIFICATION FairSpec
CONSTANTS
  u1 = u1
  Cold = Cold
  Others <- OneOther
  MaxEpoch = 3
  MaxMessages = 1
  MaxChanges = 1
  MaxSessions = 2
  MaxWire = 1
INVARIANTS ScopesApart SendsUnderRoomKey KeysGenuine EmptyOnlyIfRefused
PROPERTIES AdoptsOnlyVisible KeyCatchesUp
CHECK_DEADLOCK FALSE
