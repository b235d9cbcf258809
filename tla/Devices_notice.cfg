SPECIFICATION FairSpec
CONSTANTS
    DeviceIDs = {"mine", "laptop", "phone"}
    Mine = "mine"
    MaxDrops = 1
    MaxPresses = 2
INVARIANTS
    EachNewDeviceOnce
    PanelTellsRevoked
PROPERTIES
    JoinedIsNoticed
CHECK_DEADLOCK FALSE
