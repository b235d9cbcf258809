SPECIFICATION Spec
CONSTANTS
    MaxUnasked = 1
    MaxPrefix = 1
INVARIANTS
    KeysGoToPainted
PROPERTIES
    ClosingReturns
CHECK_DEADLOCK FALSE
