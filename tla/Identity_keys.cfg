SPECIFICATION Spec
CONSTANTS
    Users = {me, bob, carol}
    Me = me
    Prints = {p1, p2}
    Keys = {k1, k2}
    NoKey = NoKey
    WarnCap = 1
    MaxFrames = 4
    MaxStarts = 1
SYMMETRY MCSymmetry
INVARIANTS
    TypeOK
    OnePrintPerAccount
CHECK_DEADLOCK FALSE
