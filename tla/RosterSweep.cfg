CONSTANTS
    FloatPrec = 6
    IntPrec = 8
    ZeroAddress = ZeroAddress
    a1 = a1  a2 = a2
    Addresses = {a1, a2}
    Powers = {1, 2}
    MaxLen = 3
SPECIFICATION Spec
INVARIANT FullSetReachesQuorum
CHECK_DEADLOCK FALSE
