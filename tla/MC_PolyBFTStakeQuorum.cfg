CONSTANTS
    n1 = n1  n2 = n2  n3 = n3  n4 = n4  n5 = n5
    v1 = v1  v2 = v2
    ZeroAddress = ZeroAddress
    Nodes = {n1, n2, n3, n4}
    Faulty = {}
    Values = {v1}
    Schedule <- MC_ScheduleStake
    MaxHeight = 1
    MaxRound = 1
    FloatPrec = 6
    IntPrec = 8
SPECIFICATION Spec
INVARIANT FinalizedWithSixtyPercent
