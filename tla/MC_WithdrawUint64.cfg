\* withdraw-root of an amount of 2^AmountWidth or more (of 2^64 wei or more
\* in the code).
CONSTANTS
    Amounts = {9}
    AmountWidth = 3
    InitialStake = 10
    InitialWithdrawable = 0
    MaxRuns = 1
SPECIFICATION Spec
INVARIANT SuccessReportIsExecuted
