\* Both commands, a wrong StakeManager address, stake for two of three
\* withdrawals, amounts below 2^AmountWidth (one above 2^(AmountWidth-1)).
CONSTANTS
    Amounts = {2, 5}
    AmountWidth = 3
    InitialStake = 7
    InitialWithdrawable = 3
    MaxRuns = 3
SPECIFICATION Spec
INVARIANT TypeOK SuccessReportIsExecuted
