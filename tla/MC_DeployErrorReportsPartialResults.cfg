CONSTANTS
    Contracts <- MC_Contracts
    IsMintable = FALSE
    TokenAddrGiven = TRUE
    MaxRuns = 2
SPECIFICATION Spec
INVARIANT ErrorReportsPartialResults
