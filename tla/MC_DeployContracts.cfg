CONSTANTS
    Contracts <- MC_Contracts
    IsMintable = FALSE
    TokenAddrGiven = TRUE
    MaxRuns = 2
SPECIFICATION FairSpec
INVARIANT TypeOK GenesisRefersToCompleteDeployment NoRedeployAfterSuccess InitializeCallsUseOwnDeployment
PROPERTY RunEnds
