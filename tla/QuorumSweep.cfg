CONSTANTS
    FloatPrec = 6
    IntPrec = 8
    ZeroAddress = 0
    MaxTotal = 300
    RotationBound = 6
SPECIFICATION Spec
INVARIANT EmptyCommitNeverQuorum QuorumMonotonicity HonestCanReachQuorum ProposerRotation
