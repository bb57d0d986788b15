SPECIFICATION Spec
CONSTANTS
    Accounts <- MCAccounts
    Genesis <- MCGenesis
    Epoch = 3
    MaxNumber = 4
    Period = 1
    Candidates <- MCCandidates
    CheckpointInterval = 2
    CacheSize = 1
    MaxTime = 3
    MaxBatch = 2
    MaxHeaders = 3
INVARIANTS
    SnapshotsFaithful
    ImportedAreValid
    OneInTurnSealer
    LateSealsApply
CHECK_DEADLOCK FALSE
