SPECIFICATION MCSpec
CONSTANTS
    Accounts <- MCAccounts
    Genesis <- MCGenesis
    Epoch = 7
    MaxNumber = 7
INVARIANTS
    TypeOK
    VotesByDistinctSigners
    TallyFaithful
    RecentsSpread
    SomeoneMaySeal
PROPERTIES
    MajorityRule
    ImplementsElectorate
CHECK_DEADLOCK FALSE
