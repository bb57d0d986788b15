SPECIFICATION Spec
CONSTANTS
    Peers <- MCPeers
    Honest <- MCHonest
    Blocks <- MCBlocks
    Number <- MCNumber
    Parent <- MCParent
    Empty <- MCEmpty
    Bad <- MCBad
    Root = 0
    Claims <- MCClaims
    HashLimit = 1
    BlockLimit = 1
    MaxUncleDist = 0
    MaxQueueDist = 2
    MaxAnnounced = 1
    MaxDrift = 1
    None = None
INVARIANTS
    TypeOK
    StagesExclusive
    QueueExact
    TimersArmed
    HonestKept
    NeverOvercounted
CHECK_DEADLOCK FALSE
