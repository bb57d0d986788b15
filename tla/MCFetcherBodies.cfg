SPECIFICATION FairSpec
CONSTANTS
    Peers <- MCPeers
    Honest <- MCHonest
    Blocks <- MCBlocks
    Number <- MCNumber
    Parent <- MCParent
    Empty <- MCEmpty
    Bad <- MCBad
    Claims <- MCClaims
    None = None
    Root = 0
    HashLimit = 2
    BlockLimit = 1
    MaxUncleDist = 1
    MaxQueueDist = 3
    MaxAnnounced = 1
    MaxDrift = 0
PROPERTIES
    CompletionEnds
CHECK_DEADLOCK FALSE
