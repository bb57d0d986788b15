SPECIFICATION FairSpec
CONSTANTS
    Peers <- MCPeers
    Honest <- MCPeers
    Blocks <- MCBlocks
    Number <- MCNumber
    Parent <- MCParent
    Empty = {}
    Bad = {}
    Claims <- MCBlocks
    None = None
    Root <- MCRoot
    HashLimit = 1
    BlockLimit = 2
    MaxUncleDist = 1
    MaxQueueDist = 3
    MaxAnnounced = 1
    MaxDrift = 1
PROPERTIES
    QueueDrained
CHECK_DEADLOCK FALSE
