SPECIFICATION Spec
CONSTANTS
    Accounts <- MCAccounts
    Genesis <- MCGenesis
    Nodes <- MCNodes
    Key <- MCKey
    OtherKeys <- MCOtherKeys
    Motions <- MCMotions
    Epoch = 3
    MaxNumber = 3
    Period = 1
    MaxTime = 3
INVARIANTS
    SealersAuthorized
PROPERTIES
    SealedBlocksVerify
CHECK_DEADLOCK FALSE
