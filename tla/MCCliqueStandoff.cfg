SPECIFICATION Spec
CONSTANTS
    Accounts <- MCAccounts
    Genesis <- MCGenesis
    Nodes <- MCNodes
    Key <- MCKey
    OtherKeys <- MCOtherKeys
    Motions <- MCMotions
    Epoch = 30
    MaxNumber = 3
    Period = 0
    MaxTime = 0
INVARIANTS
    NeverAllWaiting
CHECK_DEADLOCK FALSE
CONSTRAINT TwoForks
