SPECIFICATION Spec
CONSTANTS
    BlockTime = 2
    Interval = 2
    Factor = 2
    MaxTarget = 15
    Genesis <- MCGenesis
    Served <- MCServed
    Tx <- MCTx
    PageSize = 2
    MaxFutureDrift = 9
    MaxSafeInteger = 99
    MaxNow = 1
    MaxMoves = 2
    MaxCommands = 2
CHECK_DEADLOCK FALSE
INVARIANTS
    StoreSound
PROPERTIES
    WorkNeverLost
    SyncSettles
    VerifyExact
