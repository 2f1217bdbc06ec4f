SPECIFICATION DeliverySpec
CONSTANTS
    Jobs = {j1, j2}
    BadJobs = {}
    OldJobs = {j2}
    MaxReceive = 2
    MaxWorkers = 2
    MaxSends = 2
    MaxFaults = 1
    k1 = k1
    n1 = n1
    n2 = n2
    p1 = p1
    p2 = p2
    NoClaim = NoClaim
    Claims = {c1, c2}
    ContextOf <- MCContextOf
    OldClaims = {c2}
    Nodes = {n1, n2}
    BatchSize = 1
    MaxTasks = 3
    MaxTroubles = 1
    ProvenPieces = {p1, p2}
    NodeSize = 3
    LayerNodes = 3
    MaxFailures = 2
    MaxCacheTasks = 4
    MaxCacheFaults = 3
    MaxTx = 4
    MaxLosses = 3
INVARIANTS
    MessagesKept
    ChainMatchesContexts
    
    NodesAgree
PROPERTIES
    MessagesSettle
    ReleasedStaysOut
    QueuedIsServed
    PiecesGetCached
    
CHECK_DEADLOCK FALSE
