SPECIFICATION NodeSpec
CONSTANTS
    Versions = {1, 2, 3, 4}
    MinorOf <- MCMinorOf
    BadVersions = {2}
    MaxTrouble = 1
    MaxTx = 3
    MaxLosses = 1
    Clients = {c1}
    Owners = {a1, a2}
    NoOwner = NoOwner
    MaxStarts = 3
    MaxInFlight = 1
    Admins = {m1, m2}
    Raws <- MCRaws
    MaxUpdates = 2
    MaxDiskFaults = 1
    Receipts = {r1, r2, r3}
    FailedReceipts = {r3}
    MaxBatchSize = 2
    MaxMishaps = 3
    Callers = {g1, g2}
    key1 = key1
    key2 = key2
    Keys = {key1, key2}
    Moves <- MCMoves
    MaxObjectCalls = 3
    MaxStoreFaults = 2
    Links = {l1, l2}
    KeyOf <- MCKeyOf
    NoLink = NoLink
    StoreWorkers = {w1, w2}
    NoWorker = NoWorker
    MaxStoreCalls = 3
    MaxStoreErrors = 1
    MaxLength = 3
    MaxReads = 3
    InfoBlobs = {b1, b2}
    MaxAggregates = 2
    MaxInfoFaults = 1
    Callers_ = {s1, s2}
    Commands = {"add", "remove"}
    MinTTL = 1
    Validity = 2
    MaxClock = 3
    PieceSizes = {1, 2, 4}
    MaxPieces = 5
    RawSizes <- MCRawSizes
    MinPaddedSize = 256
    CurioMaxPaddedSize = 1024
INVARIANTS
    AnswersAreTrue
    NodeRunsWhole
    ConfigIsKept
    ReceiptsAreKept
    
    AcceptedIsReadable
    AuthorityHolds
    AggregateIsSound
PROPERTIES
    
    ObjectsAreKept
    IndexIsTrue
CHECK_DEADLOCK FALSE
