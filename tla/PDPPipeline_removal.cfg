SPECIFICATION FairSpec
CONSTANTS
    b1 = b1
    b2 = b2
    Blobs = {b1}
    PieceOf <- OwnPiece
    PaddedSize <- FirstLarge
    MinAggregateSize = 2
    BatchSize = 1
    MaxTxs = 3
    MaxAddTasks = 1
    MaxAccepts <- FirstTwice
    MaxFaults = 1
    Releases = TRUE
    Races = {}
INVARIANTS
    NeededHasBytes
    NothingLeftBehind
PROPERTIES
    RemovalEnds
CHECK_DEADLOCK FALSE
