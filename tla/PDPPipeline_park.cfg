SPECIFICATION Spec
CONSTANTS
    b1 = b1
    b2 = b2
    Blobs = {b1}
    PieceOf <- OwnPiece
    PaddedSize <- FirstLarge
    MinAggregateSize = 2
    BatchSize = 1
    MaxTxs = 1
    MaxAddTasks = 1
    MaxAccepts <- Once
    MaxFaults = 0
    Releases = TRUE
    Races = {"park"}
INVARIANTS
    HashedHasBytes
CHECK_DEADLOCK FALSE
