SPECIFICATION Spec
CONSTANTS
    b1 = b1
    b2 = b2
    Blobs = {b1}
    PieceOf <- OwnPiece
    PaddedSize <- FirstLarge
    MinAggregateSize = 2
    BatchSize = 1
    MaxTxs = 2
    MaxAddTasks = 1
    MaxAccepts <- FirstTwice
    MaxFaults = 0
    Releases = TRUE
    Races = {}
PROPERTIES
    RetiredIsProven
CHECK_DEADLOCK FALSE
