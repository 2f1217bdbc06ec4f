SPECIFICATION Spec
CONSTANTS
    b1 = b1
    b2 = b2
    Blobs = {b1, b2}
    PieceOf <- OwnPiece
    PaddedSize <- AllSmall
    MinAggregateSize = 2
    BatchSize = 1
    MaxTxs = 2
    MaxAddTasks = 1
    MaxAccepts <- Once
    MaxFaults = 1
    Releases = TRUE
    Races = {}

    
PROPERTIES
    WholeRootsLeave
CHECK_DEADLOCK FALSE
