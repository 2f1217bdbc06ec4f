SPECIFICATION FairSpec
CONSTANTS
    b1 = b1
    b2 = b2
    Blobs = {b1, b2}
    PieceOf <- OwnPiece
    PaddedSize <- FirstLarge
    MinAggregateSize = 2
    BatchSize = 2
    MaxTxs = 4
    MaxAddTasks = 1
    MaxAccepts <- Once
    MaxFaults = 2
    Releases = FALSE
    Races = {}
INVARIANTS
    AcceptedCarried
    
PROPERTIES
    AcceptedProven
CHECK_DEADLOCK FALSE
