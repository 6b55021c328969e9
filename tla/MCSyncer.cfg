SPECIFICATION FairSpec
CONSTANTS
    MaxHeight = 4
    ChunkSize = 2
    Capacity = 2
    Faults <- AllFaults
    NoRow = NoRow
CHECK_DEADLOCK FALSE
INVARIANTS
    TypeOK
    OneWriterPerCheckpoint
    NoBlockSkipped
    FinishedMeansTried
    ChunksDisjoint
    SyncCoversChain
PROPERTIES
    SyncSettles
