SPECIFICATION Spec
CONSTANTS
    MaxHeight = 4
    ChunkSize = 2
    Capacity = 2
    Faults <- NoFaults
    NoRow = NoRow
CHECK_DEADLOCK FALSE
INVARIANTS
    MarkWithinChunk
