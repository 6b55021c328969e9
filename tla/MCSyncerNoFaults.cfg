SPECIFICATION Spec
CONSTANTS
    MaxHeight = 6
    ChunkSize = 3
    Capacity = 2
    Faults <- NoFaults
    NoRow = NoRow
CHECK_DEADLOCK FALSE
INVARIANTS
    ResumeLosesNothing
PROPERTIES
    CheckpointNeverRegresses
    PoolSpec
    LedgerSpec
