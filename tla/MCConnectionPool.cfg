SPECIFICATION FairSpec
CONSTANTS
    x1 = x1
    x2 = x2
    x3 = x3
    s = s
    v = v
    w = w
    Conn <- ThreeConns
    Client <- Threads
    Nested <- SyncThread
    Readers <- OneReader
    Failures = TRUE
CHECK_DEADLOCK FALSE
INVARIANTS
    TypeOK
    NoSharedConnection
    NoLostWakeup
    HangMeansExhausted
PROPERTIES
    OperationsDrain
    BudgetSpec
