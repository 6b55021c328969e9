SPECIFICATION Spec
CONSTANTS
    w1 = w1
    w2 = w2
    p1 = p1
    p2 = p2
    p3 = p3
    Nobody = Nobody
    NullAnswer = NullAnswer
    Worker <- TwoWorkers
    Answers <- Peers
    PoolSize = 5
    Failures = TRUE
    Stoppable = TRUE
INVARIANTS
    TypeOK
    TablesBeforeThreads
    PeersOfOneAnswer
    NoHoldAndWait
    WaitMeansLoss
    ShutdownNotReached
