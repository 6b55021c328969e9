SPECIFICATION FairSpec
CONSTANTS
    w1 = w1
    w2 = w2
    p1 = p1
    p2 = p2
    p3 = p3
    Nobody = Nobody
    NullAnswer = NullAnswer
    Worker <- OneWorker
    Answers <- NoPeers
    PoolSize = 4
    Failures = TRUE
    Stoppable = TRUE
PROPERTIES
    SyncGetsClient
    TurnsEnd
    SubmitReturns
    StopEndsPeers
