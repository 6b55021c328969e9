SPECIFICATION FairSpec
CONSTANTS
    t1 = t1
    t2 = t2
    t3 = t3
    w1 = w1
    w2 = w2
    w3 = w3
    w4 = w4
    w5 = w5
    w6 = w6
    Queue = Queue
    Nowhere = Nowhere
    Task <- Tasks
    MaxHardwareThreads = 2
    Worker <- FourWorkers
    Stoppable = FALSE
CHECK_DEADLOCK FALSE
INVARIANTS
    QuiescentRefresh
    JoinNeverReturns
PROPERTIES
    PoolSpec
    SubmittedTaskCompletes
    SubmitReturns
