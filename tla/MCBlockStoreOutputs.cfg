SPECIFICATION Spec
CONSTANTS
    b1 = b1
    b2 = b2
    b3 = b3
    c1 = c1
    c2 = c2
    c3 = c3
    t3 = t3
    v = v
    w = w
    NoBlock = NoBlock
    Block <- Blocks
    Tx <- Txs
    TxsOf <- ChainTxs
    Spending <- Spenders
    Outputs <- OutCounts
    Worker <- Threads
    Failures = FALSE
INVARIANTS
    OutputsStoredOnce
