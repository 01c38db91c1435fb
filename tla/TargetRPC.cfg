SPECIFICATION FairSpec
CONSTANTS
    e1 = e1
    e2 = e2
    t1 = t1
    t2 = t2
    s1 = s1
    Endpoints <- MCEndpoints
    Txs <- MCTxs
    Senders <- MCSenders
    SendConcurrency = 1
INVARIANTS TypeOK ErrorMeansNothingTaken WholeBatchIsOffered
PROPERTY CallsReturn
CHECK_DEADLOCK FALSE
