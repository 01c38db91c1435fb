SPECIFICATION FairSpec
CONSTANTS
    p1 = p1
    p2 = p2
    t1 = t1
    t2 = t2
    t3 = t3
    alice = alice
    bob = bob
    nobody = nobody
    Peers <- MCOnePeer
    Txs <- MCThreeTxs
    Recipient <- MCRecipient
    NoAddress = nobody
    FilterTo <- MCFilterTo
    MaxSeen = 1
PROPERTY PooledIsSettled
