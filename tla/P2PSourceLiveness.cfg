SPECIFICATION FairSpec
CONSTANTS
    r1 = r1
    t1 = t1
    t2 = t2
    g1 = g1
    g2 = g2
    alice = alice
    bob = bob
    nobody = nobody
    Records <- MCRecords
    Txs <- MCOneTx
    Blobs <- MCOneTx
    Recipient <- MCRecipient
    NoAddress = nobody
    FilterTo <- MCFilterTo
    Goroutines <- MCGoroutines
    Owner <- MCOwner
    MaxQueueSize = 1
    MaxExportBatchSize = 2
PROPERTIES LostIsReplaced 
