SPECIFICATION PeerSpec
CONSTANTS
    i1 = i1
    i2 = i2
    i3 = i3
    i4 = i4
    w = w
    none = none
    Items <- MCItems
    MaxQueueSize = 2
    MaxExportBatchSize = 2
    Worker = w
    Flushers <- MCFlushers
    None = none
SYMMETRY MCSymmetry
INVARIANT JobReadsItsBatch
CHECK_DEADLOCK FALSE
