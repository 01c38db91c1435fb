SPECIFICATION FairSpec
CONSTANTS
    i1 = i1
    i2 = i2
    w = w
    f1 = f1
    Items <- MCItems
    MaxQueueSize = 1
    MaxExportBatchSize = 2
    Worker = w
    Flushers <- MCFlushers
INVARIANTS TypeOK ExactlyOnceInOrder ShutdownFlushes ExporterCalledAlone TimerNeverBlocks
PROPERTIES AcceptedIsExported ShutdownTerminates ImplementsBuffer
CHECK_DEADLOCK FALSE
