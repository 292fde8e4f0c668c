\* xdelta3 may fail at any chunk: the thread returns with chunks in the queue.
SPECIFICATION FailingSpec
CONSTANTS
    backupNum = 5
    FileChunks <- MCFileChunks
    QueueSize = 3
INVARIANT QueueClearBetweenBackups
CHECK_DEADLOCK FALSE
