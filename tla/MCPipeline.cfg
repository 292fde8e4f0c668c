\* The program ends after the last backup.
SPECIFICATION Spec
CONSTANTS
    backupNum = 5
    FileChunks <- MCFileChunks
    QueueSize = 3
INVARIANTS
    QueueClearBetweenBackups
    NoEarlyFinish
    InOrder
PROPERTIES
    ImplementsStream
    EveryBackupEnds
CHECK_DEADLOCK FALSE
