\* The program ends after the last merge.
SPECIFICATION MTarSpec
CONSTANTS
    Archives <- MCArchivesAll
    backupNum = 2
    READ_FILE_SIZE = 5
    CONTAINER_MAX_SIZE = 3
    MULTI_HEADER_CHUNK = 1
    DefaultHeaders = 1
    BigChunkSize = 3
    MAX_CHUNK_SIZE = 2
INVARIANTS
    PassesAgree
    MTarRestored
CHECK_DEADLOCK FALSE
