\* The program ends after the last restore, or where it reads undefined data.
SPECIFICATION FairSpec
CONSTANTS
    Archives <- MCArchivesAll
    backupNum = 2
    READ_FILE_SIZE = 3
    CONTAINER_MAX_SIZE = 3
    MULTI_HEADER_CHUNK = 2
    DefaultHeaders = 2
    BigChunkSize = 3
    MAX_CHUNK_SIZE = 2
INVARIANTS
    InsideBuffers
    NothingLost
    LongNamesFollowed
    RoundTripFollowed
PROPERTIES
    AllRestored
CHECK_DEADLOCK FALSE
