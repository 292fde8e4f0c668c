\* A fixed-size cut of a file that is not a multiple of the chunk size.
SPECIFICATION FairSpec
CONSTANTS
    FileLengths <- MCFixedLengths
    READ_FILE_SIZE = 2
    Reserve = 4
    minChunkSize = 1
    avgChunkSize = 2
    maxChunkSize = 4
    SizeRange = 100
INVARIANT CutsInsideFile
CHECK_DEADLOCK FALSE
