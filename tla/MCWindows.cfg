\* The chunker stops at the end of the file.
SPECIFICATION FairSpec
CONSTANTS
    FileLengths <- MCFileLengths
    READ_FILE_SIZE = 2
    Reserve = 4
    minChunkSize = 1
    avgChunkSize = 2
    maxChunkSize = 4
    SizeRange = 100
INVARIANTS
    ContentCutsInsideFile
    CutUpWhole
    WindowIndependent
PROPERTY FileCloses
CHECK_DEADLOCK FALSE
