\* Two cache slots and up to three sealed containers: a decode that holds two
\* answers can evict what the first one points at.  Any container file may
\* fail to open for writing or be cut short.  One base may be left behind.
SPECIFICATION Spec
CONSTANTS
    ContainerMax = 2
    CacheSize = 2
    Request <- MCRequest
    MaxChunks = 4
    MaxLeft = 1
    AllowWriteFailure = TRUE
    Garbage = Garbage
    Zero = Zero
    NoFile = NoFile
CONSTRAINT MCLeft
INVARIANTS
    StoredIntact
    HandlesValid
    FreedIsOwned
    CacheCoherent
    CompressionExact
    StripesExact
PROPERTY ImplementsChunkStore
