\* -L 0, where each chunk may be kept in a form that is read back or in one that
\* is not.  Main stops after backupNum backups; BiSearch's and LocalDedup's undefined
\* steps, and a failing xdelta3, are included.
SPECIFICATION MethodsSpec
CONSTANTS
    d1 = d1
    d2 = d2
    d3 = d3
    h1 = h1
    DataContent = {d1, d2, d3}
    HeaderContent = {h1}
    Name = {n1}
    SF <- MCSF
    Features <- MCFeatures
    TurnOnNameHash = TRUE
    LZ4Compress = FALSE
    AllowDeltaError = TRUE
    MaxLogical = 5
    backupNum = 4
    Garbage = Garbage
    Method = {"DEDUP", "NTRANSFORM", "FINESSE", "ODESS", "PALANTIR", "BiSEARCH", "LOCALITY"}
    SmallContent = {d3}
    PositionFeatures <- MCPositionFeatures
    PalantirFeatures <- MCPalantirFeatures
    LevelOf <- MCLevelOf
    KeepLevel2 = 1
    KeepLevel3 = 0
    IdRange = 100
INVARIANTS
    MethodIndexesPointToBases
    EntriesAreFeatures
    MethodsRestoreExact
    LayeredAccounting
    KeptWhileUsed
    FeaturesOfContent
CONSTRAINT MCBound
CHECK_DEADLOCK FALSE
