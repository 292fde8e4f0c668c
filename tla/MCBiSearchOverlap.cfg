\* A file whose content is also a header segment, e.g. 8 KiB of zeros and the
\* zero blocks that end a tar archive.
SPECIFICATION Spec
CONSTANTS
    d1 = d1
    d2 = d2
    d3 = d3
    h1 = h1
    f1 = f1
    f2 = f2
    f3 = f3
    DataContent = {d1, d2, d3}
    HeaderContent = {h1, d3}
    Name = {n1, n2}
    SF = {f1, f2, f3}
    Features <- MCFeatures
    TurnOnNameHash = TRUE
    LZ4Compress = TRUE
    AllowDeltaError = FALSE
    MaxLogical = 3
    backupNum = 2
    Garbage = Garbage
INVARIANTS
    RestoreExact
CHECK_DEADLOCK FALSE
