\* Main stops after backupNum backups, so the run may end.
SPECIFICATION Spec
CONSTANTS
    d1 = d1
    d2 = d2
    d3 = d3
    h1 = h1
    f1 = f1
    f2 = f2
    f3 = f3
    DataContent = {d1, d2, d3}
    HeaderContent = {h1}
    Name = {n1, n2}
    SF = {f1, f2, f3}
    Features <- MCFeatures
    TurnOnNameHash = TRUE
    LZ4Compress = TRUE
    AllowDeltaError = TRUE
    MaxLogical = 4
    backupNum = 3
    Garbage = Garbage
INVARIANTS
    DeltaOnBase
    IndexesPointToBases
    FPIndexSound
    AccountingAgrees
    RestoreExact
CHECK_DEADLOCK FALSE
