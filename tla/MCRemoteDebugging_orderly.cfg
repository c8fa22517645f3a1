SPECIFICATION FairSpec
CONSTANTS
    Func = {f1, f2}
    Panel = {p1, p2}
    Ending = {e1, e2}
    Orderly = TRUE
    None = None
    MaxStarts = 2
    MaxFails = 1
    MaxCrashes = 1
INVARIANTS TypeOK  SnapshotIsOriginal NothingLeft OnlyOwnVersions
PROPERTY CallsEnd
CHECK_DEADLOCK FALSE
