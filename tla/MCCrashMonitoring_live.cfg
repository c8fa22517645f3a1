SPECIFICATION FairSpec
CONSTANTS
    Inst = {i1, i2}
    None = None
    Empty = Empty
    CheckInterval = 2
    Naps = {2, 3}
    MaxSleeps = 0
    Flaky = FALSE
    Ends = {"shutdown", "crash", "reboot"}
INVARIANT TypeOK
PROPERTY CrashReported
