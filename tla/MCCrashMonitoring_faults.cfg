SPECIFICATION Spec
CONSTANTS
    Inst = {i1, i2}
    None = None
    Empty = Empty
    CheckInterval = 2
    Naps = {3}
    MaxSleeps = 1
    Flaky = TRUE
    Ends = {"shutdown","crash","reboot"}
INVARIANT CrashNotForgotten
PROPERTY NoFalseCrash
SYMMETRY Instances
ACTION_CONSTRAINT OneKindOfFault
