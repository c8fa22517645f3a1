SPECIFICATION FairSpec
CONSTANTS
    p1 = p1
    p2 = p2
    t1 = t1
    t2 = t2
    t3 = t3
    Proc = {p1}
    Task = {t1, t2}
    Home <- HomeTogether
    Ops = {"get", "login"}
    None = None
    Rotates = TRUE
    MaxToken = 2
    MaxReg = 1
INVARIANT SingleFlight
PROPERTY CallsEnd
CHECK_DEADLOCK FALSE
