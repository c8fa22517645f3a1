SPECIFICATION Spec
CONSTANTS
    p1 = p1
    p2 = p2
    t1 = t1
    t2 = t2
    t3 = t3
    Proc = {p1, p2}
    Task = {t1, t2}
    Home <- HomeApart
    Ops = {"get", "login", "logout"}
    None = None
    Rotates = FALSE
    MaxToken = 2
    MaxReg = 1
INVARIANTS TypeOK SessionSurvives
PROPERTY ImplementsRegister
CHECK_DEADLOCK FALSE
