SPECIFICATION Spec
CONSTANTS
    w1 = w1
    w2 = w2
    c1 = c1
    c2 = c2
    c3 = c3
    k1 = k1
    k2 = k2
    Window = {w1}
    Caller = {c1, c2}
    Home <- HomeOne
    Conn = {k1, k2}
    NoConn = NoConn
    None = None
    Expiry = 1
    MaxTime = 1
    MaxRestarts = 0
INVARIANT NoWrongResultset
CHECK_DEADLOCK FALSE
