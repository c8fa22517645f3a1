SPECIFICATION FairSpec
CONSTANTS
    w1 = w1
    w2 = w2
    c1 = c1
    c2 = c2
    c3 = c3
    k1 = k1
    k2 = k2
    Window = {w1, w2}
    Caller = {c1, c2}
    Home <- HomePair
    Conn = {}
    NoConn = NoConn
    None = None
    Expiry = 1
    MaxTime = 2
    MaxRestarts = 1
PROPERTIES EveryCallEnds LockRecovers
CHECK_DEADLOCK FALSE
