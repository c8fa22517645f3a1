SPECIFICATION FairSpec
CONSTANTS
    n1 = n1
    n2 = n2
    c1 = c1
    c2 = c2
    c3 = c3
    c4 = c4
    None = None
    Conn = {n1, n2}
    Client = {c1, c2, c3, c4}
    ConnOf <- ConnPairs
    Smus = {n2}
    Overlap = FALSE
    Unreadable = FALSE
    MaxPolls = 2
    MaxLinks = 2
    MaxFails = 1
    MaxExits = 1
INVARIANTS TypeOK TokenOnce
PROPERTIES FreshIsNotLost ClientsEnd ImplementsDesk
CHECK_DEADLOCK FALSE
