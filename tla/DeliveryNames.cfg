SPECIFICATION DSpec
CONSTANTS
    Server = {s1, s2}
    Conn = {c1, c2}
    Nick = {n1, n2}
    Chan = {ch1}
    Lease = {l1, l2}
    NoLease = NoLease
    NoServer = NoServer
    NoNick = NoNick
    NoMsg = NoMsg
    NoChan = NoChan
    MaxJoins = 1
    MaxLog = 4
    EarlyLoss = FALSE
    LateEviction = FALSE
    Patient = TRUE
CHECK_DEADLOCK FALSE
INVARIANTS
    NamesFound
