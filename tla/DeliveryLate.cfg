SPECIFICATION DSpec
CONSTANTS
    Server = {s1}
    Conn = {c1, c2}
    Nick = {n1, n2}
    Chan = {ch1}
    Lease = {l1}
    NoLease = NoLease
    NoServer = NoServer
    NoNick = NoNick
    NoMsg = NoMsg
    NoChan = NoChan
    MaxJoins = 1
    MaxLog = 4
    EarlyLoss = TRUE
    LateEviction = TRUE
    Patient = FALSE
SYMMETRY Symmetry
CHECK_DEADLOCK FALSE
INVARIANTS
    DTypeOK
    NothingFromBefore
PROPERTIES
    Spec
