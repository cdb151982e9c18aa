SPECIFICATION FairSpec
CONSTANTS
    Server = {s1, s2}
    Conn = {c1, c2}
    Nick = {n1, n2}
    Chan = {ch1}
    Lease = {l1, l2, l3}
    NoLease = NoLease
    NoServer = NoServer
    NoNick = NoNick
    MaxJoins = 2
    EarlyLoss = FALSE
    LateEviction = FALSE
CHECK_DEADLOCK FALSE
INVARIANTS
    TypeOK
    
    MembershipAgrees
    
    OneOperator
PROPERTIES
    LostServerReleases
