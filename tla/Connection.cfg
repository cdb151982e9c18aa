SPECIFICATION FairSpec
CONSTANTS
    RchCap = 1
    MaxInput = 4
    MaxEvents = 1
    MaxReplies = 2
CHECK_DEADLOCK FALSE
INVARIANTS
    CTypeOK
    ReportsFindRoom
    OneEncoder
    MonitorsEndFirst
PROPERTIES
    ShutdownEnds
    DisconnectIsSeen
    EvictedIsTold
