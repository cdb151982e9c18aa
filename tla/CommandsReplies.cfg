SPECIFICATION Spec
CONSTANTS
    Nick <- MCNick
    NoNick = NoNick
    Chan <- MCChan
    NoChan = NoChan
    Lease <- MCLease
    Noticed <- MCNoticed
    Script <- MCScript
    Proc <- MCProc
    Key <- Keys
    Command <- AllCommands
    None = None
    NoCommand = NoCommand
    NoFlags = {}
    Initial <- MCInitial
    Input <- inputs
    Together <- together
    Prefetch <- prefetch
    More <- furtherReads
    Run <- Closure
    Flags <- closureFlags
    Events <- events
    MaxRev = 2
CHECK_DEADLOCK FALSE
INVARIANTS
    RefusedIsNotSent

