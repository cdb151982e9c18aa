SPECIFICATION Spec
CONSTANTS
    NoUpdate = NoUpdate
    Pinned <- PinnedModes
    Opers = {FALSE}
    Typed = {"i", "E", "a", "o", "m", "t", "Q"}
    MaxParams = 2
    MaxLetters = 2
CHECK_DEADLOCK FALSE
INVARIANTS
    ModesTyped
    ReplyIsApplied
    AddsFirstAreStored
    AwayHasMessage
PROPERTIES
    PrivilegesByOper
