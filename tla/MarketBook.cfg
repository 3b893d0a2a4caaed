CONSTANTS
    SlotOrder <- MCSlotOrder
    Host = "host"
    Watch = {w}
    OnDemand = {}
    MaxSessions = 2
    OthersClose = FALSE
CHECK_DEADLOCK FALSE
SPECIFICATION Spec
INVARIANT BookIsWhole
