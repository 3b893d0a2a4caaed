CONSTANTS
    SlotOrder <- MCOneSlot
    Host = "host"
    Watch = {w}
    OnDemand = {}
    MaxSessions = 2
    OthersClose = TRUE
CHECK_DEADLOCK FALSE
SPECIFICATION FairSpec
PROPERTY FeedRecovers
