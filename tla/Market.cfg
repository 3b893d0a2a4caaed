CONSTANTS
    SlotOrder <- MCSlotOrder
    Host = "host"
    Watch = {w}
    OnDemand = {}
    MaxSessions = 2
    OthersClose = TRUE
CHECK_DEADLOCK FALSE
SPECIFICATION FairSpec
INVARIANTS TypeOK StrayStreamsWereTaken
PROPERTIES NoTickFromGhost BookOmitsOnlyLost SlotsSpec IterationEnds FeedGoesOn
