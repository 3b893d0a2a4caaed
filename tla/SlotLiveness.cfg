CONSTANTS
    Sessions = {s1, s2}
    NoSession = NoSession
    NoTask = NoTask
    Loop = loop
    operator = operator
    market = market
    health = health
    Connectors <- MCFewConnectors
    Disconnectors <- MCFewDisconnectors
    Probers <- MCNoProbers
    NumClientIds = 2
    Maintainable = FALSE
    MaxDisruptions = 3
SPECIFICATION FairSpec
INVARIANT ReconnectsCountSessions
PROPERTIES CallsReturn Recovers
