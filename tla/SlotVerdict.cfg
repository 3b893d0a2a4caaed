CONSTANTS
    Sessions = {s1, s2, s3}
    NoSession = NoSession
    NoTask = NoTask
    Loop = loop
    operator = operator
    market = market
    health = health
    Connectors <- MCFewConnectors
    Disconnectors <- MCFewDisconnectors
    Probers <- MCProbers
    NumClientIds = 2
    Maintainable = FALSE
    MaxDisruptions = 2
SPECIFICATION Spec
PROPERTY VerdictHitsProbedSession
