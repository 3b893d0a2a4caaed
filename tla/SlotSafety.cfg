CONSTANTS
    Sessions = {s1, s2, s3}
    NoSession = NoSession
    NoTask = NoTask
    Loop = loop
    operator = operator
    market = market
    health = health
    Connectors <- MCConnectors
    Disconnectors <- MCDisconnectors
    Probers <- MCProbers
    NumClientIds = 2
    Maintainable = TRUE
    MaxDisruptions = 3
SPECIFICATION Spec
SYMMETRY MCSymmetry
INVARIANTS TypeOK OneActiveSession NoOrphanSession StateMatchesIb ReconnectingIsHeld
PROPERTIES SlotSpec HoldIsBounded
