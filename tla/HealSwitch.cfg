CONSTANTS
    Stale = 3
    Cooldown = 2
    MaxStreak = 3
    Forgets = FALSE
    Outages = FALSE
    ProbeLimit = 3
    MaxHeal = 4
    MaxTroubles = 2
CHECK_DEADLOCK FALSE
SPECIFICATION Spec
PROPERTY KillSwitchSticks
