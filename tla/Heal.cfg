CONSTANTS
    Stale = 3
    Cooldown = 2
    MaxStreak = 3
    Forgets = TRUE
    Outages = TRUE
    ProbeLimit = 3
    MaxHeal = 4
    MaxTroubles = 4
CHECK_DEADLOCK FALSE
SPECIFICATION FairSpec
INVARIANT TypeOK
PROPERTIES ExitMeansUnhealed StuckIsHealed
