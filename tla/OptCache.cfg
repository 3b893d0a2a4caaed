CONSTANTS
    Keys <- MCKeys
    Bad <- MCBad
    Tracked = 2
    Cap = 2
    Timeout = 2
    Pacing = 1
    Refresh = 2
    Retry = 1
    StaleWarn = 3
SPECIFICATION FairSpec
INVARIANTS TypeOK NoStrayStream HeartbeatIsHonest CacheKeepsUp
PROPERTIES RefreshesEnd RefreshIsTimeBoxed
