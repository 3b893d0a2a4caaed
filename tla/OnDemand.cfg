CONSTANTS
    Keys <- MCKeys
    Watchlists <- MCWatchlists
    Caps <- MCCaps
    MaxAge = 1
    MaxAdds = 3
CHECK_DEADLOCK FALSE
SPECIFICATION FairSpec
INVARIANTS TypeOK DesiredIsRight
PROPERTIES FreshAreKept ListedAreAlive ExpiredGo
