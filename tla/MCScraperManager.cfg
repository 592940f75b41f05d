CONSTANTS
    Keys = {k1, k2}
    Gens = {g1, g2}
    NoGen = NoGen
    IdleTimeout = 1
    UnregisterKeys = {k1}
    MaxClock = 3
SPECIFICATION ManagerFairSpec
INVARIANTS MapIsTrue NoScraperAfterStop
PROPERTIES StopReturns RequestsAreNotBlocked
CHECK_DEADLOCK FALSE
