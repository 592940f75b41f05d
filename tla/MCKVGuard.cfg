CONSTANTS
    EngageUsage = 2
    ReleaseUsage = 2
    WaitingThresh = 2
    ReleaseSustain = 3
    ScrapeInterval = 1
    MaxStaleness = 1
    HTTPTimeout = 2
    Samples <- MCSamples
    MaxClock = 8
SPECIFICATION Spec
INVARIANT RejectOnlyOnRecentTelemetry
PROPERTIES EngageNeedsTwoFresh ReleaseSustained
