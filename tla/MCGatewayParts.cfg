CONSTANTS
    r1 = r1
    r2 = r2
    pa = pa
    pb = pb
    Requests = {r1, r2}
    Policies = {pa, pb}
    Created <- MCCreated
    Rank <- MCRank
    RateLimits <- MCRateLimits
    Unlimited = Unlimited
    Absent = Absent
    MaxEdits = 2
    long = long
    longer = longer
    short = short
    premium = premium
    huge = huge
    b1 = b1
    b2 = b2
    b3 = b3
    Clients = {long, longer, short, premium, huge}
    Tier <- MCTier
    Size <- MCSize
    Rate = 1
    Burst = 4
    LongThreshold = 2
    Calls = {r1, r2}
    Probes = {pa}
    Backends = {b1, b2, b3}
    Statuses = {200, 401, 503}
SPECIFICATION PartsSpec
INVARIANT NoFreeBurst
INVARIANT CapHolds
INVARIANT GuardOutlivesRequests
INVARIANT AtMostOneBackend
INVARIANT OneVoice
INVARIANT RecordedSuccessIsReal
PROPERTY RetryPays
PROPERTY SignalEndsProcess
CHECK_DEADLOCK FALSE
