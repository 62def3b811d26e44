SPECIFICATION FairSpec
CONSTANTS
    c1 = c1  c2 = c2  c3 = c3
    Callers = {c1, c2, c3}
    MaxCalls = 4
    Retries = {0, 1}
    BackoffDelays = {1}
    NoHeader = NoHeader
    RetryAfters = {NoHeader, 0}
    Burst = 1
    MaxConcurrent = 2
    MaxWaiting = 2
    FastFailWait = 1
    CooldownMin = 1
    CooldownMax = 2
    TripAfter = 2
    OpenFor = 1
    OpenMax = 2
    MaxTrips = 2
    MaxLimited = 2
INVARIANTS PermitsConserved
PROPERTIES ShutHostIsSpared RequestsEnd
CHECK_DEADLOCK FALSE
