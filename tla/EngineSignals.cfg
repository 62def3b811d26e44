SPECIFICATION FairSpec
CONSTANTS
    m1 = m1  m2 = m2  human = human
    None = None
    Mints = {m1, m2}
    MaxSlots = 1
    Handlers = {human}
    AutoConfirm = FALSE
    Size = 2
    Fee = 1
    InitialCash = 3
    MaxPending = 2
    MaxOpen = 1
    MaxWindows = 2
    TrackedLimits = {2}
    MaxCrashes = 0
INVARIANTS ExposureCapped
PROPERTIES WaitingEnds
CHECK_DEADLOCK FALSE
