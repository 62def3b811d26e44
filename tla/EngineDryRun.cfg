SPECIFICATION Spec
CONSTANTS
    m1 = m1  m2 = m2  human = human
    None = None
    Mints = {m1, m2}
    MaxSlots = 3
    Handlers = {}
    AutoConfirm = TRUE
    Size = 2
    Fee = 1
    InitialCash = 6
    MaxPending = 2
    MaxOpen = 2
    MaxWindows = 0
    TrackedLimits = {1, 2}
    MaxCrashes = 1
SYMMETRY AnyMint
INVARIANTS OpenIsWatched CanRestart OrderIsOwned
CHECK_DEADLOCK FALSE
