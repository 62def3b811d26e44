SPECIFICATION Spec
CONSTANTS
    b1 = b1  b2 = b2  s1 = s1  m1 = m1  m2 = m2
    None = None
    Buys = {b1, b2}
    Sells = {s1}
    MintOf <- OneMint
    SizeChoices = {2}
    MaxTrade = 2
    MaxDailySpend = 4
    MaxOpenPositions = 2
    Reserve = 1
    ExitsContinueWhenDisarmed = TRUE
    Fee = 0
    InitialWallet = 5
    InitialCash = 4
    WritesMayFail = FALSE
    MayBeUnbookable = FALSE
    MaxCrashes = 1
    MaxCommands = 0
INVARIANTS ConfirmedIsReconciled
CHECK_DEADLOCK FALSE
