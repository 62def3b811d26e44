SPECIFICATION FairSpec
CONSTANTS
    b1 = b1  b2 = b2  s1 = s1  m1 = m1  m2 = m2
    None = None
    Buys = {b1, b2}
    Sells = {s1}
    MintOf <- TwoMints
    SizeChoices = {1, 2}
    MaxTrade = 2
    MaxDailySpend = 3
    MaxOpenPositions = 2
    Reserve = 3
    ExitsContinueWhenDisarmed = TRUE
    Fee = 1
    InitialWallet = 5
    InitialCash = 2
    WritesMayFail = FALSE
    MayBeUnbookable = TRUE
    MaxCrashes = 0
    MaxCommands = 2
INVARIANTS MarkersArePrompt DailySpendCapped ReserveKept
PROPERTIES PendingResolves
CHECK_DEADLOCK FALSE
