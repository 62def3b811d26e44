SPECIFICATION TokenSpec
CONSTANTS
    None = None
    s1 = s1
    s2 = s2
    SnapCap = 4
    TradeCap = 3
    SigCap = 3
    StaleAfter = 10
    PeakWindow = 300
    AccSamples = 2
    AccSpacing = 10
    Filters <- FiltersDefault
    Entry <- EntryDefault
    Risk <- RiskDefault
    Exit <- ExitDefault
    Quotes <- QuotesDefault
    Step = 10
    MaxTime = 50
    MaxArrivals = 3
    MaxSetBacks = 1
    MaxRestarts = 1
    MaxAge = 1800
    Horizon = 40
    PriceUnit = 1000
    PumpReserve = 30
    SolUsd = 150
    Mint = "T"
    Creations <- CreationsMC
    PoolItems <- PoolItemsMC
    PairLists <- PairListsMC
    TradeMessages <- TradeMessagesMC
    MintAccounts <- MintAccountsMC
    HolderLists <- HolderListsMC
    PoolAccounts = {"pool"}
    RoundTrips <- RoundTripsMC
    QuoteErrors = {"limited", "noRoute", "unavailable"}
    ExitShares <- ExitSharesMC
    StartAccount <- Idle
    AccountsThen <- AccountsMC
SYMMETRY AnyTrade
INVARIANTS MemoryIsFaithful OutcomeIsHonest
PROPERTIES NeverBlind SpendsWithinCaps
CHECK_DEADLOCK FALSE
