SPECIFICATION Spec
CONSTANTS
    p1 = p1  p2 = p2
    wallet = wallet  pool = pool
    None = None
    Positions = {p1, p2}
    Bookers = {"tick", "human"}
    Bankroll = 8
    Executions = {"manual", "dry_run", "autonomous"}
    Transactions <- SomeTransactions
    Orders <- SomeOrders
    Overrides <- SomeOverrides
    NetworkFee = 1
    Owner = wallet
    Marks = {9}
    Milestones = {12}
    HysteresisPct = 25
    StreakWindow = 1
    MaxRestarts = 1
SYMMETRY AnyPosition
INVARIANTS Conserved CashIsOnChain RestartAgrees LedgerAgrees
