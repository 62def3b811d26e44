------------------------------ MODULE MCToken ------------------------------
(* Instances of Token for TLC: the default settings, scaled to a grid of ten seconds and to    *)
(* tokens that qualify on their second observation.                                            *)
EXTENDS Token, TLC

CONSTANTS s1, s2

FiltersDefault ==
    [maxAge |-> 1800, minAge |-> 0, minLiquidity |-> 3000, maxLiquidity |-> 750000,
     minVolume |-> 500, minBuys |-> 1, minTraders |-> 1, maxTop10 |-> 45, maxLargest |-> 18,
     mintRevoked |-> TRUE, freezeRevoked |-> TRUE, maxFeeBps |-> 100, rejectHook |-> TRUE,
     maxSpreadBps |-> 1500, maxEntryBps |-> 800, maxExitBps |-> 1200, maxLoss |-> 25,
     maxBuyRatio |-> 97, minBuyRatio |-> 35, maxDrop |-> 40,
     unknownPolicy |-> "allow", maxUnknown |-> 3]

EntryDefault ==
    [minScore |-> 40, hysteresis |-> 8, minObservations |-> 2, minMomentum30 |-> 0,
     minMomentum60 |-> -5, severeMomentum60 |-> -15, minVelocity |-> 1, idealBuyRatio |-> 72,
     latch |-> 10, maxAttempts |-> 2, halfLife |-> 480, fullVelocity |-> 3,
     fullMomentum |-> 25, fullLiquidityGrowth |-> 30, ttl |-> 30,
     cancelCooldown |-> 20, abandonCooldown |-> 10, staleGrace |-> 10,
     weights |-> [freshness |-> 12, liquidityGrowth |-> 12, velocity |-> 12,
                  participation |-> 10, momentum |-> 14, acceleration |-> 10, balance |-> 8,
                  concentration |-> 6, exitViability |-> 10, slippage |-> 6]]

RiskDefault ==
    [profile |-> [base |-> 60, most |-> 90, exposure |-> 95, maxOpen |-> 2],
     hard |-> [single |-> 95, exposure |-> 98, pool |-> 3, min |-> 14, max |-> 250000,
               impact |-> 4],
     tiers |-> <<[minEquity |-> 0, multiplier |-> 100, maxOpen |-> None],
                 [minEquity |-> 300, multiplier |-> 85, maxOpen |-> None]>>,
     confidenceMin |-> 40, confidenceFull |-> 90, confidenceMultiplier |-> 50,
     drawdownStart |-> 15, drawdownFull |-> 50, drawdownFloor |-> 35,
     lossStep |-> 15, winStep |-> 8, streakMin |-> 40, streakMax |-> 125,
     losingMultiplier |-> 75, slippageStart |-> 300, slippageFull |-> 1000,
     slippageFloor |-> 50]

ExitDefault ==
    [trailing |-> [tiers |-> <<[multiple |-> 0, drawdown |-> 30],
                               [multiple |-> 130, drawdown |-> 24],
                               [multiple |-> 180, drawdown |-> 18]>>,
                   widen |-> 150, lowLiquidity |-> 8000, liquidityTighten |-> 70,
                   momentumBelow |-> -5, momentumTighten |-> 80, longAfter |-> 20,
                   longTighten |-> 85, min |-> 4, max |-> 50, activate |-> 0],
     momentumDrop |-> -12, priorGain |-> 10, liquidityDrop |-> 35, liquidityWindow |-> 60,
     volumeRatio |-> 15, volumeHolding |-> 20, maxLoss |-> 35, maxHolding |-> 1800,
     spike |-> 25, spreadBps |-> 2000, staleAfter |-> 10, ttl |-> 20, cooldown |-> 10,
     minHolding |-> 5]

QuotesDefault == [maxImpact |-> 6, maxLoss |-> 25, maxAge |-> 10, refresh |-> 3]

Created == [type |-> "create", mint |-> "T"]
Undated == [base |-> "SOL", quote |-> "T", created |-> None]

Pair(price, liquidity) ==
    [chain |-> "solana", base |-> "T", created |-> 0, price |-> price, liquidity |-> liquidity,
     volume |-> 900, buys |-> 40, sells |-> 10, usdPerSol |-> 150]
Elsewhere == [Pair(100, 500) EXCEPT !.chain = "other"]
Flat == <<Elsewhere, Pair(90, None), Pair(100, 20000)>>
Crashed == <<Pair(40, 9000), Pair(45, 8000)>>

Trade(sig) ==
    [type |-> "buy", mint |-> "T", sig |-> sig, trader |-> sig, sol |-> 4, tokens |-> 30,
     vSol |-> 97, vTokens |-> 746]

Mintable ==
    [type |-> "mint", mintAuthority |-> "M", freezeAuthority |-> None, decimals |-> 6,
     supply |-> 1000,
     extensions |-> [transferFee |-> None, transferHook |-> None, nonTransferable |-> FALSE,
                     permanentDelegate |-> None]]
NotYet == [Mintable EXCEPT !.type = "account"]

Spread == <<[address |-> "pool", amount |-> 800], [address |-> "h1", amount |-> 50],
            [address |-> None, amount |-> 40], [address |-> "h2", amount |-> 150]>>

Quote(out, impact) == [error |-> None, out |-> out, impact |-> impact]
GoodPool == [buy |-> Quote(50, 1), sell |-> Quote(96, 1)]
ThinPool == [buy |-> Quote(40, 5), sell |-> Quote(92, 5)]

Account(equity, cash, exposure, open) ==
    [equity |-> equity, cash |-> cash, exposure |-> exposure, open |-> open, drawdown |-> 0,
     losses |-> 0, wins |-> 0, losing |-> FALSE]
Idle == Account(50, 50, 0, 0)
Spent == Account(50, 15, 35, 1)

AnyTrade == Permutations({s1, s2})

CreationsMC == {Created}
PoolItemsMC == {Undated}
PairListsMC == {Flat, Crashed}
TradeMessagesMC == {Trade(s1), Trade(s2)}
MintAccountsMC == {Mintable, NotYet}
HolderListsMC == {Spread}
RoundTripsMC == {GoodPool, ThinPool}
ExitSharesMC == {60}
AccountsMC == {Spent}
=============================================================================
