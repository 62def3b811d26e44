------------------------------ MODULE Decision ------------------------------
(***************************************************************************)
(* The bot's judgement, as functions of what it remembers of a token: the  *)
(* checks (filters/checks.py), the entry score and the gate (strategy/),   *)
(* the round-trip quote (quotes/round_trip.py), the position size          *)
(* (risk/engine.py) and the exit rules (positions/).                       *)
(*                                                                         *)
(* Fractions, scores and multipliers are percentages, sums of money are    *)
(* whole units of one currency, and every intermediate value is rounded    *)
(* down.  The settings are records, constrained as config/settings.py      *)
(* validates them.                                                         *)
(***************************************************************************)
EXTENDS Tracker

CONSTANTS
    Filters,   \* filters
    Entry,     \* entry, with its weights
    Risk,      \* risk, with the chosen profile and the hard limits
    Exit,      \* exit, with the trailing stop
    Quotes     \* quotes

Share == 0 .. 100
Sum(f) == MapThenSumSet(LAMBDA x : f[x], DOMAIN f)
Ordered(tiers, key) == \A i, j \in DOMAIN tiers : i < j => tiers[i][key] <= tiers[j][key]

ValidFilters(f) ==
    /\ {f.maxAge, f.minAge, f.minLiquidity, f.maxLiquidity, f.minVolume, f.minBuys,
        f.minTraders, f.maxFeeBps, f.maxSpreadBps, f.maxEntryBps, f.maxExitBps, f.maxUnknown}
           \subseteq Nat
    /\ {f.maxTop10, f.maxLargest, f.maxLoss, f.maxBuyRatio, f.minBuyRatio, f.maxDrop}
           \subseteq Share
    /\ f.maxDrop > 0
    /\ {f.mintRevoked, f.freezeRevoked, f.rejectHook} \subseteq BOOLEAN
    /\ f.unknownPolicy \in {"allow", "reject"}
    /\ f.minAge <= f.maxAge /\ f.minLiquidity <= f.maxLiquidity
    /\ f.minBuyRatio <= f.maxBuyRatio

Components == {"freshness", "liquidityGrowth", "velocity", "participation", "momentum",
               "acceleration", "balance", "concentration", "exitViability", "slippage"}

ValidEntry(e) ==
    /\ e.weights \in [Components -> Nat]
    /\ {e.minScore, e.idealBuyRatio} \subseteq Share
    /\ e.hysteresis \in 0 .. 50
    /\ {e.minObservations, e.latch, e.maxAttempts, e.halfLife, e.fullVelocity, e.fullMomentum,
        e.fullLiquidityGrowth, e.ttl} \subseteq Nat \ {0}
    /\ {e.minVelocity, e.cancelCooldown, e.abandonCooldown, e.staleGrace} \subseteq Nat
    /\ {e.minMomentum30, e.minMomentum60} \subseteq Int
    /\ e.severeMomentum60 <= 0

ValidRisk(r) ==
    /\ r.tiers \in Seq(ToSet(r.tiers)) \ {<<>>} /\ Ordered(r.tiers, "minEquity")
    /\ \A i \in DOMAIN r.tiers : /\ {r.tiers[i].minEquity, r.tiers[i].multiplier} \subseteq Nat
                                /\ r.tiers[i].maxOpen \in {None} \cup (Nat \ {0})
    /\ {r.profile.base, r.profile.most, r.profile.exposure} \subseteq Share
    /\ r.profile.base <= r.profile.most /\ r.profile.maxOpen \in Nat \ {0}
    /\ {r.hard.single, r.hard.exposure, r.hard.pool} \subseteq 1 .. 100
    /\ {r.hard.min, r.hard.max} \subseteq Nat \ {0}
    /\ r.hard.min <= r.hard.max /\ r.hard.impact \in Share
    /\ {r.confidenceMin, r.confidenceFull, r.confidenceMultiplier, r.drawdownStart,
        r.drawdownFull, r.drawdownFloor, r.streakMin, r.streakMax, r.slippageStart,
        r.slippageFull, r.slippageFloor} \subseteq Nat
    /\ r.confidenceMin <= r.confidenceFull
    /\ r.drawdownStart <= r.drawdownFull
    /\ r.slippageStart <= r.slippageFull
    /\ r.streakMin <= r.streakMax

ValidExit(x) ==
    /\ x.trailing.tiers # <<>> /\ Ordered(x.trailing.tiers, "multiple")
    /\ x.trailing.min <= x.trailing.max /\ x.trailing.widen >= 100
    /\ x.momentumDrop <= 0 /\ x.trailing.momentumBelow <= 0
    /\ {x.maxLoss, x.liquidityDrop, x.volumeRatio} \subseteq 1 .. 100
    /\ {x.liquidityWindow, x.maxHolding, x.staleAfter, x.ttl, x.spike} \subseteq Nat \ {0}
    /\ {x.cooldown, x.minHolding, x.volumeHolding, x.spreadBps} \subseteq Nat

ValidQuotes(q) ==
    /\ {q.maxImpact, q.maxLoss} \subseteq Share
    /\ {q.maxAge, q.refresh} \subseteq Nat \ {0}

ASSUME DecisionAssumption ==
    /\ ValidFilters(Filters) /\ ValidEntry(Entry) /\ ValidRisk(Risk) /\ ValidExit(Exit)
    /\ ValidQuotes(Quotes)

----------------------------------------------------------------------------
(* Checks: each gives a verdict, and a REJECT may be fatal *)

Result(name, verdict) == {[name |-> name, verdict |-> verdict, fatal |-> FALSE]}
Fatal(name) == {[name |-> name, verdict |-> "REJECT", fatal |-> TRUE]}
Verdict(name, ok) == Result(name, IF ok THEN "PASS" ELSE "REJECT")
Unless(name, bad) == IF bad THEN Fatal(name) ELSE {}

\* A value that is not known is UNKNOWN, never a pass.
Within(name, value, ok) ==
    IF value = None THEN Result(name, "UNKNOWN") ELSE Verdict(name, ok)

\* The same, for a check that is left out when there is nothing to check.
IfKnown(name, value, ok) == IF value = None THEN {} ELSE Verdict(name, ok)

AgeChecks(f) ==
    IF f.age # None /\ f.age > Filters.maxAge THEN Fatal("token_age")
    ELSE Within("token_age", f.age, f.age >= Filters.minAge)

LiquidityDrop(track, at) ==
    LET known == SelectSeq(SnapshotsSince(track, at, 300), LAMBDA s : s.liquidity # None)
        peak == Max({s.liquidity : s \in ToSet(known)})
    IN  IF Len(known) < 2 THEN Result("liquidity_stability", "UNKNOWN")
        ELSE IF peak <= 0 THEN Result("liquidity_stability", "UNKNOWN")
        ELSE IF Percent(peak - Last(known).liquidity, peak) >= Filters.maxDrop
        THEN Fatal("liquidity_stability")
        ELSE Result("liquidity_stability", "PASS")

\* A pool that does not report its volume or its buys is read off the streamed trades; its
\* trades' volume needs the pool's price in both currencies (usdPerSol).
FiveMinutes(track, at, field) ==
    LET reported == Latest(track, field)
        streamed == TradeWindow(track, at, 300)
        usd == Latest(track, "usdPerSol")
    IN  IF reported # None \/ track.trades = <<>> THEN reported
        ELSE IF field = "buys" THEN streamed.buys
        ELSE IF usd # None THEN streamed.volume * usd
        ELSE None

BalanceCheck(f, buys) ==
    Within("demand_balance", f.buyRatio,
           /\ f.buyRatio <= Filters.maxBuyRatio \/ OrZero(buys) < 10
           /\ f.buyRatio >= Filters.minBuyRatio)

MarketChecks(track, f, at) ==
    LET buys == FiveMinutes(track, at, "buys")
        volume == FiveMinutes(track, at, "volume")
        spread == Latest(track, "spread")
    IN  UNION {
            Verdict("data_fresh", ~f.stale),
            Within("liquidity", f.liquidity,
                   f.liquidity \in Filters.minLiquidity..Filters.maxLiquidity),
            LiquidityDrop(track, at),
            Within("volume_5m", volume, volume >= Filters.minVolume),
            Within("buys_5m", buys, buys >= Filters.minBuys),
            BalanceCheck(f, buys),
            IfKnown("spread", spread, spread <= Filters.maxSpreadBps)}

AuthorityChecks(track) ==
    LET auth == track.authorities
    IN  IF auth = None THEN Result("authorities", "UNKNOWN")
        ELSE UNION {
            Unless("mint_authority", auth.mint /\ Filters.mintRevoked),
            Unless("freeze_authority", auth.freeze /\ Filters.freezeRevoked),
            Unless("transfer_fee", auth.feeBps # None /\ auth.feeBps > Filters.maxFeeBps),
            Unless("transfer_hook", auth.hook /\ Filters.rejectHook),
            Unless("transferable", auth.nonTransferable),
            Unless("permanent_delegate", auth.delegate),
            Unless("supply", auth.supply <= 0)}

\* What the chain says of the holders, or else what the pool reports.
Held(track, field) ==
    IF track.holders # None THEN track.holders[field] ELSE Latest(track, field)

HolderChecks(track) ==
    LET traders == IF track.traders # {} THEN Cardinality(track.traders)
                   ELSE Latest(track, "traders")
        top10 == Held(track, "top10")
        largest == Held(track, "largest")
    IN  UNION {
            Within("holder_concentration", top10, top10 <= Filters.maxTop10),
            IfKnown("largest_holder", largest, largest <= Filters.maxLargest),
            Within("unique_traders", traders, traders >= Filters.minTraders)}

QuoteChecks(rt) ==
    Verdict("entry_slippage", rt.entryBps <= Filters.maxEntryBps) \cup
    (IF rt.exitBps = None THEN Result("exit_quote", "REJECT")
     ELSE UNION {
        Verdict("exit_slippage", rt.exitBps <= Filters.maxExitBps),
        IF rt.loss > Filters.maxLoss * 2 THEN Fatal("round_trip")
        ELSE Verdict("round_trip", rt.loss <= Filters.maxLoss),
        IF rt.viable THEN {} ELSE Result("quote_viable", "REJECT")})

\* TokenChecker.evaluate; rt is the round trip if it is fresh.
Checks(track, f, at, rt) ==
    UNION {AgeChecks(f), MarketChecks(track, f, at), AuthorityChecks(track), HolderChecks(track),
           IF rt = None THEN {} ELSE QuoteChecks(rt)}

With(checks, verdict) == {c \in checks : c.verdict = verdict}
IsFatal(checks) == \E c \in checks : c.fatal

Qualifies(checks) ==
    LET unknown == Cardinality(With(checks, "UNKNOWN"))
    IN  /\ With(checks, "REJECT") = {}
        /\ unknown = 0 \/ Filters.unknownPolicy = "allow"
        /\ unknown <= Filters.maxUnknown

----------------------------------------------------------------------------
(* The entry score *)

Clamp(n, low, high) ==
    IF n \in low .. high THEN n ELSE IF low <= high /\ n > low THEN high ELSE low
Or(value, default, points) == IF value = None THEN default ELSE Clamp(points, 0, 100)
Distance(a, b) == IF a >= b THEN a - b ELSE b - a

\* 2 ^ (-age / half-life) where age is a multiple of the half-life, its chord in between.
Fresh(age) ==
    LET halves == age \div Entry.halfLife
        high == 100 \div (2 ^ Smaller(halves, 7))
    IN  high - (high * (age % Entry.halfLife)) \div (2 * Entry.halfLife)

\* 0.6 of the 30 s return and 0.4 of the 60 s return, each standing in for the other.
Momentum(f) ==
    LET short == IF f.momentum30 # None THEN f.momentum30 ELSE f.momentum60
        long == IF f.momentum60 # None THEN f.momentum60 ELSE f.momentum30
    IN  IF short = None THEN None ELSE (6 * short + 4 * long) \div 10

\* How much of each component the token has earned; a default where there is no history.
Earned(track, f, rt) ==
    LET slip == IF rt # None THEN rt.entryBps ELSE f.entryBps
        growth == IF f.traderGrowth # None THEN f.traderGrowth ELSE f.holderGrowth
        momentum == Momentum(f)
        top10 == Held(track, "top10")
        loss == IF rt = None THEN None ELSE rt.loss
    IN  [freshness |-> Or(f.age, 20, Fresh(f.age)),
         liquidityGrowth |->
             Or(f.liquidityGrowth, 25, Percent(f.liquidityGrowth, Entry.fullLiquidityGrowth)),
         velocity |-> Or(f.velocity, 0, Percent(f.velocity, Entry.fullVelocity)),
         participation |-> Or(growth, 25, 2 * growth),
         momentum |-> Or(momentum, 20, Percent(momentum, Entry.fullMomentum)),
         acceleration |-> Or(f.acceleration, 40, 50 + 5 * f.acceleration),
         balance |->
             Or(f.buyRatio, 30, 100 - Percent(Distance(f.buyRatio, Entry.idealBuyRatio), 30)),
         concentration |-> Or(top10, 30, 100 - Percent(top10, Filters.maxTop10)),
         exitViability |-> Or(loss, 0, 100 - Percent(loss, Filters.maxLoss)),
         slippage |-> Or(slip, 30, 100 - Percent(slip, Filters.maxEntryBps))]

\* EntryScorer.score
Score(track, f, checks, rt) ==
    LET earned == Earned(track, f, rt)
        total == Larger(1, Sum(Entry.weights))
        raw == Sum([c \in Components |-> Entry.weights[c] * earned[c]]) \div total
    IN  IF f.stale \/ IsFatal(checks) THEN 0
        ELSE IF f.drawdown # None /\ f.drawdown > 25 THEN (raw * 70) \div 100
        ELSE raw

----------------------------------------------------------------------------
(* The gate *)

\* Never bridged by hysteresis.
HardReason(f, checks) ==
    \/ f.stale
    \/ f.observations < Entry.minObservations
    \/ ~Qualifies(checks)
    \/ f.velocity = None
    \/ f.velocity < Entry.minVelocity

\* Bridged while the candidate is latched.
SoftReason(f, score) ==
    \/ score < Entry.minScore
    \/ f.momentum30 # None /\ f.momentum30 < Entry.minMomentum30
    \/ f.momentum60 # None /\ f.momentum60 < Entry.minMomentum60

Qualified(f, checks, score) ==
    ~IsFatal(checks) /\ ~HardReason(f, checks) /\ ~SoftReason(f, score)

ExitScore == Larger(0, Entry.minScore - Entry.hysteresis)

\* EntryGate.latched
Latched(f, checks, score) ==
    IF IsFatal(checks) THEN "fatal"
    ELSE IF \/ HardReason(f, checks)
            \/ score < ExitScore
            \/ f.momentum60 # None /\ f.momentum60 < Entry.severeMomentum60
    THEN "abandon"
    ELSE "continue"

----------------------------------------------------------------------------
(* The round trip: buy, and sell at once what the buy would bring *)

\* pool.impact and pool.exitImpact are price impacts; pool.back is what returns of 100 units.
RoundTrip(spend, pool, at) ==
    LET loss == IF pool.exitImpact = None THEN None ELSE 100 - pool.back
    IN  [at |-> at, spend |-> spend, impact |-> pool.impact, entryBps |-> pool.impact * 100,
         exitBps |-> IF pool.exitImpact = None THEN None ELSE pool.exitImpact * 100,
         loss |-> loss,
         viable |-> /\ pool.exitImpact # None
                    /\ pool.impact <= Quotes.maxImpact /\ pool.exitImpact <= Quotes.maxImpact
                    /\ loss <= Quotes.maxLoss]

IsFresh(quote, at) == quote # None /\ at - quote.at <= Quotes.maxAge

----------------------------------------------------------------------------
(* The size of a position *)

\* _interp: from y0 at x0 to y1 at x1, flat outside.
Interpolated(x, x0, y0, x1, y1) ==
    IF x1 = x0 THEN IF x >= x1 THEN y1 ELSE y0
    ELSE LET t == Clamp(x, x0, x1) IN y0 + ((y1 - y0) * (t - x0)) \div (x1 - x0)

\* tier_for: the last one that is reached, or else the first.
Tier(equity) ==
    Risk.tiers[Max({1} \cup {i \in DOMAIN Risk.tiers : Risk.tiers[i].minEquity <= equity})]
MaxOpen(equity) ==
    IF Tier(equity).maxOpen # None THEN Tier(equity).maxOpen ELSE Risk.profile.maxOpen

Confidence(score) == Interpolated(score, Risk.confidenceMin, Risk.confidenceMultiplier,
                                  Risk.confidenceFull, 100)
Setback(drawdown) == Interpolated(drawdown, Risk.drawdownStart, 100,
                                  Risk.drawdownFull, Risk.drawdownFloor)
Streak(account) ==
    LET Bounded(n) == Clamp(n, Risk.streakMin, Risk.streakMax)
        run == Bounded(100 - Risk.lossStep * account.losses + Risk.winStep * account.wins)
    IN  Bounded(IF account.losing THEN (run * Risk.losingMultiplier) \div 100 ELSE run)
Slippage(rt) ==
    Interpolated(IF rt = None THEN 0 ELSE rt.entryBps + OrZero(rt.exitBps),
                 Risk.slippageStart, 100, Risk.slippageFull, Risk.slippageFloor)

Portion(amount, percent) == (amount * percent) \div 100

\* The caps, none of which the amount may exceed.
Caps(account, liquidity) ==
    LET exposure == Smaller(Risk.profile.exposure, Risk.hard.exposure)
    IN  {Portion(account.equity, Risk.profile.most), Portion(account.equity, Risk.hard.single),
         Portion(account.equity, exposure) - account.exposure, Risk.hard.max, account.cash}
        \cup (IF liquidity = None THEN {} ELSE {Portion(liquidity, Risk.hard.pool)})

\* RiskEngine.size
Size(account, open, score, liquidity, rt) ==
    LET base == Portion(Portion(account.equity, Risk.profile.base), Tier(account.equity).multiplier)
        judged == Portion(Portion(base, Confidence(score)), Setback(account.drawdown))
        wanted == Portion(Portion(judged, Streak(account)), Slippage(rt))
        amount == Min({wanted} \cup Caps(account, liquidity))
    IN  IF account.equity <= 0 THEN 0
        ELSE IF open >= MaxOpen(account.equity) \/ amount < Risk.hard.min THEN 0
        ELSE amount

----------------------------------------------------------------------------
(* Exits *)

NoMonitor == [staleSince |-> None, window |-> <<>>, peakVelocity |-> 0, lastSignal |-> None]

Multiple(position) == IF position.cost > 0 THEN Percent(position.peak, position.cost) ELSE 100
Gain(position) ==
    IF position.cost > 0 THEN Percent(position.value - position.cost, position.cost) ELSE 0
BelowPeak(position) ==
    IF position.peak > 0 THEN Percent(position.peak - position.value, position.peak) ELSE 0

\* AdaptiveTrailing.threshold; widen is the factor its volatility reading gives.
Threshold(position, f, at, widen) ==
    LET t == Exit.trailing
        tiers == SelectSeq(t.tiers, LAMBDA tier : Multiple(position) >= tier.multiple)
        base == (IF tiers = <<>> THEN t.tiers[1] ELSE Last(tiers)).drawdown
        lowLiquidity == f # None /\ f.liquidity # None /\ f.liquidity < t.lowLiquidity
        falling == f # None /\ f.momentum30 # None /\ f.momentum30 < t.momentumBelow
        long == at - position.opened > t.longAfter
        tight == Portion(Portion(base, widen), IF lowLiquidity THEN t.liquidityTighten ELSE 100)
        tighter == Portion(tight, IF falling THEN t.momentumTighten ELSE 100)
    IN  Clamp(Portion(tighter, IF long THEN t.longTighten ELSE 100), t.min, t.max)

Widenings(f) == IF f # None /\ f.volatile THEN {100, Exit.trailing.widen} ELSE {100}

Reasons == <<"DATA_STALE", "SPIKE", "SPREAD", "LIQUIDITY_COLLAPSE", "MAX_LOSS",
             "TRAILING_PEAK", "MOMENTUM", "VOLUME_COLLAPSE", "TIMEOUT">>
ASSUME ReasonAssumption == \A i \in DOMAIN Reasons : Reasons[i] # None

Blind(f) == f # None /\ f.stale

\* Mutant: every look at a blind position starts the wait again.
StaleSinceNow(mon, f, at) == IF Blind(f) THEN at ELSE None

StaleSince(mon, f, at) ==
    IF ~Blind(f) THEN None ELSE IF mon.staleSince = None THEN at ELSE mon.staleSince

\* _push_liquidity
LiquidityWindow(mon, liquidity, at) ==
    SelectSeq(Append(mon.window, [at |-> at, usd |-> liquidity]),
              LAMBDA x : at - x.at <= Exit.liquidityWindow)

\* The rules, in the order in which they are tried.
Rules(position, mon, track, f, at, widen) ==
    LET since == StaleSince(mon, f, at)
        spread == Latest(track, "spread")
        liquidity == Latest(track, "liquidity")
        peak == Max({x.usd : x \in ToSet(LiquidityWindow(mon, liquidity, at))})
        velocity == Larger(mon.peakVelocity, f.velocity)
        held == at - position.opened
    IN  <<since # None /\ at - since >= Exit.staleAfter,
          f # None /\ f.momentum10 # None /\ f.momentum10 >= Exit.spike,
          spread # None /\ spread >= Exit.spreadBps,
          liquidity # None /\ peak > 0 /\ Percent(peak - liquidity, peak) >= Exit.liquidityDrop,
          Gain(position) <= -Exit.maxLoss,
          /\ held >= Exit.minHolding
          /\ Multiple(position) - 100 >= Exit.trailing.activate
          /\ BelowPeak(position) >= Threshold(position, f, at, widen),
          /\ f # None /\ f.momentum30 # None /\ f.momentum30 <= Exit.momentumDrop
          /\ Multiple(position) - 100 >= Exit.priorGain,
          /\ f # None /\ f.velocity # None
          /\ held >= Exit.volumeHolding /\ velocity > 0
          /\ Percent(f.velocity, velocity) <= Exit.volumeRatio,
          held >= Exit.maxHolding>>

\* ExitEngine.evaluate: the first rule that holds, and what was noted on the way to it.
Judged(position, mon, track, f, at, widen) ==
    LET rules == Rules(position, mon, track, f, at, widen)
        first == Min({Len(rules) + 1} \cup {i \in DOMAIN rules : rules[i]})
        liquidity == Latest(track, "liquidity")
        velocity == IF f = None THEN None ELSE f.velocity
    IN  [reason |-> IF first > Len(rules) THEN None ELSE Reasons[first],
         mon |-> [mon EXCEPT
            !.staleSince = StaleSince(mon, f, at),
            !.window = IF first <= 3 \/ liquidity = None THEN @
                       ELSE LiquidityWindow(mon, liquidity, at),
            !.peakVelocity = IF first <= 7 \/ velocity = None THEN @ ELSE Larger(@, velocity)]]

\* PositionMonitor.evaluate: no second signal within the cooldown.
Cooling(mon, at) == mon.lastSignal # None /\ at - mon.lastSignal < Exit.cooldown

Watched(position, mon, track, f, at, widen) ==
    LET j == Judged(position, mon, track, f, at, widen)
    IN  IF j.reason = None \/ Cooling(mon, at) THEN [reason |-> None, mon |-> j.mon]
        ELSE [reason |-> j.reason, mon |-> [j.mon EXCEPT !.lastSignal = at]]

=============================================================================
