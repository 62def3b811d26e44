------------------------------- MODULE Token -------------------------------
(***************************************************************************)
(* One token from the first data to the closed position, as the engine     *)
(* (app/engine.py) sees it through the token's memory (Tracker) and        *)
(* decides about it (Decision), with the outcome window that measures what *)
(* became of it (strategy/outcomes.py).                                    *)
(*                                                                         *)
(* Engine models the same life for several tokens and abstracts the data;  *)
(* here the data decide.  Time is a grid of Step seconds: the engine looks *)
(* at the token once per point of it, after at most one arrival from a     *)
(* provider.  Quotes, confirmations and restarts come at any time.         *)
(***************************************************************************)
EXTENDS Decision, Payloads

CONSTANTS
    Step,          \* seconds between two looks
    MaxTime,       \* bound: the clock stops here
    MaxArrivals,   \* bound: arrivals from providers, at most one between two looks
    MaxSetBacks,   \* bound: how often the wall clock is set back before a position is open
    MaxRestarts,   \* bound
    MaxAge,        \* discovery.max_token_age_s
    Horizon,       \* outcomes.horizon_s
    Mint,          \* the token
    Creations,     \* PumpPortal's announcements of it
    PoolItems,     \* its pools in GeckoTerminal's list of new pools
    PairLists,     \* DexScreener's answers about it
    TradeMessages, \* trades the stream may deliver, again and again
    MintAccounts,  \* its mint account, as the chain may answer
    HolderLists,   \* its largest accounts
    PoolAccounts,  \* those of them that are pools
    RoundTrips,    \* Jupiter's answers to a round-trip request
    QuoteErrors,   \* and what else may become of one
    ExitShares,    \* what an exit quote pays, in percent of the displayed value
    StartAccount,  \* the portfolio as the risk engine sees it when the token is discovered
    AccountsThen   \* and what the fills of other tokens may make of it

ASSUME TokenAssumption ==
    /\ {Step, MaxTime, Horizon} \subseteq Nat \ {0}
    /\ {MaxArrivals, MaxSetBacks, MaxRestarts, MaxAge} \subseteq Nat

\* What is read of an answer as a number is a number, or None.
Number == Int \cup {None}
ASSUME PayloadAssumption ==
    /\ None \notin Int
    /\ \A pairs \in PairLists :
           /\ pairs \in Seq(ToSet(pairs))
           /\ \A i \in DOMAIN pairs : {pairs[i].price, pairs[i].liquidity} \subseteq Number
    /\ \A msg \in TradeMessages : {msg.sol, msg.tokens, msg.vSol, msg.vTokens} \subseteq Number
    /\ \A answer \in RoundTrips : answer.buy.impact \in Number
    /\ {PriceUnit, PumpReserve} \subseteq Int /\ SolUsd \in Number

\* What the risk engine may see of the portfolio.
Portfolios == {StartAccount} \cup AccountsThen
ASSUME AccountAssumption ==
    \A a \in Portfolios : {a.equity, a.cash, a.exposure, a.open} \subseteq Int

VARIABLES
    now,
    fed,        \* a provider has delivered since the last look
    arrivals,   \* counts towards MaxArrivals
    track,      \* TokenTrack
    cand,       \* Candidate
    account,
    position,   \* the open position, or None
    mon,        \* MonitorState
    exitQuote,
    outcome,    \* OutcomeState, or None
    measured,   \* the outcome window was opened: a token is measured once per process
    heard,      \* ghost: what outcomes.observe was given, in order
    startedAt,  \* when the process started
    setBacks, restarts

window == <<outcome, measured, heard>>
feed == <<fed, arrivals>>
market == <<feed, track, window>>
holding == <<position, mon, exitQuote>>
world == <<account, startedAt, setBacks, restarts>>
tokenVars == <<now, market, cand, holding, world>>

\* What may arrive, once parsed.  The token is created at 0.
Sightings == {t \in Known({ParseNewToken(m, 0) : m \in Creations}
                          \cup {ParsePool(item) : item \in PoolItems}) : t.mint = Mint}
Reports == Known({BestPair(pairs, Mint) : pairs \in PairLists})
Trades == Known({ParseTrade(msg) : msg \in TradeMessages})
Authorities == Known({ParseMintAccount(a) : a \in MintAccounts})
Distributions(supply) ==
    Known({ParseLargestAccounts(accounts, supply, PoolAccounts) : accounts \in HolderLists})
Pools == Known({ParseRoundTrip(answer) : answer \in RoundTrips})

NewCandidate(phase) ==
    [phase |-> phase, staleSince |-> None, cooldownUntil |-> 0, nextQuoteAt |-> 0,
     latchUntil |-> None, attempts |-> 0, quoting |-> None, failures |-> 0,
     roundTrip |-> None, signal |-> None, sell |-> None]

TokenInit ==
    /\ now = 0 /\ fed = FALSE /\ arrivals = 0 /\ startedAt = 0 /\ setBacks = 0 /\ restarts = 0
    /\ \E token \in Sightings : track = NewTrack(token)
    /\ cand = NewCandidate("DISCOVERED")
    /\ account = StartAccount
    /\ position = None /\ mon = NoMonitor /\ exitQuote = None
    /\ outcome = None /\ measured = FALSE /\ heard = <<>>

Terminal == {"REJECTED", "EXPIRED", "CLOSED"}
Pursued == {"MONITORING", "QUALIFIED"}

----------------------------------------------------------------------------
(* The outcome window *)

Opened(snap) ==
    [first |-> snap.price, max |-> snap.price, afterMax |-> snap.price, last |-> snap.price,
     maxLiquidity |-> snap.liquidity, afterMaxLiquidity |-> snap.liquidity,
     ends |-> now + Horizon, qualified |-> None, afterQualified |-> 0]

Priced(snap) == snap.price # None /\ snap.price > 0
Measures(snap) == outcome # None /\ Priced(snap) /\ snap.at <= outcome.ends

\* Mutant: a new peak keeps the low that came before it.
ObservedOldLow(o, snap) ==
    [o EXCEPT !.last = snap.price, !.max = Larger(@, snap.price),
              !.afterMax = Smaller(@, snap.price),
              !.afterQualified = IF o.qualified = None THEN @ ELSE Larger(@, snap.price)]

\* OutcomeTracker.observe: the price since the peak is measured again from each new peak.
Observed(o, snap) ==
    LET peak == snap.price > o.max
        usd == snap.liquidity
        deepest == usd # None /\ (o.maxLiquidity = None \/ usd > o.maxLiquidity)
    IN  [o EXCEPT
            !.last = snap.price,
            !.max = Larger(@, snap.price),
            !.afterMax = IF peak THEN snap.price ELSE Smaller(@, snap.price),
            !.afterQualified = IF o.qualified = None THEN @ ELSE Larger(@, snap.price),
            !.maxLiquidity = IF deepest THEN usd ELSE @,
            !.afterMaxLiquidity = IF deepest THEN usd
                                  ELSE IF usd = None THEN @
                                  ELSE IF @ = None THEN usd ELSE Smaller(@, usd)]

\* on_snapshot: measured first, then remembered; an accepted one may open the window.
Delivered(snap) ==
    LET opens == ~measured /\ Accepts(track, snap) /\ Priced(snap)
    IN  /\ measured' = (measured \/ opens)
        /\ heard' = IF opens \/ Measures(snap) THEN Append(heard, snap) ELSE heard
        /\ outcome' = IF opens THEN Opened(snap)
                      ELSE IF Measures(snap) THEN Observed(outcome, snap)
                      ELSE outcome

NoteQualified(price) ==
    IF outcome = None THEN outcome
    ELSE IF outcome.qualified # None \/ price = None THEN outcome
    ELSE IF price <= 0 THEN outcome
    ELSE [outcome EXCEPT !.qualified = [price |-> price, heard |-> Len(heard)],
                         !.afterQualified = price]

\* finalize_due, by the horizon; silence ends a window the same way, only earlier.
Finalize ==
    /\ outcome # None /\ now >= outcome.ends
    /\ outcome' = None /\ heard' = <<>>
    /\ UNCHANGED <<now, feed, track, measured, cand, holding, world>>

----------------------------------------------------------------------------
(* Arrivals *)

Arrives ==
    /\ ~fed /\ fed' = TRUE
    /\ arrivals < MaxArrivals /\ arrivals' = arrivals + 1

Snapshot(report) ==
    LET snap == [report EXCEPT !.at = now]
    IN  /\ Arrives
        /\ track' = AddSnapshot(track, snap)
        /\ Delivered(snap)
        /\ UNCHANGED <<now, cand, holding, world>>

\* PumpPortalMarketData._on_trade: a trade also says what the price is, even one that was
\* already counted.
Traded(trade) ==
    LET t == [trade EXCEPT !.at = now]
        seen == AddTrade(track, t)
    IN  /\ Arrives
        /\ IF t.price = None THEN track' = seen /\ UNCHANGED window
           ELSE track' = AddSnapshot(seen, Streamed(t)) /\ Delivered(Streamed(t))
        /\ UNCHANGED <<now, cand, holding, world>>

\* on_token of a token that is already a candidate.
Rediscovered(other) ==
    /\ Arrives
    /\ track' = MergeToken(track, other) /\ track' # track
    /\ UNCHANGED <<now, cand, holding, window, world>>

MetadataArrives(authorities) ==
    /\ track.authorities = None /\ cand.phase \notin Terminal \cup {"DISCOVERED"}
    /\ Arrives
    /\ track' = [track EXCEPT !.authorities = authorities]
    /\ UNCHANGED <<now, cand, holding, window, world>>

HoldersArrive ==
    /\ track.authorities # None /\ track.holders = None /\ cand.phase \notin Terminal
    /\ Arrives
    /\ \E distribution \in Distributions(track.authorities.supply) :
         track' = AddHolders(track, distribution, now)
    /\ UNCHANGED <<now, cand, holding, window, world>>

\* The wall clock (domain/clock.py) is set back.
ClockSetBack ==
    /\ setBacks < MaxSetBacks /\ position = None /\ now > 0
    /\ setBacks' = setBacks + 1 /\ now' = now - Step /\ fed' = FALSE
    /\ UNCHANGED <<arrivals, track, window, cand, holding, account, startedAt, restarts>>

\* Another token's fill is booked, at any time before this one is bought.
AccountChanges ==
    /\ position = None
    /\ account' \in AccountsThen \ {account}
    /\ UNCHANGED <<now, market, cand, holding, startedAt, setBacks, restarts>>

----------------------------------------------------------------------------
(* The candidate *)

Decimals == IF track.token.decimals # None THEN track.token.decimals
            ELSE IF track.authorities # None THEN track.authorities.decimals ELSE None

Retire(c, phase) == [c EXCEPT !.phase = phase, !.latchUntil = None]

Abandon(c) ==
    [c EXCEPT !.latchUntil = None, !.nextQuoteAt = now + Quotes.refresh,
              !.cooldownUntil = now + Entry.abandonCooldown,
              !.phase = IF @ = "QUALIFIED" THEN "MONITORING" ELSE @]

OpenAttempt(c) ==
    [c EXCEPT !.phase = "QUALIFIED", !.latchUntil = now + Entry.latch, !.attempts = @ + 1]

View(c) == Features(track, now, IF c.roundTrip = None THEN None ELSE c.roundTrip.entryBps)

\* _size
Sized(c, f, score) ==
    Size(account, account.open + (IF cand.signal = None THEN 0 ELSE 1), score, f.liquidity,
         c.roundTrip)

\* A round trip is as old as the moment it was asked for.
Asked(spend) == [spend |-> spend, at |-> now]

\* _maybe_signal: ask for a quote of the sized amount.
Ask(c, f, score) ==
    IF c.quoting # None \/ now < c.nextQuoteAt THEN c
    ELSE IF Decimals = None THEN [c EXCEPT !.nextQuoteAt = now + 1]
    ELSE IF Sized(c, f, score) = 0 THEN Abandon(c)
    ELSE [c EXCEPT !.quoting = Asked(Sized(c, f, score))]

\* The rest of _evaluate, on fresh data.
Judge(c) ==
    LET f == View(c)
        rt == IF IsFresh(c.roundTrip, now) THEN c.roundTrip ELSE None
        checks == Checks(track, f, now, rt)
        score == Score(track, f, checks, rt)
        qualified == Qualified(f, checks, score)
    IN  IF IsFatal(checks) THEN Retire(c, "REJECTED")
        ELSE IF now < c.cooldownUntil THEN c
        ELSE IF c.phase = "MONITORING"
        THEN IF qualified THEN Ask(OpenAttempt(c), f, score) ELSE c
        ELSE IF Latched(f, checks, score) = "abandon" THEN Abandon(c)
        ELSE IF now < c.latchUntil THEN Ask(c, f, score)
        ELSE IF qualified /\ c.attempts < Entry.maxAttempts THEN Ask(OpenAttempt(c), f, score)
        ELSE Abandon(c)

\* The phase a candidate is evaluated in.
Resumed(c) ==
    LET back == \/ c.phase = "DISCOVERED" /\ HasData(track)
                \/ c.phase = "SIGNAL_CANCELLED" /\ now >= c.cooldownUntil
                \/ c.phase = "DATA_STALE" /\ ~IsStale(track, now)
    IN  IF back THEN [c EXCEPT !.phase = "MONITORING", !.staleSince = None] ELSE c

Waits(c) ==
    c.phase = "QUALIFIED" /\ c.quoting # None
        /\ DataAge(track, now) <= StaleAfter + Entry.staleGrace

\* _resolve_buy_cancel
Cancelled(c) ==
    [c EXCEPT !.phase = "SIGNAL_CANCELLED", !.cooldownUntil = now + Entry.cancelCooldown,
              !.signal = None]

TooOld == LET age == Age(track, now) IN age # None /\ age > MaxAge

Pursue(c) ==
    IF TooOld THEN Retire(c, "EXPIRED")
    ELSE IF ~IsStale(track, now) THEN Judge(c)
    ELSE IF Waits(c) THEN c
    ELSE [c EXCEPT !.phase = "DATA_STALE", !.staleSince = now, !.latchUntil = None]

\* _evaluate
Evaluated(c) ==
    CASE c.phase \in Pursued -> Pursue(c)
      [] c.phase = "DISCOVERED" ->
            IF now - startedAt > 3 * StaleAfter THEN Retire(c, "EXPIRED") ELSE c
      [] c.phase = "DATA_STALE" ->
            IF now - c.staleSince > 15 * StaleAfter THEN Retire(c, "EXPIRED") ELSE c
      [] c.phase = "AWAITING_CONFIRMATION" -> IF IsStale(track, now) THEN Cancelled(c) ELSE c
      [] OTHER -> c

Overdue ==
    \/ cand.signal # None /\ now >= cand.signal.expires
    \/ cand.sell # None /\ now >= cand.sell

NextLook ==
    /\ now < MaxTime /\ ~Overdue /\ now' = now + Step
    /\ fed' = FALSE /\ UNCHANGED arrivals

\* _qualify notes the qualification as it opens the attempt: the same look may then size to
\* nothing and fall back to MONITORING.
Evaluate ==
    /\ position = None /\ NextLook
    /\ cand' = Evaluated(Resumed(cand))
    /\ outcome' = IF Resumed(cand).phase = "MONITORING" /\ cand'.attempts > cand.attempts
                  THEN NoteQualified(Latest(track, "price")) ELSE outcome
    /\ UNCHANGED <<track, measured, heard, holding, world>>

----------------------------------------------------------------------------
(* The answer to a round-trip request: _quote_and_signal_inner *)

Done(c) == [c EXCEPT !.quoting = None]

QuoteFails(error) ==
    /\ cand.quoting # None
    /\ LET c == [Done(cand) EXCEPT !.failures = Smaller(3, @ + 1)]
       IN  cand' = IF error = "unavailable" THEN Done(cand)
                   ELSE IF Retryable(error) /\ c.failures < 3
                   THEN [c EXCEPT !.nextQuoteAt = now + 3]
                   ELSE Abandon(c)
    /\ UNCHANGED <<now, market, holding, world>>

\* Too much price impact: ask again for less.
Shrunk(rt) ==
    IF rt.impact <= Risk.hard.impact THEN 0
    ELSE (rt.spend * Smaller(90, Percent(Risk.hard.impact, rt.impact))) \div 100

\* Mutant: the size is not computed again after the quote.
SignalledAsAsked(c, f, score, rt) ==
    [Done(c) EXCEPT !.phase = "AWAITING_CONFIRMATION", !.latchUntil = None,
                    !.signal = [size |-> rt.spend, price |-> f.price,
                                expires |-> now + Entry.ttl]]

\* The position is as large as what was quoted, if that is still right.
Signalled(c, f, score, rt) ==
    LET size == Sized(c, f, score)
    IN  IF size = 0 THEN Abandon(Done(c))
        ELSE IF size * 100 < rt.spend * 98
        THEN [c EXCEPT !.quoting = Asked(size), !.nextQuoteAt = now]
        ELSE [Done(c) EXCEPT !.phase = "AWAITING_CONFIRMATION", !.latchUntil = None,
                             !.signal = [size |-> rt.spend, price |-> f.price,
                                         expires |-> now + Entry.ttl]]

Answered(c, rt) ==
    LET f == View(c)
        checks == Checks(track, f, now, rt)
        score == Score(track, f, checks, rt)
    IN  IF c.phase # "QUALIFIED" THEN Done(c)
        ELSE IF ~rt.viable \/ IsStale(track, now) THEN Abandon(Done(c))
        ELSE IF Latched(f, checks, score) = "fatal" THEN Retire(Done(c), "REJECTED")
        ELSE IF Latched(f, checks, score) = "abandon" THEN Abandon(Done(c))
        ELSE Signalled(c, f, score, rt)

QuoteArrives(pool) ==
    LET rt == RoundTrip(cand.quoting.spend, pool, cand.quoting.at)
        c == [cand EXCEPT !.roundTrip = rt, !.failures = 0]
    IN  /\ cand.quoting # None
        /\ cand' = IF Shrunk(rt) >= Risk.hard.min THEN [c EXCEPT !.quoting = Asked(Shrunk(rt))]
                   ELSE Answered(c, rt)
        /\ UNCHANGED <<now, market, holding, world>>

----------------------------------------------------------------------------
(* Orders *)

ConfirmBuy ==
    /\ cand.signal # None /\ ~Overdue
    /\ LET size == cand.signal.size
       IN  position' = [opened |-> now, cost |-> size, price |-> cand.signal.price,
                        value |-> size, peak |-> size]
    /\ cand' = [cand EXCEPT !.phase = "OPEN", !.signal = None]
    /\ UNCHANGED <<now, market, mon, exitQuote, world>>

ConfirmSell ==
    /\ cand.sell # None /\ ~Overdue
    /\ cand' = [cand EXCEPT !.phase = "CLOSED", !.sell = None]
    /\ position' = None /\ mon' = NoMonitor /\ exitQuote' = None
    /\ UNCHANGED <<now, market, world>>

\* Expired, or declined by the user.
WithdrawBuy ==
    /\ cand.signal # None /\ cand' = Cancelled(cand)
    /\ UNCHANGED <<now, market, holding, world>>

WithdrawSell ==
    /\ cand.sell # None /\ cand' = [cand EXCEPT !.phase = "OPEN", !.sell = None]
    /\ UNCHANGED <<now, market, holding, world>>

----------------------------------------------------------------------------
(* The open position *)

Displayed ==
    LET shown == Latest(track, "price")
    IN  IF shown # None \/ track.trades = <<>> THEN shown ELSE Last(track.trades).price

\* PositionMonitor.value: an executable quote first, else the displayed price.
Valued ==
    LET value == IF IsFresh(exitQuote, now) THEN exitQuote.value
                 ELSE IF Displayed = None THEN position.value
                 ELSE (position.cost * Displayed) \div position.price
    IN  [position EXCEPT !.value = value, !.peak = Larger(@, value)]

ExitQuoteArrives(share) ==
    /\ position # None /\ Displayed # None
    /\ exitQuote' = [at |-> now,
                     value |-> (position.cost * Displayed * share) \div (position.price * 100)]
    /\ exitQuote' # exitQuote /\ Arrives
    /\ UNCHANGED <<now, track, window, cand, position, mon, world>>

\* _monitor_position
Monitor ==
    /\ position # None /\ NextLook
    /\ position' = Valued
    /\ IF cand.phase # "OPEN" THEN UNCHANGED <<mon, cand>>
       ELSE LET f == IF HasData(track) THEN Features(track, now, None) ELSE None
            IN  \E widen \in Widenings(f) :
                    LET w == Watched(position', mon, track, f, now, widen)
                    IN  /\ mon' = w.mon
                        /\ cand' = IF w.reason = None THEN cand
                                   ELSE [cand EXCEPT !.phase = "AWAITING_EXIT_CONFIRMATION",
                                                     !.sell = now + Exit.ttl]
    /\ UNCHANGED <<track, window, exitQuote, world>>

\* _restore_positions: the position is all that is left.
Restart ==
    /\ position # None /\ restarts < MaxRestarts
    /\ restarts' = restarts + 1 /\ startedAt' = now
    /\ track' = NewTrack(track.token) /\ fed' = FALSE
    /\ cand' = NewCandidate("OPEN")
    /\ mon' = NoMonitor /\ exitQuote' = None /\ outcome' = None /\ heard' = <<>>
    /\ measured' = FALSE
    /\ UNCHANGED <<now, arrivals, account, position, setBacks>>

----------------------------------------------------------------------------

TokenNext ==
    \/ \E report \in Reports : Snapshot(report)
    \/ \E trade \in Trades : Traded(trade)
    \/ \E other \in Sightings : Rediscovered(other)
    \/ \E authorities \in Authorities : MetadataArrives(authorities)
    \/ HoldersArrive
    \/ ClockSetBack \/ AccountChanges \/ Finalize
    \/ Evaluate \/ Monitor
    \/ \E error \in QuoteErrors : QuoteFails(error)
    \/ \E pool \in Pools : QuoteArrives(pool)
    \/ \E share \in ExitShares : ExitQuoteArrives(share)
    \/ ConfirmBuy \/ ConfirmSell \/ WithdrawBuy \/ WithdrawSell
    \/ Restart

TokenSpec == TokenInit /\ [][TokenNext]_tokenVars

----------------------------------------------------------------------------
(* What must hold *)

\* A decision reads the token's market as it was.  However often the stream delivers a trade
\* again, flow and volume count it once: the remembered signatures outlast the remembered
\* trades (tracker.py:105).  And a window read backwards until the first snapshot that is too
\* old holds every remembered snapshot that is young enough, even after the clock was set back:
\* momentum, drawdown and the liquidity checks are not computed on half a window (tracker.py:160).
MemoryIsFaithful ==
    /\ \A i, j \in DOMAIN track.trades :
           track.trades[i].sig = track.trades[j].sig /\ track.trades[i].sig # None => i = j
    /\ \A seconds \in {30, 60} :
           LET since == SnapshotsSince(track, now, seconds)
               passed == Len(track.snaps) - Len(since)
           IN  \A i \in DOMAIN track.snaps :
                   /\ i > passed <=> now - track.snaps[i].at <= seconds
                   /\ i > passed => since[i - passed] = track.snaps[i]

\* A signal rests on fresh data that passed every check, with a round trip that can be sold
\* again; a fill may come later, but while its data went stale the order is withdrawn at the
\* next look (engine.py:898, 411).
NeverEntersBlind ==
    [][/\ cand.signal = None /\ cand'.signal # None =>
              LET f == View(cand')
              IN  /\ ~IsStale(track, now) /\ cand'.roundTrip.viable
                  /\ With(Checks(track, f, now, cand'.roundTrip), "REJECT") = {}
                  /\ f.observations >= Entry.minObservations
       /\ position = None /\ position' # None => DataAge(track, now) <= StaleAfter + Step]_tokenVars

\* What a signal spends is within every cap of the risk engine as the portfolio and the pool
\* are when it is made, not as they were when the quote was asked for; only the 2 % for which
\* no new quote is asked may be above it (engine.py:940).
SpendsWithinCaps ==
    [][cand.signal = None /\ cand'.signal # None =>
           /\ \A cap \in Caps(account, Latest(track, "liquidity")) :
                  cand'.signal.size * 98 <= cap * 100
           /\ account.open < MaxOpen(account.equity)]_tokenVars

\* A look at an open position whose data stopped coming, after the time data may be missing
\* and the time a blind position is kept, ends with a sell signal.  Looks are not taken while
\* an earlier sell signal is waiting (exit_engine.py:111).  A position whose data never came
\* back after a restart is not among them: no data are not stale data to the exit engine.
LastSeen == Larger(Larger(startedAt, position.opened), OrZero(track.lastData))
Unwatched == IF mon.lastSignal = None THEN 0 ELSE mon.lastSignal + Larger(Exit.ttl, Exit.cooldown)
BlindIsSignalled ==
    [][(/\ position # None /\ HasData(track) /\ now' > now
        /\ now >= Larger(LastSeen + StaleAfter, Unwatched) + Exit.staleAfter + Step)
           => cand'.phase # "OPEN"]_tokenVars

\* A token whose data stopped coming is neither bought nor kept without a word.
NeverBlind == NeverEntersBlind /\ BlindIsSignalled

\* The outcome window says what was observed: the first, last and highest price, the lowest
\* since the first time the highest was reached, the highest since the token qualified, and of
\* the liquidity, where it is reported, the highest and the lowest since then (outcomes.py:179).
OutcomeIsHonest ==
    outcome # None =>
        LET n == Len(heard)
            Prices(from) == {heard[i].price : i \in from .. n}
            peak == Min({i \in 1 .. n : heard[i].price = Max(Prices(1))})
            known == {i \in 1 .. n : heard[i].liquidity # None}
            Depths(from) == {heard[i].liquidity : i \in {k \in known : k >= from}}
            deepest == Min({i \in known : heard[i].liquidity = Max(Depths(1))})
        IN  /\ outcome.first = heard[1].price /\ outcome.last = heard[n].price
            /\ outcome.max = Max(Prices(1)) /\ outcome.afterMax = Min(Prices(peak))
            /\ outcome.qualified # None =>
                   outcome.afterQualified
                       = Max({outcome.qualified.price} \cup Prices(outcome.qualified.heard + 1))
            /\ IF known = {} THEN outcome.maxLiquidity = None
               ELSE /\ outcome.maxLiquidity = Max(Depths(1))
                    /\ outcome.afterMaxLiquidity = Min(Depths(deepest))

=============================================================================
