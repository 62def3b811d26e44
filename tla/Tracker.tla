------------------------------ MODULE Tracker ------------------------------
(***************************************************************************)
(* What the bot remembers of one token and what it reads off that memory:  *)
(* TokenTrack (market_data/tracker.py) with its bounded, ordered,          *)
(* duplicate-free buffers, and the feature vector (features/engine.py).    *)
(*                                                                         *)
(* Times are seconds.  Ratios are percentages rounded down.  A field that  *)
(* is not known is None.  The logarithms of _volatility are left out: what *)
(* is kept is whether there are enough prices for a reading.               *)
(***************************************************************************)
EXTENDS Integers, FiniteSetsExt, SequencesExt

CONSTANTS
    None,
    SnapCap,      \* maxlen of TokenTrack.snapshots
    TradeCap,     \* maxlen of TokenTrack.trades
    SigCap,       \* maxlen of TokenTrack.seen_signatures
    StaleAfter,   \* market_data.stale_after_s
    PeakWindow,   \* FeatureEngine peak_window_s
    AccSamples,   \* entry.acceleration_smoothing_samples
    AccSpacing    \* entry.acceleration_sample_spacing_s

ASSUME TrackerAssumption ==
    /\ {SnapCap, TradeCap, SigCap, AccSamples, AccSpacing} \subseteq Nat \ {0}
    /\ TradeCap <= SigCap
    /\ {StaleAfter, PeakWindow} \subseteq Nat

Larger(a, b) == IF a >= b THEN a ELSE b
Smaller(a, b) == IF a <= b THEN a ELSE b
Percent(part, whole) == (part * 100) \div whole

\* deque(maxlen=cap).append
Pushed(seq, x, cap) == Append(IF Len(seq) < cap THEN seq ELSE Tail(seq), x)

NewTrack(token) ==
    [token |-> token, snaps |-> <<>>, trades |-> <<>>, sigs |-> <<>>, sigSet |-> {},
     traders |-> {}, traderHistory |-> <<>>, holderHistory |-> <<>>, lastData |-> None,
     authorities |-> None, holders |-> None]

\* A second sighting fills what the first one left unknown.
MergeToken(track, other) ==
    LET t == track.token
    IN  [track EXCEPT !.token = [f \in DOMAIN t |-> IF t[f] = None THEN other[f] ELSE t[f]]]

HasData(track) == track.snaps # <<>> \/ track.trades # <<>>

----------------------------------------------------------------------------
(* Arrivals *)

Older(track, snap) == track.snaps # <<>> /\ snap.at < Last(track.snaps).at
Repeats(track, snap) ==
    /\ track.snaps # <<>>
    /\ LET last == Last(track.snaps)
       IN  <<last.source, last.at, last.price>> = <<snap.source, snap.at, snap.price>>

Accepts(track, snap) == ~Older(track, snap) /\ ~Repeats(track, snap)

AddSnapshot(track, snap) ==
    IF Accepts(track, snap)
    THEN [track EXCEPT !.snaps = Pushed(@, snap, SnapCap), !.lastData = snap.at,
                       !.holderHistory = IF snap.holders = None THEN @
                                         ELSE Append(@, [at |-> snap.at, n |-> snap.holders])]
    ELSE track

Counted(track, trade) == trade.sig \in track.sigSet

\* Mutant: room is made although there is room.
RememberLess(track, sig) ==
    IF sig = None THEN track
    ELSE [track EXCEPT
            !.sigs = Pushed(@, sig, SigCap),
            !.sigSet = (IF track.sigs # <<>> THEN @ \ {Head(track.sigs)} ELSE @) \cup {sig}]

\* The signature is remembered before the trade is: the oldest one makes room.
Remember(track, sig) ==
    IF sig = None THEN track
    ELSE [track EXCEPT
            !.sigs = Pushed(@, sig, SigCap),
            !.sigSet = (IF Len(track.sigs) = SigCap THEN @ \ {Head(track.sigs)} ELSE @)
                       \cup {sig}]

AddTrade(track, trade) ==
    IF Counted(track, trade) THEN track
    ELSE LET traders == (track.traders \cup {trade.trader}) \ {None}
         IN  [Remember(track, trade.sig) EXCEPT
                !.trades = Pushed(@, trade, TradeCap),
                !.traders = traders,
                !.traderHistory = Append(@, [at |-> trade.at, n |-> Cardinality(traders)]),
                !.lastData = IF @ = None THEN trade.at ELSE Larger(@, trade.at)]

AddHolders(track, dist, at) ==
    [track EXCEPT !.holders = dist,
                  !.holderHistory = IF dist.count = None THEN @
                                    ELSE Append(@, [at |-> at, n |-> dist.count])]

----------------------------------------------------------------------------
(* Reading *)

Never == 1000000000          \* the age of data that never came

DataAge(track, at) == IF track.lastData = None THEN Never ELSE Larger(0, at - track.lastData)
IsStale(track, at) == DataAge(track, at) > StaleAfter

\* Read backwards from the newest, up to the first one that is too old.
Recent(seq, at, seconds) ==
    LET old == {i \in DOMAIN seq : at - seq[i].at > seconds}
    IN  SubSeq(seq, Max({0} \cup old) + 1, Len(seq))

Volume(seq) == FoldSeq(LAMBDA trade, sum : sum + trade.sol, 0, seq)

TradeWindow(track, at, seconds) ==
    LET recent == Recent(track.trades, at, seconds)
        buys == Cardinality({i \in DOMAIN recent : recent[i].buy})
    IN  [buys |-> buys, sells |-> Len(recent) - buys,
         volume |-> Volume(recent)]

SnapshotsSince(track, at, seconds) == Recent(track.snaps, at, seconds)

\* snapshot_at_or_before, as a place in the buffer; 0 when there is none.
At(track, when) == Max({0} \cup {i \in DOMAIN track.snaps : track.snaps[i].at <= when})

Latest(track, field) == IF track.snaps = <<>> THEN None ELSE Last(track.snaps)[field]

\* _return and _liquidity_return: how much a field changed between two moments.
Change(track, field, at, from, to) ==
    LET i == At(track, at - from)
        j == At(track, at - to)
        start == track.snaps[i][field]
        end == track.snaps[j][field]
    IN  IF \/ i = 0 \/ j = 0 \/ i = j
           \/ start = None \/ end = None \/ start <= 0
           \/ at - track.snaps[i].at > from * 3 + 5
        THEN None
        ELSE Percent(end - start, start)

\* _snapshot_field_growth
FieldGrowth(track, field, at, seconds) ==
    LET i == At(track, at - seconds)
        then == track.snaps[i][field]
        cur == Latest(track, field)
    IN  IF i = 0 \/ i = Len(track.snaps) \/ cur = None \/ then = None THEN None
        ELSE Percent(cur - then, Larger(1, then))

\* _growth: of a history of counts, from the last one at the start of the window.
Growth(history, at, seconds) ==
    LET later == {i \in DOMAIN history : history[i].at > at - seconds}
        i == (IF later = {} THEN Len(history) ELSE Min(later) - 1)
        then == history[Larger(1, i)].n
    IN  IF Len(history) < 2 \/ (i = 0 /\ (at - history[1].at) * 2 < seconds) THEN None
        ELSE Percent(Last(history).n - then, Larger(1, then))

\* The mean of the samples up to the first one there is no history for.
Acceleration(track, at) ==
    LET Raw(k) ==
            LET shift == k * AccSpacing
                now10 == Change(track, "price", at, 10 + shift, shift)
                prev10 == Change(track, "price", at, 20 + shift, 10 + shift)
            IN  IF now10 = None \/ prev10 = None THEN None ELSE now10 - prev10
        missing == {k \in 0 .. AccSamples - 1 : Raw(k) = None}
        n == Min({AccSamples} \cup missing)
    IN  IF n = 0 THEN None ELSE MapThenSumSet(Raw, 0 .. n - 1) \div n

\* How far the price is below the highest one of the window.
Drawdown(track, at) ==
    LET prices == {s.price : s \in ToSet(SnapshotsSince(track, at, PeakWindow))} \ {None}
        price == Latest(track, "price")
    IN  IF prices = {} \/ price = None THEN None
        ELSE IF Max(prices) <= 0 THEN None
        ELSE Percent(Max(prices) - price, Max(prices))

\* _volatility has a reading.
HasVolatility(track, at) ==
    LET recent == SnapshotsSince(track, at, 60)
    IN  Cardinality({i \in DOMAIN recent : recent[i].price # None /\ recent[i].price > 0}) >= 4

OrZero(n) == IF n = None THEN 0 ELSE n

\* Buys and sells of a minute: streamed trades, or else what the pool reports.
Flow(track, at) ==
    LET streamed == TradeWindow(track, at, 60)
        buys == Latest(track, "buys")
        sells == Latest(track, "sells")
    IN  IF track.trades # <<>>
        THEN [velocity |-> streamed.buys + streamed.sells,
              buys |-> streamed.buys, sells |-> streamed.sells]
        ELSE IF buys = None /\ sells = None
        THEN [velocity |-> None, buys |-> 0, sells |-> 0]
        ELSE [velocity |-> (OrZero(buys) + OrZero(sells)) \div 5,
              buys |-> OrZero(buys), sells |-> OrZero(sells)]

BuyRatio(flow) ==
    LET total == flow.buys + flow.sells IN IF total = 0 THEN None ELSE Percent(flow.buys, total)

Age(track, at) ==
    IF track.token.created = None THEN None ELSE Larger(0, at - track.token.created)

TraderGrowth(track, at) ==
    LET streamed == Growth(track.traderHistory, at, 60)
    IN  IF streamed # None THEN streamed ELSE FieldGrowth(track, "traders", at, 60)

\* FeatureEngine.compute: the features that a decision reads.
Features(track, at, entryBps) ==
    LET flow == Flow(track, at)
    IN  [observations |-> Len(track.snaps),
         age |-> Age(track, at),
         price |-> Latest(track, "price"),
         liquidity |-> Latest(track, "liquidity"),
         momentum10 |-> Change(track, "price", at, 10, 0),
         momentum30 |-> Change(track, "price", at, 30, 0),
         momentum60 |-> Change(track, "price", at, 60, 0),
         acceleration |-> Acceleration(track, at),
         liquidityGrowth |-> Change(track, "liquidity", at, 60, 0),
         velocity |-> flow.velocity,
         buyRatio |-> BuyRatio(flow),
         traderGrowth |-> TraderGrowth(track, at),
         holderGrowth |-> Growth(track.holderHistory, at, 120),
         drawdown |-> Drawdown(track, at),
         entryBps |-> entryBps,
         volatile |-> HasVolatility(track, at),
         stale |-> IsStale(track, at)]

=============================================================================
