------------------------------- MODULE Market -------------------------------
(***************************************************************************)
(* How a token comes to be watched and stops being watched: the discovery  *)
(* service and its providers (discovery/), the engine's candidates and the *)
(* outcome windows that outlive them, the market-data service with its two *)
(* polling lanes (market_data/service.py), and the shared PumpPortal       *)
(* socket (discovery/pumpportal.py over infra/websocket.py), which has to  *)
(* be told what to stream and forgets it whenever the connection drops.    *)
(*                                                                         *)
(* A coroutine suspends while it waits for a response, for the commit of   *)
(* finished outcomes, and for a task it has spawned to get its turn; what  *)
(* lies between two such points is one action.  Ages, horizons, scores and *)
(* retention times are nondeterministic.                                   *)
(***************************************************************************)
EXTENDS Integers, FiniteSetsExt, SequencesExt

CONSTANTS
    Mints,
    Streamed,       \* mints PumpPortalMarketData.supports
    MaxTracked,     \* discovery.max_tracked_tokens
    MaxFollowed,    \* outcomes.max_followed
    BatchSize,      \* mints in one request
    MaxConcurrent,  \* market_data.max_concurrent_requests
    BufferSize,     \* PumpPortalDiscovery buffer
    FindBounds      \* bounds: how often each mint may be discovered in a run

Lanes == {"all", "priority"}

ASSUME MarketAssumption ==
    /\ IsFiniteSet(Mints) /\ Streamed \subseteq Mints
    /\ {MaxTracked, MaxFollowed, BatchSize, MaxConcurrent, BufferSize} \subseteq Nat
    /\ FindBounds \subseteq [Mints -> Nat]
    /\ BatchSize > 0 /\ MaxConcurrent > 0

VARIABLES
    \* discovery
    seen,       \* DiscoveryService._seen
    buffer,     \* creates that arrived before PumpPortalDiscovery.run
    consuming,  \* PumpPortalDiscovery.run has set its sink
    \* engine
    cand,       \* mint -> "none", "idle" (may be evicted), "busy" or "ended"
    follow,     \* mint -> its outcome window: "none", "open", "saving" or "done"
    unwatching, \* mints whose unwatch is spawned and has not run
    \* market-data service
    tracked,    \* MarketDataService._tracked
    waiting,    \* requests waiting for the semaphore, first come first served
    onWay,      \* requests holding it
    \* socket
    link,       \* "down", "opening" (on_connect has not ended), "up", "broken"
    wire,       \* operations on their way to the server
    server,     \* mints the server streams on this connection
    subscribed, \* PumpPortalClient._subscribed
    \* history
    finds,      \* how often each mint may still be discovered (the bound)
    raced       \* mints whose last candidate came while their unwatch was spawned

discovery == <<seen, buffer, consuming, finds, raced>>
engine == <<cand, follow, unwatching>>
polls == <<waiting, onWay>>
socket == <<link, wire, server>>
vars == <<discovery, engine, tracked, polls, socket, subscribed>>

Held == {m \in Mints : cand[m] # "none"}             \* TokenTracker._tracks
Live == {m \in Mints : cand[m] \in {"idle", "busy"}}
Followed == {m \in Mints : follow[m] = "open"}
PriorityMints == {m \in Mints : cand[m] = "busy"}

\* The tick awaits the commit of the outcomes it has finished.
TickAwaits == \E m \in Mints : follow[m] = "saving"

Init ==
    /\ seen = {} /\ buffer = <<>> /\ consuming = FALSE /\ finds \in FindBounds /\ raced = {}
    /\ cand = [m \in Mints |-> "none"] /\ follow = [m \in Mints |-> "none"] /\ unwatching = {}
    /\ tracked = {} /\ subscribed = {}
    /\ waiting = <<>> /\ onWay = {}
    /\ link = "down" /\ wire = <<>> /\ server = {}

----------------------------------------------------------------------------
(* The socket *)

\* _send: skipped without a connection; what a broken one raises is swallowed.
Sent(op, mints) ==
    IF mints # {} /\ link \in {"opening", "up"} THEN Append(wire, [op |-> op, mints |-> mints])
                                                ELSE wire

Connect ==
    /\ link = "down"
    /\ link' = "opening" /\ wire' = <<>> /\ server' = {}
    /\ UNCHANGED <<discovery, engine, tracked, polls, subscribed>>

\* on_connect ends: the subscription set as it is by then is sent.
Resubscribe ==
    /\ link = "opening"
    /\ link' = "up" /\ wire' = Sent("subscribe", subscribed)
    /\ UNCHANGED <<discovery, engine, tracked, polls, server, subscribed>>

\* The server takes the next operation.
Deliver ==
    /\ wire # <<>> /\ link \in {"opening", "up"}
    /\ wire' = Tail(wire)
    /\ server' = IF Head(wire).op = "subscribe" THEN server \cup Head(wire).mints
                                                ELSE server \ Head(wire).mints
    /\ UNCHANGED <<discovery, engine, tracked, polls, link, subscribed>>

\* The connection is lost; messages() learns of it later and clears connected.
Break ==
    /\ link \in {"opening", "up"}
    /\ link' = "broken" /\ wire' = <<>> /\ server' = {}
    /\ UNCHANGED <<discovery, engine, tracked, polls, subscribed>>

Disconnect ==
    /\ link = "broken" /\ link' = "down"
    /\ UNCHANGED <<discovery, engine, tracked, polls, wire, server, subscribed>>

----------------------------------------------------------------------------
(* Watching *)

\* MarketDataService.watch and subscribe_trades.
Watch(m) ==
    LET new == ({m} \cap Streamed) \ subscribed
    IN  IF m \in tracked THEN UNCHANGED <<tracked, subscribed, wire>>
        ELSE /\ tracked' = tracked \cup {m}
             /\ subscribed' = subscribed \cup new
             /\ wire' = Sent("subscribe", new)

\* Mutant: the server is not told.
UnwatchUnsent(m) ==
    /\ m \in unwatching
    /\ unwatching' = unwatching \ {m}
    /\ tracked' = tracked \ {m} /\ subscribed' = subscribed \ {m}
    /\ UNCHANGED <<discovery, cand, follow, polls, socket>>

\* MarketDataService.unwatch and unsubscribe_trades, as a task of their own.
Unwatch(m) ==
    LET gone == IF m \in tracked THEN {m} \cap Streamed \cap subscribed ELSE {}
    IN  /\ m \in unwatching
        /\ unwatching' = unwatching \ {m}
        /\ tracked' = tracked \ {m}
        /\ subscribed' = subscribed \ gone
        /\ wire' = Sent("unsubscribe", gone)
        /\ UNCHANGED <<discovery, cand, follow, polls, link, server>>

----------------------------------------------------------------------------
(* Discovery *)

Full == Cardinality(Held) >= MaxTracked
Victims == {m \in Mints : cand[m] = "idle"}

\* The watch returns early for a mint that is still watched, and an unwatch
\* that was spawned before runs after it.
Race(m) == raced' = IF m \in unwatching THEN raced \cup {m} ELSE raced \ {m}

\* TradingEngine.on_token, which suspends nowhere: a known candidate is
\* refreshed, a full tracker evicts or skips, and the mint is watched.
OnToken(m) ==
    \/ /\ \/ m \in Held
          \/ Full /\ Victims = {}
       /\ UNCHANGED <<cand, raced, tracked, subscribed, wire>>
    \/ /\ m \notin Held /\ ~Full
       /\ cand' = [cand EXCEPT ![m] = "idle"]
       /\ Watch(m) /\ Race(m)
    \/ /\ m \notin Held /\ Full
       /\ \E v \in Victims : cand' = [cand EXCEPT ![v] = "ended", ![m] = "idle"]
       /\ Watch(m) /\ Race(m)

\* DiscoveryService.handle: records older than dedupe_ttl_s are forgotten when
\* there are many (which shows only of a mint that comes again), and the mint
\* is marked before the sink sees it.
Handle(m) ==
    \E old \in SUBSET {p \in seen : finds[p] > 0} :
       \/ /\ m \in seen \ old /\ seen' = seen \ old
          /\ UNCHANGED <<finds, cand, raced, tracked, subscribed, wire>>
       \/ /\ m \notin seen \ old /\ seen' = (seen \ old) \cup {m}
          /\ finds[m] > 0 /\ finds' = [finds EXCEPT ![m] = @ - 1]
          /\ \/ UNCHANGED <<cand, raced, tracked, subscribed, wire>>  \* too old
             \/ OnToken(m)

NotHandled == UNCHANGED <<seen, finds, cand, raced, tracked, subscribed, wire>>

\* A create message on the socket: forwarded, or buffered before run().
Created(m) ==
    /\ link = "up" /\ m \in Streamed
    /\ IF consuming
         THEN Handle(m) /\ UNCHANGED buffer
         ELSE /\ \A i \in DOMAIN buffer : buffer[i] # m
              /\ buffer' = (IF Len(buffer) = BufferSize THEN Tail(buffer) ELSE buffer) \o <<m>>
              /\ NotHandled
    /\ UNCHANGED <<consuming, follow, unwatching, polls, link, server>>

\* PumpPortalDiscovery.run sets the sink, then empties the buffer.
Flush ==
    /\ ~consuming \/ buffer # <<>>
    /\ consuming' = TRUE
    /\ IF buffer = <<>> THEN NotHandled /\ UNCHANGED buffer
                        ELSE Handle(Head(buffer)) /\ buffer' = Tail(buffer)
    /\ UNCHANGED <<follow, unwatching, polls, link, server>>

\* GeckoTerminalDiscovery.poll and DexScreenerDiscovery.poll: a pool or a
\* promoted token their filters let through.  A failed poll finds nothing.
Found(m) ==
    /\ Handle(m)
    /\ UNCHANGED <<buffer, consuming, follow, unwatching, polls, link, server>>

----------------------------------------------------------------------------
(* The engine's tick *)

\* Evaluation raises a candidate to QUALIFIED and beyond, and lets it fall.
Evaluate(m) ==
    /\ ~TickAwaits /\ m \in Live
    /\ \E s \in {"idle", "busy", "ended"} \ {cand[m]} : cand' = [cand EXCEPT ![m] = s]
    /\ UNCHANGED <<discovery, follow, unwatching, tracked, polls, socket, subscribed>>

\* Mutant: an open outcome window is not asked about.
HousekeepForgetful(m) ==
    /\ ~TickAwaits /\ cand[m] = "ended"
    /\ cand' = [cand EXCEPT ![m] = "none"]
    /\ unwatching' = unwatching \cup {m}
    /\ UNCHANGED <<discovery, follow, tracked, polls, socket, subscribed>>

\* _housekeeping: an ended candidate is dropped when its time is over, and
\* unwatched unless its outcome is still being followed.
Housekeep(m) ==
    /\ ~TickAwaits /\ cand[m] = "ended"
    /\ cand' = [cand EXCEPT ![m] = "none"]
    /\ unwatching' = IF m \in Followed THEN unwatching ELSE unwatching \cup {m}
    /\ UNCHANGED <<discovery, follow, tracked, polls, socket, subscribed>>

\* finalize_due: windows whose horizon has passed or whose data fell silent.
FinalizeDue ==
    /\ ~TickAwaits
    /\ \E S \in SUBSET Followed :
         S # {} /\ follow' = [m \in Mints |-> IF m \in S THEN "saving" ELSE follow[m]]
    /\ UNCHANGED <<discovery, cand, unwatching, tracked, polls, socket, subscribed>>

\* Mutant: the finished mints stay watched.
OutcomesSavedOnly ==
    LET saved == {m \in Mints : follow[m] = "saving"}
    IN  /\ saved # {}
        /\ follow' = [m \in Mints |-> IF m \in saved THEN "done" ELSE follow[m]]
        /\ UNCHANGED <<discovery, cand, unwatching, tracked, polls, socket, subscribed>>

\* ... their rows are committed; mints without a candidate are unwatched.
OutcomesSaved ==
    LET saved == {m \in Mints : follow[m] = "saving"}
    IN  /\ saved # {}
        /\ follow' = [m \in Mints |-> IF m \in saved THEN "done" ELSE follow[m]]
        /\ unwatching' = unwatching \cup (saved \ Held)
        /\ UNCHANGED <<discovery, cand, tracked, polls, socket, subscribed>>

----------------------------------------------------------------------------
(* Market data *)

\* on_snapshot: a priced snapshot of a candidate opens its only window,
\* unless too many are open.
Opens(S) ==
    \E T \in SUBSET {m \in S \cap Held : follow[m] = "none"} :
        /\ Cardinality(T \cup Followed) <= MaxFollowed
        /\ follow' = [m \in Mints |-> IF m \in T THEN "open" ELSE follow[m]]

\* A trade of a streamed mint, and the snapshot derived from it.
Traded(m) ==
    /\ link = "up" /\ m \in server \cap subscribed
    /\ Opens({m})
    /\ UNCHANGED <<discovery, cand, unwatching, tracked, polls, socket, subscribed>>

\* Sequences of the mints in S, those of first before the others.
Ordered(S, first) ==
    {s \in SetToSeqs(S) : \A i, j \in DOMAIN s : s[i] \in first /\ s[j] \notin first => i < j}

Batches(s) ==
    [i \in 1..((Len(s) + BatchSize - 1) \div BatchSize) |->
        {s[k] : k \in {k \in DOMAIN s : (k - 1) \div BatchSize = i - 1}}]

\* The previous pass of a lane has ended: gather has all its batches.
LaneIdle(l) == \A r \in onWay \cup ToSet(waiting) : r[1] # l

\* _poll_once begins: what to fetch, in batches that queue for the semaphore.
Poll(l) ==
    LET universe == IF l = "priority" THEN PriorityMints \cap tracked ELSE tracked
    IN  /\ LaneIdle(l) /\ universe # {}
        /\ \E s \in Ordered(universe, PriorityMints) :
             waiting' = waiting \o [i \in DOMAIN Batches(s) |-> <<l, Batches(s)[i]>>]
        /\ UNCHANGED <<discovery, engine, tracked, onWay, socket, subscribed>>

Request ==
    /\ waiting # <<>> /\ Cardinality(onWay) < MaxConcurrent
    /\ onWay' = onWay \cup {Head(waiting)} /\ waiting' = Tail(waiting)
    /\ UNCHANGED <<discovery, engine, tracked, socket, subscribed>>

\* A response, with a snapshot of some of the mints, or an error that the
\* lane swallows.
Respond(r) ==
    /\ r \in onWay /\ onWay' = onWay \ {r}
    /\ Opens(r[2])
    /\ UNCHANGED <<discovery, cand, unwatching, tracked, waiting, socket, subscribed>>

----------------------------------------------------------------------------
Next ==
    \/ Connect \/ Resubscribe \/ Deliver \/ Break \/ Disconnect
    \/ Flush \/ FinalizeDue \/ OutcomesSaved \/ Request
    \/ \E m \in Mints :
         \/ Created(m) \/ Found(m) \/ Traded(m)
         \/ Evaluate(m) \/ Housekeep(m) \/ Unwatch(m)
    \/ \E l \in Lanes : Poll(l)
    \/ \E r \in onWay : Respond(r)

Spec == Init /\ [][Next]_vars

\* Tasks get their turn, responses and commits come back, the socket is
\* reconnected, windows and retention times pass.
Fairness ==
    /\ WF_vars(Connect) /\ WF_vars(Resubscribe) /\ WF_vars(Deliver) /\ WF_vars(Disconnect)
    /\ WF_vars(FinalizeDue) /\ WF_vars(OutcomesSaved) /\ WF_vars(Request)
    /\ WF_vars(Poll("all")) /\ WF_vars(\E r \in onWay : Respond(r))
    /\ \A m \in Mints : WF_vars(Housekeep(m)) /\ WF_vars(Unwatch(m))

FairSpec == Spec /\ Fairness

----------------------------------------------------------------------------
(* Correctness *)

TypeOK ==
    /\ seen \subseteq Mints /\ raced \subseteq Mints /\ finds \in [Mints -> Nat]
    /\ buffer \in Seq(Mints) /\ consuming \in BOOLEAN
    /\ cand \in [Mints -> {"none", "idle", "busy", "ended"}]
    /\ follow \in [Mints -> {"none", "open", "saving", "done"}]
    /\ unwatching \subseteq Mints /\ tracked \subseteq Mints /\ subscribed \subseteq Streamed
    /\ waiting \in Seq(Lanes \X SUBSET Mints) /\ onWay \subseteq Lanes \X SUBSET Mints
    /\ link \in {"down", "opening", "up", "broken"} /\ server \subseteq Streamed
    /\ wire \in Seq([op : {"subscribe", "unsubscribe"}, mints : SUBSET Streamed])

\* "The market watch is kept alive until measurement ends, then released"
\* (README.md:679-680): a mint whose outcome window is open is watched.
MeasuredIsWatched == Followed \subseteq tracked

\* A mint is evaluated or measured without being watched, or while an unwatch of
\* it is under way, only if it was discovered again between the spawning of the
\* unwatch and its running (engine.py:1417, 1427): not through evictions, windows
\* that outlive their candidate, commits of outcomes or reconnections.
UnwatchedOnlyByRace ==
    \A m \in (Live \cup Followed) \ raced : m \in tracked /\ m \notin unwatching

\* What the server streams: whenever nothing is on its way to it, exactly
\* the supported mints that are watched, after any number of lost
\* connections and of subscriptions made in the middle of a reconnection.
StreamMatches ==
    link = "up" /\ wire = <<>> => server = tracked \cap Streamed

\* Watching ends: a mint without a candidate and without an open window is
\* in the end neither polled nor streamed, or is needed again.
NothingLeaks ==
    \A m \in Mints :
        (m \in tracked /\ m \notin Held \cup Followed) ~>
            \/ m \notin tracked \cup server
            \/ m \in Held \cup Followed
=============================================================================
