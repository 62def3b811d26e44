------------------------------- MODULE Engine -------------------------------
(***************************************************************************)
(* The life of candidates in the engine (app/engine.py) under manual or    *)
(* dry-run execution (execution/manual.py): the tick, the quote tasks it   *)
(* spawns, the human's commands, discovery, data going stale, and a crash  *)
(* or stop.                                                                *)
(*                                                                         *)
(* Coroutines interleave only where one of them really suspends: a quote   *)
(* in flight and the commits of a booking.  What lies between two such     *)
(* points is one action.  The tick evaluates candidates only when it has   *)
(* applied every resolution it collected.  Scores, checks, quotes and the  *)
(* clock are nondeterministic; a trade costs Size, or nothing is sized.    *)
(* Of the four rows a booking commits, the two that a restart reads are    *)
(* modelled.                                                               *)
(***************************************************************************)
EXTENDS Integers, FiniteSetsExt

CONSTANTS
    Mints, None,
    MaxSlots,       \* position ids: that of a closed position serves again
    Handlers,       \* coroutines that run the human's commands
    AutoConfirm,    \* dry run: the tick confirms orders by itself
    Size, Fee, InitialCash,
    MaxPending,     \* entry.max_pending_signals
    MaxOpen,        \* risk: max_open_positions
    MaxWindows,     \* entry.max_entry_attempts
    TrackedLimits,  \* values of discovery.max_tracked_tokens to consider
    MaxCrashes      \* bound on crashes and stops

Tick == "tick"
Bookers == Handlers \cup {Tick}
Slots == 1..MaxSlots

ASSUME EngineAssumption ==
    /\ None \notin Mints \cup Slots /\ Tick \notin Handlers
    /\ {MaxSlots, Size, Fee, InitialCash, MaxPending, MaxOpen, MaxWindows, MaxCrashes}
         \subseteq Nat
    /\ TrackedLimits \subseteq Nat
    /\ Size > 0 /\ AutoConfirm \in BOOLEAN

VARIABLES
    \* candidates
    st,         \* mint -> CandidateState, "none" without a candidate
    tracked,    \* mints TokenTracker holds
    fresh,      \* mint -> its data is not stale
    cooling,    \* mint -> cooldown_until lies ahead
    entry,      \* mint -> its latch window: "none", "open", or "over" its time
    windows,    \* mint -> entry_attempts, counted up to MaxWindows
    quote,      \* mint -> its quote task
    posOf,      \* mint -> position_id of the candidate
    \* order book
    order,      \* mint -> its pending order: "none", "buy" or "sell"
    due,        \* mint -> order the tick has confirmed and not yet booked
    \* portfolio and its rows
    open,       \* open positions
    mintOf,     \* slot -> the mint of its position
    cash,
    booking,    \* booker -> the fill whose commits it awaits
    dbOpen, dbCash,
    \* process
    phase, crashes,
    maxTracked  \* discovery.max_tracked_tokens, never changed

candidates == <<st, tracked, fresh, cooling, entry, windows, quote, posOf>>
account == <<open, mintOf, cash>>
db == <<dbOpen, dbCash>>
process == <<phase, crashes, maxTracked>>
vars == <<candidates, order, due, account, booking, db, process>>

----------------------------------------------------------------------------
States == {"none", "DISCOVERED", "MONITORING", "QUALIFIED", "AWAITING_CONFIRMATION", "OPEN",
           "AWAITING_EXIT_CONFIRMATION", "CLOSED", "REJECTED", "EXPIRED", "DATA_STALE",
           "SIGNAL_CANCELLED"}
Terminal == {"CLOSED", "REJECTED", "EXPIRED"}
Evictable == {"DISCOVERED", "MONITORING", "DATA_STALE", "SIGNAL_CANCELLED"}

NoBooking == [kind |-> "none", mint |-> None, slot |-> 0, row |-> FALSE]
Idle(a) == booking[a] = NoBooking
BeingBooked(m) == \E a \in Bookers : booking[a].mint = m
NothingDue == \A m \in Mints : due[m] = "none"
Pending == {m \in Mints : order[m] # "none"}
PendingBuys == {m \in Mints : order[m] = "buy"}

\* Another coroutine runs only while the tick is between two passes or awaits
\* a commit.
Awake == phase = "running" /\ (Idle(Tick) => NothingDue)

TickIdleUnawaited == Awake       \* mutant: the booking runs beside the tick

\* The tick evaluates once everything it collected is applied and committed.
TickIdle == phase = "running" /\ Idle(Tick) /\ NothingDue

Init ==
    /\ st = [m \in Mints |-> "none"] /\ tracked = {}
    /\ fresh = [m \in Mints |-> FALSE] /\ cooling = [m \in Mints |-> FALSE]
    /\ entry = [m \in Mints |-> "none"] /\ windows = [m \in Mints |-> 0]
    /\ quote = [m \in Mints |-> "none"] /\ posOf = [m \in Mints |-> None]
    /\ order = [m \in Mints |-> "none"] /\ due = [m \in Mints |-> "none"]
    /\ open = {} /\ mintOf = [p \in Slots |-> None] /\ cash = InitialCash
    /\ booking = [a \in Bookers |-> NoBooking]
    /\ dbOpen = {} /\ dbCash = InitialCash
    /\ phase = "running" /\ crashes = 0 /\ maxTracked \in TrackedLimits

----------------------------------------------------------------------------
(* Discovery, data and time *)

Forgotten(S) ==
    /\ fresh' = [m \in Mints |-> fresh[m] /\ m \notin S]
    /\ cooling' = [m \in Mints |-> cooling[m] /\ m \notin S]
    /\ windows' = [m \in Mints |-> IF m \in S THEN 0 ELSE windows[m]]
    /\ quote' = [m \in Mints |-> IF m \in S THEN "none" ELSE quote[m]]
    /\ posOf' = [m \in Mints |-> IF m \in S THEN None ELSE posOf[m]]
    /\ entry' = [m \in Mints |-> IF m \in S THEN "none" ELSE entry[m]]

\* on_token: a full tracker makes room by retiring a candidate, which stays
\* tracked until the housekeeping forgets it.
Discover(m) ==
    /\ Awake /\ st[m] = "none"
    /\ \/ /\ Cardinality(tracked) < maxTracked
          /\ st' = [st EXCEPT ![m] = "DISCOVERED"]
          /\ UNCHANGED entry
       \/ /\ Cardinality(tracked) >= maxTracked
          /\ \E v \in Mints :
               /\ st[v] \in Evictable
               /\ st' = [st EXCEPT ![m] = "DISCOVERED", ![v] = "EXPIRED"]
               /\ entry' = [entry EXCEPT ![v] = "none"]
    /\ tracked' = tracked \cup {m}
    /\ UNCHANGED <<fresh, cooling, windows, quote, posOf, order, due, account, booking, db,
                   process>>

Data(m, f) ==
    /\ Awake /\ m \in tracked /\ fresh[m] # f
    /\ fresh' = [fresh EXCEPT ![m] = f]
    /\ UNCHANGED <<st, tracked, cooling, entry, windows, quote, posOf, order, due, account,
                   booking, db, process>>
Snapshot(m) == Data(m, TRUE)
GoStale(m) == Data(m, FALSE)

\* A cooldown is seconds and a booking a few commits: none outlasts the other.
Cool(m) ==
    /\ Awake /\ cooling[m] /\ ~BeingBooked(m)
    /\ cooling' = [cooling EXCEPT ![m] = FALSE]
    /\ UNCHANGED <<st, tracked, fresh, entry, windows, quote, posOf, order, due, account,
                   booking, db, process>>

LatchElapses(m) ==
    /\ Awake /\ entry[m] = "open"
    /\ entry' = [entry EXCEPT ![m] = "over"]
    /\ UNCHANGED <<st, tracked, fresh, cooling, windows, quote, posOf, order, due, account,
                   booking, db, process>>

\* _housekeeping, a minute or more after the candidate ended.
Forget(m) ==
    /\ TickIdle /\ st[m] \in Terminal /\ ~BeingBooked(m)
    /\ st' = [st EXCEPT ![m] = "none"]
    /\ tracked' = tracked \ {m}
    /\ Forgotten({m})
    /\ UNCHANGED <<order, due, account, booking, db, process>>

----------------------------------------------------------------------------
(* Latch windows and quote tasks.  A quote task is "queued" until it has   *)
(* the semaphore; then it has captured the window of its candidate         *)
(* ("held") or found none ("bare").                                        *)

Unevaluated == <<tracked, fresh, posOf, order, due, account, booking, db, process>>

CloseWindow(m) == entry' = [entry EXCEPT ![m] = "none"]
OneMore(m) == IF windows[m] < MaxWindows THEN windows[m] + 1 ELSE windows[m]
CountWindow(m) == windows' = [windows EXCEPT ![m] = OneMore(m)]
OpenWindow(m) == entry' = [entry EXCEPT ![m] = "open"] /\ CountWindow(m)

\* _abandon: back to MONITORING if latched, with a cooldown.
Abandon(m) ==
    /\ CloseWindow(m)
    /\ cooling' = [cooling EXCEPT ![m] = TRUE]
    /\ st' = IF st[m] = "QUALIFIED" THEN [st EXCEPT ![m] = "MONITORING"] ELSE st

\* _retire and the loss of data: no cooldown.
Leave(m, state) ==
    /\ CloseWindow(m)
    /\ st' = [st EXCEPT ![m] = state]
    /\ UNCHANGED cooling

\* RiskEngine.size may be zero for many reasons, and is zero for these two.
CanSize == Cardinality(open) + Cardinality(PendingBuys) < MaxOpen /\ Size <= cash

\* _maybe_signal spawns a quote task.
MayQuote(m) == quote[m] = "none" /\ Cardinality(Pending) < MaxPending
Quoted(m) == MayQuote(m) /\ CanSize /\ quote' = [quote EXCEPT ![m] = "queued"]

RenewableAlways(m) == TRUE       \* mutant: another window as long as it qualifies
Renewable(m) == windows[m] < MaxWindows

\* The part of _evaluate that brings a candidate back to MONITORING.
Monitorable(m) ==
    \/ st[m] = "MONITORING"
    \/ st[m] \in {"DISCOVERED", "DATA_STALE"} /\ fresh[m]
    \/ st[m] = "SIGNAL_CANCELLED" /\ ~cooling[m]

Resume(m) ==
    /\ TickIdle /\ Monitorable(m) /\ st[m] # "MONITORING"
    /\ st' = [st EXCEPT ![m] = "MONITORING"]
    /\ UNCHANGED <<Unevaluated, cooling, entry, windows, quote>>

\* No data after discovery, stale too long, or too old a token.
Expire(m) ==
    /\ TickIdle
    /\ \/ st[m] \in {"DISCOVERED", "DATA_STALE"} /\ ~fresh[m]
       \/ Monitorable(m) \/ st[m] = "QUALIFIED"
    /\ Leave(m, "EXPIRED")
    /\ UNCHANGED <<Unevaluated, windows, quote>>

\* A latched candidate with a quote in flight has some grace.
LoseData(m) ==
    /\ TickIdle /\ ~fresh[m] /\ (Monitorable(m) \/ st[m] = "QUALIFIED")
    /\ Leave(m, "DATA_STALE")
    /\ UNCHANGED <<Unevaluated, windows, quote>>

Reject(m) ==
    /\ TickIdle /\ fresh[m] /\ (Monitorable(m) \/ st[m] = "QUALIFIED")
    /\ Leave(m, "REJECTED")
    /\ UNCHANGED <<Unevaluated, windows, quote>>

\* _qualify, and _maybe_signal in the same evaluation: left for later, quoted,
\* or sized to zero and back to MONITORING.
Qualify(m) ==
    /\ TickIdle /\ fresh[m] /\ Monitorable(m) /\ ~cooling[m]
    /\ \/ /\ OpenWindow(m) /\ st' = [st EXCEPT ![m] = "QUALIFIED"]
          /\ UNCHANGED quote \/ Quoted(m)
          /\ UNCHANGED cooling
       \/ /\ MayQuote(m) /\ CountWindow(m) /\ CloseWindow(m)
          /\ st' = [st EXCEPT ![m] = "MONITORING"]
          /\ cooling' = [cooling EXCEPT ![m] = TRUE]
          /\ UNCHANGED quote
    /\ UNCHANGED Unevaluated

Latched(m) == TickIdle /\ st[m] = "QUALIFIED" /\ fresh[m] /\ ~cooling[m]

\* Within its window a latched candidate is quoted, or abandoned on a verdict
\* or a size of zero.
Pursue(m) ==
    /\ Latched(m) /\ entry[m] # "over"
    /\ \/ Quoted(m) /\ UNCHANGED <<st, cooling, entry>>
       \/ Abandon(m) /\ UNCHANGED quote
    /\ UNCHANGED <<Unevaluated, windows>>

\* The window is over: a candidate that qualifies gets another one, up to
\* MaxWindows, and may be quoted or sized to zero at once.
Renew(m) ==
    /\ Latched(m) /\ entry[m] = "over" /\ Renewable(m)
    /\ \/ OpenWindow(m) /\ (UNCHANGED quote \/ Quoted(m)) /\ UNCHANGED <<st, cooling>>
       \/ MayQuote(m) /\ CountWindow(m) /\ Abandon(m) /\ UNCHANGED quote
    /\ UNCHANGED Unevaluated

GiveUp(m) ==
    /\ Latched(m) /\ entry[m] = "over"
    /\ Abandon(m)
    /\ UNCHANGED <<Unevaluated, windows, quote>>

\* The task gets the semaphore and captures cand.entry; so it does when it
\* quotes again with another size.
Capture(m) ==
    /\ Awake /\ quote[m] # "none"
    /\ quote' = [quote EXCEPT ![m] = IF entry[m] = "none" THEN "bare" ELSE "held"]
    /\ UNCHANGED <<Unevaluated, st, cooling, entry, windows>>

Answered(m) == Awake /\ quote[m] \in {"held", "bare"}
TaskEnds(m) == quote' = [quote EXCEPT ![m] = "none"]

\* No answer, to be tried again, or one for a candidate no longer latched.
QuoteDropped(m) ==
    /\ Answered(m) /\ TaskEnds(m)
    /\ UNCHANGED <<Unevaluated, st, cooling, entry, windows>>

\* The last retry failed, whatever the candidate does by now; or the answer
\* is not viable, stale or sized to zero, and the candidate still latched.
QuoteFailed(m) ==
    /\ Answered(m) /\ TaskEnds(m)
    /\ Abandon(m)
    /\ UNCHANGED <<Unevaluated, windows>>

QuoteFatal(m) ==
    /\ Answered(m) /\ TaskEnds(m) /\ st[m] = "QUALIFIED" /\ fresh[m]
    /\ Leave(m, "REJECTED")
    /\ UNCHANGED <<Unevaluated, windows>>

SignallableUnsized(m) ==         \* mutant: the size is not asked for again
    st[m] = "QUALIFIED" /\ fresh[m]

Signallable(m) == st[m] = "QUALIFIED" /\ fresh[m] /\ CanSize

\* submit_buy.  A task that captured no window leaves an open one open.
SignalBuy(m) ==
    /\ Answered(m) /\ TaskEnds(m) /\ Signallable(m)
    /\ st' = [st EXCEPT ![m] = "AWAITING_CONFIRMATION"]
    /\ order' = [order EXCEPT ![m] = "buy"]
    /\ IF quote[m] = "held" THEN CloseWindow(m) ELSE UNCHANGED entry
    /\ UNCHANGED <<tracked, fresh, cooling, windows, posOf, due, account, booking, db, process>>

----------------------------------------------------------------------------
(* Orders and their resolution *)

Unresolved == <<tracked, fresh, entry, windows, quote, db, process>>

\* _resolve_buy_cancel and its counterpart for a SELL, over the orders in S.
Withdrawn(m) ==
    CASE order[m] # "sell" /\ st[m] = "AWAITING_CONFIRMATION" -> "SIGNAL_CANCELLED"
      [] order[m] = "sell" /\ st[m] = "AWAITING_EXIT_CONFIRMATION" -> "OPEN"
      [] OTHER -> st[m]
Withdraw(S) ==
    /\ st' = [m \in Mints |-> IF m \in S THEN Withdrawn(m) ELSE st[m]]
    /\ cooling' = [m \in Mints |-> cooling[m] \/ (m \in S /\ order[m] # "sell")]

\* The orders in S are decided and leave the book.
WithoutKept(S) == order          \* mutant: cancelled without a decision on the order
Without(S) == [m \in Mints |-> IF m \in S THEN "none" ELSE order[m]]

\* _cancel_pending_buy, by the tick or by a confirmation on stale data.  The
\* tick does not look whether the order is still pending.
CancelStale(m) ==
    /\ ~fresh[m] /\ st[m] = "AWAITING_CONFIRMATION"
    /\ TickIdle \/ (Awake /\ order[m] = "buy" /\ \E h \in Handlers : Idle(h))
    /\ Withdraw({m})
    /\ order' = Without({m})
    /\ UNCHANGED <<Unresolved, posOf, due, account, booking>>

\* _monitor_position: an exit rule fires.
SignalSell(m) ==
    /\ TickIdle /\ st[m] = "OPEN" /\ posOf[m] \in open
    /\ st' = [st EXCEPT ![m] = "AWAITING_EXIT_CONFIRMATION"]
    /\ order' = [order EXCEPT ![m] = "sell"]
    /\ UNCHANGED <<Unresolved, cooling, posOf, due, account, booking>>

\* expire_stale and auto_confirm decide; what expired is applied at once, what
\* was confirmed is booked one after the other.
Collect(expired, confirmed) ==
    /\ TickIdle /\ expired \cup confirmed # {}
    /\ expired \cap confirmed = {} /\ expired \cup confirmed \subseteq Pending
    /\ confirmed # {} => AutoConfirm
    /\ Withdraw(expired)
    /\ due' = [m \in Mints |-> IF m \in confirmed THEN order[m] ELSE due[m]]
    /\ order' = Without(expired \cup confirmed)
    /\ UNCHANGED <<Unresolved, posOf, account, booking>>

Affordable == Size + Fee <= cash

Refused(m) == Withdraw({m})

FreeSlots == Slots \ (open \cup dbOpen \cup {booking[a].slot : a \in Bookers})
Booking(kind, m, p) == [kind |-> kind, mint |-> m, slot |-> p, row |-> FALSE]

\* _open_position up to its first commit.
BookBuy(a, m) ==
    \/ /\ Affordable /\ FreeSlots # {}
       /\ LET p == Min(FreeSlots) IN
            /\ open' = open \cup {p}
            /\ mintOf' = [mintOf EXCEPT ![p] = m]
            /\ booking' = [booking EXCEPT ![a] = Booking("buy", m, p)]
       /\ cash' = cash - (Size + Fee)
       /\ UNCHANGED <<st, cooling>>
    \/ ~Affordable /\ Refused(m) /\ UNCHANGED <<account, booking>>

\* _close_position up to its first commit; the swap returns what it cost or,
\* at worst, nothing.
BookSell(a, m) ==
    /\ IF posOf[m] \in open
       THEN /\ open' = open \ {posOf[m]}
            /\ \E proceeds \in {0, Size} : cash' = cash + proceeds
            /\ booking' = [booking EXCEPT ![a] = Booking("sell", m, posOf[m])]
       ELSE UNCHANGED <<open, cash, booking>>
    /\ UNCHANGED <<mintOf, st, cooling>>

\* _apply_resolution of a confirmed order, by the tick.
Apply(m) ==
    /\ phase = "running" /\ Idle(Tick)
    /\ (due[m] = "buy" /\ BookBuy(Tick, m)) \/ (due[m] = "sell" /\ BookSell(Tick, m))
    /\ due' = [due EXCEPT ![m] = "none"]
    /\ UNCHANGED <<Unresolved, posOf, order>>

\* b N, s N: decided and booked by the handler, unless the TTL is over.  The
\* data may have gone stale while it was quoted again.
Confirm(h, m) ==
    /\ Awake /\ Idle(h) /\ order[m] # "none"
    /\ \/ order[m] = "buy" /\ BookBuy(h, m)
       \/ order[m] = "sell" /\ BookSell(h, m)
       \/ Withdraw({m}) /\ UNCHANGED <<account, booking>>
    /\ order' = Without({m})
    /\ UNCHANGED <<Unresolved, posOf, due>>

\* r N, i N.
Decline(h, m) ==
    /\ Awake /\ Idle(h) /\ order[m] # "none"
    /\ Withdraw({m})
    /\ order' = Without({m})
    /\ UNCHANGED <<Unresolved, posOf, due, account, booking>>

\* _persist_fill: the position's row, then the account's.
RowsOnceOpen(b) == dbOpen \cup {b.slot}    \* mutant: a closed position is not saved
RowsAfter(b) == IF b.kind = "buy" THEN dbOpen \cup {b.slot} ELSE dbOpen \ {b.slot}

SavePosition(a) ==
    /\ Awake /\ ~Idle(a) /\ ~booking[a].row
    /\ dbOpen' = RowsAfter(booking[a])
    /\ booking' = [booking EXCEPT ![a].row = TRUE]
    /\ UNCHANGED <<candidates, order, due, account, dbCash, process>>

\* The last commit returns and the candidate learns what became of it.
SaveAccount(a) ==
    /\ Awake /\ ~Idle(a) /\ booking[a].row
    /\ dbCash' = cash
    /\ LET m == booking[a].mint IN
         \/ /\ booking[a].kind = "buy"
            /\ posOf' = [posOf EXCEPT ![m] = booking[a].slot]
            /\ st' = IF st[m] = "AWAITING_CONFIRMATION" THEN [st EXCEPT ![m] = "OPEN"] ELSE st
         \/ /\ booking[a].kind = "sell"
            /\ st' = IF st[m] = "AWAITING_EXIT_CONFIRMATION"
                     THEN [st EXCEPT ![m] = "CLOSED"] ELSE st
            /\ UNCHANGED posOf
    /\ booking' = [booking EXCEPT ![a] = NoBooking]
    /\ UNCHANGED <<tracked, fresh, cooling, entry, windows, quote, order, due, account,
                   dbOpen, process>>

----------------------------------------------------------------------------
(* Crash, stop and restart *)

Die(how) ==
    /\ Awake /\ crashes < MaxCrashes
    /\ crashes' = crashes + 1
    /\ phase' = how
    /\ st' = [m \in Mints |-> "none"] /\ tracked' = {}
    /\ Forgotten(Mints)
    /\ order' = [m \in Mints |-> "none"] /\ due' = [m \in Mints |-> "none"]
    /\ booking' = [a \in Bookers |-> NoBooking]
    /\ UNCHANGED <<account, maxTracked>>

Crash == Die("crashed") /\ UNCHANGED db

\* Runtime.stop cancels the tasks, then saves the account and its open
\* positions.
Stop ==
    /\ Die("stopped")
    /\ dbCash' = cash
    /\ dbOpen' = dbOpen \cup open

\* _restore_account and _restore_positions, which takes one candidate per
\* mint through the states up to OPEN and fails on a second position of it.
Restart ==
    /\ phase \in {"crashed", "stopped"}
    /\ open' = dbOpen /\ cash' = dbCash
    /\ LET Of(m) == {p \in dbOpen : mintOf[p] = m}
       IN  /\ phase' = IF \E m \in Mints : Cardinality(Of(m)) > 1 THEN "failed" ELSE "running"
           /\ st' = [m \in Mints |-> IF Of(m) # {} THEN "OPEN" ELSE "none"]
           /\ posOf' = [m \in Mints |-> IF Of(m) # {} THEN Min(Of(m)) ELSE None]
           /\ tracked' = {m \in Mints : Of(m) # {}}
    /\ mintOf' = [p \in Slots |-> IF p \in dbOpen THEN mintOf[p] ELSE None]
    /\ UNCHANGED <<fresh, cooling, entry, windows, quote, order, due, booking, db, crashes, maxTracked>>

----------------------------------------------------------------------------
World(m) == Discover(m) \/ Snapshot(m) \/ GoStale(m) \/ Cool(m) \/ LatchElapses(m) \/ Forget(m)
Evaluate(m) ==
    \/ Resume(m) \/ Expire(m) \/ LoseData(m) \/ Reject(m)
    \/ Qualify(m) \/ Pursue(m) \/ Renew(m) \/ GiveUp(m)
QuoteTask(m) ==
    Capture(m) \/ QuoteDropped(m) \/ QuoteFailed(m) \/ QuoteFatal(m) \/ SignalBuy(m)
CollectAny == \E expired, confirmed \in SUBSET Pending : Collect(expired, confirmed)
Human == \E h \in Handlers, m \in Mints : Confirm(h, m) \/ Decline(h, m)
Save(a) == SavePosition(a) \/ SaveAccount(a)

Next ==
    \/ \E m \in Mints : World(m) \/ Evaluate(m) \/ QuoteTask(m)
    \/ \E m \in Mints : CancelStale(m) \/ SignalSell(m) \/ Apply(m)
    \/ CollectAny \/ Human \/ (\E a \in Bookers : Save(a))
    \/ Crash \/ Stop \/ Restart

Spec == Init /\ [][Next]_vars

\* Every tick evaluates every candidate, expires every order over its TTL and
\* books what it confirmed; commits return; latch windows run out.
Expiry(m) == \E expired, confirmed \in SUBSET Pending : m \in expired /\ Collect(expired, confirmed)
Fairness ==
    /\ \A m \in Mints :
         WF_vars(LatchElapses(m)) /\ SF_vars(Evaluate(m)) /\ SF_vars(Expiry(m)) /\ WF_vars(Apply(m))
    /\ \A a \in Bookers : WF_vars(Save(a))
FairSpec == Spec /\ Fairness

----------------------------------------------------------------------------
(* Properties *)

\* Every variable ranges over the values the code can store in it.
TypeOK ==
    /\ st \in [Mints -> States] /\ tracked \subseteq Mints
    /\ fresh \in [Mints -> BOOLEAN] /\ cooling \in [Mints -> BOOLEAN]
    /\ entry \in [Mints -> {"none", "open", "over"}] /\ windows \in [Mints -> 0..MaxWindows]
    /\ quote \in [Mints -> {"none", "queued", "held", "bare"}]
    /\ posOf \in [Mints -> Slots \cup {None}]
    /\ order \in [Mints -> {"none", "buy", "sell"}] /\ due \in [Mints -> {"none", "buy", "sell"}]
    /\ open \subseteq Slots /\ mintOf \in [Slots -> Mints \cup {None}] /\ cash \in Nat
    /\ booking \in [Bookers -> [kind : {"none", "buy", "sell"}, mint : Mints \cup {None},
                                slot : Slots \cup {0}, row : BOOLEAN]]
    /\ dbOpen \subseteq Slots /\ dbCash \in Nat
    /\ phase \in {"running", "crashed", "stopped", "failed"} /\ crashes \in 0..MaxCrashes
    /\ maxTracked \in TrackedLimits

\* "tick-by-tick position monitoring" (README): an open position whose fill is
\* not still being committed is the one its candidate is monitored for.
Watched(p) ==
    \/ \E a \in Bookers : booking[a].kind = "buy" /\ booking[a].slot = p
    \/ \E m \in Mints : /\ mintOf[p] = m /\ posOf[m] = p
                        /\ st[m] \in {"OPEN", "AWAITING_EXIT_CONFIRMATION"}
OpenIsWatched == phase = "running" => \A p \in open : Watched(p)

\* "on start the portfolio and open positions are rebuilt from the database":
\* no set of rows a crash or a stop leaves makes the engine fail to start.
CanRestart == phase # "failed"

\* A pending order is the one its candidate waits for, so submit_buy and
\* submit_sell never meet a duplicate, and a SELL is for an open position.
OrderIsOwned ==
    \A m \in Mints :
        /\ order[m] = "buy" => st[m] = "AWAITING_CONFIRMATION"
        /\ order[m] = "sell" => st[m] = "AWAITING_EXIT_CONFIRMATION" /\ posOf[m] \in open

\* The size is asked for again after the quote, so concurrent quote tasks
\* cannot promise more positions than max_open_positions.
ExposureCapped == Cardinality(open) + Cardinality(PendingBuys) <= MaxOpen

\* "No candidate stays latched forever" (README, entry lifecycle), nor waits
\* forever for a confirmation: the window, the TTL, a decision or the booking
\* ends it.
WaitingEnds ==
    \A m \in Mints :
        \A s \in {"QUALIFIED", "AWAITING_CONFIRMATION"} : []<>(st[m] # s)
=============================================================================
