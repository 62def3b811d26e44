----------------------------- MODULE Autonomous -----------------------------
(***************************************************************************)
(* The autonomous executor (execution/autonomous.py) on top of the order   *)
(* book it inherits (execution/manual.py), driven by the engine's tick     *)
(* (app/engine.py), its rails (wallet/rails.py) and its operator markers   *)
(* (app/arming.py), with the chain that executes what it broadcasts and    *)
(* the database rows it leaves for recover() after a crash or a stop.      *)
(*                                                                         *)
(* One order is one asyncio task.  A task waits for _send_lock and then    *)
(* runs alone, so its local state is one record, job, whose pc is the      *)
(* await it is at.  Every commit to the database is an action of its own:  *)
(* the process can die between any two of them.  Amounts are lamports; the *)
(* SOL/EUR rate is 1 and token prices are constant, so a swap moves the    *)
(* same number of lamports and token units; market value, which only the   *)
(* loss rail reads, is a nondeterministic verdict.                         *)
(***************************************************************************)
EXTENDS Integers, Sequences, FiniteSetsExt

CONSTANTS
    Buys, Sells,        \* orders the engine may submit, by side
    MintOf,             \* the token each BUY is for
    None,               \* "no order", "no task"
    SizeChoices,        \* what the sizing engine may recommend, in lamports
    MaxTrade, MaxDailySpend, MaxOpenPositions, Reserve,  \* RailsConfig
    ExitsContinueWhenDisarmed,                           \* RailsConfig
    Fee,                \* network fee of one transaction
    InitialWallet, InitialCash,
    WritesMayFail,      \* may a commit fail (Repository._run_batch swallows it)
    MayBeUnbookable,    \* may the deltas of a landed swap be unreadable or refused
    MaxCrashes, MaxCommands   \* bounds on crashes/stops and operator commands

Orders == Buys \cup Sells
Mints == {MintOf[b] : b \in Buys}

ASSUME AutonomousAssumption ==
    /\ Buys \cap Sells = {}
    /\ None \notin Orders
    /\ MintOf \in [Buys -> Mints]
    /\ SizeChoices \subseteq Nat
    /\ {MaxTrade, MaxDailySpend, MaxOpenPositions, Reserve} \subseteq Nat
    /\ {Fee, InitialWallet, InitialCash, MaxCrashes, MaxCommands} \subseteq Nat
    /\ {ExitsContinueWhenDisarmed, WritesMayFail, MayBeUnbookable} \subseteq BOOLEAN

VARIABLES
    \* the chain and the wallet on it
    tx,         \* order -> what became of its transaction
    wallet,     \* the hot wallet's lamports
    tokens,     \* mint -> token units in the hot wallet
    \* marker files under <home>/state
    armed, kill,
    \* database rows, which survive a crash
    row,        \* order -> its execution_intents row
    dbFill,     \* order -> its rows in fills
    dbLedger,   \* order -> its rows in the ledger
    dbPos,      \* BUY -> state of the position its fill opened
    dbCash,     \* account_state.cash
    \* the process
    phase,      \* "down", "recovering" or "running"
    todo,       \* in-flight intents recover() has still to reconcile
    order,      \* order -> its life in the order book
    ask,        \* order -> recommended spend of a BUY
    target,     \* SELL -> the BUY whose position it closes
    amt,        \* order -> intent.in_amount_raw
    launched, tasks,   \* AutonomousExecution._launched and ._tasks
    waiting,    \* FIFO of tasks waiting for _send_lock
    job,        \* the task that holds _send_lock, or None
    finished,   \* _finished: outcomes not yet handed to the tick
    out,        \* resolutions the current tick has collected
    applying,   \* the tick is past auto_confirm and applies `out`
    persist,    \* commits of the booking in progress
    spentBy,    \* BUYs whose spend counts against today's cap
    pos, cash,  \* PortfolioAccount: BUY -> position state, cash
    \* bounds and history
    crashes, commands,
    sends,      \* order -> sendTransaction calls made for it
    lateSends,  \* orders sent since KILL was written, while it stands
    lateBuys,   \* BUYs sent since the markers stopped saying "armed"
    orphaned    \* orders the process stopped tracking while they were on the wire

chain == <<tx, wallet, tokens>>
markers == <<armed, kill>>
db == <<row, dbFill, dbLedger, dbPos, dbCash>>
book == <<order, ask, target, amt, launched, tasks>>
ticker == <<finished, out, applying, persist>>
account == <<pos, cash>>
history == <<sends, lateSends, lateBuys, orphaned>>
vars == <<chain, markers, db, phase, todo, book, waiting, job, ticker, spentBy,
          account, crashes, commands, history>>

----------------------------------------------------------------------------
(* Rows, tasks and outcomes *)

Statuses == {"none", "PREPARED", "BUILT", "SENT", "CONFIRMED", "FAILED",
             "EXPIRED", "ABANDONED"}
TxStates == {"unsent", "pool", "landed", "failed", "expired"}
NoRow == [status |-> "none", sentAt |-> FALSE, fill |-> FALSE]
SentRow == [status |-> "SENT", sentAt |-> TRUE, fill |-> FALSE]
Confirmed(fill) == [status |-> "CONFIRMED", sentAt |-> TRUE, fill |-> fill]
JobSteps == {"balance", "tokens", "quote", "prepare", "build", "saveBuilt",
             "submit", "saveSent", "await", "height", "saveConfirmed",
             "saveUnknown", "abandon"}
Commits == {"fill", "position", "ledger", "account", "intent"}
BookingSteps == <<"fill", "position", "ledger", "account">>
NoBooking == [of |-> None, steps |-> <<>>]

Spend(S) == MapThenSumSet(LAMBDA o : amt[o], S)
Open == {b \in Buys : pos[b] = "open"}
MintFor(o) == IF o \in Buys THEN MintOf[o] ELSE MintOf[target[o]]
Held(o) == tokens[MintFor(o)]
SmallerOf(a, b) == IF a < b THEN a ELSE b

Init ==
    /\ tx = [o \in Orders |-> "unsent"]
    /\ wallet = InitialWallet
    /\ tokens = [m \in Mints |-> 0]
    /\ armed = TRUE /\ kill = FALSE
    /\ row = [o \in Orders |-> NoRow]
    /\ dbFill = [o \in Orders |-> 0] /\ dbLedger = [o \in Orders |-> 0]
    /\ dbPos = [b \in Buys |-> "none"]
    /\ dbCash = InitialCash
    /\ phase = "running" /\ todo = {}
    /\ order = [o \in Orders |-> "free"]
    /\ ask = [o \in Orders |-> 0]
    /\ target = [s \in Sells |-> None]
    /\ amt = [o \in Orders |-> 0]
    /\ launched = {} /\ tasks = {} /\ waiting = <<>> /\ job = None
    /\ finished = <<>> /\ out = <<>> /\ applying = FALSE /\ persist = NoBooking
    /\ spentBy = {}
    /\ pos = [b \in Buys |-> "none"] /\ cash = InitialCash
    /\ crashes = 0 /\ commands = 0
    /\ sends = [o \in Orders |-> 0]
    /\ lateSends = {} /\ lateBuys = {} /\ orphaned = {}

----------------------------------------------------------------------------
(* The order book, as the engine and the operator use it *)

\* A candidate with an order, an unapplied resolution or a position is past
\* QUALIFIED: may_generate_entry is false for its mint.
Engaged(m) ==
    \/ \E b \in Buys : MintOf[b] = m /\ (order[b] = "pending" \/ pos[b] = "open")
    \/ \E i \in DOMAIN out : out[i].o \in Buys /\ MintOf[out[i].o] = m

SubmitBuy(b) ==
    /\ phase = "running" /\ order[b] = "free"
    /\ ~Engaged(MintOf[b])
    /\ \E size \in SizeChoices : size <= cash /\ ask' = [ask EXCEPT ![b] = size]
    /\ order' = [order EXCEPT ![b] = "pending"]
    /\ UNCHANGED <<chain, markers, db, phase, todo, target, amt, launched, tasks, waiting,
                   job, ticker, spentBy, account, crashes, commands, history>>

SubmitSell(s) ==
    /\ phase = "running" /\ order[s] = "free"
    /\ \E b \in Open :
        /\ \A x \in Sells : target[x] = b => order[x] # "pending"
        /\ \A i \in DOMAIN out : out[i].o \in Sells => target[out[i].o] # b
        /\ target' = [target EXCEPT ![s] = b]
    /\ order' = [order EXCEPT ![s] = "pending"]
    /\ UNCHANGED <<chain, markers, db, phase, todo, ask, amt, launched, tasks, waiting,
                   job, ticker, spentBy, account, crashes, commands, history>>

WithdrawUnlaunched(o) ==     \* mutant: expire only what was never launched
    /\ phase = "running" /\ order[o] = "pending" /\ o \notin launched
    /\ order' = [order EXCEPT ![o] = "resolved"]
    /\ UNCHANGED <<chain, markers, db, phase, todo, ask, target, amt, launched, tasks,
                   waiting, job, ticker, spentBy, account, crashes, commands, history>>

\* TTL expiry, a human reject/ignore and a stale-data cancel: every decision
\* but CONFIRM is refused while the order's task exists.
Withdraw(o) ==
    /\ phase = "running" /\ order[o] = "pending" /\ o \notin tasks
    /\ order' = [order EXCEPT ![o] = "resolved"]
    /\ UNCHANGED <<chain, markers, db, phase, todo, ask, target, amt, launched, tasks,
                   waiting, job, ticker, spentBy, account, crashes, commands, history>>

LaunchAgain(o) ==            \* mutant: _launched is not consulted
    /\ phase = "running" /\ out = <<>> /\ persist = NoBooking
    /\ order[o] = "pending"
    /\ launched' = launched \cup {o}
    /\ tasks' = tasks \cup {o}
    /\ waiting' = Append(waiting, o)
    /\ UNCHANGED <<chain, markers, db, phase, todo, order, ask, target, amt, job, ticker,
                   spentBy, account, crashes, commands, history>>

\* The first half of auto_confirm: one task per pending order, once.
Launch(o) ==
    /\ phase = "running" /\ out = <<>> /\ persist = NoBooking
    /\ order[o] = "pending" /\ o \notin launched
    /\ launched' = launched \cup {o}
    /\ tasks' = tasks \cup {o}
    /\ waiting' = Append(waiting, o)
    /\ UNCHANGED <<chain, markers, db, phase, todo, order, ask, target, amt, job, ticker,
                   spentBy, account, crashes, commands, history>>

----------------------------------------------------------------------------
(* One order's task: rails, quote, build, sign, send, confirm *)

NewJobCachedKill(o) ==       \* mutant: KILL is read at start-up only
    [o |-> o, pc |-> "balance", kill |-> FALSE, armed |-> armed, end |-> "none",
     disarm |-> FALSE]

NewJob(o) == [o |-> o, pc |-> "balance", kill |-> kill, armed |-> armed /\ ~kill,
              end |-> "none", disarm |-> FALSE]
Goto(pc) == job' = [job EXCEPT !.pc = pc, !.kill = FALSE, !.armed = FALSE]
Abandon(status, disarm) ==
    job' = [job EXCEPT !.pc = "abandon", !.kill = FALSE, !.armed = FALSE,
                       !.end = status, !.disarm = disarm]
At(pc) == job # None /\ job.pc = pc

\* Repository.persist_now: a failed commit is counted and logged, never raised.
CommitRow(o, r) ==
    \E ok \in {TRUE} \cup {~WritesMayFail} : row' = IF ok THEN [row EXCEPT ![o] = r] ELSE row

Unexecuted == <<chain, markers, phase, todo, order, ask, target, launched, tasks, pos, cash,
                persist, out, applying, crashes, commands, dbFill, dbLedger, dbPos, dbCash>>

\* _send_lock is FIFO; the markers are read before the balance is awaited.
AcquireLock ==
    /\ job = None /\ waiting # <<>>
    /\ job' = NewJob(Head(waiting))
    /\ waiting' = Tail(waiting)
    /\ UNCHANGED <<Unexecuted, row, amt, finished, spentBy, history>>

CachedBalance == InitialWallet   \* mutant: get_balance is cached
Balance == wallet

ClampSpend(o) ==
    LET capped == SmallerOf(SmallerOf(ask[o], MaxTrade), Balance - Reserve)
    IN  IF capped < 0 THEN 0 ELSE capped

BuyAllowedOverCap(spend) ==      \* mutant: the cap ignores the BUY at hand
    /\ ~job.kill /\ job.armed
    /\ spend > 0 /\ spend <= MaxTrade
    /\ Balance - spend >= Reserve
    /\ Spend(spentBy) < MaxDailySpend
    /\ Cardinality(Open) < MaxOpenPositions

BuyAllowed(spend) ==
    /\ ~job.kill /\ job.armed
    /\ spend > 0 /\ spend <= MaxTrade
    /\ Balance - spend >= Reserve
    /\ Spend(spentBy) + spend <= MaxDailySpend
    /\ Cardinality(Open) < MaxOpenPositions

SellAllowed == ~job.kill /\ (job.armed \/ ExitsContinueWhenDisarmed)

\* The balance answers (or the RPC fails) and the rails are evaluated on it.
ReadBalance ==
    /\ At("balance")
    /\ \/ Abandon("ABANDONED", FALSE) /\ UNCHANGED amt
       \/ /\ job.o \in Buys
          /\ \E lossLimitReached \in BOOLEAN :
               LET spend == ClampSpend(job.o) IN
               IF ~lossLimitReached /\ BuyAllowed(spend)
               THEN Goto("quote") /\ amt' = [amt EXCEPT ![job.o] = spend]
               ELSE Abandon("ABANDONED", lossLimitReached /\ ~job.kill) /\ UNCHANGED amt
       \/ /\ job.o \in Sells
          /\ IF SellAllowed THEN Goto("tokens") ELSE Abandon("ABANDONED", FALSE)
          /\ UNCHANGED amt
    /\ UNCHANGED <<Unexecuted, row, waiting, finished, spentBy, history>>

\* A SELL sells whatever the wallet holds of the mint.
ReadTokens ==
    /\ At("tokens")
    /\ \/ Held(job.o) > 0 /\ Goto("quote") /\ amt' = [amt EXCEPT ![job.o] = Held(job.o)]
       \/ Abandon("ABANDONED", FALSE) /\ UNCHANGED amt
    /\ UNCHANGED <<Unexecuted, row, waiting, finished, spentBy, history>>

\* The fresh quote passes drift, slippage, impact and fee caps, or it does not.
FreshQuote ==
    /\ At("quote")
    /\ Goto("prepare") \/ Abandon("ABANDONED", FALSE)
    /\ UNCHANGED <<Unexecuted, row, amt, waiting, finished, spentBy, history>>

SavePrepared ==
    /\ At("prepare")
    /\ CommitRow(job.o, [NoRow EXCEPT !.status = "PREPARED"])
    /\ Goto("build")
    /\ UNCHANGED <<Unexecuted, amt, waiting, finished, spentBy, history>>

BuildUnrecorded ==               \* mutant: signed and sent without a BUILT row
    /\ At("build")
    /\ Goto("submit") \/ Abandon("ABANDONED", FALSE) \/ Abandon("FAILED", FALSE)
    /\ UNCHANGED <<Unexecuted, row, amt, waiting, finished, spentBy, history>>

BuildAndSign ==
    /\ At("build")
    /\ \/ Goto("saveBuilt")
       \/ Abandon("ABANDONED", FALSE)   \* no build, fee over the cap, signing refused
       \/ Abandon("FAILED", FALSE)      \* the simulation failed
    /\ UNCHANGED <<Unexecuted, row, amt, waiting, finished, spentBy, history>>

SaveBuiltLater ==                \* mutant: the BUILT row is queued, not committed
    /\ At("saveBuilt")
    /\ Goto("submit")
    /\ UNCHANGED <<Unexecuted, row, amt, waiting, finished, spentBy, history>>

SaveBuilt ==
    /\ At("saveBuilt")
    /\ CommitRow(job.o, [NoRow EXCEPT !.status = "BUILT"])
    /\ Goto("submit")
    /\ UNCHANGED <<Unexecuted, amt, waiting, finished, spentBy, history>>

SubmitRejected ==                \* mutant: an uncertain send counts as rejected
    /\ At("submit")
    /\ sends' = [sends EXCEPT ![job.o] = @ + 1]
    /\ \/ Goto("saveSent") /\ tx' = [tx EXCEPT ![job.o] = "pool"]
       \/ Abandon("FAILED", FALSE) /\ (UNCHANGED tx \/ tx' = [tx EXCEPT ![job.o] = "pool"])
    /\ lateSends' = IF kill THEN lateSends \cup {job.o} ELSE lateSends
    /\ lateBuys' = IF ~armed /\ job.o \in Buys THEN lateBuys \cup {job.o} ELSE lateBuys
    /\ UNCHANGED <<wallet, tokens, markers, db, phase, todo, book, waiting, ticker, spentBy,
                   account, crashes, commands, orphaned>>

\* Accepted or uncertain: the node has, or may have, the transaction.  A
\* transaction that never arrived behaves as one that expires in the pool.
Submit ==
    /\ At("submit")
    /\ sends' = [sends EXCEPT ![job.o] = @ + 1]
    /\ \/ /\ Goto("saveSent")
          /\ tx' = [tx EXCEPT ![job.o] = "pool"]
          /\ lateSends' = IF kill THEN lateSends \cup {job.o} ELSE lateSends
          /\ lateBuys' = IF ~armed /\ job.o \in Buys THEN lateBuys \cup {job.o} ELSE lateBuys
       \/ /\ Abandon("FAILED", FALSE)
          /\ UNCHANGED <<tx, lateSends, lateBuys>>
    /\ UNCHANGED <<wallet, tokens, markers, db, phase, todo, book, waiting, ticker, spentBy,
                   account, crashes, commands, orphaned>>

SaveSent ==
    /\ At("saveSent")
    /\ CommitRow(job.o, SentRow)
    /\ spentBy' = IF job.o \in Buys THEN spentBy \cup {job.o} ELSE spentBy
    /\ Goto("await")
    /\ UNCHANGED <<Unexecuted, amt, waiting, finished, history>>

AwaitOptimistic ==               \* mutant: an accepted transaction counts as confirmed
    /\ At("await")
    /\ \/ tx[job.o] \in {"pool", "landed"} /\ Goto("saveConfirmed")
       \/ tx[job.o] = "failed" /\ Abandon("FAILED", FALSE)
       \/ tx[job.o] \in {"pool", "expired"} /\ Goto("height")
    /\ UNCHANGED <<Unexecuted, row, amt, waiting, finished, spentBy, history>>

\* One poll of the signature: confirmed, failed, or not found, and then the
\* block height is asked for.  A poll that fails, or that finds the swap
\* processed and no more, changes nothing.
AwaitConfirmation ==
    /\ At("await")
    /\ \/ tx[job.o] = "landed" /\ Goto("saveConfirmed")
       \/ tx[job.o] = "landed" /\ MayBeUnbookable /\ Abandon("FAILED", FALSE)
       \/ tx[job.o] = "failed" /\ Abandon("FAILED", FALSE)
       \/ tx[job.o] \in {"pool", "expired"} /\ Goto("height")
    /\ UNCHANGED <<Unexecuted, row, amt, waiting, finished, spentBy, history>>

\* The height is past the transaction's last, or it is not or cannot be read
\* and the polls go on.  The status is not read again, whatever the chain did
\* with the transaction since: a block not yet confirmed may even hold it.
ReadHeight ==
    /\ At("height")
    /\ Abandon("EXPIRED", FALSE) \/ Goto("await")
    /\ UNCHANGED <<Unexecuted, row, amt, waiting, finished, spentBy, history>>

\* confirm_timeout_s allows so many polls, and no more.
PollsRunOut ==
    /\ At("await")
    /\ Goto("saveUnknown")
    /\ UNCHANGED <<Unexecuted, row, amt, waiting, finished, spentBy, history>>

\* What is given up while it is on the wire is tracked by nobody from now on.
GiveUp == orphaned' = IF tx[job.o] = "pool" THEN orphaned \cup {job.o} ELSE orphaned

Finish(confirmed) ==
    /\ finished' = Append(finished, [o |-> job.o, confirmed |-> confirmed])
    /\ job' = None

SaveConfirmed ==
    /\ At("saveConfirmed")
    /\ CommitRow(job.o, Confirmed(FALSE))
    /\ Finish(TRUE)
    /\ UNCHANGED <<Unexecuted, amt, waiting, spentBy, history>>

\* Outcome unknown: the row stays SENT for recover(), the order is finished.
SaveUnknown ==
    /\ At("saveUnknown")
    /\ CommitRow(job.o, SentRow)
    /\ GiveUp
    /\ Finish(FALSE)
    /\ UNCHANGED <<Unexecuted, amt, waiting, spentBy, sends, lateSends, lateBuys>>

\* The row first, then the disarmed marker when the loss rail tripped.
SaveAbandoned ==
    /\ At("abandon")
    /\ CommitRow(job.o, [NoRow EXCEPT !.status = job.end, !.sentAt = (tx[job.o] # "unsent")])
    /\ armed' = (armed /\ ~job.disarm)
    /\ GiveUp
    /\ Finish(FALSE)
    /\ UNCHANGED <<chain, kill, dbFill, dbLedger, dbPos, dbCash, phase, todo, book, waiting,
                   out, applying, persist, spentBy, account, crashes, commands, sends,
                   lateSends, lateBuys>>

----------------------------------------------------------------------------
(* The tick: collect outcomes, apply resolutions, book, persist *)

Untouched == <<chain, markers, phase, todo, waiting, job, spentBy, crashes, commands, history>>

\* auto_confirm's loop over _finished.  fill_from_swap may refuse a landed
\* swap: the ValueError ends the tick, and what `out` had collected with it.
Collect ==
    /\ phase = "running" /\ ~applying /\ persist = NoBooking /\ finished # <<>>
    /\ LET o == Head(finished).o
           confirmed == Head(finished).confirmed
       IN  /\ tasks' = tasks \ {o}
           /\ \/ /\ out' = Append(out, Head(finished))
                 /\ order' = [order EXCEPT ![o] = "resolved"]
                 /\ IF confirmed THEN CommitRow(o, Confirmed(TRUE))
                                 ELSE UNCHANGED row
              \/ /\ confirmed /\ MayBeUnbookable
                 /\ out' = <<>>
                 /\ UNCHANGED <<order, row>>
    /\ finished' = Tail(finished)
    /\ UNCHANGED <<Untouched, dbFill, dbLedger, dbPos, dbCash, ask, target, amt, launched,
                   applying, persist, account>>

\* PortfolioAccount.open_position and close_position, in memory.
OpenPosition(b) ==
    /\ pos' = [pos EXCEPT ![b] = "open"]
    /\ cash' = cash - (amt[b] + Fee)
Affordable(b) == amt[b] + Fee <= cash
Proceeds(s) == IF amt[s] > Fee THEN amt[s] - Fee ELSE 0
ClosePosition(s) ==
    /\ pos' = [pos EXCEPT ![target[s]] = "closed"]
    /\ cash' = cash + Proceeds(s)
Bookable(o) == IF o \in Buys THEN Affordable(o) ELSE pos[target[o]] = "open"
Book(o) == IF o \in Buys THEN OpenPosition(o) ELSE ClosePosition(o)

\* _apply_resolution: a fill the account refuses is reported and dropped.
Apply ==
    /\ phase = "running" /\ persist = NoBooking /\ out # <<>>
    /\ applying \/ finished = <<>>
    /\ LET o == Head(out).o IN
       IF Head(out).confirmed /\ Bookable(o)
       THEN Book(o) /\ persist' = [of |-> o, steps |-> BookingSteps]
       ELSE UNCHANGED <<account, persist>>
    /\ out' = Tail(out)
    /\ applying' = (Tail(out) # <<>>)
    /\ UNCHANGED <<Untouched, db, book, finished>>

Booked(r) == [r EXCEPT !.status = "CONFIRMED", !.fill = TRUE]

\* One commit of _persist_fill, or of the same sequence in _book_recovered.
Commit(o, step) ==
    /\ dbFill' = IF step = "fill" THEN [dbFill EXCEPT ![o] = @ + 1] ELSE dbFill
    /\ dbLedger' = IF step = "ledger" THEN [dbLedger EXCEPT ![o] = @ + 1] ELSE dbLedger
    /\ dbPos' = IF step # "position" THEN dbPos
                ELSE IF o \in Buys THEN [dbPos EXCEPT ![o] = "open"]
                ELSE [dbPos EXCEPT ![target[o]] = "closed"]
    /\ dbCash' = IF step = "account" THEN cash ELSE dbCash
    /\ row' = IF step = "intent" THEN [row EXCEPT ![o] = Booked(@)] ELSE row

PersistStep ==
    /\ persist # NoBooking
    /\ \E ok \in {TRUE} \cup {~WritesMayFail} :
         IF ok THEN Commit(persist.of, Head(persist.steps)) ELSE UNCHANGED db
    /\ persist' = IF Tail(persist.steps) = <<>> THEN NoBooking
                  ELSE [persist EXCEPT !.steps = Tail(@)]
    /\ UNCHANGED <<Untouched, book, finished, out, applying, account>>

----------------------------------------------------------------------------
(* Crash, stop, restart and recover() *)

Die ==
    /\ phase # "down" /\ crashes < MaxCrashes
    /\ crashes' = crashes + 1
    /\ phase' = "down" /\ todo' = {}
    /\ order' = [o \in Orders |-> IF order[o] = "pending" THEN "resolved" ELSE order[o]]
    /\ launched' = {} /\ tasks' = {} /\ waiting' = <<>> /\ job' = None
    /\ finished' = <<>> /\ out' = <<>> /\ applying' = FALSE /\ persist' = NoBooking
    /\ spentBy' = {}
    /\ pos' = [b \in Buys |-> "none"] /\ cash' = 0
    /\ orphaned' = orphaned \cup {o \in Orders : tx[o] = "pool"}
    /\ UNCHANGED <<chain, markers, row, dbFill, dbLedger, ask, target, amt, commands, sends,
                   lateSends, lateBuys>>

Crash == Die /\ UNCHANGED <<dbPos, dbCash>>

\* Runtime.stop saves the summary row and the open positions on the way out;
\* whatever the executor and the tick had in hand goes with the tasks.
Stop ==
    /\ phase = "running"
    /\ Die
    /\ dbCash' = cash
    /\ dbPos' = [b \in Buys |-> IF pos[b] = "open" THEN "open" ELSE dbPos[b]]

Restart ==
    /\ phase = "down"
    /\ phase' = "recovering"
    /\ pos' = [b \in Buys |-> IF dbPos[b] = "open" THEN "open" ELSE "none"]
    /\ cash' = dbCash
    /\ spentBy' = {b \in Buys : row[b].status \in {"SENT", "CONFIRMED"} /\ row[b].sentAt}
    /\ todo' = {o \in Orders : row[o].status \in {"BUILT", "SENT"}}
    /\ UNCHANGED <<chain, markers, db, book, waiting, job, ticker, crashes, commands, history>>

RecoverAnyway(o) == Bookable(o)     \* mutant: the mint's open position is not looked for

\* A recovered BUY opens no second position for a mint that has one.
RecoverBookable(o) ==
    /\ Bookable(o)
    /\ o \in Buys => \A b \in Open : MintOf[b] # MintOf[o]

Settle(o, status) == CommitRow(o, [row[o] EXCEPT !.status = status])

\* One intent of recover()'s loop.  A swap that is confirmed between its
\* status and the block height is one that lands right after its row says
\* EXPIRED.  Whatever was on the wire when the process died is in orphaned.
Reconcile(o) ==
    /\ phase = "recovering" /\ persist = NoBooking /\ o \in todo
    /\ todo' = todo \ {o}
    /\ \/ UNCHANGED <<row, account, persist>>    \* no answer, or still pending
       \/ tx[o] = "failed" /\ Settle(o, "FAILED") /\ UNCHANGED <<account, persist>>
       \/ /\ tx[o] \in {"unsent", "pool", "expired"}  \* not confirmed, and the height is past
          /\ Settle(o, "EXPIRED") /\ UNCHANGED <<account, persist>>
       \/ /\ tx[o] = "landed" /\ MayBeUnbookable
          /\ Settle(o, "FAILED") /\ UNCHANGED <<account, persist>>
       \/ /\ tx[o] = "landed"
          /\ MayBeUnbookable \/ ~RecoverBookable(o)
          /\ Settle(o, "CONFIRMED") /\ UNCHANGED <<account, persist>>
       \/ /\ tx[o] = "landed" /\ RecoverBookable(o)
          /\ Book(o)
          /\ persist' = [of |-> o, steps |-> Append(BookingSteps, "intent")]
          /\ UNCHANGED row
    /\ UNCHANGED <<chain, markers, dbFill, dbLedger, dbPos, dbCash, phase, book, waiting, job,
                   finished, out, applying, spentBy, crashes, commands, history>>

\* The engine ticks only once recover() has been through every intent.
StartEngine ==
    /\ phase = "recovering" /\ todo = {} /\ persist = NoBooking
    /\ phase' = "running"
    /\ UNCHANGED <<chain, markers, db, todo, book, waiting, job, ticker, spentBy, account,
                   crashes, commands, history>>

----------------------------------------------------------------------------
(* The chain *)

Offchain == <<markers, db, phase, todo, book, waiting, job, ticker, spentBy, account, crashes,
              commands, history>>

Land(o) ==
    /\ tx[o] = "pool"
    /\ tx' = [tx EXCEPT ![o] = "landed"]
    /\ \/ /\ o \in Buys /\ wallet >= amt[o] + Fee
          /\ wallet' = wallet - amt[o] - Fee
          /\ tokens' = [tokens EXCEPT ![MintFor(o)] = @ + amt[o]]
       \/ /\ o \in Sells /\ wallet >= Fee /\ Held(o) >= amt[o]
          /\ wallet' = wallet + amt[o] - Fee
          /\ tokens' = [tokens EXCEPT ![MintFor(o)] = @ - amt[o]]
    /\ UNCHANGED Offchain

FailOnChain(o) ==
    /\ tx[o] = "pool" /\ wallet >= Fee
    /\ tx' = [tx EXCEPT ![o] = "failed"]
    /\ wallet' = wallet - Fee
    /\ UNCHANGED <<Offchain, tokens>>

BlockhashExpires(o) ==
    /\ tx[o] = "pool"
    /\ tx' = [tx EXCEPT ![o] = "expired"]
    /\ UNCHANGED <<Offchain, wallet, tokens>>

----------------------------------------------------------------------------
(* The operator's commands, from another process: arm, disarm, kill, resume *)

Operate ==
    /\ commands < MaxCommands
    /\ commands' = commands + 1
    /\ UNCHANGED <<chain, db, phase, todo, book, waiting, job, ticker, spentBy, account,
                   crashes, sends, orphaned>>

Arm == Operate /\ ~armed /\ armed' = TRUE /\ lateBuys' = {} /\ UNCHANGED <<kill, lateSends>>
Disarm == Operate /\ armed /\ armed' = FALSE /\ UNCHANGED <<kill, lateSends, lateBuys>>
Kill == Operate /\ ~kill /\ kill' = TRUE /\ UNCHANGED <<armed, lateSends, lateBuys>>
Resume == Operate /\ kill /\ kill' = FALSE /\ lateSends' = {} /\ UNCHANGED <<armed, lateBuys>>

----------------------------------------------------------------------------
Executor ==
    \/ AcquireLock \/ ReadBalance \/ ReadTokens \/ FreshQuote \/ SavePrepared \/ BuildAndSign
    \/ SaveBuilt \/ Submit \/ SaveSent \/ AwaitConfirmation \/ ReadHeight \/ PollsRunOut
    \/ SaveConfirmed \/ SaveUnknown \/ SaveAbandoned
Tick == (\E o \in Orders : Launch(o)) \/ Collect \/ Apply \/ PersistStep
Engine ==
    \/ \E b \in Buys : SubmitBuy(b)
    \/ \E s \in Sells : SubmitSell(s)
    \/ \E o \in Orders : Withdraw(o)
Recovery == Restart \/ (\E o \in Orders : Reconcile(o)) \/ StartEngine
Chain == \E o \in Orders : Land(o) \/ FailOnChain(o) \/ BlockhashExpires(o)
Operator == Arm \/ Disarm \/ Kill \/ Resume

Next == Executor \/ Tick \/ Engine \/ Recovery \/ Chain \/ Operator \/ Crash \/ Stop

Spec == Init /\ [][Next]_vars

\* The executor is one coroutine whose awaits all return or time out, the tick
\* loop keeps running, and expire_stale withdraws what is left past its TTL.
\* Polls and heights may alternate, but no more often than the polls allow.
Fairness ==
    /\ WF_vars(Executor)
    /\ SF_vars(PollsRunOut)
    /\ WF_vars(Tick)
    /\ \A o \in Orders : WF_vars(Withdraw(o))
    /\ WF_vars(Recovery)

FairSpec == Spec /\ Fairness

----------------------------------------------------------------------------
(* Properties *)

IntentRow == [status : Statuses, sentAt : BOOLEAN, fill : BOOLEAN]
JobRecord == [o : Orders, pc : JobSteps, kill : BOOLEAN, armed : BOOLEAN,
              end : Statuses, disarm : BOOLEAN]
Outcome == [o : Orders, confirmed : BOOLEAN]

ASSUME NoneAssumption == None \notin JobRecord

\* Every variable ranges over the values the code can store in it.
TypeOK ==
    /\ tx \in [Orders -> TxStates]
    /\ wallet \in Nat /\ tokens \in [Mints -> Nat]
    /\ armed \in BOOLEAN /\ kill \in BOOLEAN
    /\ row \in [Orders -> IntentRow]
    /\ dbFill \in [Orders -> Nat] /\ dbLedger \in [Orders -> Nat]
    /\ dbPos \in [Buys -> {"none", "open", "closed"}] /\ dbCash \in Nat
    /\ phase \in {"down", "recovering", "running"} /\ todo \subseteq Orders
    /\ order \in [Orders -> {"free", "pending", "resolved"}]
    /\ ask \in [Orders -> Nat] /\ amt \in [Orders -> Nat]
    /\ target \in [Sells -> Buys \cup {None}]
    /\ launched \subseteq Orders /\ tasks \subseteq Orders
    /\ waiting \in Seq(Orders)
    /\ job \in JobRecord \cup {None}
    /\ finished \in Seq(Outcome) /\ out \in Seq(Outcome) /\ applying \in BOOLEAN
    /\ persist \in [of : Orders, steps : Seq(Commits) \ {<<>>}] \cup {NoBooking}
    /\ spentBy \subseteq Buys
    /\ pos \in [Buys -> {"none", "open", "closed"}] /\ cash \in Nat
    /\ crashes \in Nat /\ commands \in Nat
    /\ sends \in [Orders -> Nat]
    /\ lateSends \subseteq Orders /\ lateBuys \subseteq Orders /\ orphaned \subseteq Orders

\* "One send per intent": whatever is relaunched, expired, crashed or
\* recovered, sendTransaction is called at most once for an order.
SentAtMostOnce == \A o \in Orders : sends[o] <= 1

\* save_intent_now: the row of an order says BUILT or later, so its signature
\* is on record, whenever the network may have its transaction.
Unwritten == {"none", "PREPARED", "ABANDONED"}
SentIsRecorded == \A o \in Orders : tx[o] # "unsent" => row[o].status \notin Unwritten

\* No phantom positions: an account or a database says a position was opened
\* only if its BUY landed, and closed only if a SELL of it landed.
Justified(b, state) ==
    /\ state # "none" => tx[b] = "landed"
    /\ state = "closed" => \E s \in Sells : target[s] = b /\ tx[s] = "landed"
BookedHasLanded ==
    /\ \A o \in Orders : dbFill[o] > 0 => tx[o] = "landed"
    /\ \A b \in Buys : Justified(b, pos[b]) /\ Justified(b, dbPos[b])

\* FAILED: "rejected by preflight/the network, or the transaction errored on
\* chain".  However uncertain a send is, and whoever writes its row last, an
\* order is not FAILED while its transaction can land, nor when it did, unless
\* its balances could not be read.
FailedIsFinal ==
    \A o \in Orders : row[o].status = "FAILED" =>
        /\ tx[o] # "pool"
        /\ tx[o] = "landed" => MayBeUnbookable

\* recover() and submit_buy refuse a second position for a mint that has one.
OnePositionPerMint ==
    \A b, c \in Open : MintOf[b] = MintOf[c] => b = c

\* KILL "stops buys *and* sells within one tick" (README.md:140-141, and
\* app/arming.py:6-7 says the same), disarm "stops buys".  The code does not
\* keep the first to the letter: the task past its only reading of the markers
\* goes on through balance, quote, build and send however many ticks go by.  What
\* it keeps is that there is no second one: of all the orders queued at the lock
\* or submitted later, at most one transaction leaves after KILL, and at most one
\* BUY after a disarm.
MarkersArePrompt ==
    /\ \A o, p \in lateSends : o = p
    /\ \A o, p \in lateBuys : o = p

\* "SOL spent on buys per UTC day": what BUYs have put on the wire and may
\* still take, or took, from the wallet stays within the daily cap.
OnTheWire == {b \in Buys : tx[b] \in {"pool", "landed"}}
DailySpendCapped == Spend(OnTheWire) <= MaxDailySpend

\* "A fee reserve the wallet never spends below": short of fees, only a BUY
\* that was given up on the wire, as unknown or as expired, can take the
\* wallet below it.
ReserveKept ==
    wallet + Fee * Cardinality({o \in Orders : sends[o] > 0})
        + Spend(orphaned \cap Buys) >= SmallerOf(Reserve, InitialWallet)

\* CONFIRMED: "confirmed on chain and reconciled into a fill".
ConfirmedIsReconciled ==
    \A o \in Orders : phase = "down" /\ row[o].status = "CONFIRMED" => dbFill[o] > 0

\* An order never stays pending: its task ends and the tick resolves it, or
\* its TTL does, or the process stops.
PendingResolves == \A o \in Orders : order[o] = "pending" ~> order[o] # "pending"

\* The refinement mapping: the order's transaction, or before there is one
\* its row, gives the stage; the fills table gives what is booked.
Stage(o) ==
    CASE tx[o] = "landed" -> "landed"
      [] tx[o] \in {"failed", "expired"} -> "void"
      [] tx[o] = "pool" -> "wired"
      [] tx[o] = "unsent" /\ row[o].status \notin Unwritten -> "written"
      [] OTHER -> "new"

Swaps == INSTANCE SwapBooking WITH
            stage <- [o \in Orders |-> Stage(o)],
            booked <- {o \in Orders : dbFill[o] > 0}

\* The executor, with its crashes and recoveries, implements SwapBooking.
BooksSwaps == Swaps!Spec

----------------------------------------------------------------------------
(* The inductive invariant behind SentAtMostOnce, BookedHasLanded,         *)
(* SentIsRecorded and BooksSwaps.                                          *)

BeforeSend == {"balance", "tokens", "quote", "prepare", "build", "saveBuilt", "submit"}

\* An order not launched yet in this process, and still to be decided.
Fresh(o) == o \notin launched /\ order[o] # "resolved"

\* One task per order, in the queue or at the lock, and none before its time.
TasksOnce ==
    /\ \A i, j \in DOMAIN waiting : waiting[i] = waiting[j] => i = j
    /\ \A i \in DOMAIN waiting : waiting[i] \in launched /\ sends[waiting[i]] = 0
    /\ job # None =>
        /\ job.o \in launched
        /\ \A i \in DOMAIN waiting : waiting[i] # job.o
        /\ job.pc \in BeforeSend => sends[job.o] = 0
    /\ \A i \in DOMAIN finished : finished[i].o \in launched
    /\ \A o \in launched : order[o] # "free"
    /\ \A s \in Sells : order[s] # "free" => target[s] \in Buys
    /\ \A o \in Orders : Fresh(o) => sends[o] = 0
    /\ \A o \in Orders : sends[o] = 0 => tx[o] = "unsent"
    /\ phase # "running" =>
        /\ launched = {} /\ waiting = <<>> /\ job = None /\ finished = <<>>
        /\ \A o \in Orders : order[o] # "pending"

\* Whatever is on its way to be booked has landed.
LandedFirst ==
    /\ job # None /\ job.pc = "saveConfirmed" => tx[job.o] = "landed"
    /\ \A i \in DOMAIN finished : finished[i].confirmed => tx[finished[i].o] = "landed"
    /\ \A i \in DOMAIN out : out[i].confirmed => tx[out[i].o] = "landed"
    /\ persist # NoBooking =>
        /\ tx[persist.of] = "landed"
        /\ persist.of \in Sells => /\ target[persist.of] \in Buys
                                   /\ tx[target[persist.of]] = "landed"

\* The row says BUILT before the send, and nothing takes that back.
WrittenFirst ==
    /\ \A i \in DOMAIN waiting : row[waiting[i]].status = "none"
    /\ \A o \in Orders : Fresh(o) => row[o].status = "none"
    /\ \A o \in todo : order[o] = "resolved"
    /\ job # None =>
        /\ job.pc \in BeforeSend \ {"submit"} => row[job.o].status \in Unwritten
        /\ job.pc = "submit" => row[job.o].status \notin Unwritten
        /\ job.pc = "abandon" => job.end \in {"ABANDONED", "FAILED", "EXPIRED"}
        /\ job.pc = "abandon" /\ job.end = "ABANDONED" =>
               tx[job.o] = "unsent" /\ row[job.o].status \in Unwritten

Inductive ==
    /\ TypeOK /\ TasksOnce /\ SentAtMostOnce /\ LandedFirst /\ BookedHasLanded
    /\ ~WritesMayFail => WrittenFirst /\ SentIsRecorded
=============================================================================
