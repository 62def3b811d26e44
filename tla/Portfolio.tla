------------------------------ MODULE Portfolio ------------------------------
(***************************************************************************)
(* The account and its rows: PortfolioAccount (portfolio/accounting.py),   *)
(* the milestones (risk/milestones.py), the four commits that book a fill  *)
(* (_persist_fill in app/engine.py), load_state (storage/repository.py),   *)
(* and the start and stop that carry the account over a restart            *)
(* (app/bootstrap.py).                                                     *)
(*                                                                         *)
(* A booking changes the account at once and then awaits its commits, each *)
(* under the repository's write lock; what a commit writes is captured     *)
(* when the booking asks for it.  The tick values positions and announces  *)
(* milestones meanwhile, unless the booking is its own, and a confirmation *)
(* of a human books beside it.                                             *)
(*                                                                         *)
(* What is booked is a fill: autonomous execution reads it from a          *)
(* confirmed transaction (wallet/reconcile.py and fill_from_swap), every   *)
(* other execution makes it up from the order (ManualExecution).  One SOL  *)
(* is one EUR, and amounts are whole.                                      *)
(***************************************************************************)
EXTENDS Integers, Sequences, FiniteSetsExt, SequencesExt

CONSTANTS
    Positions,      \* ids; each is opened at most once
    Bookers,        \* coroutines that book fills: "tick" and the handlers of commands
    Bankroll,       \* starting_bankroll_eur
    Executions,     \* how orders may be executed: "manual", "dry_run", "autonomous"
    Transactions,   \* answers to getTransaction for a swap of ours
    Orders,         \* orders a human or the dry run may confirm
    Overrides,      \* what a human may say the fill was, or the dry run make of it
    NetworkFee,     \* estimated_network_fee_lamports + priority_fee_lamports
    Owner,          \* the wallet
    Marks,          \* what a valuation may say a position is worth
    Milestones,
    HysteresisPct,
    StreakWindow,
    MaxRestarts,    \* bound
    None

ASSUME PortfolioAssumption ==
    /\ "tick" \in Bookers
    /\ Executions \subseteq {"manual", "dry_run", "autonomous"}
    /\ Bankroll \in Nat \ {0} /\ NetworkFee \in Nat /\ StreakWindow \in Nat \ {0}
    /\ Marks \subseteq Nat /\ Milestones \subseteq Nat
    /\ HysteresisPct \in 0..99 /\ MaxRestarts \in Nat

\* Amounts are whole.  The chain's and an order's are not negative; what a human reports of the
\* SOL is only a number (_buy_override, _sell_override).
ASSUME AmountAssumption ==
    /\ \A tx \in Transactions : {tx.fee, tx.pre, tx.post} \subseteq Nat \cup {None}
    /\ \A order \in Orders :
         /\ order.sol \in Nat \cup {None} /\ order.fee \in Nat \cup {None}
         /\ order.side = "BUY" => order.fee \in Nat
    /\ \A override \in Overrides : override.sol \in Int \cup {None}

VARIABLES
    execution,      \* how this session executes
    phase,          \* of the process: "down", "founding" (its first start) or "running"
    account,        \* cash, peak equity, realized, wins, losses, recent results
    pos,            \* PortfolioAccount.positions
    ledger,         \* PortfolioAccount.ledger
    reached,        \* MilestoneTracker.reached
    booking,        \* what each booker's commits are of, and what the next one writes
    lock,           \* _write_lock: its holder, then those waiting
    dbAccount,      \* the account_state row, or None
    dbPos,          \* position rows
    dbLedger,       \* ledger rows
    recorded,       \* the last direction in the milestones table, per milestone
    restarts,
    moved,          \* history: what the booked swaps moved into the wallet, in order
    cut             \* history: a crash or stop came into a booking

memory == <<account, pos, ledger, reached>>
rows == <<dbAccount, dbPos, dbLedger>>
mishaps == <<restarts, cut>>
vars == <<execution, phase, memory, booking, lock, rows, recorded, moved, mishaps>>

Larger(a, b) == IF a > b THEN a ELSE b

NoPosition == [state |-> "none", cost |-> 0, value |-> 0, peak |-> 0]
NewAccount == [cash |-> 0, peak |-> 0, realized |-> 0, wins |-> 0, losses |-> 0, recent |-> <<>>]

Account == [cash : Nat, peak : Nat, realized : Int, wins : Nat, losses : Nat, recent : Seq(Int)]
AccountRow == [account : Account, reached : SUBSET Milestones]

ASSUME NoneAssumption == None \notin AccountRow

OpenIn(ps) == {p \in Positions : ps[p].state = "open"}
Equity(a, ps) == a.cash + SumFunctionOnSet([p \in Positions |-> ps[p].value], OpenIn(ps))
Exposure(ps) == SumFunctionOnSet([p \in Positions |-> ps[p].cost], OpenIn(ps))

\* _update_peak, after every change of cash or of a position.
Peaked(a, ps) == [a EXCEPT !.peak = Larger(@, Equity(a, ps))]

Entry(seq, delta, cash, realized, kind) ==
    [seq |-> seq, delta |-> delta, after |-> cash, realized |-> realized, kind |-> kind]

\* _append: the next entry, with the cash it leaves.
Appended(log, a, delta, realized, kind) ==
    LET seq == Max({0} \cup {e.seq : e \in Range(log)}) + 1
    IN  Append(log, Entry(seq, delta, a.cash + delta, realized, kind))

LastOf(s, n) == SubSeq(s, Larger(1, Len(s) - n + 1), Len(s))

----------------------------------------------------------------------------
(* Milestones *)

Fallen(equity, m) == 100 * equity < m * (100 - HysteresisPct)

\* MilestoneTracker.update: what is reached after it has seen this equity.
Updated(r, equity) ==
    {m \in Milestones : equity >= m \/ (m \in r /\ ~Fallen(equity, m))}

Announced(old, new) ==
    [m \in Milestones |-> IF m \in new \ old THEN "UP"
                          ELSE IF m \in old \ new THEN "DOWN" ELSE recorded[m]]

\* _after_portfolio_change and _portfolio_snapshot: update, publish, and the bus writes the row.
UpdateMilestones ==
    LET now == Updated(reached, Equity(account, pos))
    IN  reached' = now /\ recorded' = Announced(reached, now)

----------------------------------------------------------------------------
(* Commits *)

NoBooking == [of |-> None, writes |-> "nothing", row |-> None]
Writing(p, what, row) == [of |-> p, writes |-> what, row |-> row]

Begin(b, w) == booking' = [booking EXCEPT ![b] = w] /\ lock' = Append(lock, b)

\* The next commit of a booking, with what its row says at this moment: save_position_now(p),
\* save_ledger_now(ledger[-1:]), save_account_state_now(...).
NextWrite(w) ==
    CASE w.writes = "fill" -> Writing(w.of, "position", pos[w.of])
      [] w.writes = "position" -> Writing(w.of, "ledger", Last(ledger))
      [] w.writes = "ledger" -> Writing(w.of, "account", [account |-> account, reached |-> reached])
      [] OTHER -> NoBooking

Written(w) ==
    /\ dbPos' = IF w.writes = "position" THEN [dbPos EXCEPT ![w.of] = w.row] ELSE dbPos
    /\ dbLedger' = IF w.writes = "ledger" THEN dbLedger \cup {w.row} ELSE dbLedger
    /\ dbAccount' = IF w.writes = "account" THEN w.row ELSE dbAccount

\* Mutant: the write lock is not taken: commits end in any order.
CommitStepUnlocked(b) ==
    /\ phase = "running" /\ booking[b] # NoBooking
    /\ LET w == booking[b] IN
         /\ Written(w) /\ booking' = [booking EXCEPT ![b] = NextWrite(w)]
         /\ IF w.writes = "account" THEN UpdateMilestones ELSE UNCHANGED <<reached, recorded>>
    /\ UNCHANGED <<execution, phase, account, pos, ledger, lock, moved, mishaps>>

\* One commit of _persist_fill; behind the last one comes _after_portfolio_change.
CommitStep(b) ==
    /\ phase = "running" /\ lock # <<>> /\ Head(lock) = b
    /\ LET w == booking[b] IN
         /\ Written(w)
         /\ booking' = [booking EXCEPT ![b] = NextWrite(w)]
         /\ IF w.writes = "account"
            THEN UpdateMilestones /\ lock' = Tail(lock)
            ELSE UNCHANGED <<reached, recorded>> /\ lock' = Append(Tail(lock), b)
    /\ UNCHANGED <<execution, phase, account, pos, ledger, moved, mishaps>>

----------------------------------------------------------------------------
(* Fills *)

OrZero(x) == IF x = None THEN 0 ELSE x

\* _token_total: what the owner's accounts hold of the mint; an unreadable amount is left out.
TokenTotal(balances) ==
    LET counted == SelectSeq(balances, LAMBDA e : e.owner = Owner /\ e.amount # None)
    IN  FoldLeft(LAMBDA sum, e : sum + e.amount, 0, counted)

\* parse_confirmed_swap: what a transaction did to the wallet, None if it does not say.
ParseConfirmedSwap(tx) ==
    IF ~tx.meta \/ tx.signature = None \/ tx.pre = None \/ tx.post = None THEN None
    ELSE [signature |-> tx.signature, err |-> tx.err, fee |-> OrZero(tx.fee),
          sol |-> tx.post - tx.pre, tokens |-> TokenTotal(tx.postTokens) - TokenTotal(tx.preTokens)]

\* Mutant: the fee is booked on top of what the wallet lost.
FillFromSwapFeeTwice(side, swap) ==
    LET tokens == IF side = "BUY" THEN swap.tokens ELSE -swap.tokens
    IN  IF tokens <= 0 THEN None
        ELSE [side |-> side, fee |-> swap.fee, tokens |-> tokens, swap |-> swap,
              sol |-> IF side = "BUY" THEN Larger(0, -swap.sol)
                                      ELSE Larger(0, swap.sol) + swap.fee]

\* The fill as the chain saw it: the fee is in the wallet's difference, and booked apart.
FillFromSwap(side, swap) ==
    LET tokens == IF side = "BUY" THEN swap.tokens ELSE -swap.tokens
    IN  IF tokens <= 0 THEN None
        ELSE [side |-> side, fee |-> swap.fee, tokens |-> tokens, swap |-> swap,
              sol |-> IF side = "BUY" THEN Larger(0, Larger(0, -swap.sol) - swap.fee)
                                      ELSE Larger(0, swap.sol) + swap.fee]

\* ManualExecution._build_fill: as the order expected it, or as the human says it was.
BuildFill(order, override) ==
    LET buys == order.side = "BUY"
    IN  [side |-> order.side, swap |-> None,
         sol |-> IF override.sol # None THEN override.sol ELSE OrZero(order.sol),
         fee |-> IF buys THEN order.fee \div 2 ELSE OrZero(order.fee) + NetworkFee,
         tokens |-> IF buys /\ override.tokens # None THEN override.tokens ELSE order.tokens]

\* What may be booked.  A swap that failed on chain is not.
Fills ==
    IF execution = "autonomous"
    THEN LET swaps == {ParseConfirmedSwap(tx) : tx \in Transactions} \ {None}
             landed == {swap \in swaps : swap.err = None}
         IN  {FillFromSwap(side, swap) : side \in {"BUY", "SELL"}, swap \in landed} \ {None}
    ELSE {BuildFill(order, override) : order \in Orders, override \in Overrides}

Moves(fill) ==
    moved' = IF fill.swap = None THEN moved
             ELSE Append(moved, [side |-> fill.side, sol |-> fill.swap.sol])

----------------------------------------------------------------------------
(* PortfolioAccount *)

Idle(b) == phase = "running" /\ booking[b] = NoBooking

\* A human confirms unless the chain does; the tick books what executes by itself.
MayBook(b) == Idle(b) /\ execution # (IF b = "tick" THEN "manual" ELSE "autonomous")

\* Mutant: the cost basis forgets the fee that was paid.
OpenPositionAtGross(b, p, fill) ==
    /\ MayBook(b) /\ pos[p].state = "none"
    /\ fill.side = "BUY" /\ fill.tokens > 0 /\ fill.sol + fill.fee <= account.cash
    /\ LET held == [pos EXCEPT ![p] = [state |-> "open", cost |-> fill.sol, value |-> fill.sol,
                                       peak |-> fill.sol]]
           paid == [account EXCEPT !.cash = @ - (fill.sol + fill.fee)]
       IN  /\ pos' = held
           /\ account' = Peaked(paid, held)
           /\ ledger' = Appended(ledger, account, -(fill.sol + fill.fee), 0, "BUY")
    /\ Begin(b, Writing(p, "fill", None)) /\ Moves(fill)
    /\ UNCHANGED <<execution, phase, reached, rows, recorded, mishaps>>

\* open_position: refused, and reported, when nothing was bought or it costs more than the cash.
OpenPosition(b, p, fill) ==
    /\ MayBook(b) /\ pos[p].state = "none"
    /\ fill.side = "BUY" /\ fill.tokens > 0 /\ fill.sol + fill.fee <= account.cash
    /\ LET cost == fill.sol + fill.fee
           held == [pos EXCEPT ![p] = [state |-> "open", cost |-> cost, value |-> fill.sol,
                                       peak |-> fill.sol]]
           paid == [account EXCEPT !.cash = @ - cost]
       IN  /\ pos' = held
           /\ account' = Peaked(paid, held)
           /\ ledger' = Appended(ledger, account, -cost, 0, "BUY")
    /\ Begin(b, Writing(p, "fill", None)) /\ Moves(fill)
    /\ UNCHANGED <<execution, phase, reached, rows, recorded, mishaps>>

Proceeds(fill) == Larger(0, fill.sol - fill.fee)

\* A sale's outcome: a result of nothing counts as a loss.
Scored(a, realized) ==
    [a EXCEPT !.realized = @ + realized,
              !.wins = @ + (IF realized > 0 THEN 1 ELSE 0),
              !.losses = @ + (IF realized > 0 THEN 0 ELSE 1),
              !.recent = LastOf(Append(@, realized), StreakWindow)]

\* close_position: the whole position, whatever the fill says was sold of it.
ClosePosition(b, p, fill) ==
    /\ MayBook(b) /\ pos[p].state = "open" /\ \A c \in Bookers : booking[c].of # p
    /\ fill.side = "SELL"
    /\ LET realized == Proceeds(fill) - pos[p].cost
           sold == [pos EXCEPT ![p].state = "closed", ![p].value = 0]
           paid == [account EXCEPT !.cash = @ + Proceeds(fill)]
       IN  /\ pos' = sold
           /\ account' = Peaked(Scored(paid, realized), sold)
           /\ ledger' = Appended(ledger, account, Proceeds(fill), realized, "SELL")
    /\ Begin(b, Writing(p, "fill", None)) /\ Moves(fill)
    /\ UNCHANGED <<execution, phase, reached, rows, recorded, mishaps>>

\* PositionMonitor.value, in the tick.
MarkPosition(p, value) ==
    /\ Idle("tick") /\ pos[p].state = "open"
    /\ LET marked == [pos EXCEPT ![p].value = value, ![p].peak = Larger(@, value)]
       IN  pos' = marked /\ account' = Peaked(account, marked)
    /\ UNCHANGED <<execution, phase, ledger, reached, booking, lock, rows, recorded, moved,
                   mishaps>>

\* The periodic snapshot of the tick.
Snapshot ==
    /\ Idle("tick")
    /\ UpdateMilestones
    /\ UNCHANGED <<execution, phase, account, pos, ledger, booking, lock, rows, moved, mishaps>>

----------------------------------------------------------------------------
(* Stop, crash and start *)

InBooking == \E b \in Bookers : booking[b] # NoBooking

Down ==
    /\ phase' = "down" /\ restarts' = restarts + 1
    /\ booking' = [b \in Bookers |-> NoBooking] /\ lock' = <<>>
    /\ cut' = (cut \/ (phase = "running" /\ InBooking))
    /\ account' = NewAccount /\ pos' = [p \in Positions |-> NoPosition] /\ ledger' = <<>>
    /\ reached' = {}
    /\ UNCHANGED <<execution, recorded, moved>>

Crash ==
    /\ phase # "down" /\ restarts < MaxRestarts
    /\ Down
    /\ UNCHANGED rows

\* Runtime.stop cancels the tasks and then saves the account and the open positions.
Stop ==
    /\ phase = "running" /\ restarts < MaxRestarts
    /\ Down
    /\ dbAccount' = [account |-> account, reached |-> reached]
    /\ dbPos' = [p \in Positions |-> IF pos[p].state = "open" THEN pos[p] ELSE dbPos[p]]
    /\ UNCHANGED dbLedger

\* Ledger rows ordered by seq, which no two of them share.
InOrder(entries) ==
    LET Rank(e) == Cardinality({d \in entries : d.seq =< e.seq})
    IN  [i \in 1..Cardinality(entries) |-> CHOOSE e \in entries : Rank(e) = i]

LedgerCash == Last(InOrder(dbLedger)).after
LedgerPeak == Max({e.after : e \in dbLedger})
LedgerRealized == SumFunctionOnSet([e \in dbLedger |-> e.realized], dbLedger)
Sales == {e \in dbLedger : e.kind = "SELL"}
\* load_state takes the last ten results, and restore as many of these as the window holds.
LedgerRecent ==
    LET sales == InOrder(Sales)
    IN  LastOf(LastOf([i \in DOMAIN sales |-> sales[i].realized], 10), StreakWindow)

\* Mutant: a sale that brings back just what was paid counts neither way.
FromLedgerWithDraws ==
    [account |-> [cash |-> LedgerCash, peak |-> LedgerPeak, realized |-> LedgerRealized,
                  wins |-> Cardinality({e \in Sales : e.realized > 0}),
                  losses |-> Cardinality({e \in Sales : e.realized < 0}),
                  recent |-> LedgerRecent],
     reached |-> {}]

\* load_state without a summary row: the ledger's last balance, and the sums over it.
FromLedger ==
    [account |-> [cash |-> LedgerCash, peak |-> LedgerPeak, realized |-> LedgerRealized,
                  wins |-> Cardinality({e \in Sales : e.realized > 0}),
                  losses |-> Cardinality({e \in Sales : e.realized =< 0}),
                  recent |-> LedgerRecent],
     reached |-> {}]

HasAccount == dbAccount # None \/ dbLedger # {}
Loaded == IF dbAccount # None THEN dbAccount ELSE FromLedger

\* restore, and the milestones' silent update that ends _restore_account.
Restore ==
    /\ phase = "down" /\ HasAccount
    /\ phase' = "running"
    /\ pos' = dbPos
    /\ account' = Peaked(Loaded.account, dbPos)
    /\ ledger' = InOrder(dbLedger)
    /\ reached' = Updated(Loaded.reached \cap Milestones, Equity(Loaded.account, dbPos))
    /\ UNCHANGED <<execution, booking, lock, rows, recorded, moved, mishaps>>

\* The first start: a deposit, and its two commits.
Found ==
    /\ phase = "down" /\ ~HasAccount
    /\ phase' = "founding"
    /\ LET paid == [NewAccount EXCEPT !.cash = Bankroll]
       IN  account' = Peaked(paid, pos)
    /\ ledger' = Appended(<<>>, NewAccount, Bankroll, 0, "DEPOSIT")
    /\ Begin("tick", Writing(None, "ledger", Last(ledger')))
    /\ UNCHANGED <<execution, pos, reached, rows, recorded, moved, mishaps>>

FoundStep ==
    /\ phase = "founding"
    /\ LET w == booking["tick"] IN
         /\ Written(w)
         /\ booking' = [booking EXCEPT !["tick"] = NextWrite(w)]
         /\ IF w.writes = "account"
            THEN /\ phase' = "running" /\ lock' = <<>>
                 /\ reached' = Updated({}, Equity(account, pos))
            ELSE UNCHANGED <<phase, lock, reached>>
    /\ UNCHANGED <<execution, account, pos, ledger, recorded, moved, mishaps>>

Init ==
    /\ execution \in Executions /\ moved = <<>>
    /\ phase = "down" /\ account = NewAccount /\ pos = [p \in Positions |-> NoPosition]
    /\ ledger = <<>> /\ reached = {} /\ booking = [b \in Bookers |-> NoBooking] /\ lock = <<>>
    /\ dbAccount = None /\ dbPos = [p \in Positions |-> NoPosition] /\ dbLedger = {}
    /\ recorded = [m \in Milestones |-> "none"] /\ restarts = 0 /\ cut = FALSE

Next ==
    \/ \E b \in Bookers, p \in Positions, fill \in Fills :
         OpenPosition(b, p, fill) \/ ClosePosition(b, p, fill)
    \/ \E p \in Positions, value \in Marks : MarkPosition(p, value)
    \/ \E b \in Bookers : CommitStep(b)
    \/ Snapshot \/ Found \/ FoundStep \/ Restore \/ Crash \/ Stop

Spec == Init /\ [][Next]_vars

----------------------------------------------------------------------------
(* Properties *)

Position == [state : {"none", "open", "closed"}, cost : Int, value : Int, peak : Int]
LedgerEntry == [seq : Nat \ {0}, delta : Int, after : Nat, realized : Int,
                kind : {"DEPOSIT", "BUY", "SELL"}]
Write ==
    [of : {None}, writes : {"nothing"}, row : {None}] \cup
    [of : Positions, writes : {"fill"}, row : {None}] \cup
    [of : Positions, writes : {"position"}, row : Position] \cup
    [of : Positions \cup {None}, writes : {"ledger"}, row : LedgerEntry] \cup
    [of : Positions \cup {None}, writes : {"account"}, row : AccountRow]

\* Every variable has its type: no sequence of fills, marks and restarts makes cash negative.
TypeOK ==
    /\ phase \in {"down", "founding", "running"}
    /\ account \in Account /\ pos \in [Positions -> Position] /\ ledger \in Seq(LedgerEntry)
    /\ reached \subseteq Milestones /\ booking \in [Bookers -> Write] /\ lock \in Seq(Bookers)
    /\ dbAccount \in AccountRow \cup {None} /\ dbPos \in [Positions -> Position]
    /\ dbLedger \subseteq LedgerEntry
    /\ recorded \in [Milestones -> {"none", "UP", "DOWN"}]
    /\ execution \in Executions /\ moved \in Seq([side : {"BUY", "SELL"}, sol : Int])
    /\ restarts \in 0..MaxRestarts /\ cut \in BOOLEAN

\* Money is neither made nor lost: cash and what the open positions cost are the bankroll and
\* what was realized, also after restarts, whatever bookings overlapped, unless one was cut.
Conserved ==
    phase = "running" /\ ~cut
        => account.cash + Exposure(pos) = Bankroll + account.realized

\* In autonomous mode the cash is what the chain left in the wallet: the bankroll and what the
\* booked swaps moved, fees included.  Only a sale that brought less than its fee, and so cost
\* money, is booked as one that brought nothing.
CashIsOnChain ==
    phase = "running" /\ execution = "autonomous" /\ ~cut
        => account.cash = Bankroll + FoldLeft(LAMBDA sum, swap :
              sum + (IF swap.side = "SELL" THEN Larger(0, swap.sol) ELSE swap.sol), 0, moved)

Settled == phase = "running" /\ ~InBooking /\ ~cut

\* Between bookings a restart finds in the rows the account that is in memory, and the same
\* open positions; only their marks and peaks may lag.  Bookings may have overlapped.
RestartAgrees ==
    Settled => /\ [Loaded.account EXCEPT !.peak = account.peak] = account
               /\ Loaded.account.peak <= account.peak
               /\ OpenIn(dbPos) = OpenIn(pos)
               /\ \A p \in OpenIn(pos) : /\ dbPos[p].cost = pos[p].cost
                                          /\ dbPos[p].peak <= pos[p].peak

\* Ledger rows without a gap are the account too: what load_state makes of them is what the
\* account has counted fill by fill, over all restarts.  A window of more than ten results would
\* lose those that load_state does not take.
LedgerAgrees ==
    Settled /\ StreakWindow =< 10 /\ {e.seq : e \in dbLedger} = 1..Cardinality(dbLedger)
        => [FromLedger.account EXCEPT !.peak = account.peak] = account
=============================================================================
