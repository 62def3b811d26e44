------------------------- MODULE PortfolioProofs -------------------------
(***************************************************************************)
(* What Portfolio promises, for every number of positions and bookers, any *)
(* fills and marks, and any number of restarts.                            *)
(*                                                                         *)
(* Conserved is not inductive: a restart takes the account from its row    *)
(* and the positions from theirs, and these are written by commits of      *)
(* different bookings, at different times.  What makes the rows agree is   *)
(* that the write lock is first come, first served: the booking that       *)
(* commits its account last is the one that captured it last, when every   *)
(* booking under way had changed the account already.                      *)
(*                                                                         *)
(* Nothing is said of accounts one of whose bookings was cut.              *)
(***************************************************************************)
EXTENDS Portfolio, DataLemmas, SequenceTheorems

Nothing == [p \in Positions |-> NoPosition]
Deposit == Entry(1, Bankroll, Bankroll, 0, "DEPOSIT")
Opening ==
    [cash |-> Bankroll, peak |-> Bankroll, realized |-> 0, wins |-> 0, losses |-> 0,
     recent |-> <<>>]

\* The account a start finds in the rows, when the ledger has but the deposit or is not asked.
Stored == IF dbAccount # None THEN dbAccount.account ELSE Opening

\* A row against what it is a row of: only peaks, and marks, may lag.
Same(row, a) ==
    /\ row.cash = a.cash /\ row.realized = a.realized
    /\ row.wins = a.wins /\ row.losses = a.losses /\ row.recent = a.recent
    /\ row.peak =< a.peak
Kept(row, q) == row.state = q.state /\ row.cost = q.cost /\ row.peak =< q.peak

\* The sales an account has counted, after another one, or after none.
Counts(b, a, result) ==
    /\ b.wins = a.wins + (IF result > 0 THEN 1 ELSE 0)
    /\ b.losses = a.losses + (IF result > 0 THEN 0 ELSE 1)
    /\ b.recent = LastOf(Append(a.recent, result), StreakWindow)
SameCounts(b, a) == b.wins = a.wins /\ b.losses = a.losses /\ b.recent = a.recent

WriteOK(w) ==
    /\ w.writes \in {"nothing", "fill", "position", "ledger", "account"}
    /\ w.writes = "nothing" => w = NoBooking
    /\ w.writes = "position" => w.row \in Position
    /\ w.writes = "account" => w.row \in AccountRow

Typed ==
    /\ phase \in {"down", "founding", "running"} /\ execution \in Executions
    /\ account \in Account /\ pos \in [Positions -> Position] /\ reached \subseteq Milestones
    /\ booking = [b \in Bookers |-> booking[b]] /\ \A b \in Bookers : WriteOK(booking[b])
    /\ lock \in Seq(Bookers)
    /\ dbAccount \in AccountRow \cup {None} /\ dbPos \in [Positions -> Position]
    /\ moved \in Seq([side : {"BUY", "SELL"}, sol : Int])

\* Who has commits to make is in the queue for the lock, once.
Queued ==
    /\ Once(lock)
    /\ \A b \in Bookers : booking[b] # NoBooking <=> Occurs(b, lock)

\* Every booking under way has captured its account row.
Captured == \A b \in Bookers : booking[b].writes \in {"nothing", "account"}

\* Then the last of them has the account as it is.
AccountRows ==
    Captured => IF lock = <<>>
                THEN Same(Stored, account) /\ (dbAccount = None => dbLedger = {Deposit})
                ELSE Same(booking[lock[Len(lock)]].row.account, account)

\* A position's row is up to date, or the booking that will write it is under way.
PositionRows ==
    /\ \A b \in Bookers :
         booking[b].writes # "nothing"
             => booking[b].of \in Positions /\ pos[booking[b].of].state # "none"
    /\ \A b \in Bookers :
         booking[b].writes = "position" => Kept(booking[b].row, pos[booking[b].of])
    /\ \A p \in Positions :
         \/ Kept(dbPos[p], pos[p])
         \/ \E b \in Bookers : booking[b].of = p /\ booking[b].writes \in {"fill", "position"}

Running == phase = "running" => HasAccount /\ AccountRows /\ PositionRows

Founding ==
    phase = "founding" =>
        /\ lock = <<"tick">> /\ account = Opening /\ pos = Nothing
        /\ dbAccount = None /\ dbPos = Nothing /\ moved = <<>>
        /\ \/ booking["tick"] = Writing(None, "ledger", Deposit) /\ dbLedger = {}
           \/ /\ booking["tick"]
                   = Writing(None, "account", [account |-> Opening, reached |-> reached])
              /\ dbLedger = {Deposit}

Halted ==
    phase = "down" =>
        /\ account = NewAccount /\ pos = Nothing /\ lock = <<>>
        /\ dbAccount = None => dbLedger \subseteq {Deposit}
        /\ ~HasAccount => dbPos = Nothing /\ moved = <<>>

Books == ~cut => Typed /\ Queued /\ Running /\ Founding /\ Halted

\* The books balance, in memory and in what a start would read.
Sound(a, ps) == a.cash + Exposure(ps) = Bankroll + a.realized

Balanced ==
    ~cut => /\ phase = "running" => Sound(account, pos)
            /\ phase = "down" /\ HasAccount => Sound(Stored, dbPos)

\* What the swaps in the list moved into the wallet, as far as it is booked.
Drawn(swaps) ==
    FoldLeft(LAMBDA sum, swap :
                sum + (IF swap.side = "SELL" THEN Larger(0, swap.sol) ELSE swap.sol), 0, swaps)

OnChain ==
    ~cut /\ execution = "autonomous" =>
        /\ phase = "running" => account.cash = Bankroll + Drawn(moved)
        /\ phase = "down" /\ HasAccount => Stored.cash = Bankroll + Drawn(moved)

----------------------------------------------------------------------------
(* What open positions cost *)

LEMMA SumIsSumOf == ASSUME NEW f, NEW S PROVE SumFunctionOnSet(f, S) = SumOf(f, S)
BY DEF SumFunctionOnSet, FoldFunctionOnSet, SumOf, MapThenSumSet

Costs(ps) == [p \in Positions |-> ps[p].cost]
Values(ps) == [p \in Positions |-> ps[p].value]

LEMMA SumTypes ==
  ASSUME IsFiniteSet(Positions), NEW ps \in [Positions -> Position]
  PROVE  /\ IsFiniteSet(OpenIn(ps)) /\ OpenIn(ps) \in SUBSET Positions
         /\ Costs(ps) \in [Positions -> Int] /\ Exposure(ps) = SumOf(Costs(ps), OpenIn(ps))
         /\ Exposure(ps) \in Int
         /\ \A a \in Account : Equity(a, ps) \in Int
<1>1. OpenIn(ps) \in SUBSET Positions
  BY DEF OpenIn
<1>2. IsFiniteSet(OpenIn(ps))
  BY <1>1, FS_Subset
<1>3. \A p \in Positions : ps[p].cost \in Int /\ ps[p].value \in Int
  BY DEF Position
<1>4. Costs(ps) \in [Positions -> Int] /\ Values(ps) \in [Positions -> Int]
  BY <1>3 DEF Costs, Values
<1>5. Exposure(ps) = SumOf(Costs(ps), OpenIn(ps))
  BY SumIsSumOf DEF Exposure, Costs
<1>6. SumOf(Costs(ps), OpenIn(ps)) \in Int /\ SumOf(Values(ps), OpenIn(ps)) \in Int
  BY <1>1, <1>2, <1>4, SumOfInt
<1>7. ASSUME NEW a \in Account PROVE Equity(a, ps) \in Int
  <2>1. Equity(a, ps) = a.cash + SumOf(Values(ps), OpenIn(ps))
    BY SumIsSumOf DEF Equity, Values
  <2>2. a.cash \in Nat
    BY DEF Account
  <2> QED BY <1>6, <2>1, <2>2
<1> QED BY <1>1, <1>2, <1>4, <1>5, <1>6, <1>7

LEMMA SameExposure ==
  ASSUME IsFiniteSet(Positions), NEW ps \in [Positions -> Position],
         NEW qs \in [Positions -> Position],
         \A p \in Positions : ps[p].state = qs[p].state /\ ps[p].cost = qs[p].cost
  PROVE  Exposure(ps) = Exposure(qs)
<1>1. OpenIn(ps) = OpenIn(qs)
  BY DEF OpenIn
<1>2. Costs(ps) = Costs(qs)
  BY DEF Costs
<1> QED BY <1>1, <1>2, SumTypes

\* A position more costs what it costs.
LEMMA OpenedExposure ==
  ASSUME IsFiniteSet(Positions), NEW ps \in [Positions -> Position], NEW p \in Positions,
         ps[p].state # "open", NEW q \in Position, q.state = "open"
  PROVE  Exposure([ps EXCEPT ![p] = q]) = q.cost + Exposure(ps)
<1> DEFINE qs == [ps EXCEPT ![p] = q]
<1>1. qs \in [Positions -> Position] /\ qs[p] = q /\ \A o \in Positions \ {p} : qs[o] = ps[o]
  OBVIOUS
<1> HIDE DEF qs
<1>2. OpenIn(qs) = OpenIn(ps) \cup {p} /\ p \notin OpenIn(ps)
  BY <1>1 DEF OpenIn
<1>3. /\ IsFiniteSet(OpenIn(ps)) /\ OpenIn(ps) \in SUBSET Positions
      /\ Costs(ps) \in [Positions -> Int] /\ Costs(qs) \in [Positions -> Int]
  BY <1>1, SumTypes
<1>4. SumOf(Costs(qs), OpenIn(qs)) = Costs(qs)[p] + SumOf(Costs(qs), OpenIn(ps))
  BY <1>2, <1>3, SumOfAdded
<1>5. Costs(qs)[p] = q.cost /\ \A o \in OpenIn(ps) : Costs(qs)[o] = Costs(ps)[o]
  BY <1>1, <1>2, <1>3 DEF Costs
<1>6. SumOf(Costs(qs), OpenIn(ps)) = SumOf(Costs(ps), OpenIn(ps))
  BY <1>3, <1>5, SumOfSame
<1>7. Exposure(qs) = q.cost + Exposure(ps)
  BY <1>1, <1>4, <1>5, <1>6, SumTypes
<1> QED BY <1>7 DEF qs

\* A position less, what it has cost.
LEMMA ClosedExposure ==
  ASSUME IsFiniteSet(Positions), NEW ps \in [Positions -> Position], NEW p \in Positions,
         ps[p].state = "open", NEW q \in Position, q.state = "closed"
  PROVE  Exposure(ps) = ps[p].cost + Exposure([ps EXCEPT ![p] = q])
<1> DEFINE qs == [ps EXCEPT ![p] = q]
<1>1. /\ qs \in [Positions -> Position] /\ qs[p].state # "open"
      /\ ps = [qs EXCEPT ![p] = ps[p]] /\ ps[p] \in Position
  OBVIOUS
<1> HIDE DEF qs
<1>2. Exposure([qs EXCEPT ![p] = ps[p]]) = ps[p].cost + Exposure(qs)
  BY <1>1, OpenedExposure
<1>3. Exposure(ps) = ps[p].cost + Exposure(qs)
  BY <1>1, <1>2
<1> QED BY <1>3 DEF qs

LEMMA NoExposure ==
  ASSUME IsFiniteSet(Positions)
  PROVE  /\ Nothing \in [Positions -> Position] /\ Exposure(Nothing) = 0
         /\ \A p \in Positions : Nothing[p].state = "none" /\ Nothing[p].peak = 0
<1>1. NoPosition \in Position
  BY DEF NoPosition, Position
<1>2. /\ Nothing \in [Positions -> Position]
      /\ \A p \in Positions : Nothing[p].state = "none" /\ Nothing[p].peak = 0
  BY <1>1 DEF Nothing, NoPosition
<1>3. OpenIn(Nothing) = {}
  BY <1>2 DEF OpenIn
<1>4. SumOf(Costs(Nothing), {}) = 0
  BY <1>2, SumTypes, SumOfEmpty
<1> QED BY <1>2, <1>3, <1>4, SumTypes

----------------------------------------------------------------------------
(* The account, the fills and the ledger of one entry *)

LEMMA PeakedAccount ==
  ASSUME IsFiniteSet(Positions), NEW ps \in [Positions -> Position], NEW a \in Account
  PROVE  LET b == Peaked(a, ps) IN
         /\ b \in Account /\ b.cash = a.cash /\ b.realized = a.realized
         /\ b.wins = a.wins /\ b.losses = a.losses /\ b.recent = a.recent /\ a.peak =< b.peak
<1> DEFINE e == Equity(a, ps)
<1>1. e \in Int /\ a.peak \in Nat
  BY SumTypes DEF Account
<1>2. Peaked(a, ps) = [a EXCEPT !.peak = Larger(a.peak, e)]
  BY DEF Peaked
<1> HIDE DEF e
<1>3. Larger(a.peak, e) \in Nat /\ a.peak =< Larger(a.peak, e)
  BY <1>1 DEF Larger
<1> QED BY <1>2, <1>3 DEF Account

LEMMA FillAmounts ==
  ASSUME execution \in Executions, NEW fill \in Fills
  PROVE  /\ fill.sol \in Int /\ fill.fee \in Nat
         /\ fill.swap # None => fill.swap.sol \in Int
         /\ Proceeds(fill) \in Nat
<1>1. CASE execution = "autonomous"
  <2>1. PICK side \in {"BUY", "SELL"}, tx \in Transactions :
          /\ ParseConfirmedSwap(tx) # None
          /\ fill = FillFromSwap(side, ParseConfirmedSwap(tx)) /\ fill # None
    BY <1>1 DEF Fills
  <2> DEFINE swap == ParseConfirmedSwap(tx)
  <2>2. /\ tx.pre # None /\ tx.post # None
        /\ swap.fee = OrZero(tx.fee) /\ swap.sol = tx.post - tx.pre
    BY <2>1 DEF ParseConfirmedSwap
  <2>3. tx.pre \in Nat /\ tx.post \in Nat /\ OrZero(tx.fee) \in Nat
    BY <2>2, AmountAssumption DEF OrZero
  <2>4. swap.fee \in Nat /\ swap.sol \in Int
    BY <2>2, <2>3
  <2> HIDE DEF swap
  <2>5. /\ fill.fee = swap.fee /\ fill.swap = swap
        /\ fill.sol = IF side = "BUY" THEN Larger(0, Larger(0, -swap.sol) - swap.fee)
                                      ELSE Larger(0, swap.sol) + swap.fee
    BY <2>1 DEF FillFromSwap, swap
  <2>6. fill.sol \in Int
    BY <2>4, <2>5 DEF Larger
  <2> QED BY <2>4, <2>5, <2>6 DEF Proceeds, Larger
<1>2. CASE execution # "autonomous"
  <2>1. PICK order \in Orders, override \in Overrides : fill = BuildFill(order, override)
    BY <1>2 DEF Fills
  <2>2. /\ order.sol \in Nat \cup {None} /\ order.fee \in Nat \cup {None}
        /\ order.side = "BUY" => order.fee \in Nat
    <3>1. \A o \in Orders : /\ o.sol \in Nat \cup {None} /\ o.fee \in Nat \cup {None}
                            /\ o.side = "BUY" => o.fee \in Nat
      BY AmountAssumption
    <3> QED BY <3>1
  <2>3. override.sol \in Int \cup {None}
    BY AmountAssumption
  <2>4. /\ fill.swap = None
        /\ fill.sol = IF override.sol # None THEN override.sol ELSE OrZero(order.sol)
        /\ fill.fee = IF order.side = "BUY" THEN order.fee \div 2
                                            ELSE OrZero(order.fee) + NetworkFee
    BY <2>1 DEF BuildFill
  <2>5. fill.sol \in Int
    BY <2>2, <2>4, <2>3 DEF OrZero
  <2>6. fill.fee \in Nat
    BY <2>2, <2>4, PortfolioAssumption DEF OrZero
  <2> QED BY <2>4, <2>5, <2>6 DEF Proceeds, Larger
<1> QED BY <1>1, <1>2

LEMMA OpeningAccount == Opening \in Account /\ Deposit.seq = 1
<1>1. <<>> \in Seq(Int) /\ Bankroll \in Nat
  BY PortfolioAssumption
<1> QED BY <1>1 DEF Opening, Account, Deposit, Entry

\* What load_state makes of a ledger with but the deposit.
LEMMA DepositLoads ==
  ASSUME dbLedger = {Deposit} PROVE FromLedger = [account |-> Opening, reached |-> {}]
<1>1. /\ Deposit.seq = 1 /\ Deposit.after = Bankroll /\ Deposit.realized = 0
      /\ Deposit.kind = "DEPOSIT"
  BY DEF Deposit, Entry
<1>2. Cardinality({Deposit}) = 1 /\ IsFiniteSet({Deposit}) /\ Cardinality({}) = 0
  BY FS_Singleton, FS_EmptySet
<1>3. LedgerCash = Bankroll
  <2>1. {d \in {Deposit} : d.seq =< Deposit.seq} = {Deposit}
    BY <1>1
  <2>2. (CHOOSE e \in {Deposit} : Cardinality({d \in {Deposit} : d.seq =< e.seq}) = 1) = Deposit
    BY <1>2, <2>1
  <2>3. InOrder({Deposit}) = <<Deposit>>
    BY <1>2, <2>2 DEF InOrder
  <2>4. Last(<<Deposit>>) = Deposit
    BY DEF Last
  <2> QED BY <1>1, <2>3, <2>4 DEF LedgerCash
<1>4. LedgerPeak = Bankroll
  <2>1. {e.after : e \in {Deposit}} = {Bankroll} /\ Bankroll >= Bankroll
    BY <1>1, PortfolioAssumption
  <2>2. Max({Bankroll}) = Bankroll
    BY <2>1 DEF Max
  <2> QED BY <2>1, <2>2 DEF LedgerPeak
<1>5. LedgerRealized = 0
  <2> DEFINE f == [e \in {Deposit} |-> e.realized]
  <2>1. f \in [{Deposit} -> Int] /\ f[Deposit] = 0
    BY <1>1
  <2> HIDE DEF f
  <2>2. SumOf(f, {Deposit}) = f[Deposit] + SumOf(f, {Deposit} \ {Deposit})
    BY <1>2, <2>1, SumOfMember
  <2>3. {Deposit} \ {Deposit} = {}
    OBVIOUS
  <2>4. SumOf(f, {}) = 0
    BY <2>1, SumOfEmpty
  <2>5. SumOf(f, {Deposit}) = 0
    BY <2>1, <2>2, <2>3, <2>4
  <2> QED BY <2>5, SumIsSumOf DEF LedgerRealized, f
<1>6. Sales = {}
  BY <1>1 DEF Sales
<1>7. LedgerRecent = <<>>
  <2>1. InOrder({}) = <<>>
    BY <1>2 DEF InOrder
  <2> DEFINE r == [i \in DOMAIN InOrder({}) |-> InOrder({})[i].realized]
  <2>2. r = <<>>
    BY <2>1
  <2> HIDE DEF r
  <2>3. ASSUME NEW n \in Nat \ {0} PROVE LastOf(<<>>, n) = <<>>
    <3>1. Larger(1, 0 - n + 1) = 1
      BY DEF Larger
    <3>2. LastOf(<<>>, n) = SubSeq(<<>>, 1, 0)
      BY <3>1 DEF LastOf
    <3>3. SubSeq(<<>>, 1, 0) = <<>>
      OBVIOUS
    <3> QED BY <3>2, <3>3
  <2>4. LastOf(r, 10) = <<>>
    BY <2>2, <2>3
  <2>5. LastOf(LastOf(r, 10), StreakWindow) = <<>>
    BY <2>3, <2>4, PortfolioAssumption
  <2> QED BY <1>6, <2>5 DEF LedgerRecent, r
<1>8. {e \in Sales : e.realized > 0} = {} /\ {e \in Sales : e.realized =< 0} = {}
  BY <1>6
<1> QED BY <1>2, <1>3, <1>4, <1>5, <1>7, <1>8 DEF FromLedger, Opening

LEMMA LoadedIsStored ==
  ASSUME dbAccount = None => dbLedger = {Deposit},
         dbAccount \in AccountRow \cup {None}
  PROVE  /\ Loaded.account = Stored /\ Stored \in Account
         /\ Loaded.reached \subseteq Milestones
<1>1. CASE dbAccount = None
  BY <1>1, DepositLoads, OpeningAccount DEF Loaded, Stored
<1>2. CASE dbAccount # None
  BY <1>2 DEF Loaded, Stored, AccountRow
<1> QED BY <1>1, <1>2

----------------------------------------------------------------------------
(* The queue for the write lock *)

LEMMA QueueJoins ==
  ASSUME Typed, Queued, NEW b \in Bookers, booking[b] = NoBooking,
         lock' = Append(lock, b), NEW w, w # NoBooking,
         booking' = [booking EXCEPT ![b] = w]
  PROVE  Queued' /\ lock' \in Seq(Bookers) /\ lock' # <<>>
<1>1. lock \in Seq(Bookers) /\ Once(lock) /\ ~Occurs(b, lock)
  BY DEF Typed, Queued
<1>2. /\ lock' \in Seq(Bookers) /\ lock' # <<>> /\ Once(lock')
      /\ \A c : Occurs(c, lock') <=> (c = b \/ Occurs(c, lock))
  BY <1>1, OnceJoined
<1>3. \A c \in Bookers : booking'[c] = IF c = b THEN w ELSE booking[c]
  BY DEF Typed
<1>4. \A c \in Bookers : booking'[c] # NoBooking <=> Occurs(c, lock')
  BY <1>2, <1>3 DEF Queued
<1> QED BY <1>2, <1>4 DEF Queued

LEMMA HeadBooks ==
  ASSUME Typed, Queued, lock # <<>>
  PROVE  /\ Head(lock) \in Bookers /\ booking[Head(lock)] # NoBooking
         /\ lock \in Seq(Bookers) /\ Once(lock)
<1>1. lock \in Seq(Bookers) /\ Once(lock)
  BY DEF Typed, Queued
<1>2. Occurs(Head(lock), lock) /\ Head(lock) \in Bookers
  BY <1>1, OnceLeft, HeadAndTail
<1> QED BY <1>1, <1>2 DEF Queued

LEMMA QueueTurns ==
  ASSUME Typed, Queued, lock # <<>>, NEW b, b = Head(lock),
         lock' = Append(Tail(lock), b), NEW w, w # NoBooking,
         booking' = [booking EXCEPT ![b] = w]
  PROVE  Queued' /\ lock' \in Seq(Bookers) /\ lock' # <<>> /\ lock'[Len(lock')] = b
<1>1. lock \in Seq(Bookers) /\ Once(lock) /\ b \in Bookers /\ booking[b] # NoBooking
  BY HeadBooks
<1>2. /\ lock' \in Seq(Bookers) /\ lock' # <<>> /\ Once(lock') /\ lock'[Len(lock')] = b
      /\ \A c : Occurs(c, lock') <=> Occurs(c, lock)
  BY <1>1, OnceTurned
<1>3. \A c \in Bookers : booking'[c] = IF c = b THEN w ELSE booking[c]
  BY DEF Typed
<1>4. \A c \in Bookers : booking'[c] # NoBooking <=> Occurs(c, lock')
  BY <1>1, <1>2, <1>3 DEF Queued
<1> QED BY <1>2, <1>4 DEF Queued

LEMMA QueueLeaves ==
  ASSUME Typed, Queued, lock # <<>>, NEW b, b = Head(lock), lock' = Tail(lock),
         booking' = [booking EXCEPT ![b] = NoBooking]
  PROVE  /\ Queued' /\ lock' \in Seq(Bookers)
         /\ lock' = <<>> => lock[Len(lock)] = b
         /\ lock' # <<>> => /\ lock'[Len(lock')] = lock[Len(lock)] /\ lock[Len(lock)] # b
                            /\ lock[Len(lock)] \in Bookers
<1>1. lock \in Seq(Bookers) /\ Once(lock) /\ b \in Bookers /\ booking[b] # NoBooking
  BY HeadBooks
<1>2. /\ lock' \in Seq(Bookers) /\ Once(lock') /\ ~Occurs(b, lock')
      /\ \A c : Occurs(c, lock) <=> (c = b \/ Occurs(c, lock'))
      /\ lock' = <<>> => lock[Len(lock)] = b
      /\ lock' # <<>> => /\ lock'[Len(lock')] = lock[Len(lock)] /\ lock[Len(lock)] # b
                         /\ lock[Len(lock)] \in Bookers
  BY <1>1, OnceLeft
<1>3. \A c \in Bookers : booking'[c] = IF c = b THEN NoBooking ELSE booking[c]
  BY DEF Typed
<1>4. \A c \in Bookers : booking'[c] # NoBooking <=> Occurs(c, lock')
  BY <1>2, <1>3 DEF Queued
<1> QED BY <1>2, <1>4 DEF Queued

LEMMA NobodyWaits ==
  ASSUME Queued, \A b \in Bookers : booking[b] = NoBooking, lock \in Seq(Bookers)
  PROVE  lock = <<>>
<1>1. SUFFICES ASSUME lock # <<>> PROVE FALSE
  OBVIOUS
<1>2. Occurs(Head(lock), lock) /\ Head(lock) \in Bookers
  BY <1>1, OnceLeft, HeadAndTail DEF Queued
<1> QED BY <1>2 DEF Queued

----------------------------------------------------------------------------
(* A booking *)

Whole == Typed /\ Queued /\ Running /\ Founding /\ Halted

\* Whatever a booking opens or closes, with nobody else booking the same position.
LEMMA BookingBegins ==
  ASSUME Whole, phase = "running", NEW b \in Bookers, booking[b] = NoBooking,
         NEW p \in Positions, NEW q \in Position, q.state # "none", pos' = [pos EXCEPT ![p] = q],
         \A c \in Bookers : booking[c].writes # "nothing" => booking[c].of # p,
         account' \in Account, moved' \in Seq([side : {"BUY", "SELL"}, sol : Int]),
         Begin(b, Writing(p, "fill", None)),
         UNCHANGED <<execution, phase, reached, rows>>
  PROVE  Whole'
<1> DEFINE w == Writing(p, "fill", None)
<1>1. /\ w.of = p /\ w.writes = "fill" /\ w # NoBooking /\ WriteOK(w)
      /\ NoBooking.writes = "nothing"
  BY DEF Writing, NoBooking, WriteOK
<1>2. booking' = [booking EXCEPT ![b] = w] /\ lock' = Append(lock, b)
  BY DEF Begin
<1> HIDE DEF w
<1>3. Queued' /\ lock' \in Seq(Bookers) /\ lock' # <<>>
  BY <1>1, <1>2, QueueJoins DEF Whole
<1>4. /\ \A c \in Bookers : booking'[c] = IF c = b THEN w ELSE booking[c]
      /\ booking' = [c \in Bookers |-> booking'[c]]
  BY <1>2 DEF Whole, Typed
<1>5. /\ pos' \in [Positions -> Position] /\ pos'[p] = q
      /\ \A o \in Positions \ {p} : pos'[o] = pos[o]
  BY DEF Whole, Typed
<1>6. Typed'
  BY <1>1, <1>3, <1>4, <1>5 DEF Whole, Typed, rows
<1>7. ~Captured'
  BY <1>1, <1>4 DEF Captured
<1>8. PositionRows'
  <2>1. PositionRows
    BY DEF Whole, Running
  <2>2. ASSUME NEW c \in Bookers, booking'[c].writes # "nothing"
        PROVE  booking'[c].of \in Positions /\ pos'[booking'[c].of].state # "none"
    BY <1>1, <1>4, <1>5, <2>1, <2>2 DEF PositionRows
  <2>3. ASSUME NEW c \in Bookers, booking'[c].writes = "position"
        PROVE  Kept(booking'[c].row, pos'[booking'[c].of])
    <3>1. c # b /\ booking'[c] = booking[c] /\ booking[c].of \in Positions \ {p}
      BY <1>1, <1>4, <2>1, <2>3 DEF PositionRows
    <3> QED BY <1>5, <2>1, <2>3, <3>1 DEF PositionRows
  <2>4. ASSUME NEW o \in Positions
        PROVE  \/ Kept(dbPos'[o], pos'[o])
               \/ \E c \in Bookers : /\ booking'[c].of = o
                                     /\ booking'[c].writes \in {"fill", "position"}
    <3>1. CASE o = p
      BY <1>1, <1>4, <3>1
    <3>2. CASE o # p
      <4>1. \/ Kept(dbPos[o], pos[o])
            \/ \E c \in Bookers : booking[c].of = o /\ booking[c].writes \in {"fill", "position"}
        BY <2>1 DEF PositionRows
      <4>2. \A c \in Bookers :
               booking[c].writes \in {"fill", "position"} => booking'[c] = booking[c]
        BY <1>1, <1>4
      <4>3. dbPos' = dbPos /\ pos'[o] = pos[o]
        BY <1>5, <3>2 DEF rows
      <4> QED BY <4>1, <4>2, <4>3
    <3> QED BY <3>1, <3>2
  <2> QED BY <2>2, <2>3, <2>4 DEF PositionRows
<1>9. HasAccount'
  BY DEF Whole, Running, HasAccount, rows
<1> QED BY <1>3, <1>6, <1>7, <1>8, <1>9 DEF Whole, Running, Founding, Halted, AccountRows

Moved == [side : {"BUY", "SELL"}, sol : Int]

LEMMA MovesTyped ==
  ASSUME moved \in Seq(Moved), NEW fill, Moves(fill), fill.side \in {"BUY", "SELL"},
         fill.swap # None => fill.swap.sol \in Int
  PROVE  moved' \in Seq(Moved)
<1>1. CASE fill.swap = None
  BY <1>1 DEF Moves
<1>2. CASE fill.swap # None
  <2> DEFINE side == fill.side
             sol == fill.swap.sol
             x == [side |-> side, sol |-> sol]
  <2>1. side \in {"BUY", "SELL"} /\ sol \in Int
    BY <1>2
  <2>2. moved' = Append(moved, x)
    BY <1>2 DEF Moves
  <2> HIDE DEF side, sol
  <2>3. x \in Moved
    BY <2>1 DEF Moved
  <2> HIDE DEF x
  <2> QED BY <2>2, <2>3, AppendProperties
<1> QED BY <1>1, <1>2

LEMMA PaidAccount ==
  ASSUME NEW a \in Account, NEW c \in Nat
  PROVE  LET paid == [a EXCEPT !.cash = c] IN
         paid \in Account /\ paid.cash = c /\ paid.realized = a.realized /\ SameCounts(paid, a)
BY DEF Account, SameCounts

LEMMA OpensBooking ==
  ASSUME IsFiniteSet(Positions), Whole, NEW b \in Bookers, NEW p \in Positions,
         NEW fill \in Fills, OpenPosition(b, p, fill)
  PROVE  /\ Whole'
         /\ account'.cash = account.cash - (fill.sol + fill.fee)
         /\ account'.realized = account.realized /\ SameCounts(account', account)
         /\ \E q \in Position : /\ q.state = "open" /\ q.cost = fill.sol + fill.fee
                                /\ pos' = [pos EXCEPT ![p] = q]
         /\ fill.sol \in Int /\ fill.fee \in Nat /\ fill.side = "BUY"
<1> DEFINE cost == fill.sol + fill.fee
           worth == fill.sol
           q == [state |-> "open", cost |-> cost, value |-> worth, peak |-> worth]
           held == [pos EXCEPT ![p] = q]
           left == account.cash - cost
           paid == [account EXCEPT !.cash = left]
<1>1. /\ phase = "running" /\ booking[b] = NoBooking /\ pos[p].state = "none"
      /\ fill.side = "BUY" /\ cost =< account.cash
      /\ pos' = held /\ account' = Peaked(paid, held)
      /\ Begin(b, Writing(p, "fill", None)) /\ Moves(fill)
      /\ UNCHANGED <<execution, phase, reached, rows>>
  BY DEF OpenPosition, MayBook, Idle
<1>2. /\ worth \in Int /\ fill.fee \in Nat
      /\ fill.swap # None => fill.swap.sol \in Int
  BY FillAmounts DEF Whole, Typed
<1>3. account \in Account /\ account.cash \in Nat /\ pos \in [Positions -> Position]
  BY DEF Whole, Typed, Account
<1>4. cost \in Int /\ left \in Nat
  BY <1>1, <1>2, <1>3
<1> HIDE DEF cost, worth, left
<1>5. q \in Position /\ q.state = "open" /\ q.cost = cost
  BY <1>2, <1>4 DEF Position
<1>6. /\ paid \in Account /\ paid.cash = left /\ paid.realized = account.realized
      /\ SameCounts(paid, account)
  BY <1>3, <1>4, PaidAccount
<1> HIDE DEF q, paid
<1>7. held \in [Positions -> Position]
  BY <1>3, <1>5
<1> HIDE DEF held
<1>8. /\ account' \in Account /\ account'.cash = left /\ account'.realized = account.realized
      /\ SameCounts(account', account)
  BY <1>1, <1>6, <1>7, PeakedAccount DEF SameCounts
<1>9. moved' \in Seq(Moved)
  BY <1>1, <1>2, MovesTyped DEF Whole, Typed, Moved
<1>10. \A c \in Bookers : booking[c].writes # "nothing" => booking[c].of # p
  BY <1>1 DEF Whole, Running, PositionRows
<1>11. Whole'
  BY <1>1, <1>5, <1>8, <1>9, <1>10, BookingBegins DEF held, Moved
<1>12. \E r \in Position : r.state = "open" /\ r.cost = cost /\ pos' = [pos EXCEPT ![p] = r]
  BY <1>1, <1>5 DEF held
<1> QED BY <1>1, <1>2, <1>8, <1>11, <1>12 DEF cost, left, worth

LEMMA LastOfType ==
  ASSUME NEW s \in Seq(Int), NEW n \in Nat \ {0} PROVE LastOf(s, n) \in Seq(Int)
<1> DEFINE m == Larger(1, Len(s) - n + 1)
<1>1. Len(s) \in Nat
  BY LenProperties
<1>2. m \in Nat \ {0} /\ m \in 1..(Len(s) + 1)
  BY <1>1 DEF Larger
<1> HIDE DEF m
<1>3. \A i \in m..Len(s) : s[i] \in Int
  BY <1>1, <1>2, ElementOfSeq
<1>4. SubSeq(s, m, Len(s)) \in Seq(Int)
  BY <1>1, <1>2, <1>3, SubSeqProperties
<1> QED BY <1>4 DEF LastOf, m

LEMMA ScoredAccount ==
  ASSUME NEW a \in Account, NEW r \in Int
  PROVE  /\ Scored(a, r) \in Account /\ Scored(a, r).cash = a.cash
         /\ Scored(a, r).realized = a.realized + r /\ Counts(Scored(a, r), a, r)
<1> DEFINE w == a.wins + (IF r > 0 THEN 1 ELSE 0)
           l == a.losses + (IF r > 0 THEN 0 ELSE 1)
           s == LastOf(Append(a.recent, r), StreakWindow)
           d == a.realized + r
<1>1. /\ a.realized \in Int /\ a.wins \in Nat
      /\ a.losses \in Nat /\ a.recent \in Seq(Int)
  BY DEF Account
<1>2. w \in Nat /\ l \in Nat /\ d \in Int
  BY <1>1
<1>3. s \in Seq(Int)
  BY <1>1, AppendProperties, LastOfType, PortfolioAssumption
<1>4. Scored(a, r) = [a EXCEPT !.realized = d, !.wins = w, !.losses = l, !.recent = s]
  BY DEF Scored
<1> HIDE DEF w, l, s, d
<1>5. LET b == [a EXCEPT !.realized = d, !.wins = w, !.losses = l, !.recent = s] IN
      /\ b \in Account /\ b.cash = a.cash /\ b.realized = d
      /\ b.wins = w /\ b.losses = l /\ b.recent = s
  BY <1>2, <1>3 DEF Account
<1> QED BY <1>4, <1>5 DEF d, w, l, s, Counts

LEMMA ClosesBooking ==
  ASSUME IsFiniteSet(Positions), Whole, NEW b \in Bookers, NEW p \in Positions,
         NEW fill \in Fills, ClosePosition(b, p, fill)
  PROVE  /\ Whole'
         /\ account'.cash = account.cash + Proceeds(fill)
         /\ account'.realized = account.realized + (Proceeds(fill) - pos[p].cost)
         /\ Counts(account', account, Proceeds(fill) - pos[p].cost)
         /\ \E q \in Position : q.state = "closed" /\ pos' = [pos EXCEPT ![p] = q]
         /\ pos[p].state = "open" /\ fill.side = "SELL"
<1> DEFINE got == Proceeds(fill)
           realized == got - pos[p].cost
           q == [pos[p] EXCEPT !.state = "closed", !.value = 0]
           held == [pos EXCEPT ![p] = q]
           rich == account.cash + got
           paid == [account EXCEPT !.cash = rich]
<1>1. /\ phase = "running" /\ booking[b] = NoBooking /\ pos[p].state = "open"
      /\ \A c \in Bookers : booking[c].of # p
      /\ fill.side = "SELL"
      /\ pos' = [pos EXCEPT ![p].state = "closed", ![p].value = 0]
      /\ account' = Peaked(Scored(paid, realized), pos')
      /\ Begin(b, Writing(p, "fill", None)) /\ Moves(fill)
      /\ UNCHANGED <<execution, phase, reached, rows>>
  BY DEF ClosePosition, MayBook, Idle
<1>2. /\ got \in Nat
      /\ fill.swap # None => fill.swap.sol \in Int
  BY FillAmounts DEF Whole, Typed
<1>3. account \in Account /\ account.cash \in Nat /\ pos \in [Positions -> Position]
  BY DEF Whole, Typed, Account
<1>4. q \in Position /\ q.state = "closed" /\ pos' = held /\ pos[p].cost \in Int
  <2>1. pos[p] \in Position /\ pos[p].cost \in Int
    BY <1>3 DEF Position
  <2>2. q \in Position /\ q.state = "closed"
    <3> DEFINE r == pos[p]
               s == "closed"
               v == 0
    <3>1. r \in Position /\ s \in {"none", "open", "closed"} /\ v \in Int
      BY <2>1
    <3>2. q = [r EXCEPT !.state = s, !.value = v]
      OBVIOUS
    <3> HIDE DEF r, s, v, q
    <3>3. LET x == [r EXCEPT !.state = s, !.value = v] IN x \in Position /\ x.state = s
      BY <3>1 DEF Position
    <3> QED BY <3>2, <3>3 DEF s
  <2>3. pos' = held
    BY <1>1, <1>3
  <2> QED BY <2>1, <2>2, <2>3
<1>5. rich \in Nat /\ realized \in Int
  BY <1>2, <1>3, <1>4
<1> HIDE DEF realized, q, rich, got
<1>6. /\ paid \in Account /\ paid.cash = rich /\ paid.realized = account.realized
      /\ SameCounts(paid, account)
  BY <1>3, <1>5, PaidAccount
<1> HIDE DEF paid
<1>7. held \in [Positions -> Position]
  BY <1>3, <1>4
<1> HIDE DEF held
<1>8. /\ Scored(paid, realized) \in Account /\ Scored(paid, realized).cash = paid.cash
      /\ Scored(paid, realized).realized = paid.realized + realized
      /\ Counts(Scored(paid, realized), paid, realized)
  BY <1>5, <1>6, ScoredAccount
<1>9. /\ account' \in Account /\ account'.cash = rich
      /\ account'.realized = account.realized + realized
      /\ Counts(account', account, realized)
  <2> DEFINE scored == Scored(paid, realized)
  <2>1. account' = Peaked(scored, held)
    BY <1>1, <1>4
  <2>2. /\ scored \in Account /\ scored.cash = rich
        /\ scored.realized = account.realized + realized
        /\ Counts(scored, account, realized)
    BY <1>6, <1>8 DEF Counts, SameCounts
  <2> HIDE DEF scored
  <2> QED BY <1>7, <2>1, <2>2, PeakedAccount DEF Counts
<1>10. moved' \in Seq(Moved)
  BY <1>1, <1>2, MovesTyped DEF Whole, Typed, Moved
<1>11. q.state # "none" /\ \A c \in Bookers : booking[c].writes # "nothing" => booking[c].of # p
  BY <1>1, <1>4
<1>12. Whole'
  BY <1>1, <1>4, <1>9, <1>10, <1>11, BookingBegins DEF held, Moved
<1>13. \E r \in Position : r.state = "closed" /\ pos' = [pos EXCEPT ![p] = r]
  BY <1>4 DEF held
<1> QED BY <1>1, <1>9, <1>12, <1>13 DEF realized, rich, got

----------------------------------------------------------------------------
(* The other steps of a running process *)

LEMMA SameMore ==
  ASSUME NEW row \in Account, NEW a \in Account, Same(row, a), NEW b \in Account,
         b.cash = a.cash, b.realized = a.realized, b.wins = a.wins, b.losses = a.losses,
         b.recent = a.recent, a.peak =< b.peak
  PROVE  Same(row, b)
<1>1. row.peak \in Nat /\ a.peak \in Nat /\ b.peak \in Nat
  BY DEF Account
<1> QED BY <1>1 DEF Same

LEMMA KeptMore ==
  ASSUME NEW row \in Position, NEW q \in Position, Kept(row, q), NEW r \in Position,
         r.state = q.state, r.cost = q.cost, q.peak =< r.peak
  PROVE  Kept(row, r)
<1>1. row.peak \in Int /\ q.peak \in Int /\ r.peak \in Int
  BY DEF Position
<1> QED BY <1>1 DEF Kept

LEMMA SameSame ==
  /\ \A a \in Account : Same(a, a)
  /\ \A q \in Position : Kept(q, q)
<1>1. /\ \A a \in Account : a.peak \in Nat
      /\ \A q \in Position : q.peak \in Int
  BY DEF Account, Position
<1> QED BY <1>1 DEF Same, Kept

\* The row of the last booking in the queue, when all have captured theirs.
LEMMA LastCaptured ==
  ASSUME Typed, Queued, Captured, lock # <<>>
  PROVE  /\ lock[Len(lock)] \in Bookers /\ booking[lock[Len(lock)]].writes = "account"
         /\ booking[lock[Len(lock)]].row \in AccountRow
         /\ booking[lock[Len(lock)]].row.account \in Account
<1> DEFINE n == Len(lock)
           c == lock[n]
<1>1. lock \in Seq(Bookers)
  BY DEF Typed
<1>2. n \in Nat \ {0}
  BY <1>1, HeadAndTail
<1>3. c \in Bookers /\ Occurs(c, lock)
  BY <1>1, <1>2, ElementOfSeq DEF Occurs
<1> HIDE DEF c
<1>4. booking[c] # NoBooking /\ WriteOK(booking[c])
  BY <1>3 DEF Queued, Typed
<1>5. booking[c].writes = "account" /\ booking[c].row \in AccountRow
  BY <1>3, <1>4 DEF Captured, WriteOK
<1> QED BY <1>3, <1>5 DEF c, AccountRow

\* A valuation and a snapshot change nothing that a row is held against.
LEMMA Marked ==
  ASSUME Whole, phase = "running", pos' \in [Positions -> Position],
         \A p \in Positions : /\ pos'[p].state = pos[p].state /\ pos'[p].cost = pos[p].cost
                              /\ pos[p].peak =< pos'[p].peak,
         account' \in Account, account'.cash = account.cash,
         account'.realized = account.realized, account'.wins = account.wins,
         account'.losses = account.losses, account'.recent = account.recent,
         account.peak =< account'.peak, reached' \subseteq Milestones,
         UNCHANGED <<execution, phase, booking, lock, rows, moved>>
  PROVE  Whole'
<1>1. /\ Typed /\ Queued /\ HasAccount /\ AccountRows /\ PositionRows
      /\ account \in Account /\ pos \in [Positions -> Position]
      /\ dbAccount' = dbAccount /\ dbPos' = dbPos /\ dbLedger' = dbLedger
      /\ booking' = booking /\ lock' = lock
  BY DEF Whole, Running, Typed, rows
<1>2. Typed'
  BY <1>1 DEF Typed
<1>3. Queued' /\ HasAccount' /\ Stored' = Stored /\ (Captured' <=> Captured)
  BY <1>1 DEF Queued, HasAccount, Stored, Captured
<1>4. \A row \in Account : Same(row, account) => Same(row, account')
  BY <1>1, SameMore
<1>5. AccountRows'
  <2>1. SUFFICES ASSUME Captured
                 PROVE  IF lock = <<>>
                        THEN Same(Stored, account') /\ (dbAccount = None => dbLedger = {Deposit})
                        ELSE Same(booking[lock[Len(lock)]].row.account, account')
    BY <1>1, <1>3 DEF AccountRows
  <2>2. CASE lock = <<>>
    <3>1. Same(Stored, account) /\ (dbAccount = None => dbLedger = {Deposit})
      BY <1>1, <2>1, <2>2 DEF AccountRows
    <3>2. Stored \in Account
      BY <1>1, <3>1, LoadedIsStored DEF Typed
    <3> QED BY <1>4, <2>2, <3>1, <3>2
  <2>3. CASE lock # <<>>
    <3> DEFINE row == booking[lock[Len(lock)]].row.account
    <3>1. Same(row, account)
      BY <1>1, <2>1, <2>3 DEF AccountRows
    <3>2. row \in Account
      BY <1>1, <2>1, <2>3, LastCaptured
    <3> HIDE DEF row
    <3>3. Same(row, account')
      BY <1>4, <3>1, <3>2
    <3> QED BY <2>3, <3>3 DEF row
  <2> QED BY <2>2, <2>3
<1>6. \A p \in Positions, row \in Position : Kept(row, pos[p]) => Kept(row, pos'[p])
  BY <1>1, KeptMore
<1>7. PositionRows'
  <2>1. \A b \in Bookers : booking[b].writes # "nothing"
           => booking[b].of \in Positions /\ pos'[booking[b].of].state # "none"
    BY <1>1 DEF PositionRows
  <2>2. ASSUME NEW b \in Bookers, booking[b].writes = "position"
        PROVE  Kept(booking[b].row, pos'[booking[b].of])
    <3>1. /\ booking[b].of \in Positions /\ booking[b].row \in Position
          /\ Kept(booking[b].row, pos[booking[b].of])
      BY <1>1, <2>2 DEF PositionRows, Typed, WriteOK
    <3> QED BY <1>6, <3>1
  <2>3. ASSUME NEW p \in Positions
        PROVE  \/ Kept(dbPos[p], pos'[p])
               \/ \E b \in Bookers : booking[b].of = p /\ booking[b].writes \in {"fill", "position"}
    <3>1. dbPos[p] \in Position
      BY <1>1 DEF Typed
    <3> QED BY <1>1, <1>6, <3>1 DEF PositionRows
  <2> QED BY <1>1, <2>1, <2>2, <2>3 DEF PositionRows
<1> QED BY <1>2, <1>3, <1>5, <1>7 DEF Whole, Running, Founding, Halted

LEMMA MarksPosition ==
  ASSUME IsFiniteSet(Positions), Whole, NEW p \in Positions, NEW value \in Marks,
         MarkPosition(p, value)
  PROVE  /\ Whole' /\ account'.cash = account.cash /\ account'.realized = account.realized
         /\ SameCounts(account', account)
         /\ \A o \in Positions : pos'[o].state = pos[o].state /\ pos'[o].cost = pos[o].cost
<1> DEFINE k == Larger(pos[p].peak, value)
           q == [pos[p] EXCEPT !.value = value, !.peak = k]
<1>1. /\ phase = "running" /\ account' = Peaked(account, pos')
      /\ pos' = [pos EXCEPT ![p].value = value, ![p].peak = Larger(@, value)]
      /\ UNCHANGED <<execution, phase, reached, booking, lock, rows, moved>>
  BY DEF MarkPosition, Idle
<1>2. /\ account \in Account /\ pos \in [Positions -> Position] /\ reached \subseteq Milestones
  BY DEF Whole, Typed
<1>3. pos[p] \in Position /\ pos[p].peak \in Int /\ value \in Int
  BY <1>2, PortfolioAssumption DEF Position
<1>4. k \in Int /\ pos[p].peak =< k
  BY <1>3 DEF Larger
<1>5. pos' = [pos EXCEPT ![p] = q]
  BY <1>1, <1>2
<1> HIDE DEF k
<1>6. q \in Position /\ q.state = pos[p].state /\ q.cost = pos[p].cost /\ q.peak = k
  <2> DEFINE r == pos[p]
  <2>1. r \in Position
    BY <1>3
  <2> HIDE DEF r
  <2>2. LET x == [r EXCEPT !.value = value, !.peak = k] IN
        x \in Position /\ x.state = r.state /\ x.cost = r.cost /\ x.peak = k
    BY <1>3, <1>4, <2>1 DEF Position
  <2> QED BY <2>2 DEF r
<1> HIDE DEF q
<1>7. /\ pos' \in [Positions -> Position] /\ pos'[p] = q
      /\ \A o \in Positions \ {p} : pos'[o] = pos[o]
  BY <1>2, <1>5, <1>6
<1>8. \A o \in Positions : /\ pos'[o].state = pos[o].state /\ pos'[o].cost = pos[o].cost
                           /\ pos[o].peak =< pos'[o].peak
  <2>1. \A o \in Positions : pos[o].peak \in Int
    BY <1>2 DEF Position
  <2> QED BY <1>4, <1>6, <1>7, <2>1
<1>9. /\ account' \in Account /\ account'.cash = account.cash
      /\ account'.realized = account.realized /\ account'.wins = account.wins
      /\ account'.losses = account.losses /\ account'.recent = account.recent
      /\ account.peak =< account'.peak
  BY ZenonT(30), <1>1, <1>2, <1>7, PeakedAccount
<1>10. Whole'
  BY <1>1, <1>2, <1>7, <1>8, <1>9, Marked
<1> QED BY <1>8, <1>9, <1>10 DEF SameCounts

LEMMA Snapshots ==
  ASSUME Whole, Snapshot PROVE Whole' /\ account' = account /\ pos' = pos
<1>1. /\ phase = "running" /\ reached' \subseteq Milestones
      /\ account' = account /\ pos' = pos
      /\ UNCHANGED <<execution, phase, booking, lock, rows, moved>>
  BY DEF Snapshot, Idle, UpdateMilestones, Updated
<1>2. /\ account \in Account /\ pos \in [Positions -> Position]
      /\ account.peak \in Nat /\ \A p \in Positions : pos[p].peak \in Int
  BY DEF Whole, Typed, Account, Position
<1>3. account.peak =< account.peak /\ \A p \in Positions : pos[p].peak =< pos[p].peak
  BY <1>2
<1>4. Whole'
  BY <1>1, <1>2, <1>3, Marked
<1> QED BY <1>1, <1>4

----------------------------------------------------------------------------
(* Commits *)

\* The booking whose turn it is.
LEMMA HeadWrites ==
  ASSUME Whole, NEW b \in Bookers, CommitStep(b)
  PROVE  /\ phase = "running" /\ lock # <<>> /\ b = Head(lock)
         /\ Typed /\ Queued /\ HasAccount /\ AccountRows /\ PositionRows
         /\ booking[b] # NoBooking /\ WriteOK(booking[b])
         /\ booking[b].writes \in {"fill", "position", "ledger", "account"}
         /\ booking[b].of \in Positions /\ pos[booking[b].of] \in Position
         /\ booking' = [booking EXCEPT ![b] = NextWrite(booking[b])]
         /\ Written(booking[b])
         /\ UNCHANGED <<execution, phase, account, pos, moved>>
<1>1. /\ phase = "running" /\ lock # <<>> /\ b = Head(lock)
      /\ booking' = [booking EXCEPT ![b] = NextWrite(booking[b])]
      /\ Written(booking[b])
      /\ UNCHANGED <<execution, phase, account, pos, moved>>
  BY DEF CommitStep
<1>2. Typed /\ Queued /\ HasAccount /\ AccountRows /\ PositionRows
  BY <1>1 DEF Whole, Running
<1>3. booking[b] # NoBooking /\ WriteOK(booking[b])
  BY <1>1, <1>2, HeadBooks DEF Typed
<1>4. booking[b].writes \in {"fill", "position", "ledger", "account"}
  BY <1>3 DEF WriteOK
<1>5. booking[b].of \in Positions
  BY <1>2, <1>4 DEF PositionRows
<1>6. pos[booking[b].of] \in Position
  BY <1>2, <1>5 DEF Typed
<1> QED BY <1>1, <1>2, <1>3, <1>4, <1>5, <1>6

\* Three commits of four leave a booking that has not captured its account row, or has it now.
LEMMA CommitTurns ==
  ASSUME Whole, NEW b \in Bookers, CommitStep(b), booking[b].writes # "account",
         NEW w, booking' = [booking EXCEPT ![b] = w], WriteOK(w), w # NoBooking,
         w.of = booking[b].of,
         w.writes = "account" => w.row.account = account,
         w.writes # "account" => w.writes \in {"fill", "position", "ledger"},
         w.writes = "position" => w.row = pos[w.of],
         booking[b].writes = "fill" => w.writes = "position",
         dbPos' \in [Positions -> Position],
         \A p \in Positions :
           \/ /\ dbPos'[p] = dbPos[p]
              /\ booking[b].of = p => (w.writes = "position" \/ booking[b].writes = "ledger")
           \/ p = booking[b].of /\ Kept(dbPos'[p], pos[p]),
         HasAccount', dbAccount' = dbAccount
  PROVE  Whole'
<1>1. /\ phase = "running" /\ lock # <<>> /\ b = Head(lock)
      /\ Typed /\ Queued /\ PositionRows
      /\ booking[b] # NoBooking
      /\ booking[b].writes \in {"fill", "position", "ledger"}
      /\ booking[b].of \in Positions /\ pos[booking[b].of] \in Position
      /\ UNCHANGED <<execution, phase, account, pos, moved>>
  BY HeadWrites
<1>2. UNCHANGED reached /\ lock' = Append(Tail(lock), b)
  BY DEF CommitStep
<1>3. Queued' /\ lock' \in Seq(Bookers) /\ lock' # <<>> /\ lock'[Len(lock')] = b
  BY <1>1, <1>2, QueueTurns
<1>4. /\ \A c \in Bookers : booking'[c] = IF c = b THEN w ELSE booking[c]
      /\ booking' = [c \in Bookers |-> booking'[c]]
  BY <1>1 DEF Typed
<1>5. Typed'
  BY <1>1, <1>2, <1>3, <1>4 DEF Typed
<1>6. AccountRows'
  <2>1. CASE w.writes = "account"
    <3>1. booking'[lock'[Len(lock')]].row.account = account'
      BY <1>1, <1>3, <1>4, <2>1
    <3>2. Same(account', account')
      BY <1>5, SameSame DEF Typed
    <3> QED BY <1>3, <3>1, <3>2 DEF AccountRows
  <2>2. CASE w.writes # "account"
    <3>1. ~Captured'
      BY <1>4, <2>2 DEF Captured
    <3> QED BY <3>1 DEF AccountRows
  <2> QED BY <2>1, <2>2
<1>7. PositionRows'
  <2>1. \A c \in Bookers : booking'[c].writes # "nothing"
           => booking'[c].of \in Positions /\ pos[booking'[c].of].state # "none"
    BY <1>1, <1>4 DEF PositionRows
  <2>2. ASSUME NEW c \in Bookers, booking'[c].writes = "position"
        PROVE  Kept(booking'[c].row, pos[booking'[c].of])
    <3>1. CASE c = b
      BY <1>1, <1>4, <2>2, <3>1, SameSame
    <3>2. CASE c # b
      BY <1>1, <1>4, <2>2, <3>2 DEF PositionRows
    <3> QED BY <3>1, <3>2
  <2>3. ASSUME NEW p \in Positions
        PROVE  \/ Kept(dbPos'[p], pos[p])
               \/ \E c \in Bookers : /\ booking'[c].of = p
                                     /\ booking'[c].writes \in {"fill", "position"}
    <3>1. CASE p = booking[b].of /\ Kept(dbPos'[p], pos[p])
      BY <3>1
    <3>2. CASE /\ dbPos'[p] = dbPos[p]
               /\ booking[b].of = p => w.writes = "position" \/ booking[b].writes = "ledger"
      <4>1. CASE Kept(dbPos[p], pos[p])
        BY <3>2, <4>1
      <4>2. CASE ~Kept(dbPos[p], pos[p])
        <5>1. PICK c \in Bookers : booking[c].of = p /\ booking[c].writes \in {"fill", "position"}
          BY <1>1, <4>2 DEF PositionRows
        <5>2. CASE c = b
          BY <1>1, <1>4, <3>2, <5>1, <5>2
        <5>3. CASE c # b
          BY <1>4, <5>1, <5>3
        <5> QED BY <5>2, <5>3
      <4> QED BY <4>1, <4>2
    <3> QED BY <3>1, <3>2
  <2> QED BY <1>1, <2>1, <2>2, <2>3 DEF PositionRows
<1> QED BY <1>1, <1>3, <1>5, <1>6, <1>7 DEF Whole, Running, Founding, Halted

LEMMA FillCommits ==
  ASSUME Whole, NEW b \in Bookers, CommitStep(b), booking[b].writes = "fill" PROVE Whole'
<1> DEFINE p == booking[b].of
           q == pos[p]
           w == Writing(p, "position", q)
<1>1. /\ booking' = [booking EXCEPT ![b] = w] /\ p \in Positions /\ q \in Position
      /\ UNCHANGED <<dbAccount, dbPos, dbLedger>> /\ HasAccount /\ Typed
  BY HeadWrites DEF NextWrite, Written
<1> HIDE DEF p, q
<1>2. /\ WriteOK(w) /\ w # NoBooking /\ w.of = p /\ w.writes = "position" /\ w.row = q
  BY <1>1 DEF WriteOK, Writing, NoBooking
<1> HIDE DEF w
<1>3. HasAccount' /\ dbPos' \in [Positions -> Position]
  BY <1>1 DEF HasAccount, Typed
<1> QED BY <1>1, <1>2, <1>3, CommitTurns DEF p, q

LEMMA PositionCommits ==
  ASSUME Whole, NEW b \in Bookers, CommitStep(b), booking[b].writes = "position" PROVE Whole'
<1> DEFINE p == booking[b].of
           row == booking[b].row
           last == Last(ledger)
           w == Writing(p, "ledger", last)
<1>1. /\ booking' = [booking EXCEPT ![b] = w] /\ p \in Positions /\ WriteOK(booking[b])
      /\ UNCHANGED <<dbAccount, dbLedger>> /\ HasAccount /\ Typed /\ PositionRows
      /\ dbPos' = [dbPos EXCEPT ![p] = row]
  BY HeadWrites DEF NextWrite, Written
<1>2. row \in Position /\ Kept(row, pos[p])
  BY <1>1 DEF PositionRows, WriteOK
<1> HIDE DEF p, last, row
<1>3. /\ WriteOK(w) /\ w # NoBooking /\ w.of = p /\ w.writes = "ledger"
  BY <1>1 DEF WriteOK, Writing, NoBooking
<1> HIDE DEF w
<1>4. HasAccount' /\ dbPos' \in [Positions -> Position]
  BY <1>1, <1>2 DEF HasAccount, Typed
<1>5. \A o \in Positions : dbPos'[o] = IF o = p THEN row ELSE dbPos[o]
  BY <1>1 DEF Typed
<1> QED BY <1>1, <1>2, <1>3, <1>4, <1>5, CommitTurns DEF p

LEMMA LedgerCommits ==
  ASSUME Whole, NEW b \in Bookers, CommitStep(b), booking[b].writes = "ledger" PROVE Whole'
<1> DEFINE p == booking[b].of
           row == [account |-> account, reached |-> reached]
           w == Writing(p, "account", row)
<1>1. /\ booking' = [booking EXCEPT ![b] = w] /\ p \in Positions
      /\ UNCHANGED <<dbAccount, dbPos>> /\ HasAccount /\ Typed
      /\ dbLedger' = dbLedger \cup {booking[b].row}
  BY HeadWrites DEF NextWrite, Written
<1>2. row \in AccountRow /\ row.account = account
  BY <1>1 DEF Typed, AccountRow
<1> HIDE DEF p, row
<1>3. /\ WriteOK(w) /\ w # NoBooking /\ w.of = p /\ w.writes = "account" /\ w.row = row
  BY <1>1, <1>2 DEF WriteOK, Writing, NoBooking
<1> HIDE DEF w
<1>4. HasAccount' /\ dbPos' \in [Positions -> Position]
  BY <1>1 DEF HasAccount, Typed
<1> QED BY <1>1, <1>2, <1>3, <1>4, CommitTurns DEF p

LEMMA AccountCommits ==
  ASSUME Whole, NEW b \in Bookers, CommitStep(b), booking[b].writes = "account" PROVE Whole'
<1> DEFINE row == booking[b].row
<1>1. /\ phase = "running" /\ lock # <<>> /\ b = Head(lock)
      /\ Typed /\ Queued /\ AccountRows /\ PositionRows /\ WriteOK(booking[b])
      /\ booking' = [booking EXCEPT ![b] = NoBooking]
      /\ dbPos' = dbPos /\ dbLedger' = dbLedger /\ dbAccount' = row
      /\ UNCHANGED <<execution, phase, account, pos, moved>>
  BY HeadWrites DEF NextWrite, Written
<1>2. lock' = Tail(lock) /\ reached' \subseteq Milestones
  BY DEF CommitStep, UpdateMilestones, Updated
<1>3. /\ Queued' /\ lock' \in Seq(Bookers)
      /\ lock' = <<>> => lock[Len(lock)] = b
      /\ lock' # <<>> => /\ lock'[Len(lock')] = lock[Len(lock)] /\ lock[Len(lock)] # b
                         /\ lock[Len(lock)] \in Bookers
  BY <1>1, <1>2, QueueLeaves
<1>4. row \in AccountRow /\ row # None
  BY <1>1, NoneAssumption DEF WriteOK
<1>5. /\ \A c \in Bookers : booking'[c] = IF c = b THEN NoBooking ELSE booking[c]
      /\ booking' = [c \in Bookers |-> booking'[c]]
  BY <1>1 DEF Typed
<1>6. WriteOK(NoBooking) /\ NoBooking.writes = "nothing"
  BY DEF WriteOK, NoBooking
<1>7. Typed'
  BY <1>1, <1>2, <1>3, <1>4, <1>5, <1>6 DEF Typed
<1>8. HasAccount' /\ dbAccount' # None /\ Stored' = row.account
  BY <1>1, <1>4 DEF HasAccount, Stored
<1>9. AccountRows'
  <2>1. SUFFICES ASSUME Captured'
                 PROVE  IF lock' = <<>> THEN Same(row.account, account)
                        ELSE Same(booking'[lock'[Len(lock')]].row.account, account)
    BY <1>1, <1>8 DEF AccountRows
  <2>2. Captured
    BY <1>5, <2>1 DEF Captured
  <2>3. Same(booking[lock[Len(lock)]].row.account, account)
    BY <1>1, <2>2 DEF AccountRows
  <2> QED BY <1>3, <1>5, <2>3
<1>10. PositionRows'
  <2>1. \A c \in Bookers : booking'[c].writes # "nothing" => booking'[c] = booking[c]
    BY <1>5, <1>6
  <2>2. \A c \in Bookers : booking[c].writes \in {"fill", "position"} => booking'[c] = booking[c]
    BY <1>5
  <2> QED BY <1>1, <2>1, <2>2 DEF PositionRows
<1> QED BY <1>1, <1>3, <1>7, <1>8, <1>9, <1>10 DEF Whole, Running, Founding, Halted

LEMMA Commits ==
  ASSUME Whole, NEW b \in Bookers, CommitStep(b)
  PROVE  Whole' /\ account' = account /\ pos' = pos
BY HeadWrites, FillCommits, PositionCommits, LedgerCommits, AccountCommits

----------------------------------------------------------------------------
(* Stop, crash and start *)

\* Between bookings the rows are the account and the positions.
LEMMA BetweenBookings ==
  ASSUME Whole, phase = "running", \A b \in Bookers : booking[b] = NoBooking
  PROVE  /\ Same(Stored, account) /\ (dbAccount = None => dbLedger = {Deposit})
         /\ \A p \in Positions : Kept(dbPos[p], pos[p])
         /\ HasAccount
<1>1. Typed /\ Queued /\ AccountRows /\ PositionRows /\ HasAccount
  BY DEF Whole, Running
<1>2. lock = <<>>
  BY <1>1, NobodyWaits DEF Typed
<1>3. NoBooking.writes = "nothing"
  BY DEF NoBooking
<1>4. Captured
  BY <1>3 DEF Captured
<1> QED BY <1>1, <1>2, <1>3, <1>4 DEF AccountRows, PositionRows

LEMMA NoBookings ==
  ASSUME lock' = <<>>, booking' = [b \in Bookers |-> NoBooking]
  PROVE  /\ Queued' /\ lock' \in Seq(Bookers)
         /\ booking' = [b \in Bookers |-> booking'[b]]
         /\ \A b \in Bookers : WriteOK(booking'[b]) /\ booking'[b] = NoBooking
<1>1. Len(<<>>) = 0 /\ <<>> \in Seq(Bookers)
  BY EmptySeq
<1> DEFINE e == <<>>
<1>2. \A c : ~Occurs(c, e)
  BY <1>1 DEF Occurs
<1>3. Once(e)
  BY <1>1 DEF Once
<1>4. lock' = e
  OBVIOUS
<1> HIDE DEF e
<1>5. Queued'
  BY <1>2, <1>3, <1>4 DEF Queued
<1>6. \A b \in Bookers : WriteOK(booking'[b]) /\ booking'[b] = NoBooking
  BY DEF WriteOK, NoBooking
<1> QED BY <1>1, <1>4, <1>5, <1>6 DEF e

LEMMA NewTyped == NewAccount \in Account /\ Nothing \in [Positions -> Position]
<1>1. <<>> \in Seq(Int)
  BY EmptySeq
<1>2. NewAccount \in Account
  BY <1>1 DEF NewAccount, Account
<1>3. Nothing \in [Positions -> Position]
  BY DEF Nothing, NoPosition, Position
<1> QED BY <1>2, <1>3

\* No process, no memory.
LEMMA Downs ==
  ASSUME Typed, Down, dbAccount' \in AccountRow \cup {None},
         dbPos' \in [Positions -> Position],
         dbAccount' = None => dbLedger' \subseteq {Deposit},
         ~HasAccount' => dbPos' = Nothing /\ moved = <<>>
  PROVE  Whole'
<1>1. /\ phase' = "down" /\ account' = NewAccount /\ pos' = Nothing /\ lock' = <<>>
      /\ booking' = [b \in Bookers |-> NoBooking] /\ reached' = {}
      /\ execution' = execution /\ moved' = moved
  BY DEF Down, Nothing
<1>2. /\ Queued' /\ lock' \in Seq(Bookers)
      /\ booking' = [b \in Bookers |-> booking'[b]]
      /\ \A b \in Bookers : WriteOK(booking'[b])
  BY <1>1, NoBookings
<1>3. Typed'
  BY <1>1, <1>2, NewTyped DEF Typed
<1>4. Halted'
  BY <1>1 DEF Halted
<1> QED BY <1>1, <1>2, <1>3, <1>4 DEF Whole, Running, Founding

\* Of the rows a founding start has written there is the deposit, or nothing.
LEMMA FoundingRows ==
  ASSUME Whole, phase = "founding"
  PROVE  /\ dbAccount = None /\ dbPos = Nothing /\ moved = <<>>
         /\ dbLedger \in {{}, {Deposit}} /\ account = Opening /\ pos = Nothing
BY DEF Whole, Founding

LEMMA Crashes ==
  ASSUME Whole, Crash, phase = "running" => \A b \in Bookers : booking[b] = NoBooking
  PROVE  Whole'
<1>1. phase \in {"founding", "running"} /\ Down /\ Typed
      /\ dbAccount' = dbAccount /\ dbPos' = dbPos /\ dbLedger' = dbLedger
  BY DEF Crash, Whole, Typed, rows
<1>2. HasAccount' <=> HasAccount
  BY <1>1 DEF HasAccount
<1>3. /\ dbAccount = None => dbLedger \subseteq {Deposit}
      /\ ~HasAccount => dbPos = Nothing /\ moved = <<>>
  <2>1. CASE phase = "founding"
    BY <2>1, FoundingRows
  <2>2. CASE phase = "running"
    BY <2>2, BetweenBookings
  <2> QED BY <1>1, <2>1, <2>2
<1> QED BY <1>1, <1>2, <1>3, Downs DEF Typed

LEMMA Stops ==
  ASSUME Whole, Stop
  PROVE  /\ Whole' /\ Stored' = account
         /\ \A p \in Positions : dbPos'[p] = IF pos[p].state = "open" THEN pos[p] ELSE dbPos[p]
<1>1. phase = "running" /\ Down /\ Typed
      /\ dbAccount' = [account |-> account, reached |-> reached]
      /\ dbPos' = [p \in Positions |-> IF pos[p].state = "open" THEN pos[p] ELSE dbPos[p]]
  BY DEF Stop, Whole
<1>2. /\ account \in Account /\ reached \subseteq Milestones
      /\ pos \in [Positions -> Position] /\ dbPos \in [Positions -> Position]
  BY <1>1 DEF Typed
<1>3. dbAccount' \in AccountRow /\ dbAccount'.account = account
  BY <1>1, <1>2 DEF AccountRow
<1>4. dbAccount' # None /\ HasAccount'
  BY <1>3, NoneAssumption DEF HasAccount
<1>5. \A p \in Positions : dbPos'[p] = IF pos[p].state = "open" THEN pos[p] ELSE dbPos[p]
  BY <1>1
<1>6. dbPos' \in [Positions -> Position]
  BY <1>1, <1>2
<1>7. Whole'
  BY <1>1, <1>3, <1>4, <1>6, Downs
<1> QED BY <1>3, <1>4, <1>5, <1>7 DEF Stored

LEMMA Restores ==
  ASSUME IsFiniteSet(Positions), Whole, Restore
  PROVE  /\ Whole' /\ account'.cash = Stored.cash /\ account'.realized = Stored.realized
         /\ pos' = dbPos /\ SameCounts(account', Stored)
<1>1. /\ phase = "down" /\ HasAccount /\ phase' = "running" /\ pos' = dbPos
      /\ account' = Peaked(Loaded.account, dbPos) /\ reached' \subseteq Milestones
      /\ UNCHANGED <<execution, booking, lock, dbAccount, dbPos, dbLedger, moved>>
  BY DEF Restore, rows, Updated
<1>2. /\ Typed /\ Queued /\ lock = <<>> /\ (dbAccount = None => dbLedger = {Deposit})
  BY <1>1 DEF Whole, Halted, HasAccount
<1>3. /\ dbAccount \in AccountRow \cup {None} /\ dbPos \in [Positions -> Position]
  BY <1>2 DEF Typed
<1>4. Loaded.account = Stored /\ Stored \in Account
  BY <1>2, <1>3, LoadedIsStored
<1>5. /\ account' \in Account /\ account'.cash = Stored.cash
      /\ account'.realized = Stored.realized /\ account'.wins = Stored.wins
      /\ account'.losses = Stored.losses /\ account'.recent = Stored.recent
      /\ Stored.peak =< account'.peak
  BY <1>1, <1>3, <1>4, PeakedAccount
<1>6. Same(Stored, account') /\ Stored' = Stored
  BY <1>1, <1>5 DEF Same, Stored
<1>7. AccountRows' /\ HasAccount'
  BY <1>1, <1>2, <1>6 DEF AccountRows, HasAccount
<1>8. \A b \in Bookers : booking[b].writes = "nothing"
  <2>1. \A c : ~Occurs(c, lock)
    BY <1>2, EmptySeq DEF Occurs
  <2>2. \A b \in Bookers : booking[b] = NoBooking
    BY <1>2, <2>1 DEF Queued
  <2> QED BY <2>2 DEF NoBooking
<1>9. PositionRows'
  BY <1>1, <1>3, <1>8, SameSame DEF PositionRows
<1>10. Typed' /\ Queued'
  BY <1>1, <1>2, <1>3, <1>5 DEF Typed, Queued
<1> QED BY <1>1, <1>5, <1>7, <1>9, <1>10
       DEF SameCounts, Whole, Running, Founding, Halted

LEMMA FirstAccount ==
  ASSUME IsFiniteSet(Positions)
  PROVE  Peaked([NewAccount EXCEPT !.cash = Bankroll], Nothing) = Opening
<1> DEFINE paid == [NewAccount EXCEPT !.cash = Bankroll]
           new == [cash |-> Bankroll, peak |-> 0, realized |-> 0, wins |-> 0, losses |-> 0,
                   recent |-> <<>>]
           none == {}
<1>1. paid = new
  BY DEF NewAccount
<1>2. OpenIn(Nothing) = none
  BY NoExposure DEF OpenIn
<1>3. Values(Nothing) \in [Positions -> Int]
  BY NoExposure DEF Values, Position
<1>4. SumOf(Values(Nothing), none) = 0
  BY <1>3, SumOfEmpty
<1>5. Equity(new, Nothing) = Bankroll
  <2>1. Equity(new, Nothing) = new.cash + SumFunctionOnSet(Values(Nothing), none)
    BY <1>2 DEF Equity, Values
  <2>2. new.cash = Bankroll
    OBVIOUS
  <2> QED BY <1>4, <2>1, <2>2, SumIsSumOf, PortfolioAssumption
<1>6. Larger(0, Bankroll) = Bankroll
  BY PortfolioAssumption DEF Larger
<1>7. Peaked(new, Nothing) = [new EXCEPT !.peak = Larger(@, Bankroll)]
  BY <1>5 DEF Peaked
<1>8. [new EXCEPT !.peak = Larger(@, Bankroll)] = Opening
  BY <1>6 DEF Opening
<1> HIDE DEF paid, new
<1> QED BY <1>1, <1>7, <1>8 DEF paid

LEMMA FirstEntry ==
  /\ Appended(<<>>, NewAccount, Bankroll, 0, "DEPOSIT") = <<Deposit>>
  /\ Last(Appended(<<>>, NewAccount, Bankroll, 0, "DEPOSIT")) = Deposit
<1> DEFINE seqs == {0} \cup {e.seq : e \in Range(<<>>)}
           d == Entry(Max(seqs) + 1, Bankroll, NewAccount.cash + Bankroll, 0, "DEPOSIT")
<1>1. seqs = {0}
  BY DEF Range
<1>2. Max(seqs) = 0
  BY <1>1 DEF Max
<1>3. NewAccount.cash + Bankroll = Bankroll
  BY PortfolioAssumption DEF NewAccount
<1>4. d = Deposit
  BY <1>2, <1>3 DEF Deposit
<1>5. Appended(<<>>, NewAccount, Bankroll, 0, "DEPOSIT") = <<d>>
  BY DEF Appended
<1> HIDE DEF d
<1> QED BY <1>4, <1>5 DEF Last

LEMMA Founds ==
  ASSUME IsFiniteSet(Positions), Whole, Found PROVE Whole'
<1> DEFINE w == Writing(None, "ledger", Last(ledger'))
<1>1. /\ phase = "down" /\ ~HasAccount /\ phase' = "founding"
      /\ account' = Peaked([NewAccount EXCEPT !.cash = Bankroll], pos)
      /\ ledger' = Appended(<<>>, NewAccount, Bankroll, 0, "DEPOSIT")
      /\ Begin("tick", w)
      /\ UNCHANGED <<execution, pos, reached, dbAccount, dbPos, dbLedger, moved>>
  BY DEF Found, rows
<1>2. /\ Typed /\ Queued /\ lock = <<>> /\ pos = Nothing
      /\ dbAccount = None /\ dbLedger = {} /\ dbPos = Nothing /\ moved = <<>>
  BY <1>1 DEF Whole, Halted, HasAccount
<1>3. account' = Opening /\ w = Writing(None, "ledger", Deposit)
  BY <1>1, <1>2, FirstAccount, FirstEntry
<1> HIDE DEF w
<1>4. booking' = [booking EXCEPT !["tick"] = w] /\ lock' = Append(lock, "tick")
  BY <1>1 DEF Begin
<1>5. WriteOK(w) /\ w # NoBooking
  BY <1>3 DEF WriteOK, Writing, NoBooking
<1>6. "tick" \in Bookers /\ booking["tick"] = NoBooking
  BY <1>2, EmptySeq, PortfolioAssumption DEF Queued, Occurs
<1>7. Queued' /\ lock' \in Seq(Bookers)
  BY <1>2, <1>4, <1>5, <1>6, QueueJoins
<1>8. /\ booking'["tick"] = w /\ booking' = [b \in Bookers |-> booking'[b]]
      /\ \A b \in Bookers : WriteOK(booking'[b])
  BY <1>2, <1>4, <1>5, <1>6 DEF Typed
<1>9. lock' = <<"tick">>
  BY <1>2, <1>4
<1>10. Typed'
  BY <1>1, <1>2, <1>3, <1>7, <1>8, OpeningAccount DEF Typed
<1>11. Founding'
  BY <1>1, <1>2, <1>3, <1>8, <1>9 DEF Founding
<1> QED BY <1>1, <1>7, <1>10, <1>11 DEF Whole, Running, Halted

LEMMA FoundSteps ==
  ASSUME IsFiniteSet(Positions), Whole, FoundStep
  PROVE  Whole' /\ account' = Opening /\ pos' = Nothing
<1> DEFINE w == booking["tick"]
<1>1. /\ phase = "founding" /\ Written(w) /\ booking' = [booking EXCEPT !["tick"] = NextWrite(w)]
      /\ IF w.writes = "account"
         THEN /\ phase' = "running" /\ lock' = <<>> /\ reached' = Updated({}, Equity(account, pos))
         ELSE UNCHANGED <<phase, lock, reached>>
      /\ UNCHANGED <<execution, account, pos, ledger, moved>>
  BY DEF FoundStep
<1>2. /\ Typed /\ Queued /\ lock = <<"tick">> /\ account = Opening /\ pos = Nothing
      /\ dbAccount = None /\ dbPos = Nothing /\ moved = <<>>
      /\ \/ w = Writing(None, "ledger", Deposit) /\ dbLedger = {}
         \/ /\ w = Writing(None, "account", [account |-> Opening, reached |-> reached])
            /\ dbLedger = {Deposit}
  BY <1>1 DEF Whole, Founding
<1>3. "tick" \in Bookers /\ \A b \in Bookers \ {"tick"} : booking[b] = NoBooking
  <2>1. \A c : Occurs(c, lock) => c = "tick"
    BY <1>2 DEF Occurs
  <2> QED BY <1>2, <2>1, PortfolioAssumption DEF Queued
<1> HIDE DEF w
<1>4. CASE w = Writing(None, "ledger", Deposit) /\ dbLedger = {}
  <2> DEFINE row == [account |-> account, reached |-> reached]
             x == Writing(None, "account", row)
  <2>1. /\ w.writes = "ledger" /\ w.row = Deposit /\ w.of = None
    BY <1>4 DEF Writing
  <2>2. /\ booking' = [booking EXCEPT !["tick"] = x] /\ UNCHANGED <<phase, lock, reached>>
        /\ dbLedger' = {Deposit} /\ dbAccount' = None /\ dbPos' = Nothing
    BY <1>1, <1>2, <1>4, <2>1 DEF NextWrite, Written
  <2>3. row \in AccountRow
    BY <1>2 DEF Typed, AccountRow
  <2>4. x = Writing(None, "account", [account |-> Opening, reached |-> reached'])
    BY <1>2, <2>2
  <2> HIDE DEF row
  <2>5. WriteOK(x) /\ x # NoBooking
    BY <2>3 DEF Writing, WriteOK, NoBooking
  <2> HIDE DEF x
  <2>6. /\ booking'["tick"] = x /\ booking' = [b \in Bookers |-> booking'[b]]
        /\ \A b \in Bookers \ {"tick"} : booking'[b] = booking[b]
    BY <1>2, <1>3, <2>2 DEF Typed
  <2>7. Typed'
    BY <1>1, <1>2, <2>2, <2>5, <2>6, NewTyped DEF Typed
  <2>8. booking["tick"] # NoBooking
    BY <1>4 DEF w, Writing, NoBooking
  <2>9. Queued'
    BY <1>2, <2>2, <2>5, <2>6, <2>8 DEF Queued
  <2>10. Founding' /\ phase' = "founding"
    BY <1>1, <1>2, <2>2, <2>4, <2>6 DEF Founding
  <2> QED BY <1>1, <1>2, <2>7, <2>9, <2>10 DEF Whole, Running, Halted
<1>5. CASE /\ w = Writing(None, "account", [account |-> Opening, reached |-> reached])
           /\ dbLedger = {Deposit}
  <2> DEFINE row == [account |-> Opening, reached |-> reached]
  <2>1. /\ w.writes = "account" /\ w.row = row /\ row.account = Opening
    BY <1>5 DEF Writing
  <2>2. row \in AccountRow
    BY <1>2, OpeningAccount DEF AccountRow, Typed
  <2> HIDE DEF row
  <2>3. /\ booking' = [booking EXCEPT !["tick"] = NoBooking] /\ phase' = "running"
        /\ lock' = <<>> /\ reached' = Updated({}, Equity(account, pos))
        /\ dbLedger' = {Deposit} /\ dbAccount' = row /\ dbPos' = Nothing
    BY <1>1, <1>2, <1>5, <2>1 DEF NextWrite, Written
  <2>4. booking' = [b \in Bookers |-> NoBooking]
    BY <1>2, <1>3, <2>3 DEF Typed
  <2>5. /\ Queued' /\ lock' \in Seq(Bookers)
        /\ booking' = [b \in Bookers |-> booking'[b]]
        /\ \A b \in Bookers : WriteOK(booking'[b]) /\ booking'[b] = NoBooking
    BY <2>3, <2>4, NoBookings
  <2>6. reached' \subseteq Milestones
    BY <2>3 DEF Updated
  <2>7. Typed'
    BY <1>1, <1>2, <2>2, <2>3, <2>5, <2>6, NewTyped DEF Typed
  <2>8. dbAccount' # None /\ HasAccount' /\ Stored' = Opening
    BY <2>1, <2>2, <2>3, NoneAssumption DEF HasAccount, Stored
  <2>9. AccountRows'
    BY <1>1, <1>2, <2>3, <2>8, SameSame, OpeningAccount DEF AccountRows
  <2>10. PositionRows'
    <3>1. NoBooking.writes = "nothing"
      BY DEF NoBooking
    <3>2. \A p \in Positions : Kept(dbPos'[p], pos'[p])
      BY <1>1, <1>2, <2>3, NewTyped, SameSame
    <3> QED BY <2>5, <3>1, <3>2 DEF PositionRows
  <2> QED BY <1>1, <1>2, <2>3, <2>5, <2>7, <2>8, <2>9, <2>10
         DEF Whole, Running, Founding, Halted
<1> QED BY <1>1, <1>2, <1>4, <1>5

LEMMA Begins == Init => Whole
<1> SUFFICES ASSUME Init PROVE Whole
  OBVIOUS
<1> DEFINE e == <<>>
<1>1. /\ phase = "down" /\ account = NewAccount /\ pos = Nothing /\ lock = e /\ moved = <<>>
      /\ booking = [b \in Bookers |-> NoBooking] /\ reached = {} /\ execution \in Executions
      /\ dbAccount = None /\ dbPos = Nothing /\ dbLedger = {}
  BY DEF Init, Nothing
<1>2. /\ Len(e) = 0 /\ e \in Seq(Bookers)
      /\ moved \in Seq([side : {"BUY", "SELL"}, sol : Int])
  BY <1>1, EmptySeq
<1>3. (\A c : ~Occurs(c, e)) /\ Once(e)
  BY <1>2 DEF Occurs, Once
<1> HIDE DEF e
<1>4. \A b \in Bookers : WriteOK(booking[b]) /\ booking[b] = NoBooking
  BY <1>1 DEF WriteOK, NoBooking
<1>5. Queued
  BY <1>1, <1>3, <1>4 DEF Queued
<1>6. Typed
  BY <1>1, <1>2, <1>4, NewTyped DEF Typed
<1>7. Halted
  BY <1>1 DEF Halted, e
<1> QED BY <1>1, <1>5, <1>6, <1>7 DEF Whole, Running, Founding

LEMMA Stutters == ASSUME UNCHANGED vars, Whole PROVE Whole'
<1>1. /\ UNCHANGED <<execution, phase, account, pos, reached, booking, lock>>
      /\ UNCHANGED <<dbAccount, dbPos, dbLedger, moved>>
  BY DEF vars, memory, rows
<1>2. Typed' /\ Queued'
  BY <1>1 DEF Whole, Typed, Queued
<1>3. (HasAccount' <=> HasAccount) /\ Stored' = Stored /\ (Captured' <=> Captured)
  BY <1>1 DEF HasAccount, Stored, Captured
<1>4. Running'
  BY <1>1, <1>3 DEF Whole, Running, AccountRows, PositionRows
<1>5. Founding' /\ Halted'
  BY <1>1, <1>3 DEF Whole, Founding, Halted
<1> QED BY <1>2, <1>4, <1>5 DEF Whole

----------------------------------------------------------------------------
(* The invariant, and the theorems *)

\* What a step that is not of the process going down keeps.
LEMMA NotCut ==
  ASSUME [Next]_vars, ~cut'
  PROVE  ~cut /\ (Crash \/ Stop =>
                     (phase = "running" => \A b \in Bookers : booking[b] = NoBooking))
<1>1. CASE Crash \/ Stop
  BY <1>1 DEF Crash, Stop, Down, InBooking
<1>2. CASE UNCHANGED mishaps
  <2>1. cut' = cut
    BY <1>2 DEF mishaps
  <2>2. ~(Crash \/ Stop) \/ (phase = "running" => \A b \in Bookers : booking[b] = NoBooking)
    BY <1>1
  <2> QED BY <2>1, <2>2
<1>3. ASSUME NEW b \in Bookers, NEW p \in Positions, NEW fill \in Fills,
             OpenPosition(b, p, fill) \/ ClosePosition(b, p, fill)
      PROVE  UNCHANGED mishaps
  BY <1>3 DEF OpenPosition, ClosePosition
<1>4. ASSUME NEW p \in Positions, NEW value \in Marks, MarkPosition(p, value)
      PROVE  UNCHANGED mishaps
  BY <1>4 DEF MarkPosition
<1>5. ASSUME NEW b \in Bookers, CommitStep(b) PROVE UNCHANGED mishaps
  BY <1>5 DEF CommitStep
<1>6. Snapshot \/ Found \/ FoundStep \/ Restore \/ UNCHANGED vars => UNCHANGED mishaps
  BY DEF Snapshot, Found, FoundStep, Restore, vars
<1> QED BY <1>1, <1>2, <1>3, <1>4, <1>5, <1>6 DEF Next

\* What each step does to the books.
LEMMA BooksKept ==
  ASSUME IsFiniteSet(Positions), Books, Balanced, [Next]_vars, ~cut'
  PROVE  /\ Whole'
         /\ phase' = "running" => Sound(account', pos')
         /\ phase' = "down" /\ HasAccount' => Sound(Stored', dbPos')
<1>1. /\ ~cut /\ Whole
      /\ phase = "running" => Sound(account, pos)
      /\ phase = "down" /\ HasAccount => Sound(Stored, dbPos)
      /\ Typed /\ account \in Account /\ account.cash \in Nat /\ account.realized \in Int
      /\ pos \in [Positions -> Position] /\ dbPos \in [Positions -> Position]
      /\ Exposure(pos) \in Int /\ Bankroll \in Nat
  <2>1. ~cut /\ Whole
    BY NotCut DEF Books, Whole
  <2>2. /\ account \in Account /\ Typed
        /\ pos \in [Positions -> Position] /\ dbPos \in [Positions -> Position]
    BY <2>1 DEF Whole, Typed
  <2>3. Exposure(pos) \in Int
    BY <2>2, SumTypes
  <2> QED BY <2>1, <2>2, <2>3, PortfolioAssumption DEF Balanced, Account
<1>2. ASSUME NEW b \in Bookers, NEW p \in Positions, NEW fill \in Fills, OpenPosition(b, p, fill)
      PROVE  Whole' /\ phase' = "running" /\ Sound(account', pos')
  <2> DEFINE cost == fill.sol + fill.fee
  <2>1. /\ Whole' /\ account'.cash = account.cash - cost /\ account'.realized = account.realized
        /\ \E q \in Position : /\ q.state = "open" /\ q.cost = cost
                               /\ pos' = [pos EXCEPT ![p] = q]
        /\ cost \in Int
    BY <1>1, <1>2, OpensBooking
  <2>2. phase = "running" /\ phase' = "running" /\ pos[p].state = "none"
    BY <1>2 DEF OpenPosition, MayBook, Idle
  <2> HIDE DEF cost
  <2>3. Exposure(pos') = cost + Exposure(pos)
    BY <1>1, <2>1, <2>2, OpenedExposure
  <2>4. account.cash + Exposure(pos) = Bankroll + account.realized
    BY <1>1, <2>2 DEF Sound
  <2>5. account'.cash + Exposure(pos') = Bankroll + account'.realized
    BY <1>1, <2>1, <2>3, <2>4
  <2> QED BY <2>1, <2>2, <2>5 DEF Sound
<1>3. ASSUME NEW b \in Bookers, NEW p \in Positions, NEW fill \in Fills, ClosePosition(b, p, fill)
      PROVE  Whole' /\ phase' = "running" /\ Sound(account', pos')
  <2> DEFINE got == Proceeds(fill)
             cost == pos[p].cost
  <2>1. /\ Whole' /\ account'.cash = account.cash + got
        /\ account'.realized = account.realized + (got - cost)
        /\ \E q \in Position : q.state = "closed" /\ pos' = [pos EXCEPT ![p] = q]
        /\ pos[p].state = "open"
    BY <1>1, <1>3, ClosesBooking
  <2>2. phase = "running" /\ phase' = "running"
    BY <1>3 DEF ClosePosition, MayBook, Idle
  <2>3. got \in Nat /\ cost \in Int
    BY <1>1, FillAmounts DEF Typed, Position
  <2>4. Exposure(pos) = cost + Exposure(pos')
    <3>1. PICK q \in Position : q.state = "closed" /\ pos' = [pos EXCEPT ![p] = q]
      BY <2>1
    <3>2. Exposure(pos) = pos[p].cost + Exposure([pos EXCEPT ![p] = q])
      BY ZenonT(30), <1>1, <2>1, <3>1, ClosedExposure
    <3> QED BY <3>1, <3>2
  <2>5. pos' \in [Positions -> Position]
    BY <2>1 DEF Whole, Typed
  <2>6. Exposure(pos') \in Int
    BY <2>5, SumTypes
  <2>7. account.cash + Exposure(pos) = Bankroll + account.realized
    BY <1>1, <2>2 DEF Sound
  <2> HIDE DEF got, cost
  <2>8. account'.cash + Exposure(pos') = Bankroll + account'.realized
    BY <1>1, <2>1, <2>3, <2>4, <2>6, <2>7
  <2> QED BY <2>1, <2>2, <2>8 DEF Sound
<1>4. ASSUME NEW p \in Positions, NEW value \in Marks, MarkPosition(p, value)
      PROVE  Whole' /\ phase' = "running" /\ Sound(account', pos')
  <2>1. /\ Whole' /\ account'.cash = account.cash /\ account'.realized = account.realized
        /\ \A o \in Positions : pos'[o].state = pos[o].state /\ pos'[o].cost = pos[o].cost
    BY <1>1, <1>4, MarksPosition
  <2>2. phase = "running" /\ phase' = "running"
    BY <1>4 DEF MarkPosition, Idle
  <2>3. pos' \in [Positions -> Position]
    BY <2>1 DEF Whole, Typed
  <2>4. Exposure(pos') = Exposure(pos)
    BY <1>1, <2>1, <2>3, SameExposure
  <2> QED BY <1>1, <2>1, <2>2, <2>4 DEF Sound
<1>5. ASSUME NEW b \in Bookers, CommitStep(b)
      PROVE  Whole' /\ phase' = "running" /\ Sound(account', pos')
  <2>1. Whole' /\ account' = account /\ pos' = pos
    BY <1>1, <1>5, Commits
  <2>2. phase = "running" /\ phase' = "running"
    BY <1>5 DEF CommitStep
  <2> QED BY <1>1, <2>1, <2>2 DEF Sound
<1>6. ASSUME Snapshot PROVE Whole' /\ phase' = "running" /\ Sound(account', pos')
  <2>1. Whole' /\ account' = account /\ pos' = pos
    BY <1>1, <1>6, Snapshots
  <2>2. phase = "running" /\ phase' = "running"
    BY <1>6 DEF Snapshot, Idle
  <2> QED BY <1>1, <2>1, <2>2 DEF Sound
<1>7. Sound(Opening, Nothing)
  <2>1. Exposure(Nothing) = 0 /\ Opening.cash = Bankroll /\ Opening.realized = 0
    BY NoExposure DEF Opening
  <2> QED BY <1>1, <2>1 DEF Sound
<1>8. ASSUME Found PROVE Whole' /\ phase' = "founding"
  BY <1>1, <1>8, Founds DEF Found
<1>9. ASSUME FoundStep
      PROVE  /\ Whole' /\ Sound(account', pos') /\ phase' \in {"founding", "running"}
  <2>1. Whole' /\ account' = Opening /\ pos' = Nothing
    BY <1>1, <1>9, FoundSteps
  <2>2. phase' \in {"founding", "running"}
    BY <1>9 DEF FoundStep
  <2> QED BY <1>7, <2>1, <2>2
<1>10. ASSUME Restore PROVE Whole' /\ phase' = "running" /\ Sound(account', pos')
  <2>1. /\ Whole' /\ account'.cash = Stored.cash /\ account'.realized = Stored.realized
        /\ pos' = dbPos
    BY <1>1, <1>10, Restores
  <2>2. phase = "down" /\ HasAccount /\ phase' = "running"
    BY <1>10 DEF Restore
  <2> QED BY <1>1, <2>1, <2>2 DEF Sound
<1>11. ASSUME Crash PROVE Whole' /\ phase' = "down" /\ (HasAccount' => Sound(Stored', dbPos'))
  <2>1. /\ phase \in {"founding", "running"} /\ phase' = "down"
        /\ dbAccount' = dbAccount /\ dbPos' = dbPos /\ dbLedger' = dbLedger
    BY <1>1, <1>11 DEF Crash, Down, rows, Typed
  <2>2. phase = "running" => \A b \in Bookers : booking[b] = NoBooking
    BY <1>11, NotCut
  <2>3. Whole'
    BY <1>1, <1>11, <2>2, Crashes
  <2>4. Stored' = Stored
    BY <2>1 DEF Stored
  <2>5. CASE phase = "founding"
    <3>1. dbAccount = None /\ dbPos = Nothing
      BY <1>1, <2>5, FoundingRows
    <3> QED BY <1>7, <2>1, <2>3, <2>4, <3>1 DEF Stored
  <2>6. CASE phase = "running"
    <3>1. Same(Stored, account) /\ \A p \in Positions : Kept(dbPos[p], pos[p])
      BY <1>1, <2>2, <2>6, BetweenBookings
    <3>2. Exposure(dbPos) = Exposure(pos)
      BY <1>1, <3>1, SameExposure DEF Kept
    <3>3. Sound(Stored, dbPos)
      BY <1>1, <2>6, <3>1, <3>2 DEF Sound, Same
    <3> QED BY <2>1, <2>3, <2>4, <3>3
  <2> QED BY <2>1, <2>5, <2>6
<1>12. ASSUME Stop PROVE Whole' /\ phase' = "down" /\ Sound(Stored', dbPos')
  <2>1. phase = "running" /\ phase' = "down"
    BY <1>12 DEF Stop, Down
  <2>2. \A b \in Bookers : booking[b] = NoBooking
    BY <1>12, <2>1, NotCut
  <2>3. /\ Whole' /\ Stored' = account
        /\ \A p \in Positions : dbPos'[p] = IF pos[p].state = "open" THEN pos[p] ELSE dbPos[p]
    BY <1>1, <1>12, Stops
  <2>4. \A p \in Positions : Kept(dbPos[p], pos[p])
    BY <1>1, <2>1, <2>2, BetweenBookings
  <2>5. /\ dbPos' \in [Positions -> Position]
        /\ \A p \in Positions : dbPos'[p].state = pos[p].state /\ dbPos'[p].cost = pos[p].cost
    BY <2>3, <2>4 DEF Kept, Whole, Typed
  <2>6. Exposure(dbPos') = Exposure(pos)
    BY <1>1, <2>5, SameExposure
  <2> QED BY <1>1, <2>1, <2>3, <2>6 DEF Sound
<1>13. ASSUME UNCHANGED vars
       PROVE  /\ Whole' /\ phase' = phase /\ account' = account /\ pos' = pos
              /\ (HasAccount' <=> HasAccount) /\ Stored' = Stored /\ dbPos' = dbPos
  <2>1. Whole'
    BY <1>1, <1>13, Stutters
  <2>2. /\ phase' = phase /\ account' = account /\ pos' = pos
        /\ dbAccount' = dbAccount /\ dbPos' = dbPos /\ dbLedger' = dbLedger
    BY <1>13 DEF vars, memory, rows
  <2> QED BY <2>1, <2>2 DEF HasAccount, Stored
<1>14. CASE UNCHANGED vars
  BY <1>1, <1>13, <1>14 DEF Sound
<1>15. CASE Next
  BY <1>2, <1>3, <1>4, <1>5, <1>6, <1>8, <1>9, <1>10, <1>11, <1>12, <1>15 DEF Next
<1> QED BY <1>14, <1>15

----------------------------------------------------------------------------
(* What the swaps moved *)

Flow(swap) == IF swap.side = "SELL" THEN Larger(0, swap.sol) ELSE swap.sol
Flows(s) == [i \in Nat |-> IF i \in 1..Len(s) THEN Flow(s[i]) ELSE 0]

\* The recursive function that FoldLeft chooses.
DrawStep(g, s, t) == IF t = {} THEN 0 ELSE LET i == Max(t) IN g[t \ {i}] + Flow(s[i])
Draws(s) == CHOOSE g : g = [t \in SUBSET (DOMAIN s) |-> DrawStep(g, s, t)]

LEMMA DrawnIsDraws == ASSUME NEW s PROVE Drawn(s) = Draws(s)[DOMAIN s]
BY DEF Drawn, Draws, DrawStep, Flow, FoldLeft, MapThenFoldSet

LEMMA MaxOf ==
  ASSUME NEW n \in Nat, NEW t \in SUBSET (1..n), t # {} PROVE Max(t) \in t
<1> DEFINE gaps == {k \in Nat : \E i \in t : k = n - i}
<1>1. gaps \in SUBSET Nat /\ gaps # {}
  <2>1. PICK i \in t : TRUE
    OBVIOUS
  <2>2. n - i \in Nat
    BY <2>1
  <2> QED BY <2>1, <2>2
<1>2. PICK k \in gaps : \A l \in gaps : k =< l
  BY <1>1, LeastNat
<1>3. PICK i \in t : k = n - i
  BY <1>2
<1>4. ASSUME NEW j \in t PROVE i >= j
  <2>1. n - j \in gaps /\ i \in Int /\ j \in Int
    OBVIOUS
  <2>2. n - i =< n - j
    BY <1>2, <1>3, <2>1
  <2> QED BY <2>1, <2>2
<1> QED BY <1>3, <1>4 DEF Max

LEMMA FlowType == ASSUME NEW s \in Seq(Moved) PROVE Flows(s) \in [Nat -> Int]
<1>1. ASSUME NEW i \in 1..Len(s) PROVE Flow(s[i]) \in Int
  <2>1. s[i] \in Moved
    BY ElementOfSeq
  <2>2. s[i].sol \in Int
    BY <2>1 DEF Moved
  <2> QED BY <2>2 DEF Flow, Larger
<1> QED BY <1>1 DEF Flows

\* What is drawn is the sum of the flows, in whatever order it is taken.
LEMMA DrawnIsSum ==
  ASSUME NEW s \in Seq(Moved) PROVE Drawn(s) = SumOf(Flows(s), 1..Len(s))
<1> DEFINE n == Len(s)
           d == Flows(s)
           h == [t \in SUBSET (1..n) |-> SumOf(d, t)]
           g == Draws(s)
           none == {}
<1>1. n \in Nat /\ DOMAIN s = 1..n /\ d \in [Nat -> Int]
  BY LenProperties, FlowType
<1>2. \A i \in 1..n : d[i] = Flow(s[i])
  BY <1>1 DEF Flows
<1>3. IsFiniteSet(1..n) /\ \A t \in SUBSET (1..n) : IsFiniteSet(t) /\ t \in SUBSET Nat
  <2>1. IsFiniteSet(1..n)
    BY <1>1, FS_Interval
  <2>2. \A t \in SUBSET (1..n) : IsFiniteSet(t)
    BY <2>1, FS_Subset
  <2> QED BY <2>1, <2>2
<1> HIDE DEF n, d
<1>4. SumOf(d, none) = 0
  BY <1>1, SumOfEmpty
<1>5. ASSUME NEW t \in SUBSET (1..n), t # {}
      PROVE  /\ Max(t) \in t /\ Max(t) \in 1..n /\ t \ {Max(t)} \in SUBSET (1..n)
             /\ SumOf(d, t) = SumOf(d, t \ {Max(t)}) + Flow(s[Max(t)])
  <2>1. Max(t) \in t
    BY <1>1, <1>5, MaxOf
  <2> DEFINE m == Max(t)
             u == t \ {m}
  <2>2. m \in t /\ m \in 1..n /\ u \in SUBSET (1..n) /\ m \in Nat
    <3>1. m \in t /\ u \subseteq t
      BY <2>1
    <3> HIDE DEF m, u
    <3>2. m \in 1..n /\ u \subseteq 1..n
      BY <3>1
    <3>3. m \in Nat
      BY <1>1, <3>2
    <3> QED BY <3>1, <3>2, <3>3
  <2>3. IsFiniteSet(t) /\ t \in SUBSET Nat /\ IsFiniteSet(u) /\ u \in SUBSET Nat
    BY <1>3, <2>2
  <2>4. t = u \cup {m} /\ m \notin u
    BY <2>1
  <2>5. SumOf(d, t) = d[m] + SumOf(d, u)
    <3> DEFINE D == Nat
    <3>1. d \in [D -> Int] /\ u \in SUBSET D /\ IsFiniteSet(u) /\ m \in D /\ m \notin u
      BY <1>1, <2>2, <2>3, <2>4
    <3> HIDE DEF D, m, u
    <3>2. SumOf(d, u \cup {m}) = d[m] + SumOf(d, u)
      BY <3>1, SumOfAdded
    <3> QED BY <2>4, <3>2
  <2> HIDE DEF m, u
  <2>6. SumOf(d, u) \in Int /\ d[m] \in Int
    BY <1>1, <2>2, <2>3, SumOfInt
  <2>7. SumOf(d, t) = SumOf(d, u) + Flow(s[m])
    BY <1>2, <2>2, <2>5, <2>6
  <2> QED BY <2>2, <2>7 DEF m, u
<1>6. h = [t \in SUBSET (DOMAIN s) |-> DrawStep(h, s, t)]
  <2>1. ASSUME NEW t \in SUBSET (1..n) PROVE h[t] = DrawStep(h, s, t)
    <3>1. CASE t = {}
      BY <1>4, <3>1 DEF DrawStep
    <3>2. CASE t # {}
      BY <1>5, <3>2 DEF DrawStep
    <3> QED BY <3>1, <3>2
  <2>2. DOMAIN h = SUBSET (1..n) /\ h = [t \in SUBSET (1..n) |-> h[t]]
    OBVIOUS
  <2> HIDE DEF h
  <2> QED BY <1>1, <2>1, <2>2
<1> HIDE DEF h
<1>7. g = [t \in SUBSET (1..n) |-> DrawStep(g, s, t)]
  BY <1>1, <1>6 DEF Draws
<1> HIDE DEF g
<1>8. \A t \in SUBSET (1..n) : g[t] = DrawStep(g, s, t)
  BY <1>7
<1> DEFINE Q == {t \in SUBSET (1..n) : g[t] = SumOf(d, t)}
<1>9. none \in Q
  BY <1>4, <1>8 DEF DrawStep
<1>10. ASSUME NEW t \in SUBSET (1..n), t # {}, \A x \in t : t \ {x} \in Q PROVE t \in Q
  <2>1. g[t \ {Max(t)}] = SumOf(d, t \ {Max(t)})
    BY <1>5, <1>10
  <2>2. g[t] = g[t \ {Max(t)}] + Flow(s[Max(t)])
    BY <1>8, <1>10 DEF DrawStep
  <2> QED BY <1>5, <1>10, <2>1, <2>2
<1> HIDE DEF Q
<1>11. SUBSET (1..n) \subseteq Q
  BY <1>3, <1>9, <1>10, SetInduction
<1>12. 1..n \in Q
  BY <1>11
<1>13. g[1..n] = SumOf(d, 1..n)
  BY <1>12 DEF Q
<1> QED BY <1>1, <1>13, DrawnIsDraws DEF g, n, d

LEMMA DrawnOfNone == Drawn(<<>>) = 0
<1> DEFINE e == <<>>
           none == {}
<1>1. e \in Seq(Moved) /\ Len(e) = 0
  BY EmptySeq
<1>2. 1..Len(e) = none
  BY <1>1
<1> HIDE DEF e
<1>3. Drawn(e) = SumOf(Flows(e), none)
  BY <1>1, <1>2, DrawnIsSum
<1>4. SumOf(Flows(e), none) = 0
  BY <1>1, FlowType, SumOfEmpty
<1> QED BY <1>3, <1>4 DEF e

LEMMA DrawnOfMore ==
  ASSUME NEW s \in Seq(Moved), NEW x \in Moved
  PROVE  /\ Drawn(Append(s, x)) = Drawn(s) + Flow(x)
         /\ Drawn(s) \in Int /\ Flow(x) \in Int
<1> DEFINE t == Append(s, x)
           n == Len(s)
           d == Flows(s)
           e == Flows(t)
<1>1. /\ t \in Seq(Moved) /\ Len(t) = n + 1 /\ n \in Nat
      /\ t[n + 1] = x /\ \A i \in 1..n : t[i] = s[i]
  BY AppendProperties, LenProperties
<1>2. d \in [Nat -> Int] /\ e \in [Nat -> Int]
  BY <1>1, FlowType
<1>3. (\A i \in 1..n : d[i] = e[i]) /\ e[n + 1] = Flow(x)
  BY <1>1 DEF Flows
<1>4. Drawn(s) = SumOf(d, 1..n) /\ Drawn(t) = SumOf(e, 1..(n + 1))
  BY <1>1, DrawnIsSum
<1> DEFINE m == n + 1
           S == 1..n
           T == 1..m
<1>5. m \in Nat /\ m \notin S /\ T = S \cup {m} /\ S \in SUBSET Nat
  BY <1>1
<1>6. IsFiniteSet(S)
  BY <1>1, FS_Interval
<1>7. /\ \A i \in S : d[i] = e[i]
      /\ e[m] = Flow(x)
  BY <1>3
<1> HIDE DEF t, d, e, n, m, S, T
<1>8. SumOf(e, T) = e[m] + SumOf(e, S)
  <2> DEFINE D == Nat
  <2>1. e \in [D -> Int] /\ S \in SUBSET D /\ m \in D /\ m \notin S
    BY <1>2, <1>5
  <2> HIDE DEF D
  <2>2. SumOf(e, S \cup {m}) = e[m] + SumOf(e, S)
    BY <1>6, <2>1, SumOfAdded
  <2> QED BY <1>5, <2>2
<1>9. SumOf(e, S) = SumOf(d, S)
  BY ZenonT(30), <1>2, <1>5, <1>6, <1>7, SumOfSame
<1>10. SumOf(d, S) \in Int /\ e[m] \in Int
  BY <1>2, <1>5, <1>6, SumOfInt
<1>11. Drawn(s) = SumOf(d, S) /\ Drawn(t) = SumOf(e, T)
  BY <1>4 DEF S, T, m
<1> QED BY <1>7, <1>8, <1>9, <1>10, <1>11 DEF t

----------------------------------------------------------------------------
(* The cash and the chain *)

\* The wallet pays the fee of a swap: what a landed purchase took from it has the fee in it.
BuysPayTheirFee ==
    \A tx \in Transactions :
      LET swap == ParseConfirmedSwap(tx)
      IN  swap # None /\ swap.err = None /\ FillFromSwap("BUY", swap) # None
              => swap.fee =< -swap.sol

LEMMA ChainFill ==
  ASSUME BuysPayTheirFee, execution = "autonomous", NEW fill \in Fills
  PROVE  /\ fill.swap # None /\ fill.swap.sol \in Int
         /\ fill.side = "BUY" => fill.sol + fill.fee = -fill.swap.sol
         /\ fill.side = "SELL" => Proceeds(fill) = Larger(0, fill.swap.sol)
<1>1. PICK side \in {"BUY", "SELL"}, tx \in Transactions :
        /\ ParseConfirmedSwap(tx) # None /\ ParseConfirmedSwap(tx).err = None
        /\ fill = FillFromSwap(side, ParseConfirmedSwap(tx)) /\ fill # None
  BY DEF Fills
<1> DEFINE swap == ParseConfirmedSwap(tx)
<1>2. /\ tx.pre # None /\ tx.post # None
      /\ swap.fee = OrZero(tx.fee) /\ swap.sol = tx.post - tx.pre
  BY <1>1 DEF ParseConfirmedSwap
<1>3. tx.fee \in Nat \cup {None} /\ tx.pre \in Nat /\ tx.post \in Nat
  BY <1>2, AmountAssumption
<1>4. swap.fee \in Nat /\ swap.sol \in Int /\ swap # None
  BY <1>1, <1>2, <1>3 DEF OrZero
<1>5. FillFromSwap("BUY", swap) # None => swap.fee =< -swap.sol
  BY <1>1 DEF BuysPayTheirFee
<1> HIDE DEF swap
<1>6. fill = FillFromSwap(side, swap) /\ fill # None
  BY <1>1 DEF swap
<1>7. CASE side = "BUY"
  <2>1. /\ fill.side = "BUY" /\ fill.fee = swap.fee /\ fill.swap = swap
        /\ fill.sol = Larger(0, Larger(0, -swap.sol) - swap.fee)
    BY <1>6, <1>7 DEF FillFromSwap
  <2>2. swap.fee =< -swap.sol
    BY <1>5, <1>6, <1>7
  <2>3. fill.sol = -swap.sol - swap.fee
    BY <1>4, <2>1, <2>2 DEF Larger
  <2> QED BY <1>4, <2>1, <2>3
<1>8. CASE side = "SELL"
  <2>1. /\ fill.side = "SELL" /\ fill.fee = swap.fee /\ fill.swap = swap
        /\ fill.sol = Larger(0, swap.sol) + swap.fee
    BY <1>6, <1>8 DEF FillFromSwap
  <2> DEFINE a == Larger(0, swap.sol)
  <2>2. a \in Nat
    BY <1>4 DEF Larger
  <2> HIDE DEF a
  <2>3. fill.sol - fill.fee = a
    BY <1>4, <2>1, <2>2 DEF a
  <2>4. Proceeds(fill) = a
    BY <2>2, <2>3 DEF Proceeds, Larger
  <2> QED BY <1>4, <2>1, <2>4 DEF a
<1> QED BY <1>1, <1>7, <1>8

LEMMA ChainKept ==
  ASSUME IsFiniteSet(Positions), BuysPayTheirFee, Books, OnChain, [Next]_vars, ~cut',
         execution' = "autonomous"
  PROVE  /\ phase' = "running" => account'.cash = Bankroll + Drawn(moved')
         /\ phase' = "down" /\ HasAccount' => Stored'.cash = Bankroll + Drawn(moved')
<1>1. ~cut /\ Whole
  BY NotCut DEF Books, Whole
<1>2. /\ Typed /\ account.cash \in Nat /\ moved \in Seq(Moved) /\ Bankroll \in Nat
  BY <1>1, PortfolioAssumption DEF Whole, Typed, Account, Moved
<1>3. execution = "autonomous"
  <2>1. CASE UNCHANGED vars
    BY <2>1 DEF vars
  <2>2. ASSUME NEW b \in Bookers, NEW p \in Positions, NEW fill \in Fills,
               OpenPosition(b, p, fill) \/ ClosePosition(b, p, fill)
        PROVE  execution' = execution
    BY <2>2 DEF OpenPosition, ClosePosition
  <2>3. ASSUME NEW p \in Positions, NEW value \in Marks, MarkPosition(p, value)
        PROVE  execution' = execution
    BY <2>3 DEF MarkPosition
  <2>4. ASSUME NEW b \in Bookers, CommitStep(b) PROVE execution' = execution
    BY <2>4 DEF CommitStep
  <2>5. Snapshot \/ Found \/ FoundStep \/ Restore \/ Crash \/ Stop => execution' = execution
    BY DEF Snapshot, Found, FoundStep, Restore, Crash, Stop, Down
  <2>6. CASE Next
    BY <2>2, <2>3, <2>4, <2>5, <2>6 DEF Next
  <2> QED BY <2>1, <2>6
<1>4. /\ phase = "running" => account.cash = Bankroll + Drawn(moved)
      /\ phase = "down" /\ HasAccount => Stored.cash = Bankroll + Drawn(moved)
  BY <1>1, <1>3 DEF OnChain
<1>5. ASSUME NEW fill \in Fills, Moves(fill), fill.side \in {"BUY", "SELL"}
      PROVE  /\ Drawn(moved') = Drawn(moved)
                    + (IF fill.side = "SELL" THEN Larger(0, fill.swap.sol) ELSE fill.swap.sol)
             /\ Drawn(moved) \in Int
  <2> DEFINE side == fill.side
             sol == fill.swap.sol
             x == [side |-> side, sol |-> sol]
  <2>1. sol \in Int /\ side \in {"BUY", "SELL"} /\ moved' = Append(moved, x)
    BY <1>3, <1>5, ChainFill DEF Moves
  <2> HIDE DEF side, sol
  <2>2. x \in Moved /\ Flow(x) = IF side = "SELL" THEN Larger(0, sol) ELSE sol
    BY <2>1 DEF Moved, Flow
  <2> HIDE DEF x
  <2>3. Drawn(moved') = Drawn(moved) + Flow(x) /\ Drawn(moved) \in Int
    BY <1>2, <2>1, <2>2, DrawnOfMore
  <2> QED BY <2>2, <2>3 DEF side, sol
<1>6. ASSUME NEW b \in Bookers, NEW p \in Positions, NEW fill \in Fills, OpenPosition(b, p, fill)
      PROVE  phase' = "running" /\ account'.cash = Bankroll + Drawn(moved')
  <2>1. /\ account'.cash = account.cash - (fill.sol + fill.fee) /\ fill.side = "BUY"
        /\ fill.sol + fill.fee = -fill.swap.sol /\ fill.swap.sol \in Int
    BY <1>1, <1>3, <1>6, OpensBooking, ChainFill
  <2>2. phase = "running" /\ phase' = "running" /\ Moves(fill)
    BY <1>6 DEF OpenPosition, MayBook, Idle
  <2>3. Drawn(moved') = Drawn(moved) + fill.swap.sol /\ Drawn(moved) \in Int
    BY <1>5, <2>1, <2>2
  <2> QED BY <1>2, <1>4, <2>1, <2>2, <2>3
<1>7. ASSUME NEW b \in Bookers, NEW p \in Positions, NEW fill \in Fills, ClosePosition(b, p, fill)
      PROVE  phase' = "running" /\ account'.cash = Bankroll + Drawn(moved')
  <2> DEFINE got == Proceeds(fill)
  <2>1. /\ account'.cash = account.cash + got /\ fill.side = "SELL"
        /\ got = Larger(0, fill.swap.sol)
    BY <1>1, <1>3, <1>7, ClosesBooking, ChainFill
  <2>2. got \in Nat
    BY <1>2, FillAmounts DEF Typed
  <2>3. phase = "running" /\ phase' = "running" /\ Moves(fill)
    BY <1>7 DEF ClosePosition, MayBook, Idle
  <2>4. Drawn(moved') = Drawn(moved) + got /\ Drawn(moved) \in Int
    BY <1>5, <2>1, <2>3
  <2> HIDE DEF got
  <2> QED BY <1>2, <1>4, <2>1, <2>2, <2>3, <2>4
<1>8. ASSUME NEW p \in Positions, NEW value \in Marks, MarkPosition(p, value)
      PROVE  phase' = "running" /\ account'.cash = Bankroll + Drawn(moved')
  <2>1. phase = "running" /\ phase' = "running" /\ moved' = moved
    BY <1>8 DEF MarkPosition, Idle
  <2>2. account'.cash = account.cash
    BY <1>1, <1>8, MarksPosition
  <2> QED BY <1>4, <2>1, <2>2
<1>9. ASSUME NEW b \in Bookers, CommitStep(b)
      PROVE  phase' = "running" /\ account'.cash = Bankroll + Drawn(moved')
  BY <1>4, <1>9 DEF CommitStep
<1>10. ASSUME Snapshot PROVE phase' = "running" /\ account'.cash = Bankroll + Drawn(moved')
  BY <1>4, <1>10 DEF Snapshot, Idle
<1>11. Opening.cash = Bankroll + Drawn(<<>>)
  BY <1>2, DrawnOfNone DEF Opening
<1>12. ASSUME Found PROVE phase' = "founding"
  BY <1>12 DEF Found
<1>13. ASSUME FoundStep
       PROVE  phase' \in {"founding", "running"} /\ account'.cash = Bankroll + Drawn(moved')
  <2>1. /\ phase = "founding" /\ phase' \in {"founding", "running"}
        /\ account' = account /\ moved' = moved
    BY <1>13 DEF FoundStep
  <2>2. account = Opening /\ moved = <<>>
    BY <1>1, <2>1, FoundingRows
  <2> QED BY <1>11, <2>1, <2>2
<1>14. ASSUME Restore PROVE phase' = "running" /\ account'.cash = Bankroll + Drawn(moved')
  <2>1. account'.cash = Stored.cash
    BY <1>1, <1>14, Restores
  <2>2. phase = "down" /\ HasAccount /\ phase' = "running" /\ moved' = moved
    BY <1>14 DEF Restore
  <2> QED BY <1>4, <2>1, <2>2
<1>15. ASSUME Crash
       PROVE  phase' = "down" /\ (HasAccount' => Stored'.cash = Bankroll + Drawn(moved'))
  <2>1. /\ phase \in {"founding", "running"} /\ phase' = "down" /\ moved' = moved
        /\ dbAccount' = dbAccount
    BY <1>2, <1>15 DEF Crash, Down, rows, Typed
  <2>2. phase = "running" => \A b \in Bookers : booking[b] = NoBooking
    BY <1>15, NotCut
  <2>3. Stored' = Stored
    BY <2>1 DEF Stored
  <2>4. CASE phase = "founding"
    <3>1. dbAccount = None /\ moved = <<>>
      BY <1>1, <2>4, FoundingRows
    <3> QED BY <1>11, <2>1, <2>3, <3>1 DEF Stored
  <2>5. CASE phase = "running"
    <3>1. Same(Stored, account)
      BY <1>1, <2>2, <2>5, BetweenBookings
    <3> QED BY <1>4, <2>1, <2>3, <2>5, <3>1 DEF Same
  <2> QED BY <2>1, <2>4, <2>5
<1>16. ASSUME Stop PROVE phase' = "down" /\ Stored'.cash = Bankroll + Drawn(moved')
  <2>1. phase = "running" /\ phase' = "down" /\ moved' = moved
    BY <1>16 DEF Stop, Down
  <2>2. Stored' = account
    BY <1>1, <1>16, Stops
  <2> QED BY <1>4, <2>1, <2>2
<1>17. CASE UNCHANGED vars
  <2>1. /\ phase' = phase /\ account' = account /\ moved' = moved
        /\ dbAccount' = dbAccount /\ dbLedger' = dbLedger
    BY <1>17 DEF vars, memory, rows
  <2>2. Stored' = Stored /\ (HasAccount' <=> HasAccount)
    BY <2>1 DEF Stored, HasAccount
  <2> QED BY <1>4, <2>1, <2>2
<1>18. CASE Next
  BY <1>6, <1>7, <1>8, <1>9, <1>10, <1>12, <1>13, <1>14, <1>15, <1>16, <1>18 DEF Next
<1> QED BY <1>17, <1>18

\* Unless a booking was cut, the rows say what memory says, as far as they are written.
THEOREM BooksInvariant == ASSUME IsFiniteSet(Positions) PROVE Spec => [](Books /\ Balanced)
<1>1. Init => Books /\ Balanced
  BY Begins DEF Books, Whole, Balanced, Init, HasAccount
<1>2. Books /\ Balanced /\ [Next]_vars => Books' /\ Balanced'
  BY BooksKept DEF Books, Whole, Balanced
<1> QED BY <1>1, <1>2, PTL DEF Spec

\* Money is neither made nor lost.
THEOREM MoneyConserved == ASSUME IsFiniteSet(Positions) PROVE Spec => []Conserved
<1>1. Balanced => Conserved
  BY DEF Balanced, Sound, Conserved
<1> QED BY <1>1, BooksInvariant, PTL

\* A restart between bookings finds the account and the open positions that were in memory.
THEOREM RestartsAgree == ASSUME IsFiniteSet(Positions) PROVE Spec => []RestartAgrees
<1>1. Books => RestartAgrees
  <2>1. SUFFICES ASSUME Whole, phase = "running", \A b \in Bookers : booking[b] = NoBooking
                 PROVE  /\ [Loaded.account EXCEPT !.peak = account.peak] = account
                        /\ Loaded.account.peak =< account.peak
                        /\ OpenIn(dbPos) = OpenIn(pos)
                        /\ \A p \in OpenIn(pos) : /\ dbPos[p].cost = pos[p].cost
                                                   /\ dbPos[p].peak =< pos[p].peak
    BY DEF Books, Whole, RestartAgrees, Settled, InBooking
  <2>2. /\ Same(Stored, account) /\ (dbAccount = None => dbLedger = {Deposit})
        /\ \A p \in Positions : Kept(dbPos[p], pos[p])
    BY <2>1, BetweenBookings
  <2>3. /\ dbAccount \in AccountRow \cup {None} /\ account \in Account
    BY <2>1 DEF Whole, Typed
  <2>4. Loaded.account = Stored /\ Stored \in Account
    BY <2>2, <2>3, LoadedIsStored
  <2>5. [Stored EXCEPT !.peak = account.peak] = account
    <3> DEFINE k == account.peak
               a == account
               b == Stored
    <3>1. /\ a \in Account /\ b \in Account /\ b.cash = a.cash /\ b.realized = a.realized
          /\ b.wins = a.wins /\ b.losses = a.losses /\ b.recent = a.recent
      BY <2>2, <2>3, <2>4 DEF Same
    <3> HIDE DEF a, b
    <3>2. [b EXCEPT !.peak = a.peak] = a
      BY <3>1 DEF Account
    <3> QED BY <3>2 DEF a, b
  <2>6. Stored.peak =< account.peak
    BY <2>2 DEF Same
  <2>7. OpenIn(dbPos) = OpenIn(pos) /\ OpenIn(pos) \in SUBSET Positions
    BY <2>2 DEF Kept, OpenIn
  <2> QED BY <2>2, <2>4, <2>5, <2>6, <2>7 DEF Kept
<1> QED BY <1>1, BooksInvariant, PTL

\* In autonomous mode the cash is what the chain left in the wallet, if a purchase takes at least
\* its fee from it.
THEOREM CashFollowsChain ==
  ASSUME IsFiniteSet(Positions), BuysPayTheirFee PROVE Spec => []CashIsOnChain
<1>1. Init => OnChain
  BY DEF Init, OnChain, HasAccount
<1>2. (Books /\ Balanced) /\ OnChain /\ [Next]_vars => OnChain'
  <2> SUFFICES ASSUME Books, OnChain, [Next]_vars PROVE OnChain'
    OBVIOUS
  <2> QED BY ChainKept DEF OnChain
<1>3. OnChain => CashIsOnChain
  BY DEF OnChain, Drawn, CashIsOnChain
<1> QED BY <1>1, <1>2, <1>3, BooksInvariant, PTL DEF Spec

----------------------------------------------------------------------------
(* The ledger *)

\* Entries no two of which have the same number.
Numbered(S) ==
    IsFiniteSet(S) /\ S \subseteq LedgerEntry /\ \A d, e \in S : d.seq = e.seq => d = e

\* Where an entry stands among the others.
Place(S, e) == Cardinality({d \in S : d.seq =< e.seq})

\* The rows load_state reads come in the order of their numbers, each of them once.
LEMMA Sorting ==
  ASSUME NEW S, Numbered(S)
  PROVE  /\ Cardinality(S) \in Nat
         /\ InOrder(S) \in Seq(S) /\ Len(InOrder(S)) = Cardinality(S)
         /\ \A i \in 1..Cardinality(S) : InOrder(S)[i] \in S /\ Place(S, InOrder(S)[i]) = i
         /\ \A e \in S : Place(S, e) \in 1..Cardinality(S) /\ InOrder(S)[Place(S, e)] = e
         /\ \A d, e \in S : d.seq < e.seq => Place(S, d) < Place(S, e)
<1> DEFINE key == [e \in S |-> e.seq]
           n == Cardinality(S)
<1>1. IsFiniteSet(S) /\ key \in [S -> Int] /\ \A d, e \in S : key[d] = key[e] => d = e
  BY DEF Numbered, LedgerEntry
<1>2. \A e \in S : RankIn(S, key, e) = Place(S, e) /\ key[e] = e.seq
  <2> SUFFICES ASSUME NEW e \in S PROVE RankIn(S, key, e) = Place(S, e)
    OBVIOUS
  <2>1. UpTo(S, key, e) = {d \in S : d.seq =< e.seq}
    BY DEF UpTo
  <2> QED BY <2>1 DEF RankIn, Place
<1> HIDE DEF key
<1>3. /\ \A e \in S : RankIn(S, key, e) \in 1..n
      /\ \A d, e \in S : key[d] < key[e] => RankIn(S, key, d) < RankIn(S, key, e)
      /\ \A d, e \in S : RankIn(S, key, d) = RankIn(S, key, e) => d = e
      /\ \A i \in 1..n : \E e \in S : RankIn(S, key, e) = i
  BY <1>1, Ranks
<1>4. /\ \A e \in S : Place(S, e) \in 1..n
      /\ \A d, e \in S : d.seq < e.seq => Place(S, d) < Place(S, e)
      /\ \A d, e \in S : Place(S, d) = Place(S, e) => d = e
      /\ \A i \in 1..n : \E e \in S : Place(S, e) = i
  BY <1>2, <1>3
<1>5. InOrder(S) = [i \in 1..n |-> CHOOSE e \in S : Place(S, e) = i]
  BY DEF InOrder, Place
<1>6. n \in Nat
  BY <1>1, FS_CardinalityType
<1> HIDE DEF n
<1>7. ASSUME NEW i \in 1..n PROVE InOrder(S)[i] \in S /\ Place(S, InOrder(S)[i]) = i
  BY <1>4, <1>5
<1>8. InOrder(S) \in Seq(S) /\ Len(InOrder(S)) = n
  <2>1. InOrder(S) \in [1..n -> S]
    BY <1>5, <1>7
  <2> QED BY <1>6, <2>1, SeqDef
<1>9. ASSUME NEW e \in S PROVE InOrder(S)[Place(S, e)] = e
  BY <1>4, <1>7
<1> QED BY <1>4, <1>6, <1>7, <1>8, <1>9 DEF n

LEMMA SortedLast ==
  ASSUME NEW S, Numbered(S), S # {}
  PROVE  /\ Last(InOrder(S)) \in S /\ \A e \in S : e.seq =< Last(InOrder(S)).seq
         /\ InOrder(S) # <<>> /\ Range(InOrder(S)) = S
<1> DEFINE n == Cardinality(S)
           s == InOrder(S)
<1>1. n \in Nat \ {0}
  BY FS_CardinalityType, FS_EmptySet DEF Numbered
<1>2. /\ s \in Seq(S) /\ Len(s) = n
      /\ \A i \in 1..n : s[i] \in S /\ Place(S, s[i]) = i
      /\ \A e \in S : Place(S, e) \in 1..n /\ s[Place(S, e)] = e
      /\ \A d, e \in S : d.seq < e.seq => Place(S, d) < Place(S, e)
  BY Sorting
<1>3. \A e \in S : e.seq \in Nat
  BY DEF Numbered, LedgerEntry
<1> HIDE DEF n, s
<1>4. Last(s) = s[n] /\ s[n] \in S /\ Place(S, s[n]) = n
  BY <1>1, <1>2 DEF Last
<1>5. \A e \in S : e.seq =< s[n].seq
  BY <1>1, <1>2, <1>3, <1>4
<1>6. s # <<>>
  BY <1>1, <1>2, EmptySeq
<1>7. Range(s) = S
  <2>1. DOMAIN s = 1..n
    BY <1>2, LenProperties
  <2> QED BY <1>2, <2>1 DEF Range
<1> QED BY <1>4, <1>5, <1>6, <1>7 DEF s

\* A newer entry stands behind the others.
LEMMA SortedMore ==
  ASSUME NEW S, Numbered(S), NEW e \in LedgerEntry, \A d \in S : d.seq < e.seq
  PROVE  /\ Numbered(S \cup {e}) /\ e \notin S
         /\ InOrder(S \cup {e}) = Append(InOrder(S), e)
<1> DEFINE n == Cardinality(S)
           T == S \cup {e}
           s == InOrder(S)
           t == InOrder(T)
<1>1. \A d \in T : d.seq \in Nat
  BY DEF Numbered, LedgerEntry
<1>2. e \notin S /\ IsFiniteSet(T) /\ Cardinality(T) = n + 1 /\ n \in Nat
  BY <1>1, FS_AddElement, FS_CardinalityType DEF Numbered
<1>3. Numbered(T)
  BY <1>1, <1>2 DEF Numbered
<1>4. /\ s \in Seq(S) /\ Len(s) = n
      /\ \A i \in 1..n : s[i] \in S /\ Place(S, s[i]) = i
  BY Sorting
<1>5. /\ t \in Seq(T) /\ Len(t) = n + 1
      /\ \A d \in T : Place(T, d) \in 1..(n + 1) /\ t[Place(T, d)] = d
  BY <1>2, <1>3, Sorting
<1>6. ASSUME NEW d \in S PROVE Place(T, d) = Place(S, d)
  <2>1. {c \in T : c.seq =< d.seq} = {c \in S : c.seq =< d.seq}
    BY <1>1
  <2> QED BY <2>1 DEF Place
<1>7. Place(T, e) = n + 1
  <2>1. {c \in T : c.seq =< e.seq} = T
    BY <1>1
  <2> QED BY <1>2, <2>1 DEF Place
<1> HIDE DEF n, s, t
<1>8. e \in T /\ S \subseteq T
  OBVIOUS
<1> HIDE DEF T
<1>9. \A i \in 1..n : t[i] = s[i]
  BY <1>4, <1>5, <1>6, <1>8
<1>10. t[n + 1] = e
  BY <1>5, <1>7, <1>8
<1>11. t = Append(s, e)
  <2>1. s \in Seq(T) /\ t \in Seq(T)
    BY <1>4, <1>5, <1>8, SeqMonotonic
  <2>2. /\ Append(s, e) \in Seq(T) /\ Len(Append(s, e)) = n + 1
        /\ \A i \in 1..(n + 1) : Append(s, e)[i] = IF i =< n THEN s[i] ELSE e
    BY <1>2, <1>4, <1>8, <2>1, AppendProperties
  <2>3. \A i \in 1..(n + 1) : t[i] = Append(s, e)[i]
    BY <1>2, <1>9, <1>10, <2>2
  <2> QED BY <1>5, <2>1, <2>2, <2>3, SeqEqual
<1> QED BY <1>2, <1>3, <1>11 DEF T, s, t

\* What the last n members of a sequence are.
Window(l, n) == IF l < n THEN l ELSE n

LEMMA LastMembers ==
  ASSUME NEW s \in Seq(Int), NEW n \in Nat \ {0}
  PROVE  /\ LastOf(s, n) \in Seq(Int) /\ Len(LastOf(s, n)) = Window(Len(s), n)
         /\ \A i \in 1..Window(Len(s), n) :
              LastOf(s, n)[i] = s[Len(s) - Window(Len(s), n) + i]
<1> DEFINE l == Len(s)
           m == Larger(1, l - n + 1)
           k == Window(l, n)
           t == SubSeq(s, m, l)
<1>1. l \in Nat /\ \A i \in 1..l : s[i] \in Int
  BY LenProperties, ElementOfSeq
<1> HIDE DEF l
<1>2. m \in Int /\ k \in Nat /\ k = l - m + 1 /\ m >= 1 /\ (m =< l \/ k = 0)
  BY <1>1 DEF Larger, Window
<1> HIDE DEF m, k
<1>3. \A i \in m..l : s[i] \in Int
  BY <1>1, <1>2
<1>4. /\ t \in Seq(Int) /\ Len(t) = IF m =< l THEN l - m + 1 ELSE 0
      /\ \A i \in 1..(l - m + 1) : t[i] = s[m + i - 1]
  BY <1>1, <1>2, <1>3, SubSeqProperties
<1> HIDE DEF t
<1>5. Len(t) = k
  BY <1>1, <1>2, <1>4
<1>6. \A i \in 1..k : m + i - 1 = l - k + i
  BY <1>1, <1>2
<1>7. \A i \in 1..k : t[i] = s[l - k + i]
  BY <1>2, <1>4, <1>6
<1>8. LastOf(s, n) = t
  BY DEF LastOf, t, m, l
<1> QED BY <1>4, <1>5, <1>7, <1>8 DEF k, l

\* A window can slide along: of a longer history the same results are the last.
LEMMA LastOfMore ==
  ASSUME NEW s \in Seq(Int), NEW n \in Nat \ {0}, NEW x \in Int
  PROVE  LastOf(Append(LastOf(s, n), x), n) = LastOf(Append(s, x), n)
<1> DEFINE l == Len(s)
           k == Window(l, n)
           a == LastOf(s, n)
           b == Append(a, x)
           d == Append(s, x)
           u == k + 1
           v == l + 1
           j == Window(u, n)
           h == Window(v, n)
           c == LastOf(b, n)
           e == LastOf(d, n)
<1>1. l \in Nat
  BY LenProperties
<1>2. a \in Seq(Int) /\ Len(a) = k /\ \A i \in 1..k : a[i] = s[l - k + i]
  BY LastMembers
<1>3. k \in Nat /\ k =< l
  BY <1>1 DEF Window
<1> HIDE DEF a, k
<1>4. /\ b \in Seq(Int) /\ Len(b) = u /\ b[u] = x
      /\ \A i \in 1..k : b[i] = a[i]
  BY <1>2, AppendProperties
<1>5. /\ d \in Seq(Int) /\ Len(d) = v /\ d[v] = x
      /\ \A i \in 1..l : d[i] = s[i]
  BY AppendProperties
<1> HIDE DEF b, d
<1>6. u \in Nat /\ v \in Nat /\ u = k + 1 /\ v = l + 1
  BY <1>1, <1>3
<1>7. j = h /\ j \in Nat /\ j =< u
  BY <1>1 DEF k, Window
<1> HIDE DEF l, u, v
<1>8. c \in Seq(Int) /\ Len(c) = j /\ \A i \in 1..j : c[i] = b[u - j + i]
  BY <1>4, LastMembers
<1>9. e \in Seq(Int) /\ Len(e) = h /\ \A i \in 1..h : e[i] = d[v - h + i]
  BY <1>5, LastMembers
<1> HIDE DEF c, e, j, h
<1>10. ASSUME NEW i \in 1..j PROVE c[i] = e[i]
  <2> DEFINE y == u - j + i
             z == v - j + i
  <2>1. c[i] = b[y] /\ e[i] = d[z]
    BY <1>7, <1>8, <1>9
  <2>2. CASE i = j
    <3>1. y = u /\ z = v
      BY <1>6, <1>7, <2>2
    <3> QED BY <1>4, <1>5, <2>1, <3>1
  <2>3. CASE i # j
    <3>1. y \in 1..k /\ z \in 1..l /\ l - k + y = z
      BY <1>1, <1>3, <1>6, <1>7, <2>3
    <3> HIDE DEF y, z
    <3>2. b[y] = a[y] /\ a[y] = s[l - k + y] /\ d[z] = s[z]
      BY <1>2, <1>4, <1>5, <3>1
    <3> QED BY <2>1, <3>1, <3>2
  <2> QED BY <2>2, <2>3
<1>11. c = e
  BY <1>7, <1>8, <1>9, <1>10, SeqEqual
<1> QED BY <1>11 DEF a, b, c, d, e

\* The last of the last m are the last.
LEMMA LastOfLast ==
  ASSUME NEW s \in Seq(Int), NEW n \in Nat \ {0}, NEW m \in Nat \ {0}, n =< m
  PROVE  LastOf(LastOf(s, m), n) = LastOf(s, n)
<1> DEFINE l == Len(s)
           k == Window(l, m)
           a == LastOf(s, m)
           j == Window(k, n)
           h == Window(l, n)
           c == LastOf(a, n)
           e == LastOf(s, n)
<1>1. l \in Nat
  BY LenProperties
<1>2. a \in Seq(Int) /\ Len(a) = k /\ \A i \in 1..k : a[i] = s[l - k + i]
  BY LastMembers
<1> HIDE DEF a
<1>3. j = h /\ j \in Nat /\ k \in Nat /\ j =< k
  BY <1>1 DEF Window
<1> HIDE DEF l, k
<1>4. c \in Seq(Int) /\ Len(c) = j /\ \A i \in 1..j : c[i] = a[k - j + i]
  BY <1>2, LastMembers
<1>5. e \in Seq(Int) /\ Len(e) = h /\ \A i \in 1..h : e[i] = s[l - h + i]
  BY LastMembers DEF l
<1> HIDE DEF c, e, j, h
<1>6. ASSUME NEW i \in 1..j PROVE c[i] = e[i]
  <2> DEFINE x == k - j + i
  <2>1. x \in 1..k /\ l - k + x = l - j + i /\ c[i] = a[x] /\ e[i] = s[l - j + i]
    BY <1>1, <1>3, <1>4, <1>5
  <2> HIDE DEF x
  <2>2. a[x] = s[l - k + x]
    BY <1>2, <2>1
  <2> QED BY <2>1, <2>2
<1>7. c = e
  BY <1>3, <1>4, <1>5, <1>6, SeqEqual
<1> QED BY <1>7 DEF a, c, e

\* What the ledger's rows say about the account, sale by sale.
SalesIn(S) == {e \in S : e.kind = "SELL"}
Results(S) ==
    LET sales == InOrder(SalesIn(S)) IN [i \in DOMAIN sales |-> sales[i].realized]
Realized == [e \in LedgerEntry |-> e.realized]

Tallied(a, S) ==
    /\ a.cash = Last(InOrder(S)).after
    /\ a.realized = SumOf(Realized, S)
    /\ a.wins = Cardinality({e \in SalesIn(S) : e.realized > 0})
    /\ a.losses = Cardinality({e \in SalesIn(S) : e.realized =< 0})
    /\ a.recent = LastOf(Results(S), StreakWindow)

LEMMA ResultsInOrder ==
  ASSUME NEW S, Numbered(S)
  PROVE  /\ Numbered(SalesIn(S)) /\ Results(S) \in Seq(Int)
         /\ Len(Results(S)) = Cardinality(SalesIn(S))
         /\ \A i \in 1..Cardinality(SalesIn(S)) :
              Results(S)[i] = InOrder(SalesIn(S))[i].realized
<1> DEFINE T == SalesIn(S)
           s == InOrder(T)
           n == Cardinality(T)
<1>1. Numbered(T)
  BY FS_Subset DEF Numbered, SalesIn
<1>2. n \in Nat /\ s \in Seq(T) /\ Len(s) = n /\ \A i \in 1..n : s[i] \in T
  BY <1>1, Sorting
<1>3. \A e \in T : e.realized \in Int
  BY <1>1 DEF Numbered, LedgerEntry
<1>4. Results(S) = [i \in DOMAIN s |-> s[i].realized]
  BY DEF Results
<1> HIDE DEF s, n, T
<1>5. DOMAIN s = 1..n
  BY <1>2, LenProperties
<1>6. Results(S) \in [1..n -> Int] /\ \A i \in 1..n : Results(S)[i] = s[i].realized
  BY <1>2, <1>3, <1>4, <1>5
<1>7. Results(S) \in Seq(Int) /\ Len(Results(S)) = n
  BY <1>2, <1>6, SeqDef
<1> QED BY <1>1, <1>6, <1>7 DEF s, n, T

\* A sale adds its result, another entry none.
LEMMA ResultsMore ==
  ASSUME NEW S, Numbered(S), NEW e \in LedgerEntry, \A d \in S : d.seq < e.seq
  PROVE  Results(S \cup {e}) =
           IF e.kind = "SELL" THEN Append(Results(S), e.realized) ELSE Results(S)
<1> DEFINE T == S \cup {e}
           A == SalesIn(S)
<1>1. CASE e.kind # "SELL"
  <2>1. SalesIn(T) = A
    BY <1>1 DEF SalesIn
  <2> QED BY <1>1, <2>1 DEF Results
<1>2. CASE e.kind = "SELL"
  <2> DEFINE B == SalesIn(T)
             n == Cardinality(A)
             r == Results(S)
             q == Results(T)
             s == InOrder(A)
  <2>1. B = A \cup {e} /\ A \subseteq S
    BY <1>2 DEF SalesIn
  <2>2. /\ Numbered(A) /\ r \in Seq(Int) /\ Len(r) = n /\ \A i \in 1..n : r[i] = s[i].realized
    BY ResultsInOrder
  <2>3. /\ e \notin A /\ InOrder(A \cup {e}) = Append(s, e)
    BY <2>1, <2>2, SortedMore
  <2>4. Cardinality(B) = n + 1 /\ n \in Nat
    BY <2>1, <2>2, <2>3, FS_AddElement, FS_CardinalityType DEF Numbered
  <2>5. /\ q \in Seq(Int) /\ Len(q) = n + 1
        /\ \A i \in 1..(n + 1) : q[i] = InOrder(B)[i].realized
    <3>1. Numbered(T)
      BY SortedMore
    <3> QED BY <2>4, <3>1, ResultsInOrder
  <2>6. s \in Seq(A) /\ Len(s) = n
    BY <2>2, Sorting
  <2>7. /\ \A i \in 1..n : Append(s, e)[i] = s[i]
        /\ Append(s, e)[n + 1] = e
    <3>1. s \in Seq(LedgerEntry)
      BY <2>2, <2>6, SeqMonotonic DEF Numbered
    <3> QED BY <2>6, <3>1, AppendProperties
  <2> DEFINE v == e.realized
             u == Append(r, v)
  <2>8. v \in Int
    BY DEF LedgerEntry
  <2> HIDE DEF r, q, s, n, B, A, T, v
  <2>9. /\ u \in Seq(Int) /\ Len(u) = n + 1 /\ u[n + 1] = v
        /\ \A i \in 1..n : u[i] = r[i]
    BY <2>2, <2>8, AppendProperties
  <2>10. InOrder(B) = Append(s, e)
    BY <2>1, <2>3
  <2>11. ASSUME NEW i \in 1..n PROVE q[i] = u[i]
    <3>1. i \in 1..(n + 1)
      BY <2>4
    <3>2. q[i] = Append(s, e)[i].realized
      BY <2>5, <2>10, <3>1
    <3> QED BY <2>2, <2>7, <2>9, <3>2
  <2>12. q[n + 1] = u[n + 1]
    <3>1. n + 1 \in 1..(n + 1)
      BY <2>4
    <3>2. q[n + 1] = Append(s, e)[n + 1].realized
      BY <2>5, <2>10, <3>1
    <3> QED BY <2>7, <2>9, <3>2 DEF v
  <2>13. q = u
    <3> HIDE DEF u
    <3>1. \A i \in 1..(n + 1) : q[i] = u[i]
      <4>1. 1..(n + 1) = 1..n \cup {n + 1}
        BY <2>4
      <4> QED BY <2>11, <2>12, <4>1
    <3> QED BY <2>5, <2>9, <3>1, SeqEqual
  <2> QED BY <1>2, <2>13 DEF r, q, T, v
<1> QED BY <1>1, <1>2

\* The account after one more entry, from the account before it.
LEMMA TalliedMore ==
  ASSUME NEW S, Numbered(S), NEW e \in LedgerEntry, \A d \in S : d.seq < e.seq,
         NEW a, NEW b, a.wins \in Int, a.losses \in Int, Tallied(a, S),
         b.cash = e.after, b.realized = a.realized + e.realized,
         IF e.kind = "SELL" THEN Counts(b, a, e.realized) ELSE SameCounts(b, a)
  PROVE  Tallied(b, S \cup {e})
<1> DEFINE T == S \cup {e}
           Won(X) == {d \in SalesIn(X) : d.realized > 0}
           Lost(X) == {d \in SalesIn(X) : d.realized =< 0}
<1>1. Numbered(T) /\ e \notin S /\ InOrder(T) = Append(InOrder(S), e)
  BY SortedMore
<1>2. Last(InOrder(T)) = e
  <2>1. InOrder(S) \in Seq(LedgerEntry)
    <3>1. InOrder(S) \in Seq(S) /\ S \subseteq LedgerEntry
      BY Sorting DEF Numbered
    <3> QED BY <3>1, SeqMonotonic
  <2> DEFINE s == InOrder(S)
             t == Append(s, e)
  <2>2. Len(t) = Len(s) + 1 /\ t[Len(s) + 1] = e
    BY <2>1, AppendProperties
  <2> HIDE DEF s, t
  <2>3. Last(t) = e
    BY <2>2 DEF Last
  <2> QED BY <1>1, <2>3 DEF s, t
<1>3. SumOf(Realized, T) = e.realized + SumOf(Realized, S) /\ SumOf(Realized, S) \in Int
  <2>1. Realized \in [LedgerEntry -> Int] /\ Realized[e] = e.realized
    BY DEF Realized, LedgerEntry
  <2>2. IsFiniteSet(S) /\ S \in SUBSET LedgerEntry
    BY DEF Numbered
  <2> QED BY <1>1, <2>1, <2>2, SumOfAdded, SumOfInt
<1>4. e.realized \in Int /\ \A d \in S : d.realized \in Int
  BY DEF Numbered, LedgerEntry
<1>5. /\ IsFiniteSet(Won(S)) /\ IsFiniteSet(Lost(S)) /\ e \notin Won(S) /\ e \notin Lost(S)
      /\ Cardinality(Won(S)) \in Nat /\ Cardinality(Lost(S)) \in Nat
  <2>1. Won(S) \in SUBSET S /\ Lost(S) \in SUBSET S
    BY DEF SalesIn
  <2> QED BY <1>1, <2>1, FS_Subset, FS_CardinalityType DEF Numbered
<1>6. /\ a.wins = Cardinality(Won(S)) /\ a.losses = Cardinality(Lost(S))
      /\ a.realized = SumOf(Realized, S) /\ a.recent = LastOf(Results(S), StreakWindow)
  BY DEF Tallied
<1>7. b.realized = SumOf(Realized, T)
  BY <1>3, <1>4, <1>6
<1>8. CASE e.kind # "SELL"
  <2>1. SalesIn(T) = SalesIn(S)
    BY <1>8 DEF SalesIn
  <2>2. Results(T) = Results(S)
    BY <1>8, ResultsMore
  <2>3. b.wins = a.wins /\ b.losses = a.losses /\ b.recent = a.recent
    BY <1>8 DEF SameCounts
  <2> QED BY <1>2, <1>6, <1>7, <2>1, <2>2, <2>3 DEF Tallied
<1>9. CASE e.kind = "SELL"
  <2>1. /\ b.wins = a.wins + (IF e.realized > 0 THEN 1 ELSE 0)
        /\ b.losses = a.losses + (IF e.realized > 0 THEN 0 ELSE 1)
        /\ b.recent = LastOf(Append(a.recent, e.realized), StreakWindow)
    BY <1>9 DEF Counts
  <2>2. SalesIn(T) = SalesIn(S) \cup {e}
    BY <1>9 DEF SalesIn
  <2>3. b.wins = Cardinality(Won(T)) /\ b.losses = Cardinality(Lost(T))
    <3>1. CASE e.realized > 0
      <4>1. Won(T) = Won(S) \cup {e} /\ Lost(T) = Lost(S)
        <5>1. ~(e.realized =< 0)
          BY <1>4, <3>1
        <5> QED BY <2>2, <3>1, <5>1
      <4> HIDE DEF Won, Lost
      <4>2. Cardinality(Won(T)) = Cardinality(Won(S)) + 1
        BY <1>5, <4>1, FS_AddElement
      <4> QED BY <1>5, <1>6, <2>1, <3>1, <4>1, <4>2
    <3>2. CASE ~(e.realized > 0)
      <4>1. Lost(T) = Lost(S) \cup {e} /\ Won(T) = Won(S)
        <5>1. e.realized =< 0
          BY <1>4, <3>2
        <5> QED BY <2>2, <3>2, <5>1
      <4> HIDE DEF Won, Lost
      <4>2. Cardinality(Lost(T)) = Cardinality(Lost(S)) + 1
        BY <1>5, <4>1, FS_AddElement
      <4> QED BY <1>5, <1>6, <2>1, <3>2, <4>1, <4>2
    <3> QED BY <3>1, <3>2
  <2>4. b.recent = LastOf(Results(T), StreakWindow)
    <3>1. Results(S) \in Seq(Int) /\ StreakWindow \in Nat \ {0}
      BY ResultsInOrder, PortfolioAssumption
    <3>2. LastOf(Append(LastOf(Results(S), StreakWindow), e.realized), StreakWindow)
            = LastOf(Append(Results(S), e.realized), StreakWindow)
      BY <1>4, <3>1, LastOfMore
    <3>3. Results(T) = Append(Results(S), e.realized)
      BY <1>9, ResultsMore
    <3> QED BY <1>6, <2>1, <3>2, <3>3
  <2> QED BY <1>2, <1>7, <2>3, <2>4 DEF Tallied
<1> QED BY <1>8, <1>9

\* The numbers are those from one on, without a gap.
Complete(S) == {e.seq : e \in S} = 1..Cardinality(S)

\* The last entry has its row, or a booking under way will write it.
LastHeld ==
    \/ Last(ledger) \in dbLedger
    \/ \E b \in Bookers : \/ booking[b].writes \in {"fill", "position"}
                          \/ booking[b].writes = "ledger" /\ booking[b].row = Last(ledger)

\* An entry without a row is lost with the process, and the next one is numbered after the last.
LedgerInMemory ==
    /\ ledger \in Seq(LedgerEntry) /\ ledger # <<>> /\ Numbered(Range(ledger))
    /\ \A e \in Range(ledger) : e.seq =< Last(ledger).seq
    /\ dbLedger \subseteq Range(ledger)
    /\ \A b \in Bookers : booking[b].writes = "ledger" => booking[b].row \in Range(ledger)
    /\ LastHeld
    /\ Complete(Range(ledger)) => Tallied(account, Range(ledger))

LedgerInRows ==
    /\ Numbered(dbLedger)
    /\ HasAccount => dbLedger # {} /\ (Complete(dbLedger) => Tallied(Stored, dbLedger))

Ledgers ==
    ~cut => /\ phase = "running" => LedgerInMemory
            /\ phase = "founding" => ledger = <<Deposit>>
            /\ phase = "down" => LedgerInRows

LEMMA LastIn ==
  ASSUME NEW D, NEW s \in Seq(D), s # <<>>
  PROVE  Last(s) \in Range(s) /\ Range(s) \subseteq D
<1>1. Len(s) \in Nat /\ DOMAIN s = 1..Len(s) /\ Len(s) # 0
  BY LenProperties, EmptySeq
<1>2. Len(s) \in DOMAIN s
  BY <1>1
<1>3. \A i \in DOMAIN s : s[i] \in D
  BY <1>1, ElementOfSeq
<1> QED BY <1>2, <1>3 DEF Last, Range

LEMMA RangeMore ==
  ASSUME NEW D, NEW s \in Seq(D), NEW e \in D
  PROVE  LET t == Append(s, e) IN
         t \in Seq(D) /\ t # <<>> /\ Range(t) = Range(s) \cup {e} /\ Last(t) = e
<1> DEFINE t == Append(s, e)
           n == Len(s)
<1>1. /\ t \in Seq(D) /\ Len(t) = n + 1 /\ t[n + 1] = e /\ \A i \in 1..n : t[i] = s[i]
      /\ n \in Nat /\ DOMAIN s = 1..n
  BY AppendProperties, LenProperties
<1>2. DOMAIN t = 1..(n + 1)
  BY <1>1, LenProperties
<1> HIDE DEF t, n
<1>3. t # <<>> /\ Last(t) = e
  BY <1>1, EmptySeq DEF Last
<1>4. 1..(n + 1) = (1..n) \cup {n + 1}
  BY <1>1
<1>5. Range(t) = Range(s) \cup {e}
  BY <1>1, <1>2, <1>4 DEF Range
<1> QED BY <1>1, <1>3, <1>5 DEF t

\* The entry that _append makes.
LEMMA Appends ==
  ASSUME NEW log \in Seq(LedgerEntry), log # <<>>, \A e \in Range(log) : e.seq =< Last(log).seq,
         NEW a, NEW delta, NEW result, NEW kind
  PROVE  Appended(log, a, delta, result, kind)
           = Append(log, Entry(Last(log).seq + 1, delta, a.cash + delta, result, kind))
<1> DEFINE m == Last(log).seq
           seqs == {0} \cup {e.seq : e \in Range(log)}
<1>1. Last(log) \in Range(log) /\ \A e \in Range(log) : e.seq \in Nat
  <2>1. Last(log) \in Range(log) /\ Range(log) \subseteq LedgerEntry
    BY LastIn
  <2> QED BY <2>1 DEF LedgerEntry
<1>2. m \in seqs /\ seqs \subseteq Nat /\ \A k \in seqs : m >= k
  BY <1>1
<1> HIDE DEF m, seqs
<1>3. Max(seqs) = m
  <2>1. Max(seqs) = CHOOSE x \in seqs : \A k \in seqs : x >= k
    BY DEF Max
  <2>2. Max(seqs) \in seqs /\ \A k \in seqs : Max(seqs) >= k
    BY <1>2, <2>1
  <2> DEFINE x == Max(seqs)
  <2>3. x \in Nat /\ m \in Nat /\ x >= m /\ m >= x
    BY <1>2, <2>2
  <2> HIDE DEF x
  <2>4. x = m
    BY <2>3
  <2> QED BY <2>4 DEF x
<1> QED BY <1>3 DEF Appended, m, seqs

\* A ledger without a gap had none before its last entry.
LEMMA CompleteLess ==
  ASSUME NEW S, Numbered(S), NEW e \in LedgerEntry, \A d \in S : d.seq < e.seq,
         Complete(S \cup {e})
  PROVE  Complete(S)
<1> DEFINE n == Cardinality(S)
           k == e.seq
           seqs == {d.seq : d \in S}
<1>1. e \notin S
  BY SortedMore
<1>2. n \in Nat /\ Cardinality(S \cup {e}) = n + 1
  BY <1>1, FS_AddElement, FS_CardinalityType DEF Numbered
<1>3. seqs \cup {k} = 1..(n + 1)
  BY <1>2 DEF Complete
<1>4. \A i \in seqs : i < k
  OBVIOUS
<1> HIDE DEF n, k, seqs
<1>5. k = n + 1
  <2>1. n + 1 \in seqs \cup {k} /\ k \in 1..(n + 1)
    BY <1>2, <1>3
  <2> QED BY <1>2, <1>4, <2>1
<1>6. \A i : i \in seqs <=> i \in 1..n
  <2>1. \A i \in seqs : i \in 1..(n + 1) /\ i < n + 1
    BY <1>3, <1>4, <1>5
  <2>2. \A i \in 1..n : i \in seqs \cup {k} /\ i # k
    BY <1>2, <1>3, <1>5
  <2> QED BY <1>2, <2>1, <2>2
<1> QED BY <1>6 DEF Complete, n, seqs

\* Rows without a gap, the last of them that of the last entry, are all there are.
LEMMA CompleteIsAll ==
  ASSUME NEW S, Numbered(S), NEW T \in SUBSET S, NEW e \in T, \A d \in S : d.seq =< e.seq,
         Complete(T)
  PROVE  T = S
<1> DEFINE n == Cardinality(T)
<1>1. \A d \in S : d.seq \in Nat \ {0}
  BY DEF Numbered, LedgerEntry
<1>2. n \in Nat
  BY FS_Subset, FS_CardinalityType DEF Numbered
<1>3. {d.seq : d \in T} = 1..n
  BY DEF Complete
<1> HIDE DEF n
<1>4. ASSUME NEW d \in S PROVE d \in T
  <2>1. e.seq \in 1..n
    BY <1>3
  <2>2. d.seq \in 1..n
    BY <1>1, <1>2, <2>1
  <2>3. PICK c \in T : c.seq = d.seq
    BY <1>3, <2>2
  <2> QED BY <2>3 DEF Numbered
<1> QED BY <1>4

LEMMA TalliedSame ==
  ASSUME NEW S, NEW a, Tallied(a, S), NEW b, b.cash = a.cash, b.realized = a.realized,
         SameCounts(b, a)
  PROVE  Tallied(b, S)
BY DEF Tallied, SameCounts

\* A fill that is booked.
LEMMA LedgerGrows ==
  ASSUME LedgerInMemory, Typed, NEW delta \in Int, NEW result \in Int,
         NEW kind \in {"BUY", "SELL"}, NEW b \in Bookers, NEW p,
         ledger' = Appended(ledger, account, delta, result, kind), dbLedger' = dbLedger,
         booking[b] = NoBooking, booking' = [booking EXCEPT ![b] = Writing(p, "fill", None)],
         account'.cash \in Nat, account'.cash = account.cash + delta,
         account'.realized = account.realized + result,
         IF kind = "SELL" THEN Counts(account', account, result)
                          ELSE SameCounts(account', account)
  PROVE  LedgerInMemory'
<1> DEFINE m == Last(ledger).seq
           after == account.cash + delta
           e == Entry(m + 1, delta, after, result, kind)
           S == Range(ledger)
           w == Writing(p, "fill", None)
<1>1. /\ ledger \in Seq(LedgerEntry) /\ ledger # <<>> /\ Numbered(S)
      /\ \A d \in S : d.seq =< m
      /\ dbLedger \subseteq S
      /\ \A c \in Bookers : booking[c].writes = "ledger" => booking[c].row \in S
      /\ Complete(S) => Tallied(account, S)
  BY DEF LedgerInMemory
<1>2. m \in Nat /\ \A d \in S : d.seq \in Nat
  <2>1. Last(ledger) \in S /\ S \subseteq LedgerEntry
    BY <1>1, LastIn
  <2> QED BY <2>1 DEF LedgerEntry
<1>3. ledger' = Append(ledger, e)
  BY <1>1, Appends
<1> HIDE DEF m, S, after
<1>4. /\ e \in LedgerEntry /\ e.seq = m + 1 /\ e.after = after /\ e.realized = result
      /\ e.kind = kind
  BY <1>2 DEF Entry, LedgerEntry, after
<1> HIDE DEF e
<1>5. /\ ledger' \in Seq(LedgerEntry) /\ ledger' # <<>> /\ Range(ledger') = S \cup {e}
      /\ Last(ledger') = e
  BY <1>1, <1>3, <1>4, RangeMore DEF S
<1>6. (\A d \in S : d.seq < e.seq) /\ \A d \in S \cup {e} : d.seq =< e.seq
  BY <1>1, <1>2, <1>4
<1>7. Numbered(S \cup {e})
  BY <1>1, <1>4, <1>6, SortedMore
<1>8. w.writes = "fill"
  BY DEF Writing
<1> HIDE DEF w
<1>9. /\ booking'[b] = w
      /\ \A c \in Bookers : booking'[c].writes = "ledger" => booking'[c] = booking[c]
  BY <1>8 DEF Typed, w
<1>10. ASSUME Complete(S \cup {e}) PROVE Tallied(account', S \cup {e})
  <2>1. Complete(S)
    BY <1>1, <1>4, <1>6, <1>10, CompleteLess
  <2>2. Tallied(account, S)
    BY <1>1, <2>1
  <2>3. account.wins \in Int /\ account.losses \in Int
    BY DEF Typed, Account
  <2> DEFINE a == account
             x == account'
  <2>4. /\ x.cash = e.after /\ x.realized = a.realized + e.realized
        /\ IF e.kind = "SELL" THEN Counts(x, a, e.realized) ELSE SameCounts(x, a)
    BY <1>4 DEF after
  <2>5. a.wins \in Int /\ a.losses \in Int /\ Tallied(a, S)
    BY <2>2, <2>3
  <2> HIDE DEF a, x
  <2>6. Tallied(x, S \cup {e})
    BY <1>1, <1>4, <1>6, <2>4, <2>5, TalliedMore
  <2> QED BY <2>6 DEF x
<1>11. LastHeld'
  BY <1>8, <1>9 DEF LastHeld
<1> QED BY <1>1, <1>5, <1>6, <1>7, <1>9, <1>10, <1>11 DEF LedgerInMemory

\* A valuation and a snapshot are no entries.
LEMMA LedgerStays ==
  ASSUME LedgerInMemory, account'.cash = account.cash, account'.realized = account.realized,
         SameCounts(account', account), UNCHANGED <<ledger, booking, dbLedger>>
  PROVE  LedgerInMemory'
<1>1. Tallied(account, Range(ledger)) => Tallied(account', Range(ledger))
  BY TalliedSame
<1>2. LastHeld'
  BY DEF LedgerInMemory, LastHeld
<1> QED BY <1>1, <1>2 DEF LedgerInMemory

LEMMA LedgerCommitted ==
  ASSUME Whole, LedgerInMemory, NEW b \in Bookers, CommitStep(b) PROVE LedgerInMemory'
<1> DEFINE w == booking[b]
           x == NextWrite(w)
           S == Range(ledger)
<1>1. /\ w.writes \in {"fill", "position", "ledger", "account"} /\ Written(w)
      /\ booking' = [booking EXCEPT ![b] = x] /\ account' = account /\ Typed
  BY HeadWrites
<1>2. ledger' = ledger
  BY DEF CommitStep
<1>3. \A c \in Bookers : booking'[c] = IF c = b THEN x ELSE booking[c]
  BY <1>1 DEF Typed
<1>4. /\ w.writes = "fill" => x.writes = "position"
      /\ w.writes = "position" => x.writes = "ledger" /\ x.row = Last(ledger)
      /\ w.writes = "ledger" => x.writes = "account"
      /\ w.writes = "account" => x.writes = "nothing"
  BY DEF NextWrite, Writing, NoBooking
<1>5. dbLedger' = IF w.writes = "ledger" THEN dbLedger \cup {w.row} ELSE dbLedger
  BY <1>1 DEF Written
<1> HIDE DEF x
<1>6. /\ Last(ledger) \in S /\ dbLedger \subseteq S
      /\ \A c \in Bookers : booking[c].writes = "ledger" => booking[c].row \in S
  BY LastIn DEF LedgerInMemory
<1>7. dbLedger' \subseteq S /\ dbLedger \subseteq dbLedger'
  BY <1>5, <1>6
<1>8. ASSUME NEW c \in Bookers, booking'[c].writes = "ledger" PROVE booking'[c].row \in S
  <2>1. CASE c = b
    BY <1>1, <1>3, <1>4, <1>6, <1>8, <2>1
  <2>2. CASE c # b
    BY <1>3, <1>6, <1>8, <2>2
  <2> QED BY <2>1, <2>2
<1>9. LastHeld'
  <2>1. CASE Last(ledger) \in dbLedger
    BY <1>2, <1>7, <2>1 DEF LastHeld
  <2>2. CASE Last(ledger) \notin dbLedger
    <3>1. PICK c \in Bookers :
            \/ booking[c].writes \in {"fill", "position"}
            \/ booking[c].writes = "ledger" /\ booking[c].row = Last(ledger)
      BY <2>2 DEF LedgerInMemory, LastHeld
    <3>2. CASE c # b
      <4>1. booking'[c] = booking[c]
        BY <1>3, <3>2
      <4> QED BY <1>2, <3>1, <4>1 DEF LastHeld
    <3>3. CASE c = b /\ w.writes = "ledger"
      <4>1. Last(ledger) \in dbLedger'
        BY <1>5, <3>1, <3>3
      <4> QED BY <1>2, <4>1 DEF LastHeld
    <3>4. CASE c = b /\ w.writes # "ledger"
      <4>1. /\ booking'[b] = x
            /\ \/ x.writes = "position"
               \/ x.writes = "ledger" /\ x.row = Last(ledger)
        BY <1>3, <1>4, <3>1, <3>4
      <4> QED BY <1>2, <4>1 DEF LastHeld
    <3> QED BY <3>2, <3>3, <3>4
  <2> QED BY <2>1, <2>2
<1> QED BY <1>1, <1>2, <1>7, <1>8, <1>9 DEF LedgerInMemory

\* Between bookings every entry that can still be lost is.
LEMMA LedgerAtRest ==
  ASSUME Typed, LedgerInMemory, \A b \in Bookers : booking[b] = NoBooking
  PROVE  /\ Numbered(dbLedger) /\ dbLedger # {}
         /\ Complete(dbLedger) => Tallied(account, dbLedger)
<1> DEFINE S == Range(ledger)
           e == Last(ledger)
<1>1. /\ Numbered(S) /\ (\A d \in S : d.seq =< e.seq) /\ dbLedger \in SUBSET S
      /\ Complete(S) => Tallied(account, S)
  BY DEF LedgerInMemory
<1>2. e \in dbLedger
  <2>1. \A b \in Bookers : booking[b].writes = "nothing"
    BY DEF NoBooking
  <2> QED BY <2>1 DEF LedgerInMemory, LastHeld
<1> HIDE DEF S, e
<1>3. Numbered(dbLedger)
  BY <1>1, FS_Subset DEF Numbered
<1>4. ASSUME Complete(dbLedger) PROVE Tallied(account, dbLedger)
  <2>1. dbLedger = S
    BY <1>1, <1>2, <1>4, CompleteIsAll
  <2> QED BY <1>1, <1>4, <2>1
<1> QED BY <1>2, <1>3, <1>4

\* The deposit alone.
LEMMA DepositTallied ==
  /\ Numbered({Deposit}) /\ Tallied(Opening, {Deposit})
  /\ Last(<<Deposit>>) = Deposit /\ Range(<<Deposit>>) = {Deposit}
  /\ <<Deposit>> \in Seq(LedgerEntry)
<1> DEFINE S == {Deposit}
           none == {}
<1>1. /\ Deposit \in LedgerEntry /\ Deposit.after = Bankroll /\ Deposit.realized = 0
      /\ Deposit.kind = "DEPOSIT"
  BY PortfolioAssumption DEF Deposit, Entry, LedgerEntry
<1>2. IsFiniteSet(S) /\ Cardinality(S) = 1 /\ IsFiniteSet(none) /\ Cardinality(none) = 0
  BY FS_Singleton, FS_EmptySet
<1>3. Numbered(S)
  BY <1>1, <1>2 DEF Numbered
<1>4. Last(InOrder(S)) = Deposit
  BY <1>3, SortedLast
<1>5. SalesIn(S) = none
  BY <1>1 DEF SalesIn
<1>6. Results(S) \in Seq(Int) /\ Len(Results(S)) = 0
  BY <1>2, <1>3, <1>5, ResultsInOrder
<1>7. LastOf(Results(S), StreakWindow) = <<>>
  <2> DEFINE r == LastOf(Results(S), StreakWindow)
  <2>1. r \in Seq(Int) /\ Len(r) = Window(0, StreakWindow) /\ StreakWindow \in Nat \ {0}
    BY <1>6, LastMembers, PortfolioAssumption
  <2>2. Window(0, StreakWindow) = 0
    BY <2>1 DEF Window
  <2> QED BY <2>1, <2>2, EmptySeq
<1>8. SumOf(Realized, S) = 0
  <2>1. Realized \in [LedgerEntry -> Int] /\ Realized[Deposit] = 0
    BY <1>1 DEF Realized, LedgerEntry
  <2>2. SumOf(Realized, none) = 0
    BY <2>1, SumOfEmpty
  <2>3. none \in SUBSET LedgerEntry /\ Deposit \notin none /\ none \cup {Deposit} = S
    OBVIOUS
  <2> HIDE DEF none, S
  <2>4. SumOf(Realized, none \cup {Deposit}) = Realized[Deposit] + SumOf(Realized, none)
    BY <1>1, <1>2, <2>1, <2>3, SumOfAdded
  <2> QED BY <2>1, <2>2, <2>3, <2>4
<1>9. /\ {e \in SalesIn(S) : e.realized > 0} = none
      /\ {e \in SalesIn(S) : e.realized =< 0} = none
  BY <1>5
<1>10. Tallied(Opening, S)
  BY <1>1, <1>2, <1>4, <1>7, <1>8, <1>9 DEF Tallied, Opening
<1>11. Last(<<Deposit>>) = Deposit /\ Range(<<Deposit>>) = S
  BY DEF Last, Range
<1>12. <<Deposit>> \in Seq(LedgerEntry)
  BY <1>1
<1> QED BY <1>3, <1>10, <1>11, <1>12

LEMMA LedgersKept ==
  ASSUME IsFiniteSet(Positions), Books, Ledgers, [Next]_vars, ~cut'
  PROVE  /\ phase' = "running" => LedgerInMemory'
         /\ phase' = "founding" => ledger' = <<Deposit>>
         /\ phase' = "down" => LedgerInRows'
<1>1. /\ ~cut /\ Whole
      /\ phase = "running" => LedgerInMemory
      /\ phase = "founding" => ledger = <<Deposit>>
      /\ phase = "down" => LedgerInRows
  BY NotCut DEF Books, Whole, Ledgers
<1>2. /\ Typed /\ account.cash \in Nat /\ pos \in [Positions -> Position]
      /\ \A p \in Positions : pos[p].cost \in Int
  BY <1>1 DEF Whole, Typed, Account, Position
<1>3. ASSUME NEW b \in Bookers, NEW p \in Positions, NEW fill \in Fills, OpenPosition(b, p, fill)
      PROVE  phase' = "running" /\ LedgerInMemory'
  <2> DEFINE delta == -(fill.sol + fill.fee)
  <2>1. /\ phase = "running" /\ phase' = "running" /\ booking[b] = NoBooking
        /\ ledger' = Appended(ledger, account, delta, 0, "BUY") /\ dbLedger' = dbLedger
        /\ booking' = [booking EXCEPT ![b] = Writing(p, "fill", None)]
    BY <1>3 DEF OpenPosition, MayBook, Idle, Begin, rows
  <2>2. /\ account'.cash = account.cash - (fill.sol + fill.fee) /\ Whole'
        /\ account'.realized = account.realized /\ SameCounts(account', account)
        /\ fill.sol \in Int /\ fill.fee \in Nat
    BY <1>1, <1>3, OpensBooking
  <2>3. account'.cash \in Nat /\ account.realized \in Int
    BY <1>2, <2>2 DEF Whole, Typed, Account
  <2>4. delta \in Int /\ account'.cash = account.cash + delta
    BY <1>2, <2>2
  <2> HIDE DEF delta
  <2>5. account'.realized = account.realized + 0 /\ 0 \in Int
    BY <2>2, <2>3
  <2> DEFINE result == 0
             kind == "BUY"
  <2>6. /\ result \in Int /\ kind \in {"BUY", "SELL"} /\ kind # "SELL"
        /\ ledger' = Appended(ledger, account, delta, result, kind)
        /\ account'.realized = account.realized + result
    BY <2>1, <2>5
  <2> HIDE DEF result, kind
  <2> QED BY <1>1, <1>2, <2>1, <2>2, <2>3, <2>4, <2>6, LedgerGrows
<1>4. ASSUME NEW b \in Bookers, NEW p \in Positions, NEW fill \in Fills, ClosePosition(b, p, fill)
      PROVE  phase' = "running" /\ LedgerInMemory'
  <2> DEFINE got == Proceeds(fill)
             result == got - pos[p].cost
  <2>1. /\ phase = "running" /\ phase' = "running" /\ booking[b] = NoBooking
        /\ ledger' = Appended(ledger, account, got, result, "SELL") /\ dbLedger' = dbLedger
        /\ booking' = [booking EXCEPT ![b] = Writing(p, "fill", None)]
    BY <1>4 DEF ClosePosition, MayBook, Idle, Begin, rows
  <2>2. /\ account'.cash = account.cash + got /\ Whole'
        /\ account'.realized = account.realized + result /\ Counts(account', account, result)
    BY <1>1, <1>4, ClosesBooking
  <2>3. account'.cash \in Nat
    BY <2>2 DEF Whole, Typed, Account
  <2>4. got \in Int /\ result \in Int
    <3>1. got \in Nat
      BY <1>2, FillAmounts DEF Typed
    <3> HIDE DEF got
    <3> QED BY <1>2, <3>1
  <2> HIDE DEF got, result
  <2> QED BY <1>1, <1>2, <2>1, <2>2, <2>3, <2>4, LedgerGrows
<1>5. ASSUME NEW p \in Positions, NEW value \in Marks, MarkPosition(p, value)
      PROVE  phase' = "running" /\ LedgerInMemory'
  <2>1. phase = "running" /\ phase' = "running" /\ UNCHANGED <<ledger, booking, dbLedger>>
    BY <1>5 DEF MarkPosition, Idle, rows
  <2>2. /\ account'.cash = account.cash /\ account'.realized = account.realized
        /\ SameCounts(account', account)
    BY <1>1, <1>5, MarksPosition
  <2> QED BY <1>1, <2>1, <2>2, LedgerStays
<1>6. ASSUME NEW b \in Bookers, CommitStep(b) PROVE phase' = "running" /\ LedgerInMemory'
  <2>1. phase = "running" /\ phase' = "running"
    BY <1>6 DEF CommitStep
  <2> QED BY <1>1, <1>6, <2>1, LedgerCommitted
<1>7. ASSUME Snapshot PROVE phase' = "running" /\ LedgerInMemory'
  <2>1. /\ phase = "running" /\ phase' = "running" /\ account' = account
        /\ UNCHANGED <<ledger, booking, dbLedger>>
    BY <1>7 DEF Snapshot, Idle, rows
  <2> QED BY <1>1, <2>1, LedgerStays DEF SameCounts
<1>8. ASSUME Found PROVE phase' = "founding" /\ ledger' = <<Deposit>>
  BY <1>8, FirstEntry DEF Found
<1>9. ASSUME FoundStep
      PROVE  \/ phase' = "founding" /\ ledger' = <<Deposit>>
             \/ phase' = "running" /\ LedgerInMemory'
  <2> DEFINE w == booking["tick"]
  <2>1. /\ phase = "founding" /\ ledger' = ledger /\ Written(w)
        /\ booking' = [booking EXCEPT !["tick"] = NextWrite(w)]
        /\ IF w.writes = "account" THEN phase' = "running" ELSE phase' = phase
    BY <1>9 DEF FoundStep
  <2>2. ledger' = <<Deposit>>
    BY <1>1, <2>1
  <2>3. CASE w.writes = "account"
    <3>1. dbLedger = {Deposit} /\ lock = <<"tick">>
      BY <1>1, <2>1, <2>3 DEF Whole, Founding, Writing
    <3>2. dbLedger' = {Deposit} /\ NextWrite(w) = NoBooking
      BY <2>1, <2>3, <3>1 DEF Written, NextWrite
    <3>3. \A c \in Bookers \ {"tick"} : booking[c] = NoBooking
      <4>1. \A c : Occurs(c, lock) => c = "tick"
        BY <3>1 DEF Occurs
      <4> QED BY <1>1, <4>1 DEF Whole, Queued
    <3>4. \A c \in Bookers : booking'[c].writes = "nothing"
      <4>1. \A c \in Bookers : booking'[c] = NoBooking
        BY <1>2, <2>1, <3>2, <3>3 DEF Typed
      <4> QED BY <4>1 DEF NoBooking
    <3>5. account' = Opening
      BY <1>1, <1>9, FoundSteps
    <3> DEFINE s == <<Deposit>>
               S == {Deposit}
    <3>6. /\ s \in Seq(LedgerEntry) /\ Numbered(S) /\ Tallied(Opening, S)
          /\ Last(s) = Deposit /\ Range(s) = S
      BY DepositTallied
    <3>7. s # <<>>
      OBVIOUS
    <3>8. \A e \in S : e.seq =< Deposit.seq
      BY OpeningAccount
    <3>9. ledger' = s /\ dbLedger' = S /\ Deposit \in S
      BY <2>2, <3>2
    <3> HIDE DEF s, S
    <3>10. LedgerInMemory'
      BY <3>4, <3>5, <3>6, <3>7, <3>8, <3>9 DEF LedgerInMemory, LastHeld
    <3> QED BY <2>1, <2>3, <3>10
  <2>4. CASE w.writes # "account"
    BY <2>1, <2>2, <2>4
  <2> QED BY <2>3, <2>4
<1>10. ASSUME Restore PROVE phase' = "running" /\ LedgerInMemory'
  <2>1. /\ phase = "down" /\ HasAccount /\ phase' = "running" /\ ledger' = InOrder(dbLedger)
        /\ booking' = booking /\ dbLedger' = dbLedger
    BY <1>10 DEF Restore, rows
  <2>2. /\ Numbered(dbLedger) /\ dbLedger # {}
        /\ Complete(dbLedger) => Tallied(Stored, dbLedger)
    BY <1>1, <2>1 DEF LedgerInRows
  <2> DEFINE s == InOrder(dbLedger)
             S == dbLedger
  <2>3. /\ Last(s) \in S /\ \A e \in S : e.seq =< Last(s).seq
        /\ s # <<>> /\ Range(s) = S
    BY <2>2, SortedLast
  <2>4. s \in Seq(LedgerEntry)
    <3>1. s \in Seq(S) /\ S \subseteq LedgerEntry
      BY <2>2, Sorting DEF Numbered
    <3> HIDE DEF s, S
    <3> QED BY <3>1, SeqMonotonic
  <2>5. \A b \in Bookers : booking[b].writes = "nothing"
    <3>1. lock = <<>> /\ Queued
      BY <1>1, <2>1 DEF Whole, Halted
    <3>2. \A c : ~Occurs(c, lock)
      BY <3>1, EmptySeq DEF Occurs
    <3>3. \A b \in Bookers : booking[b] = NoBooking
      BY <3>1, <3>2 DEF Queued
    <3> QED BY <3>3 DEF NoBooking
  <2>6. Complete(S) => Tallied(account', S)
    <3>1. /\ account'.cash = Stored.cash /\ account'.realized = Stored.realized
          /\ SameCounts(account', Stored)
      BY <1>1, <1>10, Restores
    <3> QED BY <2>2, <3>1, TalliedSame
  <2>7. ledger' = s /\ dbLedger' = S
    BY <2>1
  <2> HIDE DEF s, S
  <2>8. LedgerInMemory'
    BY <2>1, <2>2, <2>3, <2>4, <2>5, <2>6, <2>7 DEF LedgerInMemory, LastHeld, S
  <2> QED BY <2>1, <2>8
<1>11. ASSUME Crash PROVE phase' = "down" /\ LedgerInRows'
  <2>1. /\ phase \in {"founding", "running"} /\ phase' = "down"
        /\ dbAccount' = dbAccount /\ dbLedger' = dbLedger
    BY <1>2, <1>11 DEF Crash, Down, rows, Typed
  <2>2. Stored' = Stored /\ (HasAccount' <=> HasAccount)
    BY <2>1 DEF Stored, HasAccount
  <2>3. LedgerInRows
    <3>1. CASE phase = "founding"
      <4>1. dbLedger \in {{}, {Deposit}} /\ dbAccount = None /\ Stored = Opening
        BY <1>1, <3>1, FoundingRows DEF Stored
      <4>2. CASE dbLedger = {}
        <5>1. Numbered(dbLedger) /\ ~HasAccount
          BY <4>1, <4>2, FS_EmptySet DEF Numbered, HasAccount
        <5> QED BY <5>1 DEF LedgerInRows
      <4>3. CASE dbLedger = {Deposit}
        BY <4>1, <4>3, DepositTallied DEF LedgerInRows
      <4> QED BY <4>1, <4>2, <4>3
    <3>2. CASE phase = "running"
      <4>1. \A b \in Bookers : booking[b] = NoBooking
        BY <1>11, <3>2, NotCut
      <4>2. /\ Numbered(dbLedger) /\ dbLedger # {}
            /\ Complete(dbLedger) => Tallied(account, dbLedger)
        BY <1>1, <1>2, <3>2, <4>1, LedgerAtRest
      <4>3. Same(Stored, account)
        BY <1>1, <3>2, <4>1, BetweenBookings
      <4>4. Tallied(account, dbLedger) => Tallied(Stored, dbLedger)
        BY <4>3, TalliedSame DEF Same, SameCounts
      <4> QED BY <4>2, <4>4 DEF LedgerInRows
    <3> QED BY <2>1, <3>1, <3>2
  <2> QED BY <2>1, <2>2, <2>3 DEF LedgerInRows
<1>12. ASSUME Stop PROVE phase' = "down" /\ LedgerInRows'
  <2>1. phase = "running" /\ phase' = "down" /\ dbLedger' = dbLedger
    BY <1>12 DEF Stop, Down
  <2>2. \A b \in Bookers : booking[b] = NoBooking
    BY <1>12, <2>1, NotCut
  <2>3. /\ Numbered(dbLedger) /\ dbLedger # {}
        /\ Complete(dbLedger) => Tallied(account, dbLedger)
    BY <1>1, <1>2, <2>1, <2>2, LedgerAtRest
  <2>4. Stored' = account
    BY <1>1, <1>12, Stops
  <2> QED BY <2>1, <2>3, <2>4 DEF LedgerInRows
<1>13. CASE UNCHANGED vars
  <2>1. /\ phase' = phase /\ account' = account /\ ledger' = ledger /\ booking' = booking
        /\ dbAccount' = dbAccount /\ dbLedger' = dbLedger
    BY <1>13 DEF vars, memory, rows
  <2>2. Stored' = Stored /\ (HasAccount' <=> HasAccount)
    BY <2>1 DEF Stored, HasAccount
  <2>3. phase = "running" => LedgerInMemory'
    BY <1>1, <2>1, LedgerStays DEF SameCounts
  <2>4. phase = "down" => LedgerInRows'
    BY <1>1, <2>1, <2>2 DEF LedgerInRows
  <2> QED BY <1>1, <2>1, <2>3, <2>4
<1>14. CASE Next
  BY <1>3, <1>4, <1>5, <1>6, <1>7, <1>8, <1>9, <1>10, <1>11, <1>12, <1>14 DEF Next
<1> QED BY <1>13, <1>14

\* What load_state makes of the rows when there is no summary row.
LEMMA LedgerLoads ==
  ASSUME Numbered(dbLedger), NEW a \in Account, Tallied(a, dbLedger), StreakWindow =< 10
  PROVE  [FromLedger.account EXCEPT !.peak = a.peak] = a
<1> DEFINE S == dbLedger
           b == FromLedger.account
<1>1. b = [cash |-> LedgerCash, peak |-> LedgerPeak, realized |-> LedgerRealized,
           wins |-> Cardinality({e \in Sales : e.realized > 0}),
           losses |-> Cardinality({e \in Sales : e.realized =< 0}),
           recent |-> LedgerRecent]
  BY DEF FromLedger
<1>2. Sales = SalesIn(S)
  BY DEF Sales, SalesIn
<1>3. LedgerRealized = SumOf(Realized, S)
  <2> DEFINE f == [e \in S |-> e.realized]
  <2>1. S \subseteq LedgerEntry /\ IsFiniteSet(S)
    BY DEF Numbered
  <2>2. /\ f \in [S -> Int] /\ Realized \in [LedgerEntry -> Int]
        /\ \A e \in S : f[e] = Realized[e]
    BY <2>1 DEF Realized, LedgerEntry
  <2>3. LedgerRealized = SumOf(f, S)
    BY SumIsSumOf DEF LedgerRealized
  <2> DEFINE E == LedgerEntry
             g == Realized
  <2>4. /\ f \in [S -> Int] /\ g \in [E -> Int] /\ S \in SUBSET S /\ S \in SUBSET E
        /\ \A e \in S : f[e] = g[e]
    BY <2>1, <2>2
  <2> HIDE DEF f, g, S, E
  <2>5. SumOf(f, S) = SumOf(g, S)
    BY <2>1, <2>4, SumOfAlike
  <2> QED BY <2>3, <2>5 DEF g
<1>4. LedgerRecent = LastOf(Results(S), StreakWindow)
  <2>1. LedgerRecent = LastOf(LastOf(Results(S), 10), StreakWindow)
    BY <1>2 DEF LedgerRecent, Results
  <2>2. Results(S) \in Seq(Int) /\ StreakWindow \in Nat \ {0}
    BY ResultsInOrder, PortfolioAssumption
  <2> QED BY <2>1, <2>2, LastOfLast
<1>5. /\ a.cash = LedgerCash /\ a.realized = LedgerRealized
      /\ a.wins = Cardinality({e \in Sales : e.realized > 0})
      /\ a.losses = Cardinality({e \in Sales : e.realized =< 0})
      /\ a.recent = LedgerRecent
  BY <1>2, <1>3, <1>4 DEF Tallied, LedgerCash
<1> HIDE DEF b
<1>6. [b EXCEPT !.peak = a.peak]
        = [cash |-> a.cash, peak |-> a.peak, realized |-> a.realized, wins |-> a.wins,
           losses |-> a.losses, recent |-> a.recent]
  BY <1>1, <1>5
<1>7. a = [cash |-> a.cash, peak |-> a.peak, realized |-> a.realized, wins |-> a.wins,
           losses |-> a.losses, recent |-> a.recent]
  BY DEF Account
<1> QED BY <1>6, <1>7 DEF b

\* Ledger rows without a gap give the account that is in memory, over all restarts.
THEOREM LedgerIsAccount == ASSUME IsFiniteSet(Positions) PROVE Spec => []LedgerAgrees
<1>1. Init => Ledgers
  <2> SUFFICES ASSUME Init PROVE LedgerInRows
    BY DEF Init, Ledgers
  <2>1. dbLedger = {} /\ dbAccount = None
    BY DEF Init
  <2> QED BY <2>1, FS_EmptySet DEF LedgerInRows, Numbered, HasAccount
<1>2. (Books /\ Balanced) /\ Ledgers /\ [Next]_vars => Ledgers'
  <2> SUFFICES ASSUME Books, Ledgers, [Next]_vars PROVE Ledgers'
    OBVIOUS
  <2> QED BY LedgersKept DEF Ledgers
<1>3. (Books /\ Balanced) /\ Ledgers => LedgerAgrees
  <2> SUFFICES ASSUME Books, Ledgers, Settled, StreakWindow =< 10, Complete(dbLedger)
               PROVE  [FromLedger.account EXCEPT !.peak = account.peak] = account
    BY DEF LedgerAgrees, Complete
  <2>1. Typed /\ LedgerInMemory /\ \A b \in Bookers : booking[b] = NoBooking
    BY DEF Books, Ledgers, Settled, InBooking
  <2>2. Numbered(dbLedger) /\ Tallied(account, dbLedger) /\ account \in Account
    BY <2>1, LedgerAtRest DEF Typed
  <2> QED BY <2>2, LedgerLoads
<1> QED BY <1>1, <1>2, <1>3, BooksInvariant, PTL DEF Spec
====
