----------------------------- MODULE EngineProofs -----------------------------
(* Theorems about Engine, for every value of its constants. *)
EXTENDS Engine, WellFoundedInduction, FiniteSetTheorems, TLAPS

\* The frames of the actions, down to the variables.
USE DEF candidates, account, db, process

----------------------------------------------------------------------------
(* The inductive invariants *)

\* A BUY being booked, and what became of its candidate meanwhile: it waits, or
\* its data went stale and it cools down, or it was retired for a newer token.
BuyBooked(a, m) ==
    /\ booking[a].slot \in open /\ mintOf[booking[a].slot] = m
    /\ \/ st[m] \in {"AWAITING_CONFIRMATION", "EXPIRED"}
       \/ st[m] = "SIGNAL_CANCELLED" /\ cooling[m]

\* A SELL being booked: its position has left the account, its candidate waits.
SellBooked(a, m) ==
    /\ booking[a].slot = posOf[m] /\ posOf[m] \in Slots \ open /\ mintOf[posOf[m]] = m
    /\ st[m] = "AWAITING_EXIT_CONFIRMATION"

\* Who is booking what: nobody twice, nor beside an order of the same mint.
BookingOK(a) ==
    booking[a] # NoBooking =>
        LET m == booking[a].mint IN
        /\ m \in Mints /\ order[m] = "none" /\ due[m] = "none"
        /\ \/ booking[a].kind = "buy" /\ BuyBooked(a, m)
           \/ booking[a].kind = "sell" /\ SellBooked(a, m)
        /\ \A b \in Bookers : booking[b].mint = m => b = a

\* Whoever has decided on an order, the candidate is the one that waits for it,
\* and the position of a SELL, or of a candidate that is OPEN, is its own.
Waiting(m) ==
    /\ due[m] # "none" => order[m] = "none"
    /\ "buy" \in {order[m], due[m]} => st[m] = "AWAITING_CONFIRMATION"
    /\ "sell" \in {order[m], due[m]} => st[m] = "AWAITING_EXIT_CONFIRMATION"
    /\ "sell" \in {order[m], due[m]} \/ st[m] = "OPEN" =>
           posOf[m] \in open /\ mintOf[posOf[m]] = m

\* A process that does not run has nothing in hand.
Halted ==
    /\ \A m \in Mints : order[m] = "none" /\ due[m] = "none" /\ st[m] = "none"
    /\ \A a \in Bookers : booking[a] = NoBooking

OwnInv ==
    /\ TypeOK
    /\ \A a \in Bookers : BookingOK(a)
    /\ \A m \in Mints : Waiting(m)
    /\ phase \in {"crashed", "stopped"} => Halted

\* One position for each mint, which is what _restore_positions can load.
Loadable(S) ==
    /\ \A p \in S : mintOf[p] \in Mints
    /\ \A p, q \in S : mintOf[p] = mintOf[q] => p = q

\* A row not yet written, on either side of a booking.
Unsaved(p, kind) ==
    \E a \in Bookers : booking[a].kind = kind /\ booking[a].slot = p /\ ~booking[a].row

\* Without a human beside the tick, a candidate waits until its fill is
\* committed, and only a fill on its way sets the account and its rows apart.
RowsInv ==
    /\ OwnInv /\ phase # "failed"
    /\ OpenIsWatched
    /\ phase = "running" =>
        /\ \A a \in Bookers : booking[a].kind = "buy" =>
               st[booking[a].mint] = "AWAITING_CONFIRMATION"
        /\ \A p \in open \ dbOpen : Unsaved(p, "buy")
        /\ \A p \in dbOpen \ open : Unsaved(p, "sell")
    /\ phase \in {"crashed", "stopped"} => Loadable(dbOpen)

----------------------------------------------------------------------------
(* Types *)

\* A set of natural numbers has a least one.
LEMMA LeastExists ==
  ASSUME NEW S \in SUBSET Nat, S # {} PROVE Min(S) \in S
<1> DEFINE R == OpToRel(<, Nat)
<1>1. IsWellFoundedOn(R, Nat)
  BY NatLessThanWellFounded
<1>2. \A x, y \in Nat : <<x, y>> \in R <=> x < y
  BY DEF OpToRel
<1> HIDE DEF R
<1>3. PICK x \in S : \A y \in S : ~(<<y, x>> \in R)
  BY <1>1, WFMin
<1>4. \A y \in S : ~(y < x)
  BY <1>2, <1>3
<1>5. S \subseteq Nat
  OBVIOUS
<1>6. \A y \in S : x =< y
  BY <1>4, <1>5, SMT
<1> QED BY <1>6 DEF Min

LEMMA TypeInit == Init => TypeOK
BY EngineAssumption DEF Init, TypeOK, States, NoBooking, Slots, Bookers

\* Discovery, data and time.
LEMMA WorldType ==
  ASSUME TypeOK, NEW m \in Mints, World(m) PROVE TypeOK'
<1> USE EngineAssumption DEF TypeOK, States
<1>1. CASE Discover(m)
  <2>1. st' \in [Mints -> States] /\ entry' \in [Mints -> {"none", "open", "over"}]
    BY <1>1 DEF Discover
  <2>2. /\ tracked' = tracked \cup {m}
        /\ UNCHANGED <<fresh, cooling, windows, quote, posOf, order, due, open, mintOf, cash,
                       booking, dbOpen, dbCash, phase, crashes, maxTracked>>
    BY <1>1 DEF Discover
  <2> QED BY <2>1, <2>2
<1>2. CASE Snapshot(m) \/ GoStale(m)
  <2>1. PICK f \in BOOLEAN : Data(m, f)
    BY <1>2 DEF Snapshot, GoStale
  <2>2. fresh' \in [Mints -> BOOLEAN]
    BY <2>1 DEF Data
  <2> QED BY <2>1, <2>2 DEF Data
<1>3. CASE Cool(m)
  BY <1>3 DEF Cool
<1>4. CASE LatchElapses(m)
  BY <1>4 DEF LatchElapses
<1>5. CASE Forget(m)
  BY <1>5 DEF Forget, Forgotten
<1> QED BY <1>1, <1>2, <1>3, <1>4, <1>5 DEF World

\* The tick and the quote tasks move a candidate, not what belongs to orders.
LEMMA CandidateType ==
  ASSUME TypeOK, NEW m \in Mints, Evaluate(m) \/ QuoteTask(m)
  PROVE  /\ st' \in [Mints -> States] /\ cooling' \in [Mints -> BOOLEAN]
         /\ entry' \in [Mints -> {"none", "open", "over"}]
         /\ windows' \in [Mints -> 0..MaxWindows]
         /\ quote' \in [Mints -> {"none", "queued", "held", "bare"}]
         /\ order' \in [Mints -> {"none", "buy", "sell"}]
         /\ UNCHANGED <<tracked, fresh, posOf, due, open, mintOf, cash, booking, dbOpen, dbCash,
                        phase, crashes, maxTracked>>
<1> USE EngineAssumption DEF TypeOK, States, Unevaluated
<1>1. OneMore(m) \in 0..MaxWindows
  BY DEF OneMore
<1>2. Quoted(m) => quote' \in [Mints -> {"none", "queued", "held", "bare"}]
  BY DEF Quoted
<1>3. TaskEnds(m) => quote' \in [Mints -> {"none", "queued", "held", "bare"}]
  BY DEF TaskEnds
<1>4. Abandon(m) => /\ entry' \in [Mints -> {"none", "open", "over"}]
                    /\ cooling' \in [Mints -> BOOLEAN] /\ st' \in [Mints -> States]
  BY DEF Abandon, CloseWindow
<1>5. /\ OpenWindow(m) \/ CloseWindow(m) => entry' \in [Mints -> {"none", "open", "over"}]
      /\ OpenWindow(m) \/ CountWindow(m) => windows' \in [Mints -> 0..MaxWindows]
  BY <1>1 DEF OpenWindow, CloseWindow, CountWindow
<1>6. ASSUME NEW s \in States, Leave(m, s)
      PROVE  /\ entry' \in [Mints -> {"none", "open", "over"}]
             /\ cooling' \in [Mints -> BOOLEAN] /\ st' \in [Mints -> States]
  BY <1>6 DEF Leave, CloseWindow
<1>7. CASE Resume(m) \/ Expire(m) \/ LoseData(m) \/ Reject(m)
  BY <1>6, <1>7 DEF Resume, Expire, LoseData, Reject
<1>8. CASE Qualify(m)
  <2>1. OpenWindow(m) \/ CloseWindow(m)
    BY <1>8 DEF Qualify
  <2>2. OpenWindow(m) \/ CountWindow(m)
    BY <1>8 DEF Qualify
  <2>3. UNCHANGED quote \/ Quoted(m)
    BY <1>8 DEF Qualify
  <2>4. /\ UNCHANGED <<tracked, fresh, posOf, order, due, open, mintOf, cash, booking, dbOpen,
                       dbCash, phase, crashes, maxTracked>>
        /\ \/ st' = [st EXCEPT ![m] = "QUALIFIED"] /\ cooling' = cooling
           \/ st' = [st EXCEPT ![m] = "MONITORING"] /\ cooling' = [cooling EXCEPT ![m] = TRUE]
    BY <1>8 DEF Qualify
  <2>5. st' \in [Mints -> States] /\ cooling' \in [Mints -> BOOLEAN]
    BY ZenonT(30), <2>4
  <2> QED BY <1>2, <1>5, <2>1, <2>2, <2>3, <2>4, <2>5
<1>9. CASE Pursue(m) \/ Renew(m) \/ GiveUp(m)
  BY <1>2, <1>4, <1>5, <1>9 DEF Pursue, Renew, GiveUp
<1>10. CASE Capture(m)
  BY <1>10 DEF Capture
<1>11. CASE QuoteDropped(m) \/ QuoteFailed(m) \/ QuoteFatal(m)
  BY <1>3, <1>4, <1>6, <1>11 DEF QuoteDropped, QuoteFailed, QuoteFatal
<1>12. CASE SignalBuy(m)
  BY <1>3, <1>5, <1>12 DEF SignalBuy
<1> QED BY <1>7, <1>8, <1>9, <1>10, <1>11, <1>12 DEF Evaluate, QuoteTask

LEMMA EvaluateType ==
  ASSUME TypeOK, NEW m \in Mints, Evaluate(m) \/ QuoteTask(m) PROVE TypeOK'
BY CandidateType DEF TypeOK

\* Withdrawing orders.
LEMMA WithdrawType ==
  ASSUME TypeOK, NEW S, Withdraw(S)
  PROVE  st' \in [Mints -> States] /\ cooling' \in [Mints -> BOOLEAN]
BY DEF TypeOK, Withdraw, Withdrawn, States

LEMMA WithoutType ==
  ASSUME TypeOK, NEW S PROVE Without(S) \in [Mints -> {"none", "buy", "sell"}]
BY DEF TypeOK, Without

\* A booking begins.
LEMMA BookType ==
  ASSUME TypeOK, NEW a \in Bookers, NEW m \in Mints,
         BookBuy(a, m) \/ (posOf[m] \in Slots \cup {None} /\ BookSell(a, m))
  PROVE  /\ open' \subseteq Slots /\ mintOf' \in [Slots -> Mints \cup {None}] /\ cash' \in Nat
         /\ booking' \in [Bookers -> [kind : {"none", "buy", "sell"}, mint : Mints \cup {None},
                                      slot : Slots \cup {0}, row : BOOLEAN]]
         /\ st' \in [Mints -> States] /\ cooling' \in [Mints -> BOOLEAN]
<1> USE EngineAssumption DEF TypeOK
<1>1. CASE BookBuy(a, m)
  <2>1. CASE /\ Affordable /\ FreeSlots # {}
             /\ LET p == Min(FreeSlots) IN
                  /\ open' = open \cup {p}
                  /\ mintOf' = [mintOf EXCEPT ![p] = m]
                  /\ booking' = [booking EXCEPT ![a] = Booking("buy", m, p)]
             /\ cash' = cash - (Size + Fee)
             /\ UNCHANGED <<st, cooling>>
    <3>1. Min(FreeSlots) \in Slots
      <4>1. FreeSlots \subseteq Slots /\ Slots \subseteq Nat
        BY DEF FreeSlots, Slots
      <4> QED BY <2>1, <4>1, LeastExists
    <3> QED BY <2>1, <3>1 DEF Affordable, Booking
  <2>2. CASE ~Affordable /\ Refused(m) /\ UNCHANGED <<account, booking>>
    BY <2>2, WithdrawType DEF Refused
  <2> QED BY <1>1, <2>1, <2>2 DEF BookBuy
<1>2. CASE BookSell(a, m)
  <2>1. CASE posOf[m] \in open
    <3>1. PICK proceeds \in {0, Size} : cash' = cash + proceeds
      BY <1>2, <2>1 DEF BookSell
    <3>2. Booking("sell", m, posOf[m]) \in
            [kind : {"none", "buy", "sell"}, mint : Mints \cup {None}, slot : Slots \cup {0},
             row : BOOLEAN]
      BY <2>1 DEF Booking
    <3> QED BY <1>2, <2>1, <3>1, <3>2 DEF BookSell
  <2>2. CASE posOf[m] \notin open
    BY <1>2, <2>2 DEF BookSell
  <2> QED BY <2>1, <2>2
<1> QED BY <1>1, <1>2

\* Orders and their bookings.
LEMMA OrdersType ==
  ASSUME TypeOK, NEW m \in Mints,
         \/ CancelStale(m) \/ SignalSell(m) \/ Apply(m)
         \/ \E h \in Handlers : Confirm(h, m) \/ Decline(h, m)
  PROVE  TypeOK'
<1> USE EngineAssumption DEF Unresolved, Bookers
<1>1. CASE CancelStale(m) \/ \E h \in Handlers : Decline(h, m)
  BY <1>1, WithdrawType, WithoutType DEF CancelStale, Decline, TypeOK
<1>2. CASE SignalSell(m)
  BY <1>2 DEF SignalSell, TypeOK, States
<1>3. CASE Apply(m)
  <2>1. BookBuy(Tick, m) \/ (posOf[m] \in Slots \cup {None} /\ BookSell(Tick, m))
    BY <1>3 DEF Apply, TypeOK
  <2>2. /\ UNCHANGED <<tracked, fresh, entry, windows, quote, dbOpen, dbCash, phase, crashes,
                       maxTracked, posOf, order>>
        /\ due' = [due EXCEPT ![m] = "none"]
    BY <1>3 DEF Apply
  <2> QED BY <2>1, <2>2, BookType DEF TypeOK
<1>4. CASE \E h \in Handlers : Confirm(h, m)
  <2>1. PICK h \in Handlers : Confirm(h, m)
    BY <1>4
  <2>2. /\ UNCHANGED <<tracked, fresh, entry, windows, quote, dbOpen, dbCash, phase, crashes,
                       maxTracked, posOf, due>>
        /\ order' = Without({m})
    BY <2>1 DEF Confirm
  <2>3. CASE Withdraw({m}) /\ UNCHANGED <<account, booking>>
    BY <2>2, <2>3, WithdrawType, WithoutType DEF TypeOK
  <2>4. CASE BookBuy(h, m) \/ BookSell(h, m)
    BY <2>2, <2>4, BookType, WithoutType DEF TypeOK
  <2> QED BY <2>1, <2>3, <2>4 DEF Confirm
<1> QED BY <1>1, <1>2, <1>3, <1>4

LEMMA CollectType == ASSUME TypeOK, CollectAny PROVE TypeOK'
<1>1. PICK expired, confirmed \in SUBSET Pending : Collect(expired, confirmed)
  BY DEF CollectAny
<1>2. due' \in [Mints -> {"none", "buy", "sell"}]
  BY <1>1 DEF Collect, TypeOK
<1> QED BY <1>1, <1>2, WithdrawType, WithoutType DEF Collect, Unresolved, TypeOK

\* The commits of a booking.
LEMMA SaveType ==
  ASSUME TypeOK, NEW a \in Bookers, BookingOK(a), Save(a) PROVE TypeOK'
<1> USE DEF TypeOK
<1>1. /\ booking[a].kind \in {"buy", "sell"} => booking[a].slot \in Slots
      /\ ~Idle(a) => booking[a].kind \in {"buy", "sell"}
      /\ NoBooking \in [kind : {"none", "buy", "sell"}, mint : Mints \cup {None},
                        slot : Slots \cup {0}, row : BOOLEAN]
  BY DEF BookingOK, Idle, BuyBooked, SellBooked, NoBooking
<1>2. CASE SavePosition(a)
  <2>1. dbOpen' \subseteq Slots
    BY <1>1, <1>2 DEF SavePosition, RowsAfter
  <2> DEFINE Bookings == [kind : {"none", "buy", "sell"}, mint : Mints \cup {None},
                          slot : Slots \cup {0}, row : BOOLEAN]
  <2>2. booking' = [booking EXCEPT ![a] = [booking[a] EXCEPT !.row = TRUE]]
    BY <1>2 DEF SavePosition
  <2>3. booking[a] \in Bookings
    OBVIOUS
  <2>4. [booking[a] EXCEPT !.row = TRUE] \in Bookings
    BY ONLY <2>3
  <2>5. booking' \in [Bookers -> Bookings]
    BY <2>2, <2>4
  <2> QED BY <1>2, <2>1, <2>5 DEF SavePosition
<1>3. CASE SaveAccount(a)
  <2>1. st' \in [Mints -> States] /\ posOf' \in [Mints -> Slots \cup {None}]
    BY SMTT(30), <1>1, <1>3 DEF SaveAccount, States
  <2>2. booking' \in [Bookers -> [kind : {"none", "buy", "sell"}, mint : Mints \cup {None},
                                  slot : Slots \cup {0}, row : BOOLEAN]]
    BY <1>1, <1>3 DEF SaveAccount
  <2> QED BY <1>3, <2>1, <2>2 DEF SaveAccount
<1> QED BY <1>2, <1>3 DEF Save

\* Crash, stop and restart.
LEMMA DieType == ASSUME TypeOK, Crash \/ Stop PROVE TypeOK'
<1>1. PICK how \in {"crashed", "stopped"} : Die(how)
  BY DEF Crash, Stop
<1>2. /\ fresh' = [m \in Mints |-> FALSE] /\ cooling' = [m \in Mints |-> FALSE]
      /\ windows' = [m \in Mints |-> 0] /\ quote' = [m \in Mints |-> "none"]
      /\ posOf' = [m \in Mints |-> None] /\ entry' = [m \in Mints |-> "none"]
  BY <1>1 DEF Die, Forgotten
<1>3. /\ st' = [m \in Mints |-> "none"] /\ tracked' = {}
      /\ order' = [m \in Mints |-> "none"] /\ due' = [m \in Mints |-> "none"]
      /\ booking' = [a \in Bookers |-> NoBooking]
      /\ UNCHANGED <<open, mintOf, cash, maxTracked>>
      /\ phase' = how /\ crashes < MaxCrashes /\ crashes' = crashes + 1
  BY <1>1 DEF Die
<1>4. dbOpen' \subseteq Slots /\ dbCash' \in Nat
  BY DEF Crash, Stop, TypeOK
<1>5. crashes' \in 0..MaxCrashes
  BY <1>3, EngineAssumption DEF TypeOK
<1>6. NoBooking \in [kind : {"none", "buy", "sell"}, mint : Mints \cup {None},
                    slot : Slots \cup {0}, row : BOOLEAN]
  BY DEF NoBooking
<1> QED BY <1>2, <1>3, <1>4, <1>5, <1>6, EngineAssumption DEF TypeOK, States

LEMMA RestartType == ASSUME TypeOK, Restart PROVE TypeOK'
<1> USE EngineAssumption DEF TypeOK, Restart
<1> DEFINE Of(m) == {p \in dbOpen : mintOf[p] = m}
<1>1. \A m \in Mints : Of(m) # {} => Min(Of(m)) \in Slots
  <2> SUFFICES ASSUME NEW m \in Mints, Of(m) # {} PROVE Min(Of(m)) \in Slots
    OBVIOUS
  <2>1. Of(m) \subseteq Slots
    OBVIOUS
  <2>2. Slots \subseteq Nat
    BY DEF Slots
  <2> HIDE DEF Of
  <2>3. Of(m) \in SUBSET Nat /\ Of(m) # {}
    BY <2>1, <2>2
  <2> QED BY <2>1, <2>3, LeastExists
<1>2. posOf' = [m \in Mints |-> IF Of(m) # {} THEN Min(Of(m)) ELSE None]
  OBVIOUS
<1> HIDE DEF Of
<1>3. posOf' \in [Mints -> Slots \cup {None}]
  BY <1>1, <1>2
<1>4. st' \in [Mints -> States] /\ tracked' \subseteq Mints
  BY DEF States
<1>5. mintOf' \in [Slots -> Mints \cup {None}]
  OBVIOUS
<1> QED BY <1>3, <1>4, <1>5


----------------------------------------------------------------------------
(* Steps of a candidate that has no order *)

\* A candidate whose fill is being committed has no order left, and waits; or
\* it gave way to the cooldown or to the eviction.
LEMMA BookedState ==
  ASSUME OwnInv, NEW m \in Mints, BeingBooked(m)
  PROVE  /\ order[m] = "none" /\ due[m] = "none"
         /\ \/ st[m] \in {"AWAITING_CONFIRMATION", "AWAITING_EXIT_CONFIRMATION", "EXPIRED"}
            \/ st[m] = "SIGNAL_CANCELLED" /\ cooling[m]
BY EngineAssumption DEF OwnInv, BeingBooked, BookingOK, BuyBooked, SellBooked, NoBooking

\* What a step may do with candidates that are in no order and no position: to
\* one whose fill is being committed, only what BookingOK allows.
LooseStep ==
    \A n \in Mints :
        \/ st'[n] = st[n] /\ posOf'[n] = posOf[n] /\ (BeingBooked(n) /\ cooling[n] => cooling'[n])
        \/ /\ st[n] \notin {"AWAITING_CONFIRMATION", "AWAITING_EXIT_CONFIRMATION", "OPEN"}
           /\ st'[n] \notin {"OPEN"}
           /\ ~BeingBooked(n) \/ (st'[n] = "EXPIRED" /\ posOf'[n] = posOf[n])

LEMMA LooseOwn ==
  ASSUME OwnInv, TypeOK', LooseStep, phase = "running",
         UNCHANGED <<order, due, open, mintOf, booking, phase>>
  PROVE  OwnInv'
<1> USE DEF OwnInv
<1>1. ASSUME NEW n \in Mints PROVE Waiting(n)'
  BY <1>1 DEF Waiting, LooseStep
<1>2. ASSUME NEW a \in Bookers PROVE BookingOK(a)'
  <2> SUFFICES ASSUME booking[a] # NoBooking PROVE BookingOK(a)'
    BY DEF BookingOK
  <2>1. PICK m \in Mints :
        /\ m = booking[a].mint /\ order[m] = "none" /\ due[m] = "none"
        /\ \/ booking[a].kind = "buy" /\ BuyBooked(a, m)
           \/ booking[a].kind = "sell" /\ SellBooked(a, m)
        /\ \A b \in Bookers : booking[b].mint = m => b = a
    BY DEF BookingOK
  <2>2. BeingBooked(m)
    BY <2>1 DEF BeingBooked
  <2>3. \/ st'[m] = st[m] /\ posOf'[m] = posOf[m] /\ (cooling[m] => cooling'[m])
        \/ /\ st[m] \notin {"AWAITING_CONFIRMATION", "AWAITING_EXIT_CONFIRMATION", "OPEN"}
           /\ st'[m] = "EXPIRED" /\ posOf'[m] = posOf[m]
    BY <2>1, <2>2 DEF LooseStep
  <2>4. BuyBooked(a, m) => BuyBooked(a, m)'
    BY <2>3 DEF BuyBooked
  <2>5. SellBooked(a, m) => SellBooked(a, m)'
    BY <2>3 DEF SellBooked
  <2> QED BY <2>1, <2>4, <2>5 DEF BookingOK
<1> QED BY <1>1, <1>2

\* Such a candidate is no buyer in the middle of its order, nor is it monitored.
LEMMA LooseRows ==
  ASSUME RowsInv, LooseStep, OwnInv', phase = "running",
         UNCHANGED <<order, due, open, mintOf, booking, phase, dbOpen>>
  PROVE  RowsInv'
<1> USE DEF RowsInv
<1>1. ASSUME NEW a \in Bookers, booking[a].kind = "buy"
      PROVE  st'[booking[a].mint] = "AWAITING_CONFIRMATION"
  BY <1>1 DEF LooseStep, OwnInv, BookingOK, NoBooking
<1>2. OpenIsWatched'
  BY DEF OpenIsWatched, Watched, LooseStep
<1> QED BY <1>1, <1>2 DEF Unsaved

\* Discovery, data and time, the tick's evaluation and the quote tasks.
LEMMA LooseSteps ==
  ASSUME OwnInv, NEW m \in Mints, World(m) \/ Evaluate(m) \/ (QuoteTask(m) /\ ~SignalBuy(m))
  PROVE  LooseStep /\ phase = "running" /\ UNCHANGED <<order, due, open, mintOf, booking, phase, dbOpen>>
<1> USE DEF OwnInv
<1>1. /\ Monitorable(m) => ~BeingBooked(m)
      /\ st[m] \in {"DISCOVERED", "MONITORING", "DATA_STALE", "QUALIFIED"} => ~BeingBooked(m)
  BY BookedState DEF Monitorable
<1>2. ASSUME NEW n \in Mints, Monitorable(n) \/ st[n] \in {"QUALIFIED", "DISCOVERED", "DATA_STALE"}
      PROVE  st[n] \notin {"AWAITING_CONFIRMATION", "AWAITING_EXIT_CONFIRMATION", "OPEN"}
  BY <1>2 DEF Monitorable
<1>3. st \in [Mints -> States] /\ cooling \in [Mints -> BOOLEAN] /\ posOf \in [Mints -> Slots \cup {None}]
  BY DEF TypeOK
<1> USE DEF LooseStep, Awake, TickIdle, Unevaluated
<1>4. CASE Discover(m)
  BY <1>3, <1>4, BookedState DEF Discover, Evictable
<1>5. CASE Snapshot(m) \/ GoStale(m) \/ LatchElapses(m)
  BY <1>5 DEF Snapshot, GoStale, Data, LatchElapses
<1>6. CASE Cool(m)
  BY <1>3, <1>6 DEF Cool
<1>7. CASE Forget(m)
  BY <1>3, <1>7 DEF Forget, Forgotten, Terminal
<1>8. CASE Resume(m)
  BY <1>1, <1>2, <1>3, <1>8 DEF Resume
<1>9. CASE Expire(m) \/ LoseData(m) \/ Reject(m)
  BY <1>1, <1>2, <1>3, <1>9 DEF Expire, LoseData, Reject, Leave
<1>10. CASE Qualify(m)
  BY <1>1, <1>2, <1>3, <1>10 DEF Qualify
<1>11. CASE Pursue(m) \/ Renew(m) \/ GiveUp(m)
  BY <1>1, <1>2, <1>3, <1>11 DEF Pursue, Renew, GiveUp, Abandon, Latched
<1>12. CASE Capture(m) \/ QuoteDropped(m)
  BY <1>12 DEF Capture, QuoteDropped, Answered
<1>13. CASE QuoteFailed(m)
  BY <1>1, <1>3, <1>13 DEF QuoteFailed, Answered, Abandon
<1>14. CASE QuoteFatal(m)
  BY <1>1, <1>3, <1>14 DEF QuoteFatal, Answered, Leave
<1> QED
  BY <1>4, <1>5, <1>6, <1>7, <1>8, <1>9, <1>10, <1>11, <1>12, <1>13, <1>14
  DEF World, Evaluate, QuoteTask

----------------------------------------------------------------------------
(* Orders *)

\* A BUY is signalled for a latched candidate, whose earlier order is long decided.
LEMMA SignalBuyOwn ==
  ASSUME OwnInv, NEW m \in Mints, SignalBuy(m) PROVE OwnInv'
<1> USE DEF OwnInv
<1>1. TypeOK'
  BY EvaluateType DEF QuoteTask
<1>2. /\ phase = "running" /\ st[m] = "QUALIFIED"
      /\ UNCHANGED <<cooling, posOf, due, open, mintOf, booking, phase>>
      /\ st' = [st EXCEPT ![m] = "AWAITING_CONFIRMATION"]
      /\ order' = [order EXCEPT ![m] = "buy"]
  BY DEF SignalBuy, Answered, Awake, Signallable
<1>3. /\ st'[m] = "AWAITING_CONFIRMATION" /\ order'[m] = "buy"
      /\ \A n \in Mints \ {m} : st'[n] = st[n] /\ order'[n] = order[n]
  BY <1>2 DEF TypeOK
<1>4. ~BeingBooked(m) /\ due[m] = "none"
  BY <1>2, BookedState DEF Waiting, TypeOK
<1>5. ASSUME NEW n \in Mints PROVE Waiting(n)'
  BY <1>2, <1>3, <1>4 DEF Waiting
<1>6. ASSUME NEW a \in Bookers PROVE BookingOK(a)'
  BY <1>2, <1>3, <1>4 DEF BookingOK, BuyBooked, SellBooked, BeingBooked
<1> QED BY <1>1, <1>2, <1>5, <1>6

LEMMA SignalBuyRows ==
  ASSUME RowsInv, OwnInv', NEW m \in Mints, SignalBuy(m) PROVE RowsInv'
<1> USE DEF RowsInv
<1>1. /\ phase = "running" /\ st[m] = "QUALIFIED"
      /\ UNCHANGED <<posOf, open, mintOf, booking, phase, dbOpen>>
      /\ st' = [st EXCEPT ![m] = "AWAITING_CONFIRMATION"]
  BY DEF SignalBuy, Answered, Awake, Signallable
<1>2. \A n \in Mints : n # m => st'[n] = st[n]
  BY <1>1 DEF OwnInv, TypeOK
<1>3. ASSUME NEW a \in Bookers, booking[a].kind = "buy"
      PROVE  st'[booking[a].mint] = "AWAITING_CONFIRMATION"
  BY <1>1, <1>2, <1>3 DEF OwnInv, BookingOK, NoBooking
<1>4. OpenIsWatched'
  BY <1>1, <1>2 DEF OpenIsWatched, Watched
<1> QED BY <1>1, <1>3, <1>4 DEF Unsaved

\* An exit rule fires for a position that is monitored.
LEMMA SignalSellOwn ==
  ASSUME OwnInv, NEW m \in Mints, SignalSell(m) PROVE OwnInv'
<1> USE DEF OwnInv
<1>1. TypeOK'
  BY OrdersType
<1>2. /\ phase = "running" /\ st[m] = "OPEN" /\ due[m] = "none"
      /\ UNCHANGED <<cooling, posOf, due, open, mintOf, booking, phase>>
      /\ st' = [st EXCEPT ![m] = "AWAITING_EXIT_CONFIRMATION"]
      /\ order' = [order EXCEPT ![m] = "sell"]
  BY DEF SignalSell, TickIdle, NothingDue, Unresolved
<1>3. /\ st'[m] = "AWAITING_EXIT_CONFIRMATION" /\ order'[m] = "sell"
      /\ \A n \in Mints \ {m} : st'[n] = st[n] /\ order'[n] = order[n]
  BY <1>2 DEF TypeOK
<1>4. ~BeingBooked(m) /\ posOf[m] \in open /\ mintOf[posOf[m]] = m
  BY <1>2, BookedState DEF Waiting
<1>5. ASSUME NEW n \in Mints PROVE Waiting(n)'
  BY <1>2, <1>3, <1>4 DEF Waiting
<1>6. ASSUME NEW a \in Bookers PROVE BookingOK(a)'
  BY <1>2, <1>3, <1>4 DEF BookingOK, BuyBooked, SellBooked, BeingBooked
<1> QED BY <1>1, <1>2, <1>5, <1>6

LEMMA SignalSellRows ==
  ASSUME RowsInv, OwnInv', NEW m \in Mints, SignalSell(m) PROVE RowsInv'
<1> USE DEF RowsInv
<1>1. /\ phase = "running" /\ st[m] = "OPEN"
      /\ UNCHANGED <<posOf, open, mintOf, booking, phase, dbOpen>>
      /\ st' = [st EXCEPT ![m] = "AWAITING_EXIT_CONFIRMATION"]
  BY DEF SignalSell, TickIdle, Unresolved
<1>2. /\ st'[m] = "AWAITING_EXIT_CONFIRMATION"
      /\ \A n \in Mints : n # m => st'[n] = st[n]
  BY <1>1 DEF OwnInv, TypeOK
<1>3. ASSUME NEW a \in Bookers, booking[a].kind = "buy"
      PROVE  st'[booking[a].mint] = "AWAITING_CONFIRMATION"
  BY <1>1, <1>2, <1>3 DEF OwnInv, BookingOK, NoBooking
<1>4. OpenIsWatched'
  BY <1>1, <1>2 DEF OpenIsWatched, Watched
<1> QED BY <1>1, <1>3, <1>4 DEF Unsaved

\* Orders that are withdrawn, beside others that the tick confirms.
Decision(S) ==
    /\ Withdraw(S)
    /\ \A m \in Mints :
        IF m \in S THEN order'[m] = "none" /\ due'[m] = "none"
        ELSE \/ order'[m] = order[m] /\ due'[m] = due[m]
             \/ due[m] = "none" /\ order'[m] = "none" /\ due'[m] = order[m]
    /\ UNCHANGED <<posOf, open, mintOf, booking, phase, dbOpen>>

\* What becomes of the candidates: a SELL's returns to its position.
LEMMA WithdrawnState ==
  ASSUME TypeOK, NEW S, Withdraw(S), NEW m \in Mints
  PROVE  /\ m \notin S => st'[m] = st[m] /\ cooling'[m] = cooling[m]
         /\ cooling[m] => cooling'[m]
         /\ m \in S =>
              \/ /\ order[m] # "sell" /\ st[m] = "AWAITING_CONFIRMATION"
                 /\ st'[m] = "SIGNAL_CANCELLED" /\ cooling'[m]
              \/ order[m] = "sell" /\ st[m] = "AWAITING_EXIT_CONFIRMATION" /\ st'[m] = "OPEN"
              \/ /\ st'[m] = st[m]
                 /\ ~(order[m] # "sell" /\ st[m] = "AWAITING_CONFIRMATION")
                 /\ ~(order[m] = "sell" /\ st[m] = "AWAITING_EXIT_CONFIRMATION")
<1>1. cooling' = [n \in Mints |-> cooling[n] \/ (n \in S /\ order[n] # "sell")]
  BY DEF Withdraw
<1>2. cooling'[m] = (cooling[m] \/ (m \in S /\ order[m] # "sell"))
  BY <1>1
<1>3. st'[m] = IF m \in S THEN Withdrawn(m) ELSE st[m]
  BY DEF Withdraw
<1>4. cooling[m] \in BOOLEAN
  BY DEF TypeOK
<1>5. /\ cooling[m] \/ (m \in S /\ order[m] # "sell") => cooling'[m]
      /\ m \notin S => cooling'[m] = cooling[m]
  BY <1>2, <1>4
<1> QED BY <1>3, <1>5 DEF Withdrawn

LEMMA DecisionOwn ==
  ASSUME OwnInv, TypeOK', NEW S, Decision(S), phase = "running" PROVE OwnInv'
<1> USE DEF OwnInv, Decision
<1>1. ASSUME NEW m \in Mints PROVE Waiting(m)'
  BY WithdrawnState DEF Waiting
<1>2. ASSUME NEW a \in Bookers PROVE BookingOK(a)'
  <2> SUFFICES ASSUME booking[a] # NoBooking PROVE BookingOK(a)'
    BY DEF BookingOK
  <2>1. PICK m \in Mints :
        /\ m = booking[a].mint /\ order[m] = "none" /\ due[m] = "none"
        /\ \/ booking[a].kind = "buy" /\ BuyBooked(a, m)
           \/ booking[a].kind = "sell" /\ SellBooked(a, m)
        /\ \A b \in Bookers : booking[b].mint = m => b = a
    BY DEF BookingOK
  <2>2. order'[m] = "none" /\ due'[m] = "none"
    BY <2>1
  <2>3. \/ st'[m] = st[m] /\ (cooling[m] => cooling'[m])
        \/ st[m] = "AWAITING_CONFIRMATION" /\ st'[m] = "SIGNAL_CANCELLED" /\ cooling'[m]
    BY <2>1, WithdrawnState
  <2>4. BuyBooked(a, m) => BuyBooked(a, m)'
    BY <2>3 DEF BuyBooked
  <2>5. SellBooked(a, m) => SellBooked(a, m)'
    BY <2>3 DEF SellBooked
  <2> QED BY <2>1, <2>2, <2>4, <2>5 DEF BookingOK
<1> QED BY <1>1, <1>2

LEMMA DecisionRows ==
  ASSUME RowsInv, OwnInv', NEW S, Decision(S), phase = "running",
         \A m \in S \cap Mints : ~BeingBooked(m)
  PROVE  RowsInv'
<1> USE DEF RowsInv, Decision
<1>1. ASSUME NEW a \in Bookers, booking[a].kind = "buy"
      PROVE  st'[booking[a].mint] = "AWAITING_CONFIRMATION"
  <2>1. booking[a].mint \in Mints /\ BeingBooked(booking[a].mint)
    BY <1>1 DEF OwnInv, BookingOK, NoBooking, BeingBooked
  <2>2. booking[a].mint \notin S
    BY <2>1
  <2>3. st[booking[a].mint] = "AWAITING_CONFIRMATION" /\ TypeOK /\ Withdraw(S)
    BY <1>1 DEF OwnInv
  <2> QED BY <2>1, <2>2, <2>3, WithdrawnState
<1>2. OpenIsWatched'
  BY WithdrawnState DEF OpenIsWatched, Watched, OwnInv
<1> QED BY <1>1, <1>2 DEF Unsaved

----------------------------------------------------------------------------
(* Bookings *)

\* The order of a mint is decided, the others are left.
Settled(m) ==
    \A n \in Mints : /\ order'[n] = IF n = m THEN "none" ELSE order[n]
                     /\ due'[n] = IF n = m THEN "none" ELSE due[n]

\* The account takes a bought position in, or lets a sold one go.
BuyStarts(a, m, p) ==
    /\ Settled(m) /\ Idle(a) /\ "buy" \in {order[m], due[m]}
    /\ p \in FreeSlots /\ open' = open \cup {p} /\ mintOf' = [mintOf EXCEPT ![p] = m]
    /\ booking' = [booking EXCEPT ![a] = Booking("buy", m, p)]
    /\ UNCHANGED <<st, cooling, posOf, phase, dbOpen>>

SellStarts(a, m) ==
    /\ Settled(m) /\ Idle(a) /\ "sell" \in {order[m], due[m]}
    /\ open' = open \ {posOf[m]}
    /\ booking' = [booking EXCEPT ![a] = Booking("sell", m, posOf[m])]
    /\ UNCHANGED <<st, cooling, posOf, mintOf, phase, dbOpen>>

\* A free slot is in nobody's hands.
LEMMA BuyStartsOwn ==
  ASSUME OwnInv, TypeOK', phase = "running",
         NEW a \in Bookers, NEW m \in Mints, NEW p, BuyStarts(a, m, p)
  PROVE  OwnInv'
<1> USE DEF OwnInv, BuyStarts, Settled
<1>1. /\ p \in Slots \ open /\ \A b \in Bookers : booking[b].slot # p
      /\ mintOf'[p] = m /\ \A q \in Slots \ {p} : mintOf'[q] = mintOf[q]
  BY DEF FreeSlots, TypeOK
<1>2. /\ booking'[a] = Booking("buy", m, p) /\ booking[a] = NoBooking
      /\ \A b \in Bookers \ {a} : booking'[b] = booking[b]
  BY DEF TypeOK, Idle
<1>3. /\ ~BeingBooked(m) /\ st[m] = "AWAITING_CONFIRMATION"
      /\ order'[m] = "none" /\ due'[m] = "none"
  BY BookedState DEF Waiting
<1>4. ASSUME NEW n \in Mints PROVE Waiting(n)'
  <2>1. posOf[n] \in open => mintOf'[posOf[n]] = mintOf[posOf[n]]
    BY <1>1 DEF TypeOK
  <2>2. CASE n = m
    BY <1>3, <2>2 DEF Waiting
  <2>3. CASE n # m
    BY <2>1, <2>3 DEF Waiting
  <2> QED BY <2>2, <2>3
<1>5. BookingOK(a)'
  <2>1. BuyBooked(a, m)'
    BY <1>1, <1>2, <1>3 DEF BuyBooked, Booking
  <2>2. \A b \in Bookers : booking'[b].mint = m => b = a
    BY <1>2, <1>3 DEF BeingBooked
  <2> QED BY <1>2, <1>3, <2>1, <2>2 DEF BookingOK, Booking
<1>6. ASSUME NEW b \in Bookers \ {a}, booking[b] # NoBooking PROVE BookingOK(b)'
  <2>1. PICK n \in Mints :
        /\ n = booking[b].mint /\ order[n] = "none" /\ due[n] = "none"
        /\ \/ booking[b].kind = "buy" /\ BuyBooked(b, n)
           \/ booking[b].kind = "sell" /\ SellBooked(b, n)
        /\ \A c \in Bookers : booking[c].mint = n => c = b
    BY <1>6 DEF BookingOK
  <2>2. n # m
    BY <1>3, <2>1 DEF BeingBooked
  <2>3. BuyBooked(b, n) => BuyBooked(b, n)'
    BY <1>1, <1>2 DEF BuyBooked, TypeOK
  <2>4. SellBooked(b, n) => SellBooked(b, n)'
    BY <1>1, <1>2 DEF SellBooked, TypeOK
  <2> QED BY <1>2, <2>1, <2>2, <2>3, <2>4 DEF BookingOK, Booking
<1>7. ASSUME NEW b \in Bookers PROVE BookingOK(b)'
  BY <1>2, <1>5, <1>6 DEF BookingOK
<1> QED BY <1>4, <1>7

LEMMA BuyStartsRows ==
  ASSUME RowsInv, OwnInv', phase = "running",
         NEW a \in Bookers, NEW m \in Mints, NEW p, BuyStarts(a, m, p)
  PROVE  RowsInv'
<1> USE DEF RowsInv, BuyStarts
<1>1. /\ p \in Slots \ (open \cup dbOpen)
      /\ mintOf'[p] = m /\ \A q \in Slots \ {p} : mintOf'[q] = mintOf[q]
  BY DEF FreeSlots, TypeOK, OwnInv
<1>2. /\ booking'[a] = Booking("buy", m, p) /\ booking[a] = NoBooking
      /\ \A b \in Bookers \ {a} : booking'[b] = booking[b]
  BY DEF TypeOK, Idle, OwnInv
<1>3. open \subseteq Slots /\ NoBooking.kind = "none"
  BY DEF OwnInv, TypeOK, NoBooking
<1>4. ASSUME NEW q, NEW kind \in {"buy", "sell"}, Unsaved(q, kind) PROVE Unsaved(q, kind)'
  BY <1>2, <1>3, <1>4 DEF Unsaved
<1>5. Unsaved(p, "buy")'
  BY <1>2 DEF Unsaved, Booking
<1>6. OpenIsWatched'
  <2>1. ASSUME NEW q \in open PROVE Watched(q)'
    BY <1>1, <1>2, <1>3, <2>1 DEF OpenIsWatched, Watched
  <2>2. Watched(p)'
    BY <1>2 DEF Watched, Booking
  <2> QED BY <2>1, <2>2 DEF OpenIsWatched
<1>7. ASSUME NEW b \in Bookers, booking'[b].kind = "buy"
      PROVE  st[booking'[b].mint] = "AWAITING_CONFIRMATION"
  <2>1. st[m] = "AWAITING_CONFIRMATION"
    BY DEF OwnInv, Waiting
  <2> QED BY <1>2, <1>7, <2>1 DEF Booking
<1> QED BY <1>4, <1>5, <1>6, <1>7

\* A position that is sold is that of one candidate only, and of no booking.
LEMMA SellStartsOwn ==
  ASSUME OwnInv, TypeOK', phase = "running",
         NEW a \in Bookers, NEW m \in Mints, SellStarts(a, m)
  PROVE  OwnInv'
<1> USE DEF OwnInv, SellStarts, Settled
<1>1. /\ booking'[a] = Booking("sell", m, posOf[m]) /\ booking[a] = NoBooking
      /\ \A b \in Bookers \ {a} : booking'[b] = booking[b]
  BY DEF TypeOK, Idle
<1>2. /\ ~BeingBooked(m) /\ st[m] = "AWAITING_EXIT_CONFIRMATION"
      /\ posOf[m] \in open /\ mintOf[posOf[m]] = m
      /\ order'[m] = "none" /\ due'[m] = "none"
  BY BookedState DEF Waiting
<1>3. ASSUME NEW n \in Mints PROVE Waiting(n)'
  <2>1. n # m /\ posOf[n] \in open /\ mintOf[posOf[n]] = n => posOf[n] \in open'
    BY <1>2
  <2>2. CASE n = m
    BY <1>2, <2>2 DEF Waiting
  <2>3. CASE n # m
    BY <2>1, <2>3 DEF Waiting
  <2> QED BY <2>2, <2>3
<1>4. BookingOK(a)'
  <2>1. SellBooked(a, m)'
    BY <1>1, <1>2 DEF SellBooked, Booking, TypeOK
  <2>2. \A b \in Bookers : booking'[b].mint = m => b = a
    BY <1>1, <1>2 DEF BeingBooked
  <2> QED BY <1>1, <1>2, <2>1, <2>2 DEF BookingOK, Booking
<1>5. ASSUME NEW b \in Bookers \ {a}, booking[b] # NoBooking PROVE BookingOK(b)'
  <2>1. PICK n \in Mints :
        /\ n = booking[b].mint /\ order[n] = "none" /\ due[n] = "none"
        /\ \/ booking[b].kind = "buy" /\ BuyBooked(b, n)
           \/ booking[b].kind = "sell" /\ SellBooked(b, n)
        /\ \A c \in Bookers : booking[c].mint = n => c = b
    BY <1>5 DEF BookingOK
  <2>2. n # m
    BY <1>2, <2>1 DEF BeingBooked
  <2>3. BuyBooked(b, n) => BuyBooked(b, n)'
    BY <1>1, <1>2, <2>2 DEF BuyBooked
  <2>4. SellBooked(b, n) => SellBooked(b, n)'
    BY <1>1, <1>2 DEF SellBooked
  <2> QED BY <1>1, <2>1, <2>2, <2>3, <2>4 DEF BookingOK, Booking
<1>6. ASSUME NEW b \in Bookers PROVE BookingOK(b)'
  BY <1>1, <1>4, <1>5 DEF BookingOK
<1> QED BY <1>3, <1>6

LEMMA SellStartsRows ==
  ASSUME RowsInv, OwnInv', phase = "running",
         NEW a \in Bookers, NEW m \in Mints, SellStarts(a, m)
  PROVE  RowsInv'
<1> USE DEF RowsInv, SellStarts
<1>1. /\ booking'[a] = Booking("sell", m, posOf[m]) /\ booking[a] = NoBooking
      /\ \A b \in Bookers \ {a} : booking'[b] = booking[b]
  BY DEF TypeOK, Idle, OwnInv
<1>2. NoBooking.kind = "none"
  BY DEF NoBooking
<1>3. ASSUME NEW q, NEW kind \in {"buy", "sell"}, Unsaved(q, kind) PROVE Unsaved(q, kind)'
  BY <1>1, <1>2, <1>3 DEF Unsaved
<1>4. Unsaved(posOf[m], "sell")'
  BY <1>1 DEF Unsaved, Booking
<1>5. OpenIsWatched'
  BY <1>1, <1>2 DEF OpenIsWatched, Watched
<1>6. ASSUME NEW b \in Bookers, booking'[b].kind = "buy"
      PROVE  st[booking'[b].mint] = "AWAITING_CONFIRMATION"
  BY <1>1, <1>6 DEF Booking
<1> QED BY <1>3, <1>4, <1>5, <1>6

\* The position's row follows the account.
LEMMA SavePositionOwn ==
  ASSUME OwnInv, NEW a \in Bookers, SavePosition(a) PROVE OwnInv'
<1> USE DEF OwnInv
<1>1. TypeOK'
  BY SaveType DEF Save
<1>2. /\ phase = "running" /\ booking[a] # NoBooking
      /\ UNCHANGED <<st, cooling, posOf, order, due, open, mintOf, phase>>
      /\ booking' = [booking EXCEPT ![a].row = TRUE]
  BY DEF SavePosition, Awake, Idle
<1>3. /\ \A b \in Bookers : /\ booking'[b].kind = booking[b].kind
                            /\ booking'[b].mint = booking[b].mint
                            /\ booking'[b].slot = booking[b].slot
      /\ \A b \in Bookers \ {a} : booking'[b] = booking[b]
  BY <1>2 DEF TypeOK
<1>4. ASSUME NEW m \in Mints PROVE Waiting(m)'
  BY <1>2 DEF Waiting
<1>5. ASSUME NEW b \in Bookers PROVE BookingOK(b)'
  <2>1. booking'[b] # NoBooking => booking[b] # NoBooking
    BY <1>2, <1>3
  <2> QED BY <1>2, <1>3, <2>1 DEF BookingOK, BuyBooked, SellBooked
<1> QED BY <1>1, <1>2, <1>4, <1>5

LEMMA SavePositionRows ==
  ASSUME RowsInv, OwnInv', NEW a \in Bookers, SavePosition(a) PROVE RowsInv'
<1> USE DEF RowsInv
<1>1. /\ phase = "running" /\ booking[a] # NoBooking /\ dbOpen' = RowsAfter(booking[a])
      /\ UNCHANGED <<st, cooling, posOf, order, due, open, mintOf, phase>>
      /\ booking' = [booking EXCEPT ![a].row = TRUE]
  BY DEF SavePosition, Awake, Idle
<1>2. /\ \A b \in Bookers : /\ booking'[b].kind = booking[b].kind
                            /\ booking'[b].mint = booking[b].mint
                            /\ booking'[b].slot = booking[b].slot
      /\ \A b \in Bookers \ {a} : booking'[b] = booking[b]
  BY <1>1 DEF OwnInv, TypeOK
<1>3. ASSUME NEW q, NEW kind, Unsaved(q, kind)
      PROVE  Unsaved(q, kind)' \/ (q = booking[a].slot /\ booking[a].kind = kind)
  BY <1>2, <1>3 DEF Unsaved
<1>4. \/ /\ booking[a].kind = "buy" /\ booking[a].slot \in open
         /\ dbOpen' = dbOpen \cup {booking[a].slot}
      \/ /\ booking[a].kind = "sell" /\ booking[a].slot \notin open
         /\ dbOpen' = dbOpen \ {booking[a].slot}
  BY <1>1 DEF OwnInv, BookingOK, BuyBooked, SellBooked, RowsAfter
<1>5. OpenIsWatched'
  BY <1>1, <1>2 DEF OpenIsWatched, Watched
<1>6. \A p \in open' \ dbOpen' : Unsaved(p, "buy")'
  BY <1>1, <1>3, <1>4
<1>7. \A p \in dbOpen' \ open' : Unsaved(p, "sell")'
  BY <1>1, <1>3, <1>4
<1> QED BY <1>1, <1>2, <1>5, <1>6, <1>7

\* What the end of a booking leaves: the candidate of a BUY holds its position,
\* that of a SELL is done with it.
LEMMA SaveAccountEffect ==
  ASSUME OwnInv, NEW a \in Bookers, SaveAccount(a)
  PROVE  \E m \in Mints :
           /\ m = booking[a].mint /\ order[m] = "none" /\ due[m] = "none"
           /\ \A b \in Bookers : booking[b].mint = m => b = a
           /\ \/ /\ booking[a].kind = "buy" /\ BuyBooked(a, m)
                 /\ posOf' = [posOf EXCEPT ![m] = booking[a].slot]
                 /\ st' = IF st[m] = "AWAITING_CONFIRMATION" THEN [st EXCEPT ![m] = "OPEN"] ELSE st
              \/ /\ booking[a].kind = "sell" /\ SellBooked(a, m)
                 /\ posOf' = posOf /\ st' = [st EXCEPT ![m] = "CLOSED"]
           /\ phase = "running" /\ booking[a].row
           /\ booking' = [booking EXCEPT ![a] = NoBooking]
           /\ UNCHANGED <<cooling, order, due, open, mintOf, phase, dbOpen>>
<1>1. BookingOK(a) /\ booking[a] # NoBooking
  BY DEF OwnInv, SaveAccount, Idle
<1> QED BY <1>1 DEF BookingOK, SaveAccount, Awake, SellBooked

LEMMA SaveAccountOwn ==
  ASSUME OwnInv, NEW a \in Bookers, SaveAccount(a) PROVE OwnInv'
<1> USE DEF OwnInv
<1>1. TypeOK'
  BY SaveType DEF Save
<1>2. PICK m \in Mints :
           /\ m = booking[a].mint /\ order[m] = "none" /\ due[m] = "none"
           /\ \A b \in Bookers : booking[b].mint = m => b = a
           /\ \/ /\ booking[a].kind = "buy" /\ BuyBooked(a, m)
                 /\ posOf' = [posOf EXCEPT ![m] = booking[a].slot]
                 /\ st' = IF st[m] = "AWAITING_CONFIRMATION" THEN [st EXCEPT ![m] = "OPEN"] ELSE st
              \/ /\ booking[a].kind = "sell" /\ SellBooked(a, m)
                 /\ posOf' = posOf /\ st' = [st EXCEPT ![m] = "CLOSED"]
           /\ phase = "running" /\ booking[a].row
           /\ booking' = [booking EXCEPT ![a] = NoBooking]
           /\ UNCHANGED <<cooling, order, due, open, mintOf, phase, dbOpen>>
  BY SaveAccountEffect
<1>3. /\ \A n \in Mints \ {m} : st'[n] = st[n] /\ posOf'[n] = posOf[n]
      /\ booking'[a] = NoBooking /\ \A b \in Bookers \ {a} : booking'[b] = booking[b]
  BY <1>2 DEF TypeOK
<1>4. Waiting(m)'
  BY <1>2 DEF Waiting, BuyBooked, TypeOK
<1>5. ASSUME NEW n \in Mints \ {m} PROVE Waiting(n)'
  BY <1>2, <1>3 DEF Waiting
<1>6. ASSUME NEW b \in Bookers \ {a}, booking[b] # NoBooking PROVE BookingOK(b)'
  <2>1. PICK n \in Mints :
        /\ n = booking[b].mint /\ order[n] = "none" /\ due[n] = "none"
        /\ \/ booking[b].kind = "buy" /\ BuyBooked(b, n)
           \/ booking[b].kind = "sell" /\ SellBooked(b, n)
        /\ \A c \in Bookers : booking[c].mint = n => c = b
    BY <1>6 DEF BookingOK
  <2>2. n # m
    BY <1>2, <2>1
  <2>3. BuyBooked(b, n) => BuyBooked(b, n)'
    BY <1>2, <1>3, <2>2 DEF BuyBooked
  <2>4. SellBooked(b, n) => SellBooked(b, n)'
    BY <1>2, <1>3, <2>2 DEF SellBooked
  <2>5. \A c \in Bookers : booking'[c].mint = n => c = b
    BY <1>3, <2>1, EngineAssumption DEF NoBooking
  <2> QED BY <1>2, <1>3, <2>1, <2>3, <2>4, <2>5 DEF BookingOK
<1>7. ASSUME NEW b \in Bookers PROVE BookingOK(b)'
  BY <1>3, <1>6 DEF BookingOK
<1> QED BY <1>1, <1>2, <1>4, <1>5, <1>7

LEMMA SaveAccountRows ==
  ASSUME RowsInv, OwnInv', NEW a \in Bookers, SaveAccount(a) PROVE RowsInv'
<1> USE DEF RowsInv
<1>1. PICK m \in Mints :
           /\ m = booking[a].mint /\ order[m] = "none" /\ due[m] = "none"
           /\ \A b \in Bookers : booking[b].mint = m => b = a
           /\ \/ /\ booking[a].kind = "buy" /\ BuyBooked(a, m)
                 /\ posOf' = [posOf EXCEPT ![m] = booking[a].slot]
                 /\ st' = IF st[m] = "AWAITING_CONFIRMATION" THEN [st EXCEPT ![m] = "OPEN"] ELSE st
              \/ /\ booking[a].kind = "sell" /\ SellBooked(a, m)
                 /\ posOf' = posOf /\ st' = [st EXCEPT ![m] = "CLOSED"]
           /\ phase = "running" /\ booking[a].row
           /\ booking' = [booking EXCEPT ![a] = NoBooking]
           /\ UNCHANGED <<cooling, order, due, open, mintOf, phase, dbOpen>>
  BY SaveAccountEffect
<1>2. /\ \A n \in Mints \ {m} : st'[n] = st[n] /\ posOf'[n] = posOf[n]
      /\ booking'[a] = NoBooking /\ \A b \in Bookers \ {a} : booking'[b] = booking[b]
      /\ NoBooking.kind = "none"
  BY <1>1 DEF TypeOK, OwnInv, NoBooking
<1>3. ASSUME NEW b \in Bookers, booking'[b].kind = "buy"
      PROVE  st'[booking'[b].mint] = "AWAITING_CONFIRMATION"
  <2>1. b # a /\ booking'[b] = booking[b] /\ booking[b] # NoBooking
    BY <1>2, <1>3
  <2>2. booking[b].mint \in Mints \ {m}
    BY <1>1, <2>1 DEF OwnInv, BookingOK
  <2> QED BY <1>1, <1>2, <1>3, <2>1, <2>2
<1>4. ASSUME NEW q, NEW kind, Unsaved(q, kind) PROVE Unsaved(q, kind)'
  BY <1>1, <1>2, <1>4 DEF Unsaved
<1>5. OpenIsWatched'
  <2>1. SUFFICES ASSUME NEW q \in open PROVE Watched(q)'
    BY <1>1 DEF OpenIsWatched
  <2>2. Watched(q)
    BY <1>1 DEF OpenIsWatched
  <2>3. CASE booking[a].kind = "buy"
    <3>1. /\ booking[a].slot \in open /\ mintOf[booking[a].slot] = m
          /\ st'[m] = "OPEN" /\ posOf'[m] = booking[a].slot
          /\ st[m] = "AWAITING_CONFIRMATION"
      BY <1>1, <2>3 DEF BuyBooked, OwnInv, TypeOK
    <3>2. CASE \E b \in Bookers : booking[b].kind = "buy" /\ booking[b].slot = q
      BY <1>1, <1>2, <3>1, <3>2 DEF Watched
    <3>3. CASE \E n \in Mints : /\ mintOf[q] = n /\ posOf[n] = q
                                /\ st[n] \in {"OPEN", "AWAITING_EXIT_CONFIRMATION"}
      BY <1>1, <1>2, <3>1, <3>3 DEF Watched
    <3> QED BY <2>2, <3>2, <3>3 DEF Watched
  <2>4. CASE booking[a].kind = "sell"
    <3>1. posOf[m] \notin open
      BY <1>1, <2>4 DEF SellBooked
    <3> QED BY <1>1, <1>2, <2>2, <2>4, <3>1 DEF Watched
  <2> QED BY <1>1, <2>3, <2>4
<1> QED BY <1>1, <1>3, <1>4, <1>5

----------------------------------------------------------------------------
(* The steps that decide on orders, by what they do *)

\* Without takes the orders in S out of the book, and no other.
LEMMA WithoutAt ==
  ASSUME TypeOK, NEW S, order' = Without(S), NEW m \in Mints
  PROVE  order'[m] = IF m \in S THEN "none" ELSE order[m]
BY DEF Without

\* A booking refuses the order, or takes the position in, or lets it go.
LEMMA Begins ==
  ASSUME OwnInv, phase = "running", NEW a \in Bookers, Idle(a), NEW m \in Mints,
         \/ BookBuy(a, m) /\ "buy" \in {order[m], due[m]}
         \/ BookSell(a, m) /\ "sell" \in {order[m], due[m]},
         Settled(m), UNCHANGED <<posOf, phase, dbOpen>>
  PROVE  Decision({m}) \/ (\E p \in Slots : BuyStarts(a, m, p)) \/ SellStarts(a, m)
<1> USE DEF OwnInv
<1>1. CASE BookBuy(a, m) /\ "buy" \in {order[m], due[m]}
  <2>1. CASE /\ Affordable /\ FreeSlots # {}
             /\ LET p == Min(FreeSlots) IN
                  /\ open' = open \cup {p}
                  /\ mintOf' = [mintOf EXCEPT ![p] = m]
                  /\ booking' = [booking EXCEPT ![a] = Booking("buy", m, p)]
             /\ cash' = cash - (Size + Fee)
             /\ UNCHANGED <<st, cooling>>
    <3>1. FreeSlots \in SUBSET Nat /\ FreeSlots \subseteq Slots
      BY DEF FreeSlots, Slots
    <3>2. Min(FreeSlots) \in FreeSlots
      BY <2>1, <3>1, LeastExists
    <3>3. BuyStarts(a, m, Min(FreeSlots))
      BY <1>1, <2>1, <3>2 DEF BuyStarts
    <3> QED BY <3>1, <3>2, <3>3
  <2>2. CASE ~Affordable /\ Refused(m) /\ UNCHANGED <<account, booking>>
    BY <2>2 DEF Refused, Decision, Settled
  <2> QED BY <1>1, <2>1, <2>2 DEF BookBuy
<1>2. CASE BookSell(a, m) /\ "sell" \in {order[m], due[m]}
  <2>1. posOf[m] \in open
    BY <1>2 DEF Waiting
  <2> QED BY <1>2, <2>1 DEF BookSell, SellStarts
<1> QED BY <1>1, <1>2

\* Every step that decides on the order of one mint.
LEMMA Decides ==
  ASSUME OwnInv, NEW m \in Mints,
         CancelStale(m) \/ Apply(m) \/ \E h \in Handlers : Confirm(h, m) \/ Decline(h, m)
  PROVE  /\ phase = "running"
         /\ \/ Decision({m}) /\ (order[m] # "none" \/ due[m] # "none" \/ CancelStale(m))
            \/ \E a \in Bookers, p \in Slots : BuyStarts(a, m, p)
            \/ \E a \in Bookers : SellStarts(a, m)
<1> USE DEF OwnInv, Unresolved
<1>1. CASE CancelStale(m)
  <2>1. due[m] = "none" /\ phase = "running"
    BY <1>1 DEF CancelStale, TickIdle, NothingDue, Waiting, Awake
  <2>2. \A n \in Mints : /\ order'[n] = IF n = m THEN "none" ELSE order[n]
                         /\ due'[n] = IF n = m THEN "none" ELSE due[n]
    BY <1>1, <2>1, WithoutAt DEF CancelStale
  <2> QED BY <1>1, <2>1, <2>2 DEF CancelStale, Decision
<1>2. CASE Apply(m)
  <2>1. Settled(m)
    BY <1>2 DEF Apply, Settled, Waiting, TypeOK
  <2>2. /\ phase = "running" /\ Idle(Tick) /\ due[m] # "none" /\ Tick \in Bookers
        /\ UNCHANGED <<posOf, phase, dbOpen>>
        /\ (due[m] = "buy" /\ BookBuy(Tick, m)) \/ (due[m] = "sell" /\ BookSell(Tick, m))
    BY <1>2 DEF Apply, Bookers
  <2>3. Decision({m}) \/ (\E p \in Slots : BuyStarts(Tick, m, p)) \/ SellStarts(Tick, m)
    BY <2>1, <2>2, Begins
  <2> QED BY <2>2, <2>3
<1>3. ASSUME NEW h \in Handlers, Confirm(h, m)
      PROVE  /\ phase = "running"
             /\ \/ Decision({m}) /\ order[m] # "none"
                \/ \E a \in Bookers, p \in Slots : BuyStarts(a, m, p)
                \/ \E a \in Bookers : SellStarts(a, m)
  <2>1. /\ phase = "running" /\ Idle(h) /\ order[m] # "none" /\ h \in Bookers
        /\ order' = Without({m}) /\ UNCHANGED <<posOf, due, phase, dbOpen>>
    BY <1>3 DEF Confirm, Awake, Bookers
  <2>2. due[m] = "none"
    BY <2>1 DEF Waiting
  <2>3. Settled(m)
    BY <2>1, <2>2, WithoutAt DEF Settled
  <2>4. ASSUME (order[m] = "buy" /\ BookBuy(h, m)) \/ (order[m] = "sell" /\ BookSell(h, m))
        PROVE  (\E p \in Slots : BuyStarts(h, m, p)) \/ SellStarts(h, m) \/ Decision({m})
    BY <2>1, <2>3, <2>4, Begins
  <2>5. ASSUME Withdraw({m}), open' = open, mintOf' = mintOf, booking' = booking
        PROVE  Decision({m})
    BY <2>1, <2>3, <2>5 DEF Decision, Settled
  <2>6. \/ (order[m] = "buy" /\ BookBuy(h, m)) \/ (order[m] = "sell" /\ BookSell(h, m))
        \/ Withdraw({m}) /\ open' = open /\ mintOf' = mintOf /\ booking' = booking
    BY <1>3 DEF Confirm
  <2>7. (\E p \in Slots : BuyStarts(h, m, p)) \/ SellStarts(h, m) \/ Decision({m})
    BY <2>4, <2>5, <2>6
  <2> QED BY <2>1, <2>7
<1>4. ASSUME NEW h \in Handlers, Decline(h, m)
      PROVE  phase = "running" /\ Decision({m}) /\ order[m] # "none"
  <2>1. due[m] = "none"
    BY <1>4 DEF Decline, Waiting
  <2>2. \A n \in Mints : /\ order'[n] = IF n = m THEN "none" ELSE order[n]
                         /\ due'[n] = IF n = m THEN "none" ELSE due[n]
    BY <1>4, <2>1, WithoutAt DEF Decline
  <2> QED BY <1>4, <2>2 DEF Decline, Decision, Awake
<1> QED BY <1>1, <1>2, <1>3, <1>4

LEMMA DecidesOwn ==
  ASSUME OwnInv, NEW m \in Mints,
         CancelStale(m) \/ Apply(m) \/ \E h \in Handlers : Confirm(h, m) \/ Decline(h, m)
  PROVE  OwnInv'
<1>1. TypeOK'
  BY OrdersType DEF OwnInv
<1> QED BY <1>1, Decides, DecisionOwn, BuyStartsOwn, SellStartsOwn

\* The tick expires and confirms orders.
LEMMA Collects ==
  ASSUME OwnInv, CollectAny
  PROVE  phase = "running" /\ \E S \in SUBSET Pending : Decision(S)
<1>1. PICK expired, confirmed \in SUBSET Pending : Collect(expired, confirmed)
  BY DEF CollectAny
<1>2. /\ phase = "running" /\ \A m \in Mints : due[m] = "none"
      /\ expired \cap confirmed = {} /\ Withdraw(expired)
      /\ due' = [m \in Mints |-> IF m \in confirmed THEN order[m] ELSE due[m]]
      /\ order' = Without(expired \cup confirmed)
      /\ UNCHANGED <<posOf, open, mintOf, booking, phase, dbOpen>>
  BY <1>1 DEF Collect, TickIdle, NothingDue, Unresolved
<1>3. Decision(expired)
  BY <1>2, WithoutAt DEF Decision, OwnInv
<1> QED BY <1>2, <1>3

LEMMA CollectsOwn == ASSUME OwnInv, CollectAny PROVE OwnInv'
<1>1. TypeOK'
  BY CollectType DEF OwnInv
<1> QED BY <1>1, Collects, DecisionOwn

----------------------------------------------------------------------------
(* Crash, stop and restart *)

LEMMA Dies ==
  ASSUME OwnInv, Crash \/ Stop
  PROVE  /\ phase = "running" /\ phase' \in {"crashed", "stopped"} /\ Halted' /\ TypeOK'
         /\ UNCHANGED <<open, mintOf>> /\ dbOpen \subseteq dbOpen' /\ dbOpen' \subseteq dbOpen \cup open
<1>1. TypeOK'
  BY DieType DEF OwnInv
<1>2. PICK how \in {"crashed", "stopped"} : Die(how)
  BY DEF Crash, Stop
<1>3. phase = "running" /\ phase' = how /\ UNCHANGED <<open, mintOf>>
  BY <1>2 DEF Die, Awake
<1>4. Halted'
  BY <1>2 DEF Die, Halted
<1>5. dbOpen \subseteq dbOpen' /\ dbOpen' \subseteq dbOpen \cup open
  BY DEF Crash, Stop
<1> QED BY <1>1, <1>3, <1>4, <1>5

\* A process that has nothing in hand is in order.
LEMMA HaltedOwn ==
  ASSUME TypeOK, Halted PROVE OwnInv
BY DEF OwnInv, Halted, BookingOK, Waiting

\* What a restart makes of the rows.
LEMMA Restarts ==
  ASSUME OwnInv, Restart, NEW m \in Mints
  PROVE  LET Of == {p \in dbOpen : mintOf[p] = m} IN
         /\ open' = dbOpen /\ UNCHANGED <<order, due, booking, dbOpen>> /\ Halted
         /\ \A p \in dbOpen : mintOf'[p] = mintOf[p]
         /\ Of = {} => st'[m] = "none" /\ posOf'[m] = None
         /\ Of # {} => st'[m] = "OPEN" /\ posOf'[m] \in Of
<1> DEFINE Of == {p \in dbOpen : mintOf[p] = m}
<1>1. /\ open' = dbOpen /\ UNCHANGED <<order, due, booking, dbOpen>> /\ Halted
      /\ \A p \in dbOpen : mintOf'[p] = mintOf[p]
      /\ st'[m] = IF Of # {} THEN "OPEN" ELSE "none"
      /\ posOf'[m] = IF Of # {} THEN Min(Of) ELSE None
  BY DEF Restart, OwnInv, TypeOK
<1>2. Of # {} => Min(Of) \in Of
  <2>1. Of \subseteq Slots
    BY DEF OwnInv, TypeOK
  <2>2. Slots \subseteq Nat
    BY DEF Slots
  <2> HIDE DEF Of
  <2>3. Of \in SUBSET Nat
    BY <2>1, <2>2
  <2> QED BY <2>3, LeastExists
<1> QED BY <1>1, <1>2

LEMMA RestartOwn == ASSUME OwnInv, Restart PROVE OwnInv'
<1>1. TypeOK'
  BY RestartType DEF OwnInv
<1>2. Halted /\ UNCHANGED <<order, due, booking>> /\ phase' \notin {"crashed", "stopped"}
  BY DEF Restart, OwnInv
<1>3. ASSUME NEW m \in Mints PROVE Waiting(m)'
  BY <1>2, <1>3, Restarts DEF Waiting, Halted
<1>4. ASSUME NEW a \in Bookers PROVE BookingOK(a)'
  BY <1>2 DEF BookingOK, Halted
<1> QED BY <1>1, <1>2, <1>3, <1>4 DEF OwnInv

----------------------------------------------------------------------------
(* The theorems that hold with and without a human *)

LEMMA OwnInit == Init => OwnInv
BY TypeInit DEF Init, OwnInv, BookingOK, Waiting

LEMMA OwnNext == OwnInv /\ [Next]_vars => OwnInv'
<1> SUFFICES ASSUME OwnInv, [Next]_vars PROVE OwnInv'
  OBVIOUS
<1>1. ASSUME NEW m \in Mints, World(m) \/ Evaluate(m) \/ (QuoteTask(m) /\ ~SignalBuy(m))
      PROVE  OwnInv'
  <2>1. TypeOK'
    BY <1>1, WorldType, EvaluateType DEF OwnInv
  <2> QED BY <1>1, <2>1, LooseSteps, LooseOwn
<1>2. ASSUME NEW m \in Mints, SignalBuy(m) PROVE OwnInv'
  BY <1>2, SignalBuyOwn
<1>3. ASSUME NEW m \in Mints, SignalSell(m) PROVE OwnInv'
  BY <1>3, SignalSellOwn
<1>4. ASSUME NEW m \in Mints, CancelStale(m) \/ Apply(m) PROVE OwnInv'
  BY <1>4, DecidesOwn
<1>5. CASE Human
  BY <1>5, DecidesOwn DEF Human
<1>6. CASE CollectAny
  BY <1>6, CollectsOwn
<1>7. ASSUME NEW a \in Bookers, Save(a) PROVE OwnInv'
  BY <1>7, SavePositionOwn, SaveAccountOwn DEF Save
<1>8. CASE Crash \/ Stop
  <2>1. TypeOK' /\ Halted'
    BY <1>8, Dies
  <2>2. (TypeOK /\ Halted => OwnInv)'
    BY HaltedOwn, PTL
  <2> QED BY <2>1, <2>2
<1>9. CASE Restart
  BY <1>9, RestartOwn
<1>10. CASE UNCHANGED vars
  BY <1>10 DEF vars, OwnInv, TypeOK, BookingOK, Waiting, BuyBooked, SellBooked, Halted
<1> QED
  BY <1>1, <1>2, <1>3, <1>4, <1>5, <1>6, <1>7, <1>8, <1>9, <1>10 DEF Next

LEMMA OwnInvariance == Spec => []OwnInv
<1> QED BY OwnInit, OwnNext, PTL DEF Spec

\* Every variable has its type: a position id is never lost to the rows, and
\* the account never owes.
THEOREM EngineTypes == Spec => []TypeOK
<1>1. OwnInv => TypeOK
  BY DEF OwnInv
<1> QED BY <1>1, OwnInvariance, PTL

\* The order book holds for each mint only the order its candidate waits for,
\* whoever decides, however many bookings are on their way and whatever dies.
THEOREM OwnedOrders == Spec => []OrderIsOwned
<1>1. OwnInv => OrderIsOwned
  BY DEF OwnInv, Waiting, OrderIsOwned
<1> QED BY <1>1, OwnInvariance, PTL

----------------------------------------------------------------------------
(* Without a human: the dry run *)

\* A position of the account or of its rows is the one of its mint.
LEMMA RunningLoadable ==
  ASSUME RowsInv, phase = "running" PROVE Loadable(open \cup dbOpen)
<1> USE DEF RowsInv
<1>1. ASSUME NEW p \in open
      PROVE  \E m \in Mints :
               /\ mintOf[p] = m
               /\ \/ /\ \E a \in Bookers : booking[a].mint = m /\ booking[a].slot = p
                     /\ st[m] = "AWAITING_CONFIRMATION"
                  \/ posOf[m] = p /\ st[m] \in {"OPEN", "AWAITING_EXIT_CONFIRMATION"}
  <2>1. CASE \E a \in Bookers : booking[a].kind = "buy" /\ booking[a].slot = p
    BY <2>1 DEF OwnInv, BookingOK, BuyBooked, NoBooking
  <2> QED BY <1>1, <2>1 DEF OpenIsWatched, Watched
<1>2. ASSUME NEW p \in dbOpen \ open
      PROVE  \E m \in Mints :
               mintOf[p] = m /\ posOf[m] = p /\ st[m] \in {"OPEN", "AWAITING_EXIT_CONFIRMATION"}
  BY <1>2 DEF Unsaved, OwnInv, BookingOK, SellBooked, NoBooking
<1>3. ASSUME NEW p \in open \cup dbOpen, NEW q \in open \cup dbOpen, mintOf[p] = mintOf[q]
      PROVE  p = q
  BY <1>1, <1>2, <1>3 DEF OwnInv, BookingOK, NoBooking
<1> QED BY <1>1, <1>2, <1>3 DEF Loadable

\* With one position for each mint, _restore_positions does not fail, and each is
\* monitored again.
LEMMA RestartRows ==
  ASSUME RowsInv, Restart, OwnInv' PROVE RowsInv'
<1> USE DEF RowsInv
<1>1. Loadable(dbOpen) /\ dbOpen' = dbOpen /\ open' = dbOpen /\ dbOpen \subseteq Slots
  BY DEF Restart, OwnInv, TypeOK
<1>2. ASSUME NEW m \in Mints PROVE ~(Cardinality({p \in dbOpen : mintOf[p] = m}) > 1)
  <2>1. CASE {p \in dbOpen : mintOf[p] = m} = {}
    BY <2>1, FS_EmptySet
  <2>2. CASE {p \in dbOpen : mintOf[p] = m} # {}
    <3>1. PICK p \in dbOpen : mintOf[p] = m
      BY <2>2
    <3>2. {q \in dbOpen : mintOf[q] = m} = {p}
      BY <1>1, <3>1 DEF Loadable
    <3>3. Cardinality({p}) = 1
      BY FS_Singleton
    <3>4. Cardinality({q \in dbOpen : mintOf[q] = m}) = 1
      BY <3>2, <3>3
    <3> HIDE <3>2
    <3> QED BY <3>4
  <2> QED BY <2>1, <2>2
<1>3. phase' = "running"
  BY <1>2 DEF Restart
<1>4. booking' = booking /\ Halted
  BY DEF Restart, OwnInv
<1>5. ASSUME NEW p \in open' PROVE Watched(p)'
  <2>1. /\ mintOf[p] \in Mints /\ p \in dbOpen
        /\ \A q \in dbOpen : mintOf[q] = mintOf[p] => q = p
    BY <1>1, <1>5 DEF Loadable
  <2>2. PICK m \in Mints : mintOf[p] = m
    BY <2>1
  <2>3. /\ mintOf'[p] = m /\ st'[m] = "OPEN" /\ mintOf[posOf'[m]] = m /\ posOf'[m] \in dbOpen
    BY <2>1, <2>2, Restarts
  <2>4. posOf'[m] = p
    BY <2>1, <2>2, <2>3
  <2> QED BY <2>3, <2>4 DEF Watched
<1>6. \A a \in Bookers : booking'[a].kind # "buy"
  BY <1>4 DEF Halted, NoBooking
<1> QED BY <1>1, <1>3, <1>5, <1>6 DEF OpenIsWatched

LEMMA RowsNext ==
  ASSUME Handlers = {} PROVE RowsInv /\ [Next]_vars => RowsInv'
<1> SUFFICES ASSUME RowsInv, [Next]_vars PROVE RowsInv'
  OBVIOUS
<1>1. OwnInv /\ OwnInv'
  BY OwnNext DEF RowsInv
<1>2. ASSUME NEW m \in Mints, World(m) \/ Evaluate(m) \/ (QuoteTask(m) /\ ~SignalBuy(m))
      PROVE  RowsInv'
  BY <1>1, <1>2, LooseSteps, LooseRows
<1>3. ASSUME NEW m \in Mints, SignalBuy(m) \/ SignalSell(m) PROVE RowsInv'
  BY <1>1, <1>3, SignalBuyRows, SignalSellRows
<1>4. ASSUME NEW m \in Mints, CancelStale(m) \/ Apply(m) PROVE RowsInv'
  <2>1. CASE Decision({m}) /\ (order[m] # "none" \/ due[m] # "none" \/ CancelStale(m))
    <3>1. ~BeingBooked(m)
      <4>1. CASE CancelStale(m)
        <5>1. \A a \in Bookers : booking[a] = NoBooking
          <6>1. \A a \in Bookers : a = Tick
            BY DEF Bookers
          <6>2. Idle(Tick)
            BY <4>1 DEF CancelStale, TickIdle
          <6> QED BY <6>1, <6>2 DEF Idle
        <5> QED BY <5>1, EngineAssumption DEF BeingBooked, NoBooking
      <4> QED BY <1>1, <2>1, <4>1, BookedState
    <3> QED BY <1>1, <1>4, <2>1, <3>1, Decides, DecisionRows
  <2>2. CASE \E a \in Bookers, p \in Slots : BuyStarts(a, m, p)
    BY <1>1, <1>4, <2>2, Decides, BuyStartsRows
  <2>3. CASE \E a \in Bookers : SellStarts(a, m)
    BY <1>1, <1>4, <2>3, Decides, SellStartsRows
  <2> QED BY <1>1, <1>4, <2>1, <2>2, <2>3, Decides
<1>5. CASE CollectAny
  <2>1. PICK S \in SUBSET Pending : Decision(S)
    BY <1>1, <1>5, Collects
  <2>2. \A m \in S \cap Mints : ~BeingBooked(m)
    BY <1>1, BookedState DEF Pending
  <2> QED BY <1>1, <1>5, <2>1, <2>2, Collects, DecisionRows
<1>6. ASSUME NEW a \in Bookers, Save(a) PROVE RowsInv'
  BY <1>1, <1>6, SavePositionRows, SaveAccountRows DEF Save
<1>7. CASE Crash \/ Stop
  <2>1. /\ phase = "running" /\ phase' \in {"crashed", "stopped"} /\ mintOf' = mintOf
        /\ dbOpen' \subseteq dbOpen \cup open
    BY <1>1, <1>7, Dies
  <2>2. Loadable(open \cup dbOpen)
    BY <2>1, RunningLoadable
  <2>3. Loadable(dbOpen)'
    BY <2>1, <2>2 DEF Loadable
  <2> QED BY <1>1, <2>1, <2>3 DEF RowsInv, OpenIsWatched
<1>8. CASE Restart
  BY <1>1, <1>8, RestartRows
<1>9. CASE UNCHANGED vars
  BY <1>1, <1>9 DEF vars, RowsInv, OpenIsWatched, Watched, Unsaved, Loadable
<1> QED
  BY <1>2, <1>3, <1>4, <1>5, <1>6, <1>7, <1>8, <1>9 DEF Next, Human

LEMMA RowsInvariance ==
  ASSUME Handlers = {} PROVE Spec => []RowsInv
<1>1. Init => RowsInv
  BY OwnInit DEF Init, RowsInv, OpenIsWatched, NoBooking
<1> QED BY <1>1, RowsNext, PTL DEF Spec

\* In a dry run, every open position is monitored as soon as its fill is
\* committed, and again after every crash and every stop.
THEOREM DryRunWatches ==
  ASSUME Handlers = {} PROVE Spec => []OpenIsWatched
<1>1. RowsInv => OpenIsWatched
  BY DEF RowsInv
<1> QED BY <1>1, RowsInvariance, PTL

\* In a dry run, whatever commits a crash or a stop cuts off, the rows never hold
\* two positions of one mint, and the next start loads them.
THEOREM DryRunRestarts ==
  ASSUME Handlers = {} PROVE Spec => []CanRestart
<1>1. RowsInv => CanRestart
  BY DEF RowsInv, CanRestart
<1> QED BY <1>1, RowsInvariance, PTL

----------------------------------------------------------------------------
(* With a human who confirms: the cap on positions *)

\* Nothing is confirmed but by the human, and until a process dies there is no
\* more than the sizing allowed.
CapInv ==
    /\ OwnInv
    /\ \A m \in Mints : due[m] = "none"
    /\ crashes = 0 =>
        phase = "running" /\ IsFiniteSet(open) /\ IsFiniteSet(PendingBuys) /\ ExposureCapped

\* Fewer pending BUYs and no position more.
LEMMA CapShrinks ==
  ASSUME CapInv, PendingBuys' \subseteq PendingBuys, open' \subseteq open, crashes' = crashes,
         crashes = 0 => phase' = "running", OwnInv', \A m \in Mints : due'[m] = "none"
  PROVE  CapInv'
<1> SUFFICES ASSUME crashes = 0
             PROVE  IsFiniteSet(open') /\ IsFiniteSet(PendingBuys') /\ ExposureCapped'
  BY DEF CapInv
<1>1. IsFiniteSet(open) /\ IsFiniteSet(PendingBuys) /\ ExposureCapped
  BY DEF CapInv
<1>2. IsFiniteSet(open') /\ Cardinality(open') <= Cardinality(open)
  BY <1>1, FS_Subset
<1>3. IsFiniteSet(PendingBuys') /\ Cardinality(PendingBuys') <= Cardinality(PendingBuys)
  BY <1>1, FS_Subset
<1>4. /\ Cardinality(open) \in Nat /\ Cardinality(open') \in Nat
      /\ Cardinality(PendingBuys) \in Nat /\ Cardinality(PendingBuys') \in Nat
  BY <1>1, <1>2, <1>3, FS_CardinalityType
<1>5. MaxOpen \in Nat
  BY EngineAssumption
<1> QED BY <1>1, <1>2, <1>3, <1>4, <1>5 DEF ExposureCapped

\* Only a death counts as one.
LEMMA DeathsCounted ==
  ASSUME [Next]_vars, ~Crash, ~Stop PROVE crashes' = crashes
<1> USE DEF Unevaluated, Unresolved
<1>1. ASSUME NEW m \in Mints, World(m) PROVE crashes' = crashes
  BY <1>1 DEF World, Discover, Snapshot, GoStale, Data, Cool, LatchElapses, Forget
<1>2. ASSUME NEW m \in Mints, Evaluate(m) PROVE crashes' = crashes
  BY <1>2 DEF Evaluate, Resume, Expire, LoseData, Reject, Qualify, Pursue, Renew, GiveUp
<1>3. ASSUME NEW m \in Mints, QuoteTask(m) PROVE crashes' = crashes
  BY <1>3 DEF QuoteTask, Capture, QuoteDropped, QuoteFailed, QuoteFatal, SignalBuy
<1>4. ASSUME NEW m \in Mints, CancelStale(m) \/ SignalSell(m) \/ Apply(m) PROVE crashes' = crashes
  BY <1>4 DEF CancelStale, SignalSell, Apply
<1>5. CASE CollectAny
  BY <1>5 DEF CollectAny, Collect
<1>6. CASE Human
  BY <1>6 DEF Human, Confirm, Decline
<1>7. ASSUME NEW a \in Bookers, Save(a) PROVE crashes' = crashes
  BY <1>7 DEF Save, SavePosition, SaveAccount
<1>8. CASE Restart \/ UNCHANGED vars
  BY <1>8 DEF Restart, vars
<1> QED BY <1>1, <1>2, <1>3, <1>4, <1>5, <1>6, <1>7, <1>8 DEF Next

\* A human's decision is booked at once.
LEMMA NothingConfirmed ==
  ASSUME OwnInv, ~AutoConfirm, [Next]_vars, \A m \in Mints : due[m] = "none"
  PROVE  \A m \in Mints : due'[m] = "none"
<1> USE DEF Unevaluated, Unresolved
<1>1. ASSUME NEW m \in Mints, World(m) \/ Evaluate(m) \/ QuoteTask(m) PROVE due' = due
  <2>1. CASE SignalBuy(m)
    BY <2>1 DEF SignalBuy
  <2> QED BY <1>1, <2>1, LooseSteps
<1>2. ASSUME NEW m \in Mints, CancelStale(m) \/ SignalSell(m) PROVE due' = due
  BY <1>2 DEF CancelStale, SignalSell
<1>3. ASSUME NEW m \in Mints, Apply(m) PROVE FALSE
  BY <1>3 DEF Apply
<1>4. CASE CollectAny
  <2>1. PICK expired \in SUBSET Pending : due' = [m \in Mints |-> IF m \in {} THEN order[m] ELSE due[m]]
    BY <1>4 DEF CollectAny, Collect
  <2> QED BY <2>1
<1>5. CASE Human
  BY <1>5 DEF Human, Confirm, Decline
<1>6. ASSUME NEW a \in Bookers, Save(a) PROVE due' = due
  BY <1>6 DEF Save, SavePosition, SaveAccount
<1>7. CASE Crash \/ Stop
  BY <1>7 DEF Crash, Stop, Die
<1>8. CASE Restart \/ UNCHANGED vars
  BY <1>8 DEF Restart, vars
<1> QED BY <1>1, <1>2, <1>3, <1>4, <1>5, <1>6, <1>7, <1>8 DEF Next

\* The steps that make room, or change nothing about it.
LEMMA CapFrame ==
  ASSUME CapInv, OwnInv', \A m \in Mints : due'[m] = "none", crashes' = crashes,
         crashes = 0 => phase' = "running", open' \subseteq open,
         \A m \in Mints : order'[m] = "buy" => order[m] = "buy"
  PROVE  CapInv'
<1>1. PendingBuys' \subseteq PendingBuys
  BY DEF PendingBuys
<1> QED BY <1>1, CapShrinks

\* One BUY more is pending, within the size asked for after the quote.
LEMMA CapSignal ==
  ASSUME CapInv, NEW m \in Mints, SignalBuy(m), OwnInv', \A n \in Mints : due'[n] = "none"
  PROVE  CapInv'
<1>1. /\ order' = [order EXCEPT ![m] = "buy"] /\ open' = open /\ crashes' = crashes /\ CanSize
      /\ phase' = phase
  BY DEF SignalBuy, Signallable
<1> SUFFICES ASSUME crashes = 0 PROVE IsFiniteSet(PendingBuys') /\ ExposureCapped'
  BY <1>1 DEF CapInv
<1>2. IsFiniteSet(open) /\ IsFiniteSet(PendingBuys)
  BY DEF CapInv
<1>3. PendingBuys' = PendingBuys \cup {m}
  BY <1>1 DEF PendingBuys, CapInv, OwnInv, TypeOK
<1>4. /\ IsFiniteSet(PendingBuys')
      /\ Cardinality(PendingBuys') \in {Cardinality(PendingBuys), Cardinality(PendingBuys) + 1}
  BY <1>2, <1>3, FS_AddElement
<1>5. Cardinality(open) \in Nat /\ Cardinality(PendingBuys) \in Nat /\ MaxOpen \in Nat
  BY <1>2, FS_CardinalityType, EngineAssumption
<1>6. Cardinality(open) + Cardinality(PendingBuys) < MaxOpen /\ Cardinality(open') = Cardinality(open)
  BY <1>1 DEF CanSize
<1> QED BY <1>4, <1>5, <1>6 DEF ExposureCapped

\* A pending BUY becomes a position.
LEMMA CapBuy ==
  ASSUME CapInv, NEW a \in Bookers, NEW m \in Mints, NEW p \in Slots, BuyStarts(a, m, p),
         OwnInv', \A n \in Mints : due'[n] = "none", crashes' = crashes
  PROVE  CapInv'
<1>1. /\ order[m] = "buy" /\ order'[m] = "none" /\ open' = open \cup {p} /\ p \notin open
      /\ \A n \in Mints \ {m} : order'[n] = order[n]
      /\ phase' = phase
  BY DEF BuyStarts, Settled, FreeSlots, CapInv
<1> SUFFICES ASSUME crashes = 0
             PROVE  IsFiniteSet(open') /\ IsFiniteSet(PendingBuys') /\ ExposureCapped'
  BY <1>1 DEF CapInv
<1>2. IsFiniteSet(open) /\ IsFiniteSet(PendingBuys)
  BY DEF CapInv
<1>3. PendingBuys' = PendingBuys \ {m} /\ m \in PendingBuys
  BY <1>1 DEF PendingBuys
<1>4. /\ IsFiniteSet(PendingBuys') /\ Cardinality(PendingBuys') = Cardinality(PendingBuys) - 1
  BY <1>2, <1>3, FS_RemoveElement
<1>5. IsFiniteSet(open') /\ Cardinality(open') = Cardinality(open) + 1
  BY <1>1, <1>2, FS_AddElement
<1>6. Cardinality(open) \in Nat /\ Cardinality(PendingBuys) \in Nat /\ MaxOpen \in Nat
  BY <1>2, FS_CardinalityType, EngineAssumption
<1>7. Cardinality(open) + Cardinality(PendingBuys) <= MaxOpen
  BY DEF CapInv, ExposureCapped
<1> QED BY <1>4, <1>5, <1>6, <1>7 DEF ExposureCapped

LEMMA CapNext ==
  ASSUME ~AutoConfirm PROVE CapInv /\ [Next]_vars => CapInv'
<1> SUFFICES ASSUME CapInv, [Next]_vars PROVE CapInv'
  OBVIOUS
<1>1. OwnInv /\ OwnInv' /\ \A m \in Mints : due[m] = "none" /\ due'[m] = "none"
  BY OwnNext, NothingConfirmed DEF CapInv
<1>2. CASE Crash \/ Stop
  <2>1. crashes' = crashes + 1 /\ crashes \in Nat
    BY <1>1, <1>2 DEF Crash, Stop, Die, OwnInv, TypeOK
  <2>2. crashes' # 0
    BY <2>1
  <2> QED BY <1>1, <2>2 DEF CapInv
<1> SUFFICES ASSUME crashes' = crashes PROVE CapInv'
  BY <1>2, DeathsCounted
<1>3. ASSUME NEW m \in Mints, World(m) \/ Evaluate(m) \/ (QuoteTask(m) /\ ~SignalBuy(m))
      PROVE  CapInv'
  <2>1. UNCHANGED <<order, open, phase>>
    BY <1>1, <1>3, LooseSteps
  <2> QED BY <1>1, <2>1, CapFrame DEF CapInv
<1>4. ASSUME NEW m \in Mints, SignalBuy(m) PROVE CapInv'
  BY <1>1, <1>4, CapSignal
<1>5. ASSUME NEW m \in Mints, SignalSell(m) PROVE CapInv'
  <2>1. order' = [order EXCEPT ![m] = "sell"] /\ open' = open /\ phase' = phase
    BY <1>5 DEF SignalSell, Unresolved
  <2>2. \A n \in Mints : order'[n] = "buy" => order[n] = "buy"
    BY <1>1, <2>1 DEF OwnInv, TypeOK
  <2> QED BY <1>1, <2>1, <2>2, CapFrame DEF CapInv
<1>6. ASSUME NEW S, Decision(S) PROVE CapInv'
  <2>1. /\ \A n \in Mints : order'[n] = "buy" => order[n] = "buy"
        /\ open' = open /\ phase' = phase
    BY <1>6 DEF Decision
  <2> QED BY <1>1, <2>1, CapFrame DEF CapInv
<1>7. ASSUME NEW m \in Mints,
             CancelStale(m) \/ Apply(m) \/ \E h \in Handlers : Confirm(h, m) \/ Decline(h, m)
      PROVE  CapInv'
  <2>1. ASSUME NEW a \in Bookers, NEW p \in Slots, BuyStarts(a, m, p) PROVE CapInv'
    BY <1>1, <2>1, CapBuy
  <2>2. ASSUME NEW a \in Bookers, SellStarts(a, m) PROVE CapInv'
    <3>1. /\ \A n \in Mints : order'[n] = "buy" => order[n] = "buy"
          /\ open' \subseteq open /\ phase' = phase
      BY <2>2 DEF SellStarts, Settled
    <3> QED BY <1>1, <3>1, CapFrame DEF CapInv
  <2> QED BY <1>1, <1>6, <1>7, <2>1, <2>2, Decides
<1>8. CASE CollectAny
  BY <1>1, <1>6, <1>8, Collects
<1>9. ASSUME NEW a \in Bookers, Save(a) PROVE CapInv'
  <2>1. UNCHANGED <<order, open, phase>>
    BY <1>9 DEF Save, SavePosition, SaveAccount
  <2> QED BY <1>1, <2>1, CapFrame DEF CapInv
<1>10. CASE Restart
  BY <1>1, <1>10 DEF Restart, CapInv
<1>11. CASE UNCHANGED vars
  BY <1>1, <1>11, CapFrame DEF vars, CapInv
<1> QED
  BY <1>2, <1>3, <1>4, <1>5, <1>7, <1>8, <1>9, <1>10, <1>11 DEF Next, Human

\* When a human confirms, concurrent quote tasks never promise more positions
\* than max_open_positions, until the process first dies: a SELL whose row was
\* not committed comes back as a position then.
THEOREM CappedExposure ==
  ASSUME ~AutoConfirm PROVE Spec => [](crashes = 0 => ExposureCapped)
<1>1. Init => CapInv
  <2> SUFFICES ASSUME Init PROVE CapInv
    OBVIOUS
  <2>1. open = {} /\ PendingBuys = {} /\ phase = "running" /\ \A m \in Mints : due[m] = "none"
    BY DEF Init, PendingBuys
  <2>2. MaxOpen \in Nat
    BY EngineAssumption
  <2> QED BY <2>1, <2>2, OwnInit, FS_EmptySet DEF CapInv, ExposureCapped
<1>2. CapInv => (crashes = 0 => ExposureCapped)
  BY DEF CapInv
<1> QED BY <1>1, <1>2, CapNext, PTL DEF Spec
=============================================================================
