-------------------------- MODULE AutonomousProofs --------------------------
(***************************************************************************)
(* Theorems about Autonomous, for every value of its constants: its types, *)
(* the tasks, rows and swaps that agree (InductiveInvariant), and on top   *)
(* of it what the rails promise: the markers, the swaps that landed, one   *)
(* position per mint, the daily cap and the reserve.                       *)
(***************************************************************************)
EXTENDS Autonomous, DataLemmas, TLAPS

\* The frames of the actions, down to the variables.
USE DEF chain, markers, db, book, ticker, account, history

----------------------------------------------------------------------------
(* Types of the pieces the actions are made of *)

\* Queues keep their element type when they grow or lose their head.
LEMMA SequenceTypes ==
  ASSUME NEW S, NEW q \in Seq(S)
  PROVE  /\ <<>> \in Seq(S)
         /\ \A e \in S : Append(q, e) \in Seq(S)
         /\ q # <<>> => Head(q) \in S /\ Tail(q) \in Seq(S)
OBVIOUS

\* Counters stay natural when a key of theirs goes up, or down by what it holds.
LEMMA CountType ==
  ASSUME NEW S, NEW f \in [S -> Nat], NEW x \in S, NEW n \in Nat
  PROVE  /\ [f EXCEPT ![x] = @ + n] \in [S -> Nat]
         /\ f[x] >= n => [f EXCEPT ![x] = @ - n] \in [S -> Nat]
OBVIOUS

\* The task that holds _send_lock is a well-formed job.
LEMMA HolderType ==
  ASSUME TypeOK, NEW pc, At(pc) PROVE job \in JobRecord /\ job.o \in Orders
BY DEF TypeOK, At, JobRecord

\* Moving the task to its next await keeps it well formed.
LEMMA GotoType ==
  ASSUME job \in JobRecord, NEW pc \in JobSteps, Goto(pc) PROVE job' \in JobRecord
BY DEF Goto, JobRecord

\* Giving the intent up keeps the task well formed.
LEMMA AbandonType ==
  ASSUME job \in JobRecord, NEW s \in Statuses, NEW d \in BOOLEAN, Abandon(s, d)
  PROVE  job' \in JobRecord
BY DEF Abandon, JobRecord, JobSteps

\* A commit of an intent row, failed or not, leaves well-formed rows.
LEMMA CommitRowType ==
  ASSUME row \in [Orders -> IntentRow], NEW o \in Orders, NEW r \in IntentRow, CommitRow(o, r)
  PROVE  row' \in [Orders -> IntentRow]
BY DEF CommitRow, IntentRow

\* The rows the executor, the tick and recover() write are well formed.
LEMMA RowTypes ==
  /\ NoRow \in IntentRow /\ SentRow \in IntentRow
  /\ \A fill \in BOOLEAN : Confirmed(fill) \in IntentRow
  /\ \A s \in Statuses, sent \in BOOLEAN :
        [NoRow EXCEPT !.status = s, !.sentAt = sent] \in IntentRow
  /\ \A s \in Statuses : [NoRow EXCEPT !.status = s] \in IntentRow
  /\ \A r \in IntentRow, s \in Statuses : [r EXCEPT !.status = s] \in IntentRow
  /\ \A r \in IntentRow : Booked(r) \in IntentRow
BY DEF IntentRow, NoRow, SentRow, Confirmed, Booked, Statuses

\* Handing an outcome to _finished keeps the queue well formed.
LEMMA FinishType ==
  ASSUME TypeOK, NEW c \in BOOLEAN, Finish(c), job \in JobRecord
  PROVE  finished' \in Seq(Outcome) /\ job' = None
<1>1. [o |-> job.o, confirmed |-> c] \in Outcome
  BY DEF Outcome, JobRecord
<1>2. finished \in Seq(Outcome)
  BY DEF TypeOK
<1> QED BY <1>1, <1>2, SequenceTypes DEF Finish

\* Every launched order is for a known mint.
LEMMA MintForType ==
  ASSUME TypeOK, NEW o \in Orders, o \in Sells => target[o] \in Buys
  PROVE  MintFor(o) \in Mints /\ Held(o) \in Nat
BY AutonomousAssumption DEF TypeOK, MintFor, Held, Mints, Orders

\* clamp_spend never returns a negative amount.
LEMMA ClampSpendType ==
  ASSUME TypeOK, NEW o \in Orders PROVE ClampSpend(o) \in Nat
<1>1. ask[o] \in Nat
  BY AutonomousAssumption DEF TypeOK
<1>2. wallet \in Nat
  BY DEF TypeOK
<1>3. MaxTrade \in Nat /\ Reserve \in Nat
  BY AutonomousAssumption
<1>4. SmallerOf(SmallerOf(ask[o], MaxTrade), Balance - Reserve) \in Int
  BY <1>1, <1>2, <1>3 DEF SmallerOf, Balance
<1> QED BY <1>4 DEF ClampSpend

\* Booking keeps cash natural: open_position refuses what it cannot pay.
LEMMA BookType ==
  ASSUME TypeOK, NEW o \in Orders, Bookable(o), Book(o)
  PROVE  pos' \in [Buys -> {"none", "open", "closed"}] /\ cash' \in Nat
<1>1. pos \in [Buys -> {"none", "open", "closed"}] /\ cash \in Nat /\ amt[o] \in Nat /\ Fee \in Nat
  BY AutonomousAssumption DEF TypeOK
<1>2. CASE o \in Buys
  <2>1. cash' = cash - (amt[o] + Fee) /\ amt[o] + Fee <= cash
    BY <1>2 DEF Bookable, Book, OpenPosition, Affordable
  <2>2. pos' = [pos EXCEPT ![o] = "open"]
    BY <1>2 DEF Book, OpenPosition
  <2>3. cash' \in Nat
    BY <1>1, <2>1
  <2>4. pos' \in [Buys -> {"none", "open", "closed"}]
    BY <1>1, <2>2
  <2> QED BY <2>3, <2>4
<1>3. CASE o \notin Buys
  <2>1. cash' = cash + Proceeds(o) /\ Proceeds(o) \in Nat
    BY <1>1, <1>3 DEF Book, ClosePosition, Proceeds
  <2>2. pos' = [pos EXCEPT ![target[o]] = "closed"]
    BY <1>3 DEF Book, ClosePosition
  <2>3. cash' \in Nat
    BY <1>1, <2>1
  <2>4. pos' \in [Buys -> {"none", "open", "closed"}]
    BY <1>1, <2>2
  <2> QED BY <2>3, <2>4
<1> QED BY <1>2, <1>3

----------------------------------------------------------------------------
(* Type correctness *)

\* Start-up state is well typed.
LEMMA TypeInit == Init => TypeOK
<1> SUFFICES ASSUME Init PROVE TypeOK
  OBVIOUS
<1>1. /\ tx \in [Orders -> TxStates]
      /\ order \in [Orders -> {"free", "pending", "resolved"}]
  BY DEF Init, TxStates
<1>2. tokens \in [Mints -> Nat] /\ target \in [Sells -> Buys \cup {None}]
  BY DEF Init
<1>3. row \in [Orders -> IntentRow]
  BY RowTypes DEF Init
<1>4. waiting \in Seq(Orders) /\ finished \in Seq(Outcome) /\ out \in Seq(Outcome)
  BY DEF Init
<1>5. {wallet, dbCash, cash, crashes, commands} \subseteq Nat
  BY AutonomousAssumption DEF Init
<1>6. {dbFill, dbLedger, ask, amt, sends} \subseteq [Orders -> Nat]
  BY DEF Init
<1>7. {dbPos, pos} \subseteq [Buys -> {"none", "open", "closed"}]
  BY DEF Init
<1> QED
  BY <1>1, <1>2, <1>3, <1>4, <1>5, <1>6, <1>7 DEF Init, TypeOK

\* Submitting and withdrawing orders keeps types.
LEMMA EngineTypes == ASSUME Inductive, Engine PROVE TypeOK'
<1> USE DEF Inductive
<1>1. ASSUME NEW b \in Buys, SubmitBuy(b) PROVE TypeOK'
  <2>1. ask' \in [Orders -> Nat] /\ order' \in [Orders -> {"free", "pending", "resolved"}]
    BY SMTT(30), <1>1, AutonomousAssumption DEF TypeOK, SubmitBuy, Orders
  <2> QED BY <1>1, <2>1 DEF TypeOK, SubmitBuy
<1>2. ASSUME NEW s \in Sells, SubmitSell(s) PROVE TypeOK'
  <2>1. /\ target' \in [Sells -> Buys \cup {None}]
        /\ order' \in [Orders -> {"free", "pending", "resolved"}]
    BY SMTT(30), <1>2 DEF TypeOK, SubmitSell, Orders, Open
  <2> QED BY <1>2, <2>1 DEF TypeOK, SubmitSell
<1>3. ASSUME NEW o \in Orders, Withdraw(o) PROVE TypeOK'
  BY <1>3 DEF TypeOK, Withdraw
<1> QED BY <1>1, <1>2, <1>3 DEF Engine

\* Every await of the order task keeps types.
LEMMA ExecutorTypes == ASSUME Inductive, Executor PROVE TypeOK'
<1> USE DEF Inductive, Unexecuted
<1>1. CASE AcquireLock
  <2>1. Head(waiting) \in Orders /\ waiting' \in Seq(Orders)
    BY <1>1, SequenceTypes DEF TypeOK, AcquireLock
  <2>2. job' \in JobRecord
    BY <1>1, <2>1 DEF TypeOK, AcquireLock, NewJob, JobRecord, JobSteps, Statuses
  <2> QED BY <1>1, <2>1, <2>2 DEF TypeOK, AcquireLock
<1>2. CASE ReadBalance
  <2>1. job \in JobRecord /\ job.o \in Orders
    BY <1>2, HolderType DEF ReadBalance
  <2>2. job' \in JobRecord
    BY <1>2, <2>1, GotoType, AbandonType DEF ReadBalance, JobSteps, Statuses, JobRecord
  <2>3. amt' \in [Orders -> Nat]
    BY <1>2, <2>1, ClampSpendType DEF TypeOK, ReadBalance
  <2> QED BY <1>2, <2>2, <2>3 DEF TypeOK, ReadBalance
<1>3. CASE ReadTokens
  <2>1. job \in JobRecord /\ job.o \in Orders
    BY <1>3, HolderType DEF ReadTokens
  <2>2. job' \in JobRecord
    BY <1>3, <2>1, GotoType, AbandonType DEF ReadTokens, JobSteps, Statuses
  <2>3. Held(job.o) \in Nat
    BY <1>3, <2>1, MintForType DEF TasksOnce, ReadTokens, At
  <2>4. amt' \in [Orders -> Nat]
    BY <1>3, <2>1, <2>3 DEF TypeOK, ReadTokens
  <2> QED BY <1>3, <2>2, <2>4 DEF TypeOK, ReadTokens
<1>4. CASE FreshQuote
  <2>1. job' \in JobRecord
    BY <1>4, HolderType, GotoType, AbandonType DEF FreshQuote, JobSteps, Statuses
  <2> QED BY <1>4, <2>1 DEF TypeOK, FreshQuote
<1>5. CASE SavePrepared
  <2>1. job' \in JobRecord
    BY <1>5, HolderType, GotoType DEF SavePrepared, JobSteps
  <2>2. row' \in [Orders -> IntentRow]
    BY <1>5, HolderType, CommitRowType, RowTypes DEF TypeOK, SavePrepared, Statuses
  <2> QED BY <1>5, <2>1, <2>2 DEF TypeOK, SavePrepared
<1>6. CASE BuildAndSign
  <2>1. job' \in JobRecord
    BY <1>6, HolderType, GotoType, AbandonType DEF BuildAndSign, JobSteps, Statuses
  <2> QED BY <1>6, <2>1 DEF TypeOK, BuildAndSign
<1>7. CASE SaveBuilt
  <2>1. job' \in JobRecord
    BY <1>7, HolderType, GotoType DEF SaveBuilt, JobSteps
  <2>2. row' \in [Orders -> IntentRow]
    BY <1>7, HolderType, CommitRowType, RowTypes DEF TypeOK, SaveBuilt, Statuses
  <2> QED BY <1>7, <2>1, <2>2 DEF TypeOK, SaveBuilt
<1>8. CASE Submit
  <2>1. job \in JobRecord /\ job.o \in Orders
    BY <1>8, HolderType DEF Submit
  <2>2. job' \in JobRecord
    BY <1>8, <2>1, GotoType, AbandonType DEF Submit, JobSteps, Statuses
  <2>3. tx' \in [Orders -> TxStates]
    BY <1>8, <2>1 DEF TypeOK, Submit, TxStates
  <2>4. sends' \in [Orders -> Nat]
    <3>1. sends \in [Orders -> Nat] /\ sends' = [sends EXCEPT ![job.o] = @ + 1]
      BY <1>8 DEF TypeOK, Submit
    <3> QED BY <2>1, <3>1, CountType
  <2>5. lateSends' \subseteq Orders /\ lateBuys' \subseteq Orders
    BY <1>8, <2>1 DEF TypeOK, Submit
  <2> QED BY <1>8, <2>2, <2>3, <2>5, <2>4 DEF TypeOK, Submit
<1>9. CASE SaveSent
  <2>1. job \in JobRecord /\ job.o \in Orders
    BY <1>9, HolderType DEF SaveSent
  <2>2. job' \in JobRecord
    BY <1>9, <2>1, GotoType DEF SaveSent, JobSteps
  <2>3. row' \in [Orders -> IntentRow]
    BY <1>9, <2>1, CommitRowType, RowTypes DEF TypeOK, SaveSent
  <2> QED BY <1>9, <2>2, <2>3 DEF TypeOK, SaveSent
<1>10. CASE AwaitConfirmation \/ ReadHeight \/ PollsRunOut
  <2>1. job' \in JobRecord
    BY <1>10, HolderType, GotoType, AbandonType DEF AwaitConfirmation, ReadHeight, PollsRunOut,
        JobSteps, Statuses
  <2> QED BY <1>10, <2>1 DEF TypeOK, AwaitConfirmation, ReadHeight, PollsRunOut
<1>11. CASE SaveConfirmed
  <2>1. job \in JobRecord /\ job.o \in Orders
    BY <1>11, HolderType DEF SaveConfirmed
  <2>2. row' \in [Orders -> IntentRow]
    BY <1>11, <2>1, CommitRowType, RowTypes DEF TypeOK, SaveConfirmed
  <2>3. finished' \in Seq(Outcome) /\ job' = None
    BY <1>11, <2>1, FinishType DEF SaveConfirmed
  <2> QED BY <1>11, <2>2, <2>3 DEF TypeOK, SaveConfirmed
<1>12. CASE SaveUnknown
  <2>1. job \in JobRecord /\ job.o \in Orders
    BY <1>12, HolderType DEF SaveUnknown
  <2>2. row' \in [Orders -> IntentRow]
    BY <1>12, <2>1, CommitRowType, RowTypes DEF TypeOK, SaveUnknown
  <2>3. finished' \in Seq(Outcome) /\ job' = None
    BY <1>12, <2>1, FinishType DEF SaveUnknown
  <2>4. orphaned' \subseteq Orders
    BY <1>12, <2>1 DEF TypeOK, SaveUnknown, GiveUp
  <2> QED BY <1>12, <2>2, <2>3, <2>4 DEF TypeOK, SaveUnknown
<1>13. CASE SaveAbandoned
  <2>1. job \in JobRecord /\ job.o \in Orders
    BY <1>13, HolderType DEF SaveAbandoned
  <2>2. row' \in [Orders -> IntentRow]
    BY <1>13, <2>1, CommitRowType, RowTypes DEF TypeOK, SaveAbandoned, JobRecord
  <2>3. finished' \in Seq(Outcome) /\ job' = None
    BY <1>13, <2>1, FinishType DEF SaveAbandoned
  <2>4. armed' \in BOOLEAN
    BY <1>13 DEF SaveAbandoned
  <2>5. orphaned' \subseteq Orders
    BY <1>13, <2>1 DEF TypeOK, SaveAbandoned, GiveUp
  <2> QED BY <1>13, <2>2, <2>3, <2>4, <2>5 DEF TypeOK, SaveAbandoned
<1> QED
  BY <1>1, <1>2, <1>3, <1>4, <1>5, <1>6, <1>7, <1>8, <1>9, <1>10, <1>11, <1>12, <1>13
  DEF Executor

\* Launching, collecting, applying and persisting keep types.
LEMMA TickTypes == ASSUME Inductive, Tick PROVE TypeOK'
<1> USE DEF Inductive, Untouched
<1>1. ASSUME NEW o \in Orders, Launch(o) PROVE TypeOK'
  <2>1. waiting' \in Seq(Orders)
    BY <1>1, SequenceTypes DEF TypeOK, Launch
  <2>2. launched' \subseteq Orders /\ tasks' \subseteq Orders
    BY <1>1 DEF TypeOK, Launch
  <2> QED BY <1>1, <2>1, <2>2 DEF TypeOK, Launch
<1>2. CASE Collect
  <2>1. finished \in Seq(Outcome) /\ out \in Seq(Outcome)
    BY DEF TypeOK
  <2>2. Head(finished) \in Outcome /\ finished' \in Seq(Outcome)
    BY <1>2, <2>1, SequenceTypes DEF Collect
  <2>3. out' \in Seq(Outcome)
    <3>1. out' = <<>> \/ out' = Append(out, Head(finished))
      BY <1>2 DEF Collect
    <3> QED BY <2>1, <2>2, <3>1, SequenceTypes
  <2>4. row' \in [Orders -> IntentRow]
    BY <1>2, <2>2, CommitRowType, RowTypes DEF TypeOK, Collect, Outcome
  <2>5. order' \in [Orders -> {"free", "pending", "resolved"}] /\ tasks' \subseteq Orders
    BY <1>2 DEF TypeOK, Collect
  <2> QED BY <1>2, <2>2, <2>3, <2>4, <2>5 DEF TypeOK, Collect
<1>3. CASE Apply
  <2>1. Head(out) \in Outcome /\ out' \in Seq(Outcome)
    BY <1>3, SequenceTypes DEF TypeOK, Apply
  <2>2. /\ pos' \in [Buys -> {"none", "open", "closed"}] /\ cash' \in Nat
        /\ persist' \in [of : Orders, steps : Seq(Commits) \ {<<>>}] \cup {NoBooking}
    <3>1. CASE Head(out).confirmed /\ Bookable(Head(out).o)
      <4>1. Book(Head(out).o) /\ persist' = [of |-> Head(out).o, steps |-> BookingSteps]
        BY <1>3, <3>1 DEF Apply
      <4>2. BookingSteps \in Seq(Commits) \ {<<>>}
        BY DEF BookingSteps, Commits
      <4> QED BY <2>1, <3>1, <4>1, <4>2, BookType DEF Outcome
    <3>2. CASE ~(Head(out).confirmed /\ Bookable(Head(out).o))
      BY <1>3, <3>2 DEF TypeOK, Apply
    <3> QED BY <3>1, <3>2
  <2>3. applying' \in BOOLEAN
    BY <1>3 DEF Apply
  <2> QED BY <1>3, <2>1, <2>2, <2>3 DEF TypeOK, Apply
<1>4. CASE PersistStep
  <2>1. persist \in [of : Orders, steps : Seq(Commits) \ {<<>>}]
    BY <1>4 DEF TypeOK, PersistStep
  <2>2. persist' \in [of : Orders, steps : Seq(Commits) \ {<<>>}] \cup {NoBooking}
    BY <1>4, <2>1, SequenceTypes DEF PersistStep
  <2>3. PICK ok \in BOOLEAN : IF ok THEN Commit(persist.of, Head(persist.steps)) ELSE UNCHANGED db
    BY <1>4, AutonomousAssumption DEF PersistStep
  <2>4. row' \in [Orders -> IntentRow]
    <3>1. \/ row' = row
          \/ row' = [row EXCEPT ![persist.of] = Booked(@)]
      BY <2>3 DEF Commit
    <3>2. row \in [Orders -> IntentRow] /\ persist.of \in Orders
      BY <2>1 DEF TypeOK
    <3>3. Booked(row[persist.of]) \in IntentRow
      BY <3>2, RowTypes
    <3> QED BY <3>1, <3>2, <3>3
  <2>5. dbPos' \in [Buys -> {"none", "open", "closed"}]
    BY <2>1, <2>3 DEF TypeOK, Commit
  <2>6. dbCash' \in Nat
    BY <2>3 DEF TypeOK, Commit
  <2>7. dbFill' \in [Orders -> Nat] /\ dbLedger' \in [Orders -> Nat]
    <3>1. dbFill' = dbFill \/ dbFill' = [dbFill EXCEPT ![persist.of] = @ + 1]
      BY <2>3 DEF Commit
    <3>2. dbLedger' = dbLedger \/ dbLedger' = [dbLedger EXCEPT ![persist.of] = @ + 1]
      BY <2>3 DEF Commit
    <3>3. persist.of \in Orders
      BY <2>1
    <3>4. dbFill \in [Orders -> Nat] /\ dbLedger \in [Orders -> Nat]
      BY DEF TypeOK
    <3>5. dbFill' \in [Orders -> Nat]
      BY <3>1, <3>3, <3>4, CountType
    <3>6. dbLedger' \in [Orders -> Nat]
      BY <3>2, <3>3, <3>4, CountType
    <3> QED BY <3>5, <3>6
  <2> QED BY <1>4, <2>2, <2>4, <2>5, <2>6, <2>7 DEF TypeOK, PersistStep
<1> QED BY <1>1, <1>2, <1>3, <1>4 DEF Tick

\* A crash or stop keeps types, whatever the database was left with.
LEMMA DieTypes == ASSUME TypeOK, Die, dbCash' \in Nat,
                         dbPos' \in [Buys -> {"none", "open", "closed"}]
                  PROVE  TypeOK'
<1>1. order' \in [Orders -> {"free", "pending", "resolved"}]
  BY DEF TypeOK, Die
<1>2. pos' \in [Buys -> {"none", "open", "closed"}] /\ cash' \in Nat /\ crashes' \in Nat
  BY DEF TypeOK, Die
<1>3. waiting' \in Seq(Orders) /\ finished' \in Seq(Outcome) /\ out' \in Seq(Outcome)
  BY DEF Die
<1>4. /\ job' = None /\ launched' = {} /\ tasks' = {} /\ todo' = {} /\ spentBy' = {}
      /\ persist' = NoBooking /\ phase' = "down" /\ applying' = FALSE
  BY DEF Die
<1>5. orphaned' \subseteq Orders
  BY DEF TypeOK, Die
<1>6. UNCHANGED <<chain, markers, row, dbFill, dbLedger, ask, target, amt, commands, sends,
                  lateSends, lateBuys>>
  BY DEF Die
<1> QED BY <1>1, <1>2, <1>3, <1>4, <1>5, <1>6 DEF TypeOK

\* Restart and recover() keep types.
LEMMA RecoveryTypes == ASSUME Inductive, Recovery PROVE TypeOK'
<1> USE DEF Inductive
<1>1. CASE Restart
  <2>1. pos' \in [Buys -> {"none", "open", "closed"}] /\ cash' \in Nat
    BY <1>1 DEF TypeOK, Restart
  <2>2. spentBy' \subseteq Buys /\ todo' \subseteq Orders /\ phase' = "recovering"
    BY <1>1 DEF Restart
  <2> QED BY <1>1, <2>1, <2>2 DEF TypeOK, Restart
<1>2. ASSUME NEW o \in Orders, Reconcile(o) PROVE TypeOK'
  <2>1. row' \in [Orders -> IntentRow]
    BY <1>2, CommitRowType, RowTypes DEF TypeOK, Reconcile, Settle, Statuses
  <2>2. CASE UNCHANGED <<account, persist>>
    BY <1>2, <2>1, <2>2 DEF TypeOK, Reconcile
  <2>3. CASE ~UNCHANGED <<account, persist>>
    <3>1. /\ Bookable(o) /\ Book(o)
          /\ persist' = [of |-> o, steps |-> Append(BookingSteps, "intent")]
      BY <1>2, <2>3 DEF Reconcile, RecoverBookable
    <3>2. Append(BookingSteps, "intent") \in Seq(Commits) \ {<<>>}
      BY DEF BookingSteps, Commits
    <3>3. persist' \in [of : Orders, steps : Seq(Commits) \ {<<>>}]
      BY <3>1, <3>2
    <3> QED BY <1>2, <2>1, <3>1, <3>3, BookType DEF TypeOK, Reconcile
  <2> QED BY <2>2, <2>3
<1>3. CASE StartEngine
  BY <1>3 DEF TypeOK, StartEngine
<1> QED BY <1>1, <1>2, <1>3 DEF Recovery

\* What the chain does with a transaction keeps types.
LEMMA ChainTypes == ASSUME Inductive, Chain PROVE TypeOK'
<1> USE DEF Inductive, Offchain
<1> PICK o \in Orders : Land(o) \/ FailOnChain(o) \/ BlockhashExpires(o)
  BY DEF Chain
<1>1. amt[o] \in Nat /\ Fee \in Nat /\ wallet \in Nat
  BY AutonomousAssumption DEF TypeOK
<1>2. CASE Land(o)
  <2>1. tx' \in [Orders -> TxStates]
    BY <1>2 DEF TypeOK, Land, TxStates
  <2>2. wallet' \in Nat
    BY <1>1, <1>2 DEF Land
  <2>3. tokens' \in [Mints -> Nat]
    <3>1. tokens \in [Mints -> Nat]
      BY DEF TypeOK
    <3>2. \/ tokens' = [tokens EXCEPT ![MintFor(o)] = @ + amt[o]]
          \/ /\ tokens' = [tokens EXCEPT ![MintFor(o)] = @ - amt[o]]
             /\ tokens[MintFor(o)] >= amt[o]
      BY <1>2 DEF Land, Held
    <3>3. CASE MintFor(o) \in Mints
      BY <1>1, <3>1, <3>2, <3>3, CountType
    <3>4. CASE MintFor(o) \notin Mints
      BY <3>1, <3>2, <3>4
    <3> QED BY <3>3, <3>4
  <2> QED BY <1>2, <2>1, <2>2, <2>3 DEF TypeOK, Land
<1>3. CASE FailOnChain(o)
  <2>1. tx' \in [Orders -> TxStates]
    BY <1>3 DEF TypeOK, FailOnChain, TxStates
  <2>2. wallet' \in Nat
    BY <1>1, <1>3 DEF FailOnChain
  <2> QED BY <1>3, <2>1, <2>2 DEF TypeOK, FailOnChain
<1>4. CASE BlockhashExpires(o)
  <2>1. tx' \in [Orders -> TxStates]
    BY <1>4 DEF TypeOK, BlockhashExpires, TxStates
  <2> QED BY <1>4, <2>1 DEF TypeOK, BlockhashExpires
<1> QED BY <1>2, <1>3, <1>4

\* The marker commands keep types.
LEMMA OperatorTypes == ASSUME TypeOK, Operator PROVE TypeOK'
<1>1. commands' \in Nat
  BY DEF TypeOK, Operator, Operate, Arm, Disarm, Kill, Resume
<1>2. armed' \in BOOLEAN /\ kill' \in BOOLEAN
  BY DEF TypeOK, Operator, Arm, Disarm, Kill, Resume
<1>3. lateSends' \subseteq Orders /\ lateBuys' \subseteq Orders
  BY DEF TypeOK, Operator, Arm, Disarm, Kill, Resume
<1>4. Operate
  BY DEF Operator, Arm, Disarm, Kill, Resume
<1> QED BY <1>1, <1>2, <1>3, <1>4 DEF TypeOK, Operate

\* Every step keeps types.
LEMMA TypeStep == ASSUME Inductive, [Next]_vars PROVE TypeOK'
<1>1. CASE Crash
  BY <1>1, DieTypes DEF Inductive, TypeOK, Crash
<1>2. CASE Stop
  <2>1. dbCash' \in Nat /\ dbPos' \in [Buys -> {"none", "open", "closed"}]
    BY <1>2 DEF Inductive, TypeOK, Stop
  <2> QED BY <1>2, <2>1, DieTypes DEF Inductive, Stop
<1>3. CASE UNCHANGED vars
  BY <1>3 DEF Inductive, TypeOK, vars
<1> QED
  BY <1>1, <1>2, <1>3, EngineTypes, ExecutorTypes, TickTypes, RecoveryTypes, ChainTypes,
     OperatorTypes DEF Next, Inductive

----------------------------------------------------------------------------
(* One task per order, and one send per task *)

\* Moving the task keeps its order.
LEMMA GotoMoves ==
  ASSUME job \in JobRecord, NEW pc, Goto(pc) PROVE job'.o = job.o /\ job'.pc = pc
BY DEF Goto, JobRecord

\* Giving up keeps the order of the task and records the status it ends with.
LEMMA AbandonMoves ==
  ASSUME job \in JobRecord, NEW s, NEW d, Abandon(s, d)
  PROVE  job'.o = job.o /\ job'.pc = "abandon" /\ job'.end = s
BY DEF Abandon, JobRecord

\* A step that touches neither tasks nor sends keeps TasksOnce.
LEMMA TasksFrame ==
  ASSUME TasksOnce, UNCHANGED <<waiting, launched, sends, job, order, target, tx, phase, finished>>
  PROVE  TasksOnce'
BY DEF TasksOnce, Fresh

\* A step of the task at the lock that is no send and does not end it keeps TasksOnce.
LEMMA TasksMove ==
  ASSUME TasksOnce, UNCHANGED <<waiting, launched, sends, order, target, tx, phase, finished>>,
         job # None, job'.o = job.o, job'.pc \in BeforeSend => job.pc \in BeforeSend
  PROVE  TasksOnce'
BY DEF TasksOnce, Fresh

\* No task exists and nothing was sent at start-up.
LEMMA TasksInit == Init => TasksOnce /\ SentAtMostOnce
BY DEF Init, TasksOnce, SentAtMostOnce, Fresh, Orders

\* Submitting and withdrawing orders keeps one task per order.
LEMMA EngineTasks == ASSUME Inductive, Engine PROVE TasksOnce'
<1> USE DEF Inductive
<1>1. ASSUME NEW b \in Buys, SubmitBuy(b) PROVE TasksOnce'
  BY SMTT(30), <1>1, AutonomousAssumption DEF TypeOK, TasksOnce, Fresh, SubmitBuy, Orders
<1>2. ASSUME NEW s \in Sells, SubmitSell(s) PROVE TasksOnce'
  BY ZenonT(30), SMTT(30), <1>2, AutonomousAssumption DEF TypeOK, TasksOnce, Fresh, SubmitSell, Orders, Open
<1>3. ASSUME NEW o \in Orders, Withdraw(o) PROVE TasksOnce'
  BY <1>3 DEF TypeOK, TasksOnce, Fresh, Withdraw, Orders
<1> QED BY <1>1, <1>2, <1>3 DEF Engine

\* The order task leaves the queue once and sends once.
LEMMA ExecutorTasks == ASSUME Inductive, Executor PROVE TasksOnce'
<1> USE DEF Inductive, Unexecuted
<1>1. CASE AcquireLock
  <2>1. /\ waiting \in Seq(Orders) /\ waiting # <<>> /\ waiting' = Tail(waiting)
        /\ job'.o = Head(waiting)
        /\ UNCHANGED <<launched, sends, order, target, tx, phase, finished>>
    BY <1>1 DEF TypeOK, AcquireLock, NewJob
  <2>2. /\ \A i \in DOMAIN waiting' : i + 1 \in DOMAIN waiting /\ waiting'[i] = waiting[i + 1]
        /\ 1 \in DOMAIN waiting /\ Head(waiting) = waiting[1]
    BY <2>1
  <2>3. \A i \in DOMAIN waiting' :
          /\ waiting'[i] \in launched /\ sends[waiting'[i]] = 0
          /\ waiting'[i] # Head(waiting)
    BY <2>1, <2>2 DEF TasksOnce
  <2>4. \A i, j \in DOMAIN waiting' : waiting'[i] = waiting'[j] => i = j
    BY <2>1, <2>2 DEF TasksOnce
  <2>5. Head(waiting) \in launched /\ sends[Head(waiting)] = 0 /\ phase = "running"
    BY <2>1, <2>2 DEF TasksOnce
  <2> QED BY <2>1, <2>3, <2>4, <2>5 DEF TasksOnce, Fresh
<1>2. CASE ReadBalance \/ ReadTokens \/ FreshQuote \/ SavePrepared \/ BuildAndSign \/ SaveBuilt
  <2>1. job # None /\ job \in JobRecord /\ job.pc \in BeforeSend
    BY <1>2, HolderType
    DEF ReadBalance, ReadTokens, FreshQuote, SavePrepared, BuildAndSign, SaveBuilt, At, BeforeSend
  <2>2. job'.o = job.o
    BY <1>2, <2>1, GotoMoves, AbandonMoves
    DEF ReadBalance, ReadTokens, FreshQuote, SavePrepared, BuildAndSign, SaveBuilt
  <2>3. UNCHANGED <<waiting, launched, sends, order, target, tx, phase, finished>>
    BY <1>2 DEF ReadBalance, ReadTokens, FreshQuote, SavePrepared, BuildAndSign, SaveBuilt
  <2> QED BY <2>1, <2>2, <2>3, TasksMove
<1>3. CASE SaveSent \/ AwaitConfirmation \/ ReadHeight \/ PollsRunOut
  <2>1. job # None /\ job \in JobRecord
    BY <1>3, HolderType DEF SaveSent, AwaitConfirmation, ReadHeight, PollsRunOut, At
  <2>2. job'.o = job.o /\ job'.pc \in {"await", "height", "saveConfirmed", "saveUnknown", "abandon"}
    BY <1>3, <2>1, GotoMoves, AbandonMoves DEF SaveSent, AwaitConfirmation, ReadHeight,
        PollsRunOut
  <2>3. UNCHANGED <<waiting, launched, sends, order, target, tx, phase, finished>>
    BY <1>3 DEF SaveSent, AwaitConfirmation, ReadHeight, PollsRunOut
  <2> QED BY <2>1, <2>2, <2>3, TasksMove DEF BeforeSend
<1>4. CASE Submit
  <2>1. job # None /\ job \in JobRecord /\ job.o \in Orders /\ sends[job.o] = 0
    BY <1>4, HolderType DEF Submit, At, TasksOnce, BeforeSend
  <2>2. job'.o = job.o /\ job'.pc \in {"saveSent", "abandon"}
    BY <1>4, <2>1, GotoMoves, AbandonMoves DEF Submit
  <2>3. sends' = [sends EXCEPT ![job.o] = @ + 1] /\ UNCHANGED <<waiting, launched, order, target, phase, finished>>
    BY <1>4 DEF Submit
  <2>4. \A o \in Orders : o # job.o => sends'[o] = sends[o] /\ tx'[o] = tx[o]
    BY <1>4, <2>3 DEF TypeOK, Submit
  <2>5. sends'[job.o] = 1
    BY <2>1, <2>3 DEF TypeOK
  <2>6. job.o \in launched /\ \A i \in DOMAIN waiting : waiting[i] # job.o /\ waiting[i] \in Orders
    BY <2>1 DEF TasksOnce, TypeOK
  <2> QED BY <2>1, <2>2, <2>3, <2>4, <2>5, <2>6 DEF TasksOnce, Fresh, BeforeSend
<1>5. CASE SaveConfirmed \/ SaveUnknown \/ SaveAbandoned
  <2>1. job # None /\ job' = None
    BY <1>5 DEF SaveConfirmed, SaveUnknown, SaveAbandoned, At, Finish
  <2>2. UNCHANGED <<waiting, launched, sends, order, target, tx, phase>>
    BY <1>5 DEF SaveConfirmed, SaveUnknown, SaveAbandoned
  <2>3. PICK c \in BOOLEAN : finished' = Append(finished, [o |-> job.o, confirmed |-> c])
    BY <1>5 DEF SaveConfirmed, SaveUnknown, SaveAbandoned, Finish
  <2>4. \A i \in DOMAIN finished' : finished'[i].o \in launched
    BY <2>1, <2>3 DEF TasksOnce, TypeOK
  <2> QED BY <2>1, <2>2, <2>4 DEF TasksOnce, Fresh
<1> QED BY <1>1, <1>2, <1>3, <1>4, <1>5 DEF Executor

\* auto_confirm starts one task per order; collecting and booking start none.
LEMMA TickTasks == ASSUME Inductive, Tick PROVE TasksOnce'
<1> USE DEF Inductive, Untouched
<1>1. ASSUME NEW o \in Orders, Launch(o) PROVE TasksOnce'
  <2>1. /\ launched' = launched \cup {o} /\ waiting' = Append(waiting, o)
        /\ UNCHANGED <<sends, job, order, target, tx, phase, finished>>
    BY <1>1 DEF Launch
  <2>2. o \notin launched /\ order[o] = "pending" /\ phase = "running" /\ sends[o] = 0
    BY <1>1 DEF Launch, TasksOnce, Fresh
  <2>3. waiting \in Seq(Orders)
    BY DEF TypeOK
  <2>4. \A i \in DOMAIN waiting : waiting[i] # o
    BY <2>2 DEF TasksOnce
  <2>5. \A i, j \in DOMAIN waiting' : waiting'[i] = waiting'[j] => i = j
    BY <2>1, <2>3, <2>4 DEF TasksOnce
  <2>6. \A i \in DOMAIN waiting' :
          /\ waiting'[i] \in launched' /\ sends[waiting'[i]] = 0
          /\ job # None => waiting'[i] # job.o
    BY <2>1, <2>2, <2>3 DEF TasksOnce
  <2> QED BY <2>1, <2>2, <2>5, <2>6 DEF TasksOnce, Fresh
<1>2. CASE Collect
  <2>1. UNCHANGED <<waiting, launched, sends, job, target, tx, phase>> /\ phase = "running"
    BY <1>2 DEF Collect
  <2>2. /\ finished \in Seq(Outcome) /\ finished # <<>> /\ finished' = Tail(finished)
        /\ order \in [Orders -> {"free", "pending", "resolved"}]
    BY <1>2 DEF Collect, TypeOK
  <2>3. order' = order \/ order' = [order EXCEPT ![Head(finished).o] = "resolved"]
    BY <1>2 DEF Collect
  <2>4. Head(finished).o \in launched
    BY <2>2 DEF TasksOnce
  <2>5. \A o \in Orders : order'[o] # order[o] => order'[o] = "resolved" /\ order[o] # "free"
    <3>1. order[Head(finished).o] # "free"
      BY <2>4 DEF TasksOnce
    <3>2. order \in [Orders -> {"free", "pending", "resolved"}]
      BY <2>2
    <3> QED BY <2>3, <3>1, <3>2
  <2>6. \A i \in DOMAIN finished' : finished'[i].o \in launched
    BY <2>2 DEF TasksOnce
  <2>7. launched \subseteq Orders
    BY DEF TypeOK
  <2> QED BY <2>1, <2>5, <2>6, <2>7 DEF TasksOnce, Fresh, Orders
<1>3. CASE Apply \/ PersistStep
  <2>1. UNCHANGED <<waiting, launched, sends, job, order, target, tx, phase, finished>>
    BY <1>3 DEF Apply, PersistStep
  <2> QED BY <2>1, TasksFrame
<1> QED BY <1>1, <1>2, <1>3 DEF Tick

\* A crash or stop drops every task and resolves every pending order.
LEMMA DieTasks == ASSUME TypeOK, TasksOnce, Die PROVE TasksOnce'
<1>1. /\ launched' = {} /\ waiting' = <<>> /\ job' = None /\ phase' = "down"
      /\ finished' = <<>> /\ UNCHANGED <<sends, target, tx>>
  BY DEF Die
<1>2. \A o \in Orders :
        order'[o] = IF order[o] = "pending" THEN "resolved" ELSE order[o]
  BY DEF Die
<1>3. \A o \in Orders : order[o] \in {"free", "pending", "resolved"}
  BY DEF TypeOK
<1>4. \A o \in Orders : Fresh(o)' => order[o] = "free"
  BY <1>2, <1>3 DEF Fresh
<1> QED BY <1>1, <1>2, <1>3, <1>4 DEF TasksOnce, Fresh, Orders

\* Every step keeps one task per order, and one send per order.
LEMMA TasksStep == ASSUME Inductive, [Next]_vars PROVE TasksOnce' /\ SentAtMostOnce'
<1> USE DEF Inductive
<1>1. ASSUME Crash \/ Stop PROVE TasksOnce'
  BY <1>1, DieTasks DEF Crash, Stop
<1>2. ASSUME Recovery PROVE TasksOnce'
  <2>1. UNCHANGED <<waiting, launched, sends, job, order, target, tx, finished>>
    BY <1>2 DEF Recovery, Restart, Reconcile, StartEngine
  <2>2. phase # "running"
    BY <1>2 DEF Recovery, Restart, Reconcile, StartEngine
  <2> QED BY <2>1, <2>2 DEF TasksOnce, Fresh
<1>3. ASSUME Chain PROVE TasksOnce'
  <2>1. UNCHANGED <<waiting, launched, sends, job, order, target, phase, finished>>
    BY <1>3 DEF Chain, Land, FailOnChain, BlockhashExpires, Offchain
  <2>2. \A o \in Orders : tx'[o] # tx[o] => tx[o] = "pool"
    BY <1>3 DEF TypeOK, Chain, Land, FailOnChain, BlockhashExpires
  <2> QED BY <2>1, <2>2 DEF TasksOnce, Fresh
<1>4. ASSUME Operator PROVE TasksOnce'
  BY <1>4, TasksFrame DEF Operator, Operate, Arm, Disarm, Kill, Resume
<1>5. ASSUME UNCHANGED vars PROVE TasksOnce'
  BY <1>5, TasksFrame DEF vars
<1>6. TasksOnce'
  BY <1>1, <1>2, <1>3, <1>4, <1>5, EngineTasks, ExecutorTasks, TickTasks DEF Next
<1>7. SentAtMostOnce'
  <2>1. CASE Submit
    <3>1. job.o \in Orders /\ sends[job.o] = 0
      BY <2>1, HolderType DEF Submit, At, TasksOnce, BeforeSend
    <3>2. sends' = [sends EXCEPT ![job.o] = @ + 1]
      BY <2>1 DEF Submit
    <3> QED BY <3>1, <3>2 DEF SentAtMostOnce, TypeOK
  <2>2. CASE ~Submit
    <3>1. UNCHANGED sends
      BY <2>2
      DEF vars, Next, Executor, Tick, Engine, Recovery, Chain, Operator, Operate, Crash, Stop,
          Die, Unexecuted, Untouched, Offchain, AcquireLock, ReadBalance, ReadTokens,
          FreshQuote, SavePrepared, BuildAndSign, SaveBuilt, SaveSent, AwaitConfirmation,
          ReadHeight, PollsRunOut, SaveConfirmed, SaveUnknown, SaveAbandoned, Launch, Collect,
          Apply, PersistStep,
          SubmitBuy, SubmitSell, Withdraw, Restart, Reconcile, StartEngine, Land, FailOnChain,
          BlockhashExpires, Arm, Disarm, Kill, Resume
    <3> QED BY <3>1 DEF SentAtMostOnce
  <2> QED BY <2>1, <2>2
<1> QED BY <1>6, <1>7

----------------------------------------------------------------------------
(* Only what landed is booked *)

\* Nothing is confirmed or booked at start-up.
LEMMA LandedInit == Init => LandedFirst /\ BookedHasLanded
BY DEF Init, LandedFirst, BookedHasLanded, Justified, NoBooking

\* The chain does not take a swap back, and the SELL keeps its position.
LEMMA LandedStable ==
  ASSUME Inductive, [Next]_vars
  PROVE  \A o \in Orders : tx[o] = "landed" =>
           /\ tx'[o] = "landed"
           /\ o \in Sells => target'[o] = target[o] /\ target[o] \in Buys
<1> SUFFICES ASSUME NEW o \in Orders, tx[o] = "landed"
             PROVE  /\ tx'[o] = "landed"
                    /\ o \in Sells => target'[o] = target[o] /\ target[o] \in Buys
  OBVIOUS
<1> USE DEF Inductive
<1>1. order[o] # "free" /\ (o \in Sells => target[o] \in Buys)
  <2>1. sends[o] # 0
    BY DEF TasksOnce
  <2>2. ~Fresh(o)
    BY <2>1 DEF TasksOnce
  <2> QED BY <2>2 DEF TasksOnce, Fresh
<1>2. tx'[o] = "landed"
  <2>1. CASE Submit
    <3>1. job.o # o
      BY <2>1 DEF Submit, At, TasksOnce, BeforeSend
    <3> QED BY <2>1, <3>1 DEF Submit, TypeOK
  <2>2. ASSUME Chain PROVE tx'[o] = "landed"
    BY <2>2 DEF Chain, Land, FailOnChain, BlockhashExpires, TypeOK
  <2>3. CASE ~Submit /\ ~Chain
    <3>1. UNCHANGED tx
      BY <2>3
      DEF vars, Next, Executor, Tick, Engine, Recovery, Operator, Operate, Crash, Stop,
          Die, Unexecuted, Untouched, AcquireLock, ReadBalance, ReadTokens,
          FreshQuote, SavePrepared, BuildAndSign, SaveBuilt, SaveSent, AwaitConfirmation,
          ReadHeight, PollsRunOut, SaveConfirmed, SaveUnknown, SaveAbandoned, Launch, Collect,
          Apply, PersistStep,
          SubmitBuy, SubmitSell, Withdraw, Restart, Reconcile, StartEngine,
          Arm, Disarm, Kill, Resume
    <3> QED BY <3>1
  <2> QED BY <2>1, <2>2, <2>3
<1>3. o \in Sells => target'[o] = target[o]
  <2>1. ASSUME NEW s \in Sells, SubmitSell(s) PROVE o \in Sells => target'[o] = target[o]
    BY <1>1, <2>1 DEF SubmitSell, TypeOK
  <2>2. CASE ~\E s \in Sells : SubmitSell(s)
    <3>1. UNCHANGED target
      BY <2>2
      DEF vars, Next, Executor, Tick, Engine, Recovery, Chain, Operator, Operate, Crash, Stop,
          Die, Unexecuted, Untouched, Offchain, AcquireLock, ReadBalance, ReadTokens,
          FreshQuote, SavePrepared, BuildAndSign, SaveBuilt, Submit, SaveSent,
          AwaitConfirmation, ReadHeight, PollsRunOut, SaveConfirmed, SaveUnknown, SaveAbandoned,
          Launch, Collect, Apply, PersistStep, SubmitBuy, Withdraw, Restart, Reconcile,
          StartEngine, Land,
          FailOnChain, BlockhashExpires, Arm, Disarm, Kill, Resume
    <3> QED BY <3>1
  <2> QED BY <2>1, <2>2
<1> QED BY <1>1, <1>2, <1>3

\* A position that is justified by the chain stays so.
LEMMA JustifiedStable ==
  ASSUME Inductive, [Next]_vars, NEW b \in Buys, NEW state, Justified(b, state)
  PROVE  /\ state # "none" => tx'[b] = "landed"
         /\ state = "closed" => \E s \in Sells : target'[s] = b /\ tx'[s] = "landed"
BY LandedStable DEF Justified, Orders

\* Booking a landed order yields a justified position.
LEMMA BookLands ==
  ASSUME TypeOK, BookedHasLanded, NEW o \in Orders, tx[o] = "landed",
         o \in Sells => target[o] \in Buys, Bookable(o), Book(o)
  PROVE  /\ \A b \in Buys : Justified(b, pos'[b])
         /\ o \in Sells => tx[target[o]] = "landed"
<1>1. CASE o \in Buys
  <2>1. pos' = [pos EXCEPT ![o] = "open"]
    BY <1>1 DEF Book, OpenPosition
  <2> QED BY SMTT(30), <1>1, <2>1, AutonomousAssumption DEF TypeOK, BookedHasLanded, Justified
<1>2. CASE o \in Sells
  <2>1. pos[target[o]] = "open" /\ pos' = [pos EXCEPT ![target[o]] = "closed"]
    BY <1>2, AutonomousAssumption DEF Bookable, Book, ClosePosition
  <2> QED BY <1>2, <2>1 DEF TypeOK, BookedHasLanded, Justified
<1> QED BY <1>1, <1>2 DEF Orders

\* The step that sets what LandedFirst speaks of comes after the landing.
LEMMA ConfirmedLands ==
  ASSUME Inductive, [Next]_vars, job' # None, job'.pc = "saveConfirmed"
  PROVE  tx[job'.o] = "landed" /\ job'.o \in Orders
<1> USE DEF Inductive
<1>1. CASE AwaitConfirmation \/ ReadHeight \/ PollsRunOut
  <2>1. job \in JobRecord /\ job.o \in Orders
    BY <1>1, HolderType DEF AwaitConfirmation, ReadHeight, PollsRunOut
  <2>2. CASE tx[job.o] = "landed" /\ Goto("saveConfirmed")
    BY <2>1, <2>2, GotoMoves
  <2>3. CASE (\E pc \in {"await", "height", "saveUnknown"} : Goto(pc)) \/ \E s, d : Abandon(s, d)
    BY <2>1, <2>3, GotoMoves, AbandonMoves
  <2> QED BY <1>1, <2>2, <2>3 DEF AwaitConfirmation, ReadHeight, PollsRunOut
<1>2. CASE AcquireLock
  BY <1>2 DEF AcquireLock, NewJob
<1>3. CASE \/ ReadBalance \/ ReadTokens \/ FreshQuote \/ SavePrepared \/ BuildAndSign
           \/ SaveBuilt \/ Submit \/ SaveSent
  <2>1. job \in JobRecord
    BY <1>3, HolderType DEF ReadBalance, ReadTokens, FreshQuote, SavePrepared, BuildAndSign,
                            SaveBuilt, Submit, SaveSent
  <2>2. CASE ReadBalance \/ ReadTokens \/ FreshQuote
    <3>1. job'.pc \in {"tokens", "quote", "prepare", "abandon"}
      BY <2>1, <2>2, GotoMoves, AbandonMoves DEF ReadBalance, ReadTokens, FreshQuote
    <3> QED BY <3>1
  <2>3. CASE SavePrepared \/ BuildAndSign \/ SaveBuilt
    <3>1. job'.pc \in {"build", "saveBuilt", "submit", "abandon"}
      BY <2>1, <2>3, GotoMoves, AbandonMoves DEF SavePrepared, BuildAndSign, SaveBuilt
    <3> QED BY <3>1
  <2>4. CASE Submit \/ SaveSent
    <3>1. job'.pc \in {"saveSent", "await", "abandon"}
      BY <2>1, <2>4, GotoMoves, AbandonMoves DEF Submit, SaveSent
    <3> QED BY <3>1
  <2> QED BY <1>3, <2>2, <2>3, <2>4
<1>4. CASE SaveConfirmed \/ SaveUnknown \/ SaveAbandoned \/ Crash \/ Stop
  BY <1>4 DEF SaveConfirmed, SaveUnknown, SaveAbandoned, Finish, Crash, Stop, Die
<1>5. CASE UNCHANGED job
  BY <1>5 DEF LandedFirst, TypeOK, JobRecord
<1>6. CASE Engine \/ Tick \/ Recovery \/ Chain \/ Operator \/ UNCHANGED vars
  BY <1>5, <1>6
  DEF vars, Tick, Engine, Recovery, Chain, Operator, Operate, Untouched, Offchain, Launch,
      Collect, Apply, PersistStep, SubmitBuy, SubmitSell, Withdraw, Restart, Reconcile,
      StartEngine, Land, FailOnChain, BlockhashExpires, Arm, Disarm, Kill, Resume
<1> QED BY <1>1, <1>2, <1>3, <1>4, <1>6 DEF Next, Executor

\* An action that touches neither outcomes nor the booking in progress.
LEMMA OutcomesFrame ==
  ASSUME Inductive, [Next]_vars,
         ~(SaveConfirmed \/ SaveUnknown \/ SaveAbandoned \/ Collect \/ Apply \/ PersistStep
           \/ Crash \/ Stop \/ \E o \in Orders : Reconcile(o))
  PROVE  UNCHANGED <<finished, out, persist>>
BY DEF vars, Next, Executor, Tick, Engine, Recovery, Chain, Operator, Operate,
       Unexecuted, Offchain, AcquireLock, ReadBalance, ReadTokens,
       FreshQuote, SavePrepared, BuildAndSign, SaveBuilt, Submit, SaveSent, AwaitConfirmation,
       ReadHeight, PollsRunOut, Launch, SubmitBuy, SubmitSell, Withdraw, Restart, StartEngine,
       Land,
       FailOnChain, BlockhashExpires, Arm, Disarm, Kill, Resume

OutcomesLanded(q) == \A i \in DOMAIN q : q[i].confirmed => tx[q[i].o] = "landed"

\* The queue of outcomes names as confirmed only what landed.
LEMMA FinishedStep ==
  ASSUME Inductive, [Next]_vars
  PROVE  /\ \A i \in DOMAIN finished' : finished'[i].confirmed => tx[finished'[i].o] = "landed"
         /\ \A i \in DOMAIN out' : out'[i].confirmed => tx[out'[i].o] = "landed"
<1> USE DEF Inductive
<1>1. /\ OutcomesLanded(finished) /\ OutcomesLanded(out)
      /\ finished \in Seq(Outcome) /\ out \in Seq(Outcome)
  BY DEF LandedFirst, TypeOK, OutcomesLanded
<1>2. ASSUME NEW q \in Seq(Outcome), OutcomesLanded(q), NEW c \in BOOLEAN, NEW o,
             c => tx[o] = "landed"
      PROVE  OutcomesLanded(Append(q, [o |-> o, confirmed |-> c]))
  BY <1>2 DEF OutcomesLanded
<1>3. ASSUME NEW q \in Seq(Outcome), OutcomesLanded(q), q # <<>>
      PROVE  OutcomesLanded(Tail(q)) /\ (Head(q).confirmed => tx[Head(q).o] = "landed")
  BY <1>3 DEF OutcomesLanded
<1>4. OutcomesLanded(<<>>)
  BY DEF OutcomesLanded
<1> SUFFICES OutcomesLanded(finished') /\ OutcomesLanded(out')
  BY DEF OutcomesLanded
<1>5. CASE SaveConfirmed
  <2>1. tx[job.o] = "landed"
    BY <1>5 DEF SaveConfirmed, At, LandedFirst
  <2>2. finished' = Append(finished, [o |-> job.o, confirmed |-> TRUE]) /\ out' = out
    BY <1>5 DEF SaveConfirmed, Finish, Unexecuted
  <2> QED BY <1>1, <1>2, <2>1, <2>2
<1>6. CASE SaveUnknown \/ SaveAbandoned
  <2>1. finished' = Append(finished, [o |-> job.o, confirmed |-> FALSE]) /\ out' = out
    BY <1>6 DEF SaveUnknown, SaveAbandoned, Finish, Unexecuted
  <2> QED BY <1>1, <1>2, <2>1
<1>7. CASE Collect
  <2>1. /\ finished # <<>> /\ finished' = Tail(finished)
        /\ out' = <<>> \/ out' = Append(out, Head(finished))
    BY <1>7 DEF Collect
  <2>2. OutcomesLanded(Append(out, Head(finished)))
    BY <1>1, <1>3, <2>1 DEF OutcomesLanded
  <2> QED BY <1>1, <1>3, <1>4, <2>1, <2>2
<1>8. CASE Apply
  BY <1>1, <1>3, <1>8 DEF Apply
<1>9. CASE Crash \/ Stop
  BY <1>4, <1>9 DEF Crash, Stop, Die
<1>10. CASE UNCHANGED <<finished, out>>
  BY <1>1, <1>10
<1>11. CASE PersistStep \/ \E o \in Orders : Reconcile(o)
  BY <1>10, <1>11 DEF PersistStep, Reconcile
<1> QED BY <1>5, <1>6, <1>7, <1>8, <1>9, <1>10, <1>11, OutcomesFrame

\* What Book does is done with a landed order.
LEMMA BookStep ==
  ASSUME Inductive, [Next]_vars
  PROVE  \/ \E o \in Orders :
               /\ Bookable(o) /\ Book(o) /\ tx[o] = "landed"
               /\ \E steps : persist' = [of |-> o, steps |-> steps]
               /\ UNCHANGED <<dbPos, dbFill>>
         \/ /\ persist' \in {persist, NoBooking} \/ persist'.of = persist.of
            /\ \A b \in Buys : pos'[b] \in {pos[b], dbPos[b], "none"}
<1> USE DEF Inductive
<1>1. CASE Apply
  <2>1. Head(out) \in Outcome
    BY <1>1 DEF Apply, TypeOK
  <2>2. Head(out).confirmed => tx[Head(out).o] = "landed"
    BY <1>1 DEF Apply, LandedFirst, TypeOK
  <2> QED BY <1>1, <2>1, <2>2 DEF Apply, Outcome
<1>2. ASSUME NEW o \in Orders, Reconcile(o)
      PROVE  \/ /\ Bookable(o) /\ Book(o) /\ tx[o] = "landed"
                /\ \E steps : persist' = [of |-> o, steps |-> steps]
                /\ UNCHANGED <<dbPos, dbFill>>
             \/ UNCHANGED <<persist, pos>>
  BY <1>2 DEF Reconcile, RecoverBookable
<1>3. CASE PersistStep
  <2>1. persist' = NoBooking \/ persist' = [persist EXCEPT !.steps = Tail(persist.steps)]
    BY <1>3 DEF PersistStep
  <2>2. persist \in [of : Orders, steps : Seq(Commits) \ {<<>>}]
    BY <1>3 DEF PersistStep, TypeOK
  <2>3. UNCHANGED pos
    BY <1>3 DEF PersistStep
  <2> QED BY <2>1, <2>2, <2>3
<1>4. CASE Crash \/ Stop
  BY <1>4 DEF Crash, Stop, Die
<1>5. CASE Restart
  BY <1>5 DEF Restart, TypeOK
<1>6. CASE ~(Apply \/ PersistStep \/ Crash \/ Stop \/ Restart \/ \E o \in Orders : Reconcile(o))
  <2>1. UNCHANGED <<persist, pos>>
    BY <1>6
    DEF vars, Next, Executor, Tick, Engine, Recovery, Chain, Operator, Operate,
       Unexecuted, Untouched, Offchain, AcquireLock, ReadBalance, ReadTokens,
       FreshQuote, SavePrepared, BuildAndSign, SaveBuilt, Submit, SaveSent, AwaitConfirmation,
       ReadHeight, PollsRunOut, SaveConfirmed, SaveUnknown, SaveAbandoned, Collect,
       Launch, SubmitBuy, SubmitSell, Withdraw, StartEngine, Land,
       FailOnChain, BlockhashExpires, Arm, Disarm, Kill, Resume
  <2> QED BY <2>1
<1> QED BY <1>1, <1>2, <1>3, <1>4, <1>5, <1>6

\* Every step keeps LandedFirst.
LEMMA LandedStep == ASSUME Inductive, [Next]_vars PROVE LandedFirst'
<1>1. TypeOK'
  BY TypeStep
<1>2. job' # None /\ job'.pc = "saveConfirmed" => tx'[job'.o] = "landed"
  BY ConfirmedLands, LandedStable
<1>3. /\ \A i \in DOMAIN finished' : finished'[i].o \in Orders
      /\ \A i \in DOMAIN out' : out'[i].o \in Orders
  <2>1. \A q \in Seq(Outcome) : \A i \in DOMAIN q : q[i].o \in Orders
    <3>1. \A q \in Seq(Outcome) : \A i \in DOMAIN q : q[i] \in Outcome
      OBVIOUS
    <3>2. \A r \in Outcome : r.o \in Orders
      BY DEF Outcome
    <3> QED BY <3>1, <3>2
  <2>2. finished' \in Seq(Outcome) /\ out' \in Seq(Outcome)
    BY <1>1 DEF TypeOK
  <2> QED BY <2>1, <2>2
<1>4. \A i \in DOMAIN finished' : finished'[i].confirmed => tx'[finished'[i].o] = "landed"
  BY <1>3, FinishedStep, LandedStable
<1>5. \A i \in DOMAIN out' : out'[i].confirmed => tx'[out'[i].o] = "landed"
  BY <1>3, FinishedStep, LandedStable
<1>6. ASSUME persist' # NoBooking
      PROVE  /\ tx'[persist'.of] = "landed"
             /\ persist'.of \in Sells => /\ target'[persist'.of] \in Buys
                                         /\ tx'[target'[persist'.of]] = "landed"
  <2>1. CASE \E o \in Orders : /\ Bookable(o) /\ Book(o) /\ tx[o] = "landed"
                               /\ \E steps : persist' = [of |-> o, steps |-> steps]
    <3>1. PICK o \in Orders : /\ Bookable(o) /\ Book(o) /\ tx[o] = "landed"
                              /\ \E steps : persist' = [of |-> o, steps |-> steps]
      BY <2>1
    <3>2. persist'.of = o
      BY <3>1
    <3>3. o \in Sells => target'[o] = target[o] /\ target[o] \in Buys
      BY <3>1, LandedStable
    <3>4. o \in Sells => tx[target[o]] = "landed"
      BY <3>1, <3>3, BookLands DEF Inductive
    <3> QED BY <3>1, <3>2, <3>3, <3>4, LandedStable DEF Orders
  <2>2. CASE persist' \in {persist, NoBooking} \/ persist'.of = persist.of
    <3>1. persist # NoBooking /\ persist'.of = persist.of /\ persist.of \in Orders
      <4>1. persist' \in [of : Orders, steps : Seq(Commits) \ {<<>>}]
        BY <1>1, <1>6 DEF TypeOK
      <4>2. persist'.of = persist.of
        BY <1>6, <2>2
      <4>3. NoBooking.of \notin Orders
        BY AutonomousAssumption DEF NoBooking
      <4>4. persist # NoBooking
        BY <4>1, <4>2, <4>3
      <4> QED BY <4>1, <4>2, <4>4
    <3>2. /\ tx[persist.of] = "landed"
          /\ persist.of \in Sells => /\ target[persist.of] \in Buys
                                     /\ tx[target[persist.of]] = "landed"
      BY <3>1 DEF Inductive, LandedFirst
    <3> QED BY <3>1, <3>2, LandedStable DEF Orders
  <2> QED BY <2>1, <2>2, BookStep
<1> QED BY <1>2, <1>4, <1>5, <1>6 DEF LandedFirst

\* Every commit to fills and positions is for a landed order.
LEMMA DatabaseStep ==
  ASSUME Inductive, [Next]_vars
  PROVE  /\ \A o \in Orders : dbFill'[o] > 0 => tx[o] = "landed"
         /\ \A b \in Buys : Justified(b, dbPos'[b])
<1> USE DEF Inductive
<1>1. CASE PersistStep
  <2>1. PICK ok \in BOOLEAN : IF ok THEN Commit(persist.of, Head(persist.steps)) ELSE UNCHANGED db
    BY <1>1, AutonomousAssumption DEF PersistStep
  <2>2. /\ persist.of \in Orders /\ tx[persist.of] = "landed"
        /\ persist.of \in Sells => /\ target[persist.of] \in Buys
                                   /\ tx[target[persist.of]] = "landed"
    BY <1>1 DEF PersistStep, LandedFirst, TypeOK
  <2>3. \A o \in Orders : dbFill'[o] = dbFill[o] \/ o = persist.of
    BY <2>1 DEF Commit, TypeOK
  <2>4. ASSUME NEW b \in Buys PROVE Justified(b, dbPos'[b])
    <3>1. \/ dbPos'[b] = dbPos[b]
          \/ persist.of \in Buys /\ b = persist.of /\ dbPos'[b] = "open"
          \/ persist.of \notin Buys /\ b = target[persist.of] /\ dbPos'[b] = "closed"
      BY <2>1 DEF Commit, TypeOK
    <3> QED BY <2>2, <3>1 DEF Justified, BookedHasLanded, Orders
  <2> QED BY <2>2, <2>3, <2>4 DEF BookedHasLanded
<1>2. CASE Stop
  <2>1. UNCHANGED dbFill /\ \A b \in Buys : dbPos'[b] \in {pos[b], dbPos[b]}
    BY <1>2 DEF Stop, Die, TypeOK
  <2> QED BY <2>1 DEF BookedHasLanded
<1>3. CASE ~PersistStep /\ ~Stop
  <2>1. UNCHANGED <<dbFill, dbPos>>
    BY <1>3
    DEF vars, Next, Executor, Tick, Engine, Recovery, Chain, Operator, Operate, Crash, Die,
       Unexecuted, Untouched, Offchain, AcquireLock, ReadBalance, ReadTokens,
       FreshQuote, SavePrepared, BuildAndSign, SaveBuilt, Submit, SaveSent, AwaitConfirmation,
       ReadHeight, PollsRunOut, SaveConfirmed, SaveUnknown, SaveAbandoned, Collect, Apply,
       Restart, Reconcile,
       Launch, SubmitBuy, SubmitSell, Withdraw, StartEngine, Land,
       FailOnChain, BlockhashExpires, Arm, Disarm, Kill, Resume
  <2> QED BY <2>1 DEF BookedHasLanded
<1> QED BY <1>1, <1>2, <1>3

\* Every step keeps BookedHasLanded.
LEMMA BookedStep == ASSUME Inductive, [Next]_vars PROVE BookedHasLanded'
<1>1. \A b \in Buys : Justified(b, pos'[b])
  <2>1. CASE \E o \in Orders : Bookable(o) /\ Book(o) /\ tx[o] = "landed"
    BY <2>1, BookLands, LandedStable DEF Inductive
  <2>2. CASE \A b \in Buys : pos'[b] \in {pos[b], dbPos[b], "none"}
    BY <2>2 DEF Inductive, BookedHasLanded, Justified
  <2> QED BY <2>1, <2>2, BookStep
<1>2. ASSUME NEW b \in Buys, NEW state, Justified(b, state)
      PROVE  /\ state # "none" => tx'[b] = "landed"
             /\ state = "closed" => \E s \in Sells : target'[s] = b /\ tx'[s] = "landed"
  BY <1>2, JustifiedStable
<1>3. \A b \in Buys : (Justified(b, pos[b]))' /\ (Justified(b, dbPos[b]))'
  BY <1>1, <1>2, DatabaseStep DEF Justified
<1>4. \A o \in Orders : dbFill'[o] > 0 => tx'[o] = "landed"
  BY DatabaseStep, LandedStable
<1> QED BY <1>3, <1>4 DEF BookedHasLanded

----------------------------------------------------------------------------
(* The row comes before the broadcast, when commits do not fail *)

\* No order has a row at start-up, and none is on the wire.
LEMMA WrittenInit == Init => WrittenFirst /\ SentIsRecorded
BY DEF Init, WrittenFirst, SentIsRecorded, Fresh, NoRow

\* When commits do not fail a row is what was committed.
LEMMA CommitRowSets ==
  ASSUME ~WritesMayFail, row \in [Orders -> IntentRow], NEW o \in Orders, NEW r, CommitRow(o, r)
  PROVE  row'[o] = r /\ \A p \in Orders : p # o => row'[p] = row[p]
BY DEF CommitRow

\* Rows change for the order at the lock, for a landed order, or for one that
\* recover() goes through.
LEMMA RowsFrame ==
  ASSUME [Next]_vars, ~Executor, ~Collect, ~PersistStep, ~\E o \in Orders : Reconcile(o)
  PROVE  UNCHANGED row
BY DEF vars, Next, Tick, Engine, Recovery, Chain, Operator, Operate, Crash, Stop, Die,
       Untouched, Offchain, Apply, Restart, Launch, SubmitBuy, SubmitSell, Withdraw,
       StartEngine, Land, FailOnChain, BlockhashExpires, Arm, Disarm, Kill, Resume

\* Moving the task at the lock, with its row, keeps WrittenFirst.
LEMMA WrittenMove ==
  ASSUME ~WritesMayFail, Inductive, job # None, job.o \in Orders,
         UNCHANGED <<waiting, launched, order, todo, sends, tx>>,
         \A p \in Orders : p # job.o => row'[p] = row[p],
         job' = None \/ /\ job'.o = job.o
                        /\ job'.pc \in BeforeSend \ {"submit"} => row'[job.o].status \in Unwritten
                        /\ job'.pc = "submit" => row'[job.o].status \notin Unwritten
                        /\ job'.pc = "abandon" =>
                              job'.end \in {"ABANDONED", "FAILED", "EXPIRED"}
                        /\ job'.pc = "abandon" /\ job'.end = "ABANDONED" =>
                              tx[job.o] = "unsent" /\ row'[job.o].status \in Unwritten,
         tx[job.o] # "unsent" => row'[job.o].status \notin Unwritten
  PROVE  WrittenFirst' /\ SentIsRecorded'
<1> USE DEF Inductive
<1>1. \A i \in DOMAIN waiting : waiting[i] \in Orders /\ waiting[i] # job.o
  BY DEF TasksOnce, TypeOK
<1>2. ~Fresh(job.o)
  BY DEF TasksOnce, Fresh
<1>3. SentIsRecorded'
  BY DEF SentIsRecorded
<1>4. WrittenFirst'
  BY <1>1, <1>2 DEF WrittenFirst, Fresh
<1> QED BY <1>3, <1>4

\* The order task writes BUILT before it sends, and never takes it back.
LEMMA ExecutorWrites ==
  ASSUME ~WritesMayFail, Inductive, Executor PROVE WrittenFirst' /\ SentIsRecorded'
<1> USE DEF Inductive, Unexecuted
<1>1. CASE AcquireLock
  <2>1. /\ waiting \in Seq(Orders) /\ waiting # <<>> /\ waiting' = Tail(waiting)
        /\ job'.o = Head(waiting) /\ job'.pc = "balance"
        /\ UNCHANGED <<row, launched, order, todo, tx>>
    BY <1>1 DEF TypeOK, AcquireLock, NewJob
  <2>2. row[Head(waiting)].status = "none"
    BY <2>1 DEF WrittenFirst
  <2>3. \A i \in DOMAIN waiting' : row[waiting'[i]].status = "none"
    BY <2>1 DEF WrittenFirst
  <2> QED BY <2>1, <2>2, <2>3 DEF WrittenFirst, SentIsRecorded, Fresh, Unwritten
<1>2. ASSUME job # None
      PROVE  /\ job \in JobRecord /\ job.o \in Orders /\ row \in [Orders -> IntentRow]
             /\ job.pc \in BeforeSend => tx[job.o] = "unsent"
             /\ tx[job.o] # "unsent" => row[job.o].status \notin Unwritten
  BY <1>2 DEF TypeOK, JobRecord, TasksOnce, SentIsRecorded
<1>3. CASE ReadBalance \/ ReadTokens \/ FreshQuote
  <2>1. job # None /\ job.pc \in {"balance", "tokens", "quote"}
    BY <1>3 DEF ReadBalance, ReadTokens, FreshQuote, At
  <2>2. tx[job.o] = "unsent" /\ row[job.o].status \in Unwritten
    BY <1>2, <2>1 DEF WrittenFirst, BeforeSend
  <2>3. /\ job'.o = job.o
        /\ \/ job'.pc \in {"tokens", "quote", "prepare"}
           \/ job'.pc = "abandon" /\ job'.end = "ABANDONED"
    BY <1>2, <1>3, <2>1, GotoMoves, AbandonMoves DEF ReadBalance, ReadTokens, FreshQuote
  <2>4. UNCHANGED <<waiting, launched, order, todo, sends, tx, row>>
    BY <1>3 DEF ReadBalance, ReadTokens, FreshQuote
  <2> QED BY <1>2, <2>1, <2>2, <2>3, <2>4, WrittenMove
<1>4. CASE SavePrepared
  <2>1. job # None /\ job.pc = "prepare"
    BY <1>4 DEF SavePrepared, At
  <2>2. tx[job.o] = "unsent"
    BY <1>2, <2>1 DEF BeforeSend
  <2>3. job'.o = job.o /\ job'.pc = "build"
    BY <1>2, <1>4, <2>1, GotoMoves DEF SavePrepared
  <2>4. UNCHANGED <<waiting, launched, order, todo, sends, tx>>
    BY <1>4 DEF SavePrepared
  <2>5. /\ row'[job.o].status = "PREPARED"
        /\ \A p \in Orders : p # job.o => row'[p] = row[p]
    BY <1>2, <1>4, <2>1, CommitRowSets DEF SavePrepared, NoRow
  <2> QED BY <1>2, <2>1, <2>2, <2>3, <2>4, <2>5, WrittenMove DEF Unwritten
<1>5. CASE BuildAndSign
  <2>1. job # None /\ job.pc = "build"
    BY <1>5 DEF BuildAndSign, At
  <2>2. tx[job.o] = "unsent" /\ row[job.o].status \in Unwritten
    BY <1>2, <2>1 DEF WrittenFirst, BeforeSend
  <2>3. /\ job'.o = job.o
        /\ \/ job'.pc = "saveBuilt"
           \/ job'.pc = "abandon" /\ job'.end \in {"ABANDONED", "FAILED"}
    BY <1>2, <1>5, <2>1, GotoMoves, AbandonMoves DEF BuildAndSign
  <2>4. UNCHANGED <<waiting, launched, order, todo, sends, tx, row>>
    BY <1>5 DEF BuildAndSign
  <2> QED BY <1>2, <2>1, <2>2, <2>3, <2>4, WrittenMove
<1>6. CASE SaveBuilt
  <2>1. job # None
    BY <1>6 DEF SaveBuilt, At
  <2>2. job'.o = job.o /\ job'.pc = "submit"
    BY <1>2, <1>6, <2>1, GotoMoves DEF SaveBuilt
  <2>3. UNCHANGED <<waiting, launched, order, todo, sends, tx>>
    BY <1>6 DEF SaveBuilt
  <2>4. /\ row'[job.o].status = "BUILT"
        /\ \A p \in Orders : p # job.o => row'[p] = row[p]
    BY <1>2, <1>6, <2>1, CommitRowSets DEF SaveBuilt, NoRow
  <2> QED BY <1>2, <2>1, <2>2, <2>3, <2>4, WrittenMove DEF Unwritten
<1>7. CASE Submit
  <2>1. job # None /\ job.pc = "submit" /\ row[job.o].status \notin Unwritten
    BY <1>7 DEF Submit, At, WrittenFirst
  <2>2. UNCHANGED <<waiting, launched, order, todo, row>>
    BY <1>7 DEF Submit
  <2>3. \A o \in Orders : o # job.o => tx'[o] = tx[o]
    BY <1>7 DEF Submit, TypeOK
  <2>4. \/ job'.pc = "saveSent"
        \/ job'.pc = "abandon" /\ job'.end = "FAILED"
    BY <1>2, <1>7, <2>1, GotoMoves, AbandonMoves DEF Submit
  <2>5. SentIsRecorded'
    BY <2>1, <2>2, <2>3 DEF SentIsRecorded
  <2>6. WrittenFirst'
    BY <2>1, <2>2, <2>4 DEF WrittenFirst, Fresh, BeforeSend
  <2> QED BY <2>5, <2>6
<1>8. CASE SaveSent
  <2>1. job # None
    BY <1>8 DEF SaveSent, At
  <2>2. job'.o = job.o /\ job'.pc = "await"
    BY <1>2, <1>8, <2>1, GotoMoves DEF SaveSent
  <2>3. UNCHANGED <<waiting, launched, order, todo, sends, tx>>
    BY <1>8 DEF SaveSent
  <2>4. /\ row'[job.o].status = "SENT"
        /\ \A p \in Orders : p # job.o => row'[p] = row[p]
    BY <1>2, <1>8, <2>1, CommitRowSets DEF SaveSent, SentRow
  <2> QED BY <1>2, <2>1, <2>2, <2>3, <2>4, WrittenMove DEF Unwritten, BeforeSend
<1>9. CASE AwaitConfirmation \/ ReadHeight \/ PollsRunOut
  <2>1. job # None
    BY <1>9 DEF AwaitConfirmation, ReadHeight, PollsRunOut, At
  <2>2. /\ job'.o = job.o
        /\ \/ job'.pc \in {"await", "height", "saveConfirmed", "saveUnknown"}
           \/ job'.pc = "abandon" /\ job'.end \in {"FAILED", "EXPIRED"}
    BY <1>2, <1>9, <2>1, GotoMoves, AbandonMoves DEF AwaitConfirmation, ReadHeight, PollsRunOut
  <2>3. UNCHANGED <<waiting, launched, order, todo, sends, tx, row>>
    BY <1>9 DEF AwaitConfirmation, ReadHeight, PollsRunOut
  <2> QED BY <1>2, <2>1, <2>2, <2>3, WrittenMove DEF BeforeSend
<1>10. CASE SaveConfirmed \/ SaveUnknown
  <2>1. job # None /\ job' = None
    BY <1>10 DEF SaveConfirmed, SaveUnknown, At, Finish
  <2>2. UNCHANGED <<waiting, launched, order, todo, sends, tx>>
    BY <1>10 DEF SaveConfirmed, SaveUnknown
  <2>3. /\ row'[job.o].status \in {"CONFIRMED", "SENT"}
        /\ \A p \in Orders : p # job.o => row'[p] = row[p]
    <3>1. PICK r \in {Confirmed(FALSE), SentRow} : CommitRow(job.o, r)
      BY <1>10 DEF SaveConfirmed, SaveUnknown
    <3>2. r.status \in {"CONFIRMED", "SENT"}
      BY <3>1 DEF SentRow, Confirmed
    <3> QED BY <1>2, <2>1, <3>1, <3>2, CommitRowSets
  <2> QED BY <1>2, <2>1, <2>2, <2>3, WrittenMove DEF Unwritten
<1>11. CASE SaveAbandoned
  <2>1. job # None /\ job' = None
    BY <1>11 DEF SaveAbandoned, At, Finish
  <2>2. UNCHANGED <<waiting, launched, order, todo, sends, tx>>
    BY <1>11 DEF SaveAbandoned
  <2>3. /\ row'[job.o].status = job.end
        /\ \A p \in Orders : p # job.o => row'[p] = row[p]
    <3> DEFINE r == [NoRow EXCEPT !.status = job.end, !.sentAt = (tx[job.o] # "unsent")]
    <3>1. CommitRow(job.o, r)
      BY <1>11 DEF SaveAbandoned
    <3>2. r.status = job.end
      BY DEF NoRow
    <3> HIDE DEF r
    <3> QED BY <1>2, <2>1, <3>1, <3>2, CommitRowSets
  <2>4. tx[job.o] # "unsent" => job.end \notin Unwritten
    BY <1>11 DEF SaveAbandoned, At, WrittenFirst, Unwritten
  <2> QED BY <1>2, <2>1, <2>2, <2>3, <2>4, WrittenMove
<1> QED
  BY <1>1, <1>3, <1>4, <1>5, <1>6, <1>7, <1>8, <1>9, <1>10, <1>11 DEF Executor

\* Every step keeps the record ahead of the broadcast.
LEMMA WrittenStep ==
  ASSUME ~WritesMayFail, Inductive, [Next]_vars PROVE WrittenFirst' /\ SentIsRecorded'
<1> USE DEF Inductive
<1>1. \A o \in Orders : tx[o] # "unsent" => ~Fresh(o)
  BY DEF TasksOnce
<1>2. ASSUME NEW o \in Orders, tx[o] # "unsent", UNCHANGED <<waiting, launched, todo, job, tx>>,
             \A p \in Orders : p # o => row'[p] = row[p] /\ order'[p] = order[p],
             order'[o] \in {order[o], "resolved"}, row'[o].status \notin Unwritten
      PROVE  WrittenFirst' /\ SentIsRecorded'
  <2>1. SentIsRecorded'
    BY <1>2 DEF SentIsRecorded
  <2>2. \A i \in DOMAIN waiting : waiting[i] \in Orders /\ waiting[i] # o
    BY <1>2 DEF TasksOnce, TypeOK
  <2>3. job # None => job.o \in Orders /\ (job.pc \in BeforeSend => job.o # o)
    BY <1>2 DEF TasksOnce, TypeOK, JobRecord
  <2>4. todo \subseteq Orders
    BY DEF TypeOK
  <2> QED BY <1>1, <1>2, <2>1, <2>2, <2>3, <2>4 DEF WrittenFirst, Fresh, BeforeSend
<1>3. ASSUME UNCHANGED <<waiting, launched, todo, job, row>>,
             \A o \in Orders : order'[o] # order[o] /\ order'[o] # "resolved" => order[o] = "free",
             \A o \in Orders : (tx'[o] = "unsent") <=> (tx[o] = "unsent")
      PROVE  WrittenFirst' /\ SentIsRecorded'
  <2>1. todo \subseteq Orders /\ (job # None => job.o \in Orders)
    BY DEF TypeOK, JobRecord
  <2>2. \A o \in Orders : (Fresh(o))' => Fresh(o)
    BY <1>3 DEF Fresh
  <2>3. \A o \in todo : order'[o] = "resolved"
    BY <1>3, <2>1 DEF WrittenFirst
  <2> QED BY <1>3, <2>1, <2>2, <2>3 DEF WrittenFirst, SentIsRecorded
<1>4. CASE Collect
  <2>1. finished \in Seq(Outcome) /\ finished # <<>>
    BY <1>4 DEF Collect, TypeOK
  <2>2. /\ Head(finished).o \in Orders
        /\ Head(finished).confirmed => tx[Head(finished).o] = "landed"
    <3>1. Head(finished) \in Outcome
      BY <2>1
    <3> QED BY <2>1, <3>1 DEF LandedFirst, Outcome
  <2>3. /\ UNCHANGED <<waiting, launched, todo, job, tx>>
        /\ order' \in {order, [order EXCEPT ![Head(finished).o] = "resolved"]}
    BY <1>4 DEF Collect, Untouched
  <2>4. \/ UNCHANGED row
        \/ Head(finished).confirmed /\ CommitRow(Head(finished).o, Confirmed(TRUE))
    BY <1>4 DEF Collect
  <2>5. order \in [Orders -> {"free", "pending", "resolved"}] /\ row \in [Orders -> IntentRow]
    BY DEF TypeOK
  <2>6. CASE UNCHANGED row
    BY <1>3, <2>2, <2>3, <2>5, <2>6
  <2>7. CASE Head(finished).confirmed /\ CommitRow(Head(finished).o, Confirmed(TRUE))
    <3>1. /\ row'[Head(finished).o] = Confirmed(TRUE)
          /\ \A p \in Orders : p # Head(finished).o => row'[p] = row[p]
      BY <2>2, <2>5, <2>7, CommitRowSets
    <3> QED BY <1>2, <2>2, <2>3, <2>5, <2>7, <3>1 DEF Confirmed, Unwritten
  <2> QED BY <2>4, <2>6, <2>7
<1>5. CASE PersistStep
  <2>1. persist.of \in Orders /\ tx[persist.of] = "landed"
    BY <1>5 DEF PersistStep, LandedFirst, TypeOK
  <2>2. UNCHANGED <<waiting, launched, todo, job, tx, order>>
    BY <1>5 DEF PersistStep, Untouched
  <2>3. UNCHANGED row \/ row' = [row EXCEPT ![persist.of] = Booked(@)]
    BY <1>5 DEF PersistStep, Commit
  <2>4. row \in [Orders -> IntentRow]
    BY DEF TypeOK
  <2>5. /\ row' = row \/ row'[persist.of].status = "CONFIRMED"
        /\ \A p \in Orders : p # persist.of => row'[p] = row[p]
    BY <2>1, <2>3, <2>4 DEF Booked, IntentRow
  <2> QED BY <1>2, <1>3, <2>1, <2>2, <2>5 DEF Unwritten
<1>6. ASSUME NEW o \in Orders, Reconcile(o) PROVE WrittenFirst' /\ SentIsRecorded'
  <2>1. /\ UNCHANGED <<waiting, launched, job, tx, order>> /\ todo' = todo \ {o}
        /\ phase = "recovering" /\ o \in todo
    BY <1>6 DEF Reconcile
  <2>2. waiting = <<>> /\ job = None /\ order[o] = "resolved"
    BY <2>1 DEF TasksOnce, WrittenFirst
  <2>3. UNCHANGED row \/ \E s \in {"FAILED", "EXPIRED", "CONFIRMED"} : Settle(o, s)
    BY <1>6 DEF Reconcile
  <2>4. row \in [Orders -> IntentRow]
    BY DEF TypeOK
  <2>5. /\ row' = row \/ row'[o].status \in {"FAILED", "EXPIRED", "CONFIRMED"}
        /\ \A p \in Orders : p # o => row'[p] = row[p]
    <3>1. CASE \E s \in {"FAILED", "EXPIRED", "CONFIRMED"} : Settle(o, s)
      <4>1. PICK s \in {"FAILED", "EXPIRED", "CONFIRMED"} : Settle(o, s)
        BY <3>1
      <4>2. /\ row'[o] = [row[o] EXCEPT !.status = s]
            /\ \A p \in Orders : p # o => row'[p] = row[p]
        BY <2>4, <4>1, CommitRowSets DEF Settle
      <4> QED BY <2>4, <4>2 DEF IntentRow
    <3> QED BY <2>3, <3>1
  <2>6. ~Fresh(o) /\ \A p \in Orders : (Fresh(p))' <=> Fresh(p)
    BY <2>1, <2>2 DEF Fresh
  <2>7. SentIsRecorded'
    BY <2>1, <2>5 DEF SentIsRecorded, Unwritten
  <2>8. \A p \in Orders : Fresh(p) => row'[p].status = "none"
    BY <2>5, <2>6 DEF WrittenFirst
  <2> QED BY <2>1, <2>2, <2>6, <2>7, <2>8 DEF WrittenFirst
<1>7. CASE Restart
  <2>1. /\ UNCHANGED <<waiting, launched, job, tx, order, row>>
        /\ todo' = {o \in Orders : row[o].status \in {"BUILT", "SENT"}} /\ phase = "down"
    BY <1>7 DEF Restart
  <2>2. \A o \in todo' : order[o] = "resolved"
    BY <2>1 DEF TasksOnce, WrittenFirst, Fresh
  <2> QED BY <2>1, <2>2 DEF WrittenFirst, SentIsRecorded, Fresh
<1>8. CASE Crash \/ Stop
  <2>1. /\ launched' = {} /\ waiting' = <<>> /\ job' = None /\ todo' = {}
        /\ UNCHANGED <<tx, row>>
    BY <1>8 DEF Crash, Stop, Die
  <2>2. \A o \in Orders : order'[o] = IF order[o] = "pending" THEN "resolved" ELSE order[o]
    BY <1>8 DEF Crash, Stop, Die
  <2>3. \A o \in Orders : (Fresh(o))' => order[o] = "free"
    BY <2>2 DEF Fresh, TypeOK
  <2>4. \A o \in Orders : (Fresh(o))' => Fresh(o)
    BY <2>3 DEF TasksOnce, Fresh
  <2> QED BY <2>1, <2>4 DEF WrittenFirst, SentIsRecorded
<1>9. ASSUME NEW o \in Orders, Launch(o) PROVE WrittenFirst' /\ SentIsRecorded'
  <2>1. /\ waiting' = Append(waiting, o) /\ launched' = launched \cup {o}
        /\ UNCHANGED <<todo, job, tx, order, row>> /\ Fresh(o)
    BY <1>9 DEF Launch, Fresh
  <2>2. row[o].status = "none" /\ waiting \in Seq(Orders)
    BY <2>1 DEF WrittenFirst, TypeOK
  <2>3. \A i \in DOMAIN waiting' : row[waiting'[i]].status = "none"
    BY <2>1, <2>2 DEF WrittenFirst
  <2> QED BY <2>1, <2>3 DEF WrittenFirst, SentIsRecorded, Fresh
<1>10. ASSUME Engine PROVE WrittenFirst' /\ SentIsRecorded'
  <2>1. UNCHANGED <<waiting, launched, todo, job, row, tx>>
    BY <1>10 DEF Engine, SubmitBuy, SubmitSell, Withdraw
  <2>2. \A o \in Orders :
          order'[o] # order[o] /\ order'[o] # "resolved" => order[o] = "free"
    BY <1>10 DEF Engine, SubmitBuy, SubmitSell, Withdraw, TypeOK
  <2> QED BY <1>3, <2>1, <2>2
<1>11. ASSUME Chain PROVE WrittenFirst' /\ SentIsRecorded'
  <2>1. UNCHANGED <<waiting, launched, todo, job, row, order>>
    BY <1>11 DEF Chain, Land, FailOnChain, BlockhashExpires, Offchain
  <2>2. \A o \in Orders : (tx'[o] = "unsent") <=> (tx[o] = "unsent")
    BY <1>11 DEF Chain, Land, FailOnChain, BlockhashExpires, TypeOK
  <2> QED BY <1>3, <2>1, <2>2
<1>12. CASE Apply \/ StartEngine \/ Operator \/ UNCHANGED vars
  BY <1>3, <1>12
  DEF vars, Apply, Untouched, StartEngine, Operator, Operate, Arm, Disarm, Kill, Resume
<1> QED
  BY <1>4, <1>5, <1>6, <1>7, <1>8, <1>9, <1>10, <1>11, <1>12, ExecutorWrites
  DEF Next, Tick, Recovery

----------------------------------------------------------------------------
(* The invariant holds in every reachable state *)

\* The state start-up leaves satisfies it, and no handler, crash, commit or
\* block breaks it.
THEOREM InductiveInvariant == Spec => []Inductive
<1>1. Init => Inductive
  BY TypeInit, TasksInit, LandedInit, WrittenInit DEF Inductive
<1>2. Inductive /\ [Next]_vars => Inductive'
  <2> SUFFICES ASSUME Inductive, [Next]_vars PROVE Inductive'
    OBVIOUS
  <2>1. TypeOK'
    BY TypeStep
  <2>2. TasksOnce' /\ SentAtMostOnce'
    BY TasksStep
  <2>3. LandedFirst'
    BY LandedStep
  <2>4. BookedHasLanded'
    BY BookedStep
  <2>5. ~WritesMayFail => WrittenFirst' /\ SentIsRecorded'
    BY WrittenStep
  <2> QED BY <2>1, <2>2, <2>3, <2>4, <2>5 DEF Inductive
<1> QED BY <1>1, <1>2, PTL DEF Spec

\* Every variable keeps its type; in particular no booking drives the cash of
\* the account below zero and no swap the balance of the wallet.
THEOREM TypeCorrect == Spec => []TypeOK
<1>1. Inductive => TypeOK
  BY DEF Inductive
<1> QED BY <1>1, InductiveInvariant, PTL

\* An order is submitted to the network at most once, whatever is relaunched,
\* withdrawn, crashed, recovered or lost by the database.
THEOREM OneSend == Spec => []SentAtMostOnce
<1>1. Inductive => SentAtMostOnce
  BY DEF Inductive
<1> QED BY <1>1, InductiveInvariant, PTL

\* Neither the tick nor recover() books a swap that has not landed: no fill,
\* no position in memory or in the database without its transaction.
THEOREM NoPhantomBooking == Spec => []BookedHasLanded
<1>1. Inductive => BookedHasLanded
  BY DEF Inductive
<1> QED BY <1>1, InductiveInvariant, PTL

\* While commits succeed, recover() finds a row, with a signature, for every
\* transaction the network may have.
THEOREM RecordBeforeSend == Spec => [](~WritesMayFail => SentIsRecorded)
<1>1. Inductive => (~WritesMayFail => SentIsRecorded)
  BY DEF Inductive
<1> QED BY <1>1, InductiveInvariant, PTL

----------------------------------------------------------------------------
(* Autonomous implements SwapBooking *)

\* What the abstract variables see of a step.
LEMMA SameSwaps ==
  ASSUME UNCHANGED <<tx, dbFill>>,
         \A o \in Orders : (row'[o].status \in Unwritten) <=> (row[o].status \in Unwritten)
  PROVE  UNCHANGED Swaps!vars
BY DEF Swaps!vars, Stage, Unwritten

\* A commit of one row writes its order down or changes nothing of note,
\* provided it never takes a record back.
LEMMA RowWrites ==
  ASSUME NEW o \in Orders, UNCHANGED <<tx, dbFill>>,
         \A p \in Orders : p # o => row'[p] = row[p],
         tx[o] = "unsent" /\ row[o].status \notin Unwritten => row'[o].status \notin Unwritten
  PROVE  [Swaps!Next]_Swaps!vars
<1>1. \A p \in Orders : p # o => (Stage(p))' = Stage(p)
  BY DEF Stage, Unwritten
<1>2. (Stage(o))' = Stage(o) \/ (Stage(o) = "new" /\ (Stage(o))' = "written")
  BY DEF Stage, Unwritten
<1>3. CASE (Stage(o))' = Stage(o)
  BY <1>1, <1>3 DEF Swaps!vars
<1>4. CASE Stage(o) = "new" /\ (Stage(o))' = "written"
  <2>1. [p \in Orders |-> Stage(p)]' = [[p \in Orders |-> Stage(p)] EXCEPT ![o] = "written"]
    BY <1>1, <1>4
  <2>2. Swaps!Write(o)
    BY <1>4, <2>1 DEF Swaps!Write, Swaps!Move
  <2> QED BY <2>2 DEF Swaps!Next
<1> QED BY <1>2, <1>3, <1>4

\* A change of one transaction alone moves its order along the chain.
LEMMA TxMoves ==
  ASSUME NEW o \in Orders, UNCHANGED <<row, dbFill>>, tx \in [Orders -> TxStates],
         NEW t \in TxStates, tx' = [tx EXCEPT ![o] = t],
         \/ Stage(o) = "written" /\ t = "pool"
         \/ tx[o] = "pool" /\ t \in {"landed", "failed", "expired"}
  PROVE  [Swaps!Next]_Swaps!vars
<1>1. tx'[o] = t /\ \A p \in Orders : p # o => tx'[p] = tx[p]
  OBVIOUS
<1>2. \A p \in Orders : p # o => (Stage(p))' = Stage(p)
  BY <1>1 DEF Stage, Unwritten
<1>3. PICK s \in {"wired", "landed", "void"} : (Stage(o))' = s
  BY <1>1 DEF Stage
<1>4. [p \in Orders |-> Stage(p)]' = [[p \in Orders |-> Stage(p)] EXCEPT ![o] = s]
  BY <1>2, <1>3
<1>5. CASE Stage(o) = "written" /\ t = "pool"
  <2>1. s = "wired"
    BY <1>1, <1>3, <1>5 DEF Stage
  <2>2. Swaps!Wire(o)
    BY <1>4, <1>5, <2>1 DEF Swaps!Wire, Swaps!Move
  <2> QED BY <2>2 DEF Swaps!Next
<1>6. CASE tx[o] = "pool" /\ t \in {"landed", "failed", "expired"}
  <2>1. Stage(o) = "wired"
    BY <1>6 DEF Stage
  <2>2. s \in {"landed", "void"}
    BY <1>1, <1>3, <1>6 DEF Stage
  <2>3. Swaps!Land(o) \/ Swaps!Void(o)
    BY <1>4, <2>1, <2>2 DEF Swaps!Land, Swaps!Void, Swaps!Move
  <2> QED BY <2>3 DEF Swaps!Next
<1> QED BY <1>5, <1>6

\* The executor's steps: the commits of a row, the broadcast, and the rest.
LEMMA ExecutorSwaps ==
  ASSUME ~WritesMayFail, Inductive, Executor PROVE [Swaps!Next]_Swaps!vars
<1> USE DEF Inductive
<1>1. row \in [Orders -> IntentRow] /\ tx \in [Orders -> TxStates]
  BY DEF TypeOK
<1>2. job # None => job.o \in Orders
  BY DEF TypeOK, JobRecord
<1>3. ASSUME UNCHANGED <<tx, row, dbFill>> PROVE [Swaps!Next]_Swaps!vars
  BY <1>3, SameSwaps
<1>4. ASSUME job # None, UNCHANGED <<tx, dbFill>>, NEW r, CommitRow(job.o, r),
             tx[job.o] = "unsent" /\ row[job.o].status \notin Unwritten => r.status \notin Unwritten
      PROVE  [Swaps!Next]_Swaps!vars
  BY <1>1, <1>2, <1>4, CommitRowSets, RowWrites
<1>5. CASE AcquireLock \/ ReadBalance \/ ReadTokens \/ FreshQuote \/ BuildAndSign
           \/ AwaitConfirmation \/ ReadHeight \/ PollsRunOut
  BY <1>3, <1>5
  DEF AcquireLock, ReadBalance, ReadTokens, FreshQuote, BuildAndSign, AwaitConfirmation,
      ReadHeight, PollsRunOut, Unexecuted
<1>6. CASE SavePrepared
  <2>1. row[job.o].status \in Unwritten /\ job # None
    BY <1>6 DEF SavePrepared, At, WrittenFirst, BeforeSend
  <2>2. UNCHANGED <<tx, dbFill>>
    BY <1>6 DEF SavePrepared, Unexecuted
  <2>3. CommitRow(job.o, [NoRow EXCEPT !.status = "PREPARED"])
    BY <1>6 DEF SavePrepared
  <2> QED BY <1>4, <2>1, <2>2, <2>3
<1>7. CASE SaveBuilt \/ SaveSent \/ SaveConfirmed \/ SaveUnknown
  <2>1. job # None /\ UNCHANGED <<tx, dbFill>>
    BY <1>7 DEF SaveBuilt, SaveSent, SaveConfirmed, SaveUnknown, At, Unexecuted
  <2>2. PICK r \in {[NoRow EXCEPT !.status = "BUILT"], SentRow, Confirmed(FALSE)} :
             CommitRow(job.o, r)
    BY <1>7 DEF SaveBuilt, SaveSent, SaveConfirmed, SaveUnknown
  <2>3. r.status \notin Unwritten
    BY <2>2 DEF NoRow, SentRow, Confirmed, Unwritten
  <2> QED BY <1>4, <2>1, <2>2, <2>3
<1>8. CASE SaveAbandoned
  <2>1. job # None /\ UNCHANGED <<tx, dbFill>>
    BY <1>8 DEF SaveAbandoned, At
  <2>2. row[job.o].status \notin Unwritten => job.end \notin Unwritten
    BY <1>8 DEF SaveAbandoned, At, WrittenFirst, Unwritten
  <2> DEFINE r == [NoRow EXCEPT !.status = job.end, !.sentAt = (tx[job.o] # "unsent")]
  <2>3. CommitRow(job.o, r)
    BY <1>8 DEF SaveAbandoned
  <2>4. r.status = job.end
    BY DEF NoRow
  <2> HIDE DEF r
  <2> QED BY <1>4, <2>1, <2>2, <2>3, <2>4
<1>9. CASE Submit
  <2>1. UNCHANGED <<row, dbFill>> /\ (UNCHANGED tx \/ tx' = [tx EXCEPT ![job.o] = "pool"])
    BY <1>9 DEF Submit
  <2>2. job # None /\ row[job.o].status \notin Unwritten /\ tx[job.o] = "unsent"
    BY <1>2, <1>9 DEF Submit, At, WrittenFirst, TasksOnce, BeforeSend
  <2>3. Stage(job.o) = "written"
    BY <2>2 DEF Stage
  <2>4. CASE tx' = [tx EXCEPT ![job.o] = "pool"]
    BY <1>1, <1>2, <2>1, <2>2, <2>3, <2>4, TxMoves DEF TxStates
  <2> QED BY <1>3, <2>1, <2>4
<1> QED BY <1>5, <1>6, <1>7, <1>8, <1>9 DEF Executor

\* The tick, recovery, the chain and everything else.
LEMMA SwapsStep ==
  ASSUME ~WritesMayFail, Inductive, [Next]_vars PROVE [Swaps!Next]_Swaps!vars
<1> USE DEF Inductive
<1>1. row \in [Orders -> IntentRow] /\ tx \in [Orders -> TxStates]
  BY DEF TypeOK
<1>2. ASSUME UNCHANGED <<tx, row, dbFill>> PROVE [Swaps!Next]_Swaps!vars
  BY <1>2, SameSwaps
<1>3. CASE Collect
  <2>1. finished \in Seq(Outcome) /\ finished # <<>>
    BY <1>3 DEF Collect, TypeOK
  <2>2. Head(finished).o \in Orders
    <3>1. Head(finished) \in Outcome
      BY <2>1
    <3> QED BY <3>1 DEF Outcome
  <2>3. UNCHANGED <<tx, dbFill>>
    BY <1>3 DEF Collect, Untouched
  <2>4. UNCHANGED row \/ CommitRow(Head(finished).o, Confirmed(TRUE))
    BY <1>3 DEF Collect
  <2>5. CASE CommitRow(Head(finished).o, Confirmed(TRUE))
    <3>1. Confirmed(TRUE).status \notin Unwritten
      BY DEF Confirmed, Unwritten
    <3> QED BY <1>1, <2>2, <2>3, <2>5, <3>1, CommitRowSets, RowWrites
  <2> QED BY <1>2, <2>3, <2>4, <2>5
<1>4. CASE PersistStep
  <2>1. persist.of \in Orders /\ tx[persist.of] = "landed"
    BY <1>4 DEF PersistStep, LandedFirst, TypeOK
  <2>2. UNCHANGED tx
    BY <1>4 DEF PersistStep, Untouched
  <2>3. \/ UNCHANGED row
        \/ row' = [row EXCEPT ![persist.of] = Booked(@)]
    BY <1>4 DEF PersistStep, Commit
  <2>4. \A p \in Orders : (row'[p].status \in Unwritten /\ p = persist.of) \/ row'[p] = row[p]
                          \/ (row'[p].status = "CONFIRMED" /\ p = persist.of)
    BY <1>1, <2>1, <2>3 DEF Booked, IntentRow
  <2>5. \A p \in Orders : (Stage(p))' = Stage(p)
    <3>1. \A p \in Orders : tx[p] = "unsent" => row'[p] = row[p]
      BY <2>1, <2>4
    <3> QED BY <2>2, <3>1 DEF Stage
  <2>6. \/ UNCHANGED dbFill
        \/ dbFill' = [dbFill EXCEPT ![persist.of] = @ + 1]
    BY <1>4 DEF PersistStep, Commit
  <2>7. UNCHANGED [p \in Orders |-> Stage(p)]
    BY <2>5
  <2>8. CASE UNCHANGED dbFill
    BY <2>7, <2>8 DEF Swaps!vars
  <2>9. CASE dbFill' = [dbFill EXCEPT ![persist.of] = @ + 1]
    <3>1. dbFill \in [Orders -> Nat]
      BY DEF TypeOK
    <3>2. {p \in Orders : dbFill[p] > 0}' = {p \in Orders : dbFill[p] > 0} \cup {persist.of}
      BY <2>1, <2>9, <3>1
    <3>3. Stage(persist.of) = "landed"
      BY <2>1 DEF Stage
    <3>4. \E o \in Orders : Swaps!Book(o)
      BY <2>1, <2>7, <3>2, <3>3 DEF Swaps!Book
    <3> QED BY <3>4 DEF Swaps!Next
  <2> QED BY <2>6, <2>8, <2>9
<1>5. ASSUME NEW o \in Orders, Reconcile(o) PROVE [Swaps!Next]_Swaps!vars
  <2>1. UNCHANGED <<tx, dbFill>>
    BY <1>5 DEF Reconcile
  <2>2. UNCHANGED row \/ \E s \in {"FAILED", "EXPIRED", "CONFIRMED"} : Settle(o, s)
    BY <1>5 DEF Reconcile
  <2>3. ASSUME NEW s \in {"FAILED", "EXPIRED", "CONFIRMED"}, Settle(o, s)
        PROVE  [Swaps!Next]_Swaps!vars
    <3>1. /\ row'[o] = [row[o] EXCEPT !.status = s]
          /\ \A p \in Orders : p # o => row'[p] = row[p]
      BY <1>1, <2>3, CommitRowSets DEF Settle
    <3>2. row'[o].status = s
      BY <1>1, <3>1 DEF IntentRow
    <3> QED BY <2>1, <3>1, <3>2, RowWrites DEF Unwritten
  <2> QED BY <1>2, <2>1, <2>2, <2>3
<1>6. ASSUME Chain PROVE [Swaps!Next]_Swaps!vars
  <2>1. PICK o \in Orders : Land(o) \/ FailOnChain(o) \/ BlockhashExpires(o)
    BY <1>6 DEF Chain
  <2>2. UNCHANGED <<row, dbFill>> /\ tx[o] = "pool"
    BY <2>1 DEF Land, FailOnChain, BlockhashExpires, Offchain
  <2>3. PICK t \in {"landed", "failed", "expired"} : tx' = [tx EXCEPT ![o] = t]
    BY <2>1 DEF Land, FailOnChain, BlockhashExpires
  <2> QED BY <1>1, <2>2, <2>3, TxMoves DEF TxStates
<1>7. CASE Engine
  BY <1>2, <1>7 DEF Engine, SubmitBuy, SubmitSell, Withdraw
<1>8. CASE (\E o \in Orders : Launch(o)) \/ Apply \/ Restart \/ StartEngine \/ UNCHANGED vars
  BY <1>2, <1>8 DEF Launch, Apply, Restart, StartEngine, Untouched, vars
<1>9. CASE Crash \/ Stop
  BY <1>2, <1>9 DEF Crash, Stop, Die
<1>10. CASE Operator
  BY <1>2, <1>10 DEF Operator, Operate, Arm, Disarm, Kill, Resume
<1> QED
  BY <1>3, <1>4, <1>5, <1>6, <1>7, <1>8, <1>9, <1>10, ExecutorSwaps DEF Next, Tick, Recovery

\* While commits succeed, the executor with its crashes and recoveries
\* implements the protocol of SwapBooking: record, send once, book what landed.
THEOREM Refinement == ASSUME ~WritesMayFail PROVE Spec => BooksSwaps
<1>1. Init => Swaps!Init
  BY DEF Init, Swaps!Init, Stage, NoRow, Unwritten
<1>2. Inductive /\ [Next]_vars => [Swaps!Next]_Swaps!vars
  BY SwapsStep
<1> QED BY <1>1, <1>2, InductiveInvariant, PTL DEF Spec, BooksSwaps, Swaps!Spec

----------------------------------------------------------------------------
(* The markers: kill stops every order, disarm stops BUYs *)

\* The awaits of a task after its only reading of the markers and before its send.
BeyondMarkers == {"tokens", "quote", "prepare", "build", "saveBuilt", "submit"}

\* The task at the lock has passed the markers, or read them when they let it pass.
CanStillSend ==
    job # None /\ (job.pc \in BeyondMarkers \/ (job.pc = "balance" /\ ~job.kill))
CanStillBuy ==
    /\ job # None /\ job.o \in Buys
    /\ job.pc \in BeyondMarkers \/ (job.pc = "balance" /\ job.armed)

\* Once a task has sent past a marker, no task that has not read it is left.
KillHolds == lateSends # {} => kill /\ ~CanStillSend
DisarmHolds == lateBuys # {} => ~armed /\ ~CanStillBuy
MarkersHold == KillHolds /\ DisarmHolds /\ MarkersArePrompt

\* A step that moves the task at the lock towards its send, by where it was.
LEMMA SendPathStep ==
  ASSUME TypeOK, [Next]_vars, ~AcquireLock, job' # None
  PROVE  /\ job # None /\ job'.o = job.o
         /\ job'.pc = "balance" => UNCHANGED job
         /\ job'.pc \in BeyondMarkers =>
              \/ job.pc \in BeyondMarkers
              \/ job.pc = "balance" /\ ~job.kill /\ (job.o \in Buys => job.armed)
         /\ Submit => job'.pc \notin BeyondMarkers \cup {"balance"}
<1>1. ASSUME UNCHANGED job
      PROVE  /\ job # None /\ job'.o = job.o
             /\ job'.pc \in BeyondMarkers => job.pc \in BeyondMarkers
  BY <1>1
<1>2. CASE ReadBalance
  <2>1. job # None /\ job.pc = "balance" /\ job \in JobRecord
    BY <1>2, HolderType DEF ReadBalance, At
  <2>2. \/ \E s, d : Abandon(s, d)
        \/ job.o \in Buys /\ Goto("quote") /\ ~job.kill /\ job.armed
        \/ job.o \in Sells /\ Goto("tokens") /\ ~job.kill
    BY <1>2, <2>1 DEF ReadBalance, BuyAllowed, SellAllowed
  <2>3. job'.o = job.o /\ job'.pc \in {"abandon", "quote", "tokens"}
    BY <2>1, <2>2, GotoMoves, AbandonMoves
  <2>4. job'.pc \in BeyondMarkers => ~job.kill /\ (job.o \in Buys => job.armed)
    <3>1. CASE \E s, d : Abandon(s, d)
      BY <2>1, <3>1, AbandonMoves DEF BeyondMarkers
    <3>2. CASE ~\E s, d : Abandon(s, d)
      BY <2>2, <3>2, AutonomousAssumption
    <3> QED BY <3>1, <3>2
  <2>5. ~Submit
    BY <2>1 DEF Submit, At
  <2> QED BY <2>1, <2>3, <2>4, <2>5
<1>3. CASE ReadTokens \/ FreshQuote \/ SavePrepared \/ BuildAndSign \/ SaveBuilt
  <2>1. job # None /\ job.pc \in BeyondMarkers \ {"submit"} /\ job \in JobRecord
    BY <1>3, HolderType
    DEF ReadTokens, FreshQuote, SavePrepared, BuildAndSign, SaveBuilt, At, BeyondMarkers
  <2>2. \/ \E s, d : Abandon(s, d)
        \/ \E pc \in BeyondMarkers : Goto(pc)
    BY <1>3
    DEF ReadTokens, FreshQuote, SavePrepared, BuildAndSign, SaveBuilt, BeyondMarkers
  <2>3. job'.o = job.o /\ job'.pc # "balance"
    BY <2>1, <2>2, GotoMoves, AbandonMoves DEF BeyondMarkers
  <2> QED BY <2>1, <2>3 DEF Submit, At
<1>4. CASE Submit \/ SaveSent \/ AwaitConfirmation \/ ReadHeight \/ PollsRunOut
  <2>1. job # None /\ job \in JobRecord
    BY <1>4, HolderType DEF Submit, SaveSent, AwaitConfirmation, ReadHeight, PollsRunOut, At
  <2>2. \/ \E s, d : Abandon(s, d)
        \/ \E pc \in {"saveSent", "await", "height", "saveConfirmed", "saveUnknown"} : Goto(pc)
    BY <1>4 DEF Submit, SaveSent, AwaitConfirmation, ReadHeight, PollsRunOut
  <2>3. /\ job'.o = job.o
        /\ job'.pc \in {"abandon", "saveSent", "await", "height", "saveConfirmed", "saveUnknown"}
    BY <2>1, <2>2, GotoMoves, AbandonMoves
  <2> QED BY <2>1, <2>3 DEF BeyondMarkers
<1>5. CASE SaveConfirmed \/ SaveUnknown \/ SaveAbandoned \/ Crash \/ Stop
  BY <1>5 DEF SaveConfirmed, SaveUnknown, SaveAbandoned, Finish, Crash, Stop, Die
<1>6. CASE Engine \/ Tick \/ Recovery \/ Chain \/ Operator \/ UNCHANGED vars
  <2>1. UNCHANGED job
    BY <1>6
    DEF vars, Tick, Engine, Recovery, Chain, Operator, Operate, Untouched, Offchain, Launch,
        Collect, Apply, PersistStep, SubmitBuy, SubmitSell, Withdraw, Restart, Reconcile,
        StartEngine, Land, FailOnChain, BlockhashExpires, Arm, Disarm, Kill, Resume
  <2>2. ~Submit
    <3>1. Submit => job' # job
      <4> SUFFICES ASSUME Submit PROVE job' # job
        OBVIOUS
      <4>1. job \in JobRecord /\ job.pc = "submit"
        BY HolderType DEF Submit, At
      <4>2. job'.pc \in {"saveSent", "abandon"}
        BY <4>1, GotoMoves, AbandonMoves DEF Submit
      <4> QED BY <4>1, <4>2
    <3> QED BY <2>1, <3>1
  <2> QED BY <1>1, <2>1, <2>2
<1> QED BY <1>2, <1>3, <1>4, <1>5, <1>6 DEF Next, Executor

\* Only a send, the operator's arm and resume change what counts as late; only
\* the operator and the loss rail change the markers.
LEMMA MarkerFrame ==
  ASSUME TypeOK, [Next]_vars, ~Submit
  PROVE  /\ lateSends' = lateSends \/ lateSends' = {}
         /\ lateBuys' = lateBuys \/ lateBuys' = {}
         /\ lateSends' # {} => (kill => kill')
         /\ lateBuys' # {} => (~armed => ~armed')
<1>1. CASE Operator
  BY <1>1 DEF Operator, Operate, Arm, Disarm, Kill, Resume
<1>2. CASE SaveAbandoned
  BY <1>2 DEF SaveAbandoned
<1>3. CASE ~Operator /\ ~SaveAbandoned
  <2>1. UNCHANGED <<markers, lateSends, lateBuys>>
    BY <1>3
    DEF vars, Next, Executor, Tick, Engine, Recovery, Chain, Crash, Stop,
        Die, Unexecuted, Untouched, Offchain, AcquireLock, ReadBalance, ReadTokens,
        FreshQuote, SavePrepared, BuildAndSign, SaveBuilt, SaveSent, AwaitConfirmation,
        ReadHeight, PollsRunOut, SaveConfirmed, SaveUnknown, Launch, Collect, Apply, PersistStep,
        SubmitBuy, SubmitSell, Withdraw, Restart, Reconcile, StartEngine, Land,
        FailOnChain, BlockhashExpires
  <2> QED BY <2>1
<1> QED BY <1>1, <1>2, <1>3

\* No task that could still send appears once a marker was read: a new one
\* reads it too.
LEMMA SendPathShrinks ==
  ASSUME TypeOK, [Next]_vars
  PROVE  /\ kill /\ ~CanStillSend => ~CanStillSend'
         /\ ~armed /\ ~CanStillBuy => ~CanStillBuy'
         /\ Submit => ~CanStillSend' /\ ~CanStillBuy'
<1>1. CASE AcquireLock
  <2>1. job' = NewJob(Head(waiting)) /\ ~Submit
    BY <1>1 DEF AcquireLock, Submit, At
  <2>2. job'.pc = "balance" /\ job'.kill = kill /\ job'.armed = (armed /\ ~kill)
    BY <2>1 DEF NewJob
  <2>3. kill => ~CanStillSend'
    BY <2>2 DEF CanStillSend, BeyondMarkers
  <2>4. ~armed => ~CanStillBuy'
    BY <2>2 DEF CanStillBuy, BeyondMarkers
  <2> QED BY <2>1, <2>3, <2>4
<1>2. CASE ~AcquireLock /\ job' # None
  <2>1. /\ job # None /\ job'.o = job.o
        /\ job'.pc = "balance" => UNCHANGED job
        /\ job'.pc \in BeyondMarkers =>
              \/ job.pc \in BeyondMarkers
              \/ job.pc = "balance" /\ ~job.kill /\ (job.o \in Buys => job.armed)
        /\ Submit => job'.pc \notin BeyondMarkers \cup {"balance"}
    BY <1>2, SendPathStep
  <2>2. CanStillSend' => CanStillSend
    BY <2>1 DEF CanStillSend
  <2>3. CanStillBuy' => CanStillBuy
    BY <2>1 DEF CanStillBuy
  <2>4. Submit => ~CanStillSend' /\ ~CanStillBuy'
    BY <2>1 DEF CanStillSend, CanStillBuy
  <2> QED BY <2>2, <2>3, <2>4
<1>3. CASE job' = None
  BY <1>3 DEF CanStillSend, CanStillBuy
<1> QED BY <1>1, <1>2, <1>3

\* Every step keeps the markers' promise.
LEMMA MarkersStep == ASSUME TypeOK, MarkersHold, [Next]_vars PROVE MarkersHold'
<1> USE DEF MarkersHold, KillHolds, DisarmHolds
<1>1. CASE Submit
  <2>1. /\ lateSends' = IF kill /\ job'.pc = "saveSent" THEN lateSends \cup {job.o} ELSE lateSends
        /\ lateBuys' = IF ~armed /\ job.o \in Buys /\ job'.pc = "saveSent"
                       THEN lateBuys \cup {job.o} ELSE lateBuys
        /\ UNCHANGED markers
    <3>1. job \in JobRecord
      BY <1>1, HolderType DEF Submit
    <3>2. CASE Goto("saveSent")
      <4>1. job'.pc = "saveSent"
        BY <3>1, <3>2, GotoMoves
      <4>2. ~Abandon("FAILED", FALSE)
        BY <3>1, <4>1, AbandonMoves
      <4> QED BY <1>1, <4>1, <4>2 DEF Submit
    <3>3. CASE Abandon("FAILED", FALSE)
      <4>1. job'.pc = "abandon"
        BY <3>1, <3>3, AbandonMoves
      <4>2. ~Goto("saveSent")
        BY <3>1, <4>1, GotoMoves
      <4> QED BY <1>1, <4>1, <4>2 DEF Submit
    <3> QED BY <1>1, <3>2, <3>3 DEF Submit
  <2>2. job # None /\ job.pc = "submit"
    BY <1>1 DEF Submit, At
  <2>3. lateSends = {}
    BY <2>2 DEF CanStillSend, BeyondMarkers
  <2>4. job.o \in Buys => lateBuys = {}
    BY <2>2 DEF CanStillBuy, BeyondMarkers
  <2>5. ~CanStillSend' /\ ~CanStillBuy'
    BY <1>1, SendPathShrinks
  <2>6. MarkersArePrompt'
    BY <2>1, <2>3, <2>4 DEF MarkersArePrompt
  <2>7. KillHolds'
    BY <2>1, <2>3, <2>5
  <2>8. DisarmHolds'
    BY <2>1, <2>5
  <2> QED BY <2>6, <2>7, <2>8
<1>2. CASE ~Submit
  <2>1. MarkersArePrompt'
    BY <1>2, MarkerFrame DEF MarkersArePrompt
  <2>2. KillHolds'
    BY <1>2, MarkerFrame, SendPathShrinks
  <2>3. DisarmHolds'
    BY <1>2, MarkerFrame, SendPathShrinks
  <2> QED BY <2>1, <2>2, <2>3
<1> QED BY <1>1, <1>2

\* After the operator writes KILL at most one transaction leaves, and after
\* disarm at most one BUY: those of the task already past its only reading of
\* the markers, however many orders are queued behind it or relaunched later.
THEOREM PromptMarkers == Spec => []MarkersArePrompt
<1>1. Init => MarkersHold
  BY DEF Init, MarkersHold, KillHolds, DisarmHolds, MarkersArePrompt
<1>2. TypeOK /\ MarkersHold /\ [Next]_vars => MarkersHold'
  BY MarkersStep
<1>3. MarkersHold => MarkersArePrompt
  BY DEF MarkersHold
<1> QED BY <1>1, <1>2, <1>3, TypeCorrect, PTL DEF Spec

----------------------------------------------------------------------------
(* What is recorded as failed has failed, when commits do not *)

\* FAILED is what the chain, or whoever refused the transaction, said of it.
GivenUpRightly(o, end) ==
    end = "FAILED" => \/ tx[o] \in {"unsent", "failed"}
                      \/ tx[o] = "landed" /\ MayBeUnbookable

Fits(onChain, status) ==
    status = "FAILED" => onChain # "pool" /\ (onChain = "landed" => MayBeUnbookable)
RowKeeps(o) == Fits(tx[o], row[o].status)

TaskKeeps ==
    job # None =>
        /\ job.pc = "submit" => row[job.o].status = "BUILT"
        /\ job.pc = "abandon" => GivenUpRightly(job.o, job.end)

Settled == TaskKeeps /\ \A o \in Orders : RowKeeps(o)

\* A step that moves the task at the lock, with its row and not the chain.
LEMMA SettledMove ==
  ASSUME ~WritesMayFail, Inductive, Settled, job # None, UNCHANGED tx,
         \A p \in Orders : p # job.o => row'[p] = row[p],
         Fits(tx[job.o], row'[job.o].status),
         job' = None \/ /\ job'.o = job.o
                        /\ job'.pc = "submit" => row'[job.o].status = "BUILT"
                        /\ job'.pc = "abandon" => GivenUpRightly(job.o, job'.end)
  PROVE  Settled'
<1>1. \A o \in Orders : RowKeeps(o)'
  BY DEF Settled, RowKeeps
<1>2. TaskKeeps'
  BY DEF TaskKeeps, GivenUpRightly
<1> QED BY <1>1, <1>2 DEF Settled

\* The order task: from the BUILT row to the row its outcome leaves.
LEMMA ExecutorSettles ==
  ASSUME ~WritesMayFail, Inductive, Settled, Executor PROVE Settled'
<1> USE DEF Inductive, Unexecuted
<1>1. CASE AcquireLock
  <2>1. job'.pc = "balance" /\ UNCHANGED <<row, tx>>
    BY <1>1 DEF AcquireLock, NewJob
  <2> QED BY <2>1 DEF Settled, TaskKeeps, RowKeeps
<1> SUFFICES ASSUME ~AcquireLock PROVE Settled'
  BY <1>1
<1>2. job # None
  BY DEF Executor, ReadBalance, ReadTokens, FreshQuote, SavePrepared, BuildAndSign, SaveBuilt,
         Submit, SaveSent, AwaitConfirmation, ReadHeight, PollsRunOut, SaveConfirmed,
         SaveUnknown, SaveAbandoned, At
<1>3. /\ job \in JobRecord /\ job.o \in Orders /\ row \in [Orders -> IntentRow]
      /\ RowKeeps(job.o) /\ (job.pc \in BeforeSend => tx[job.o] = "unsent")
  BY <1>2 DEF TypeOK, JobRecord, TasksOnce, Settled
<1>4. CASE ReadBalance \/ ReadTokens \/ FreshQuote \/ BuildAndSign
  <2>1. /\ job'.o = job.o
        /\ \/ job'.pc \in {"tokens", "quote", "prepare", "saveBuilt"}
           \/ job'.pc = "abandon" /\ job'.end \in {"ABANDONED", "FAILED"}
    BY <1>3, <1>4, GotoMoves, AbandonMoves DEF ReadBalance, ReadTokens, FreshQuote, BuildAndSign
  <2>2. tx[job.o] = "unsent"
    BY <1>3, <1>4 DEF ReadBalance, ReadTokens, FreshQuote, BuildAndSign, At, BeforeSend
  <2>3. UNCHANGED <<tx, row>>
    BY <1>4 DEF ReadBalance, ReadTokens, FreshQuote, BuildAndSign
  <2>4. GivenUpRightly(job.o, "ABANDONED") /\ GivenUpRightly(job.o, "FAILED")
    BY <2>2 DEF GivenUpRightly
  <2>5. Fits(tx[job.o], row'[job.o].status)
    BY <1>3, <2>3 DEF RowKeeps, Fits
  <2> QED BY <1>2, <1>3, <2>1, <2>3, <2>4, <2>5, SettledMove
<1>5. CASE SavePrepared \/ SaveBuilt
  <2>1. tx[job.o] = "unsent" /\ UNCHANGED tx
    BY <1>3, <1>5 DEF SavePrepared, SaveBuilt, At, BeforeSend
  <2>2. Fits(tx[job.o], row'[job.o].status)
    BY <2>1 DEF RowKeeps, Fits
  <2>3. CASE SavePrepared
    <3>1. job'.o = job.o /\ job'.pc = "build"
      BY <1>3, <2>3, GotoMoves DEF SavePrepared
    <3>2. \A p \in Orders : p # job.o => row'[p] = row[p]
      BY <1>3, <2>3, CommitRowSets DEF SavePrepared
    <3> QED BY <1>2, <2>1, <2>2, <3>1, <3>2, SettledMove
  <2>4. CASE SaveBuilt
    <3>1. job'.o = job.o /\ job'.pc = "submit"
      BY <1>3, <2>4, GotoMoves DEF SaveBuilt
    <3>2. row'[job.o].status = "BUILT" /\ \A p \in Orders : p # job.o => row'[p] = row[p]
      BY <1>3, <2>4, CommitRowSets DEF SaveBuilt, NoRow
    <3> QED BY <1>2, <2>1, <2>2, <3>1, <3>2, SettledMove
  <2> QED BY <1>5, <2>3, <2>4
<1>6. CASE Submit
  <2>1. job.pc = "submit" /\ row[job.o].status = "BUILT" /\ UNCHANGED row
    BY <1>2, <1>6 DEF Submit, At, Settled, TaskKeeps
  <2>2. tx[job.o] = "unsent"
    BY <1>3, <2>1 DEF BeforeSend
  <2>3. /\ job'.o = job.o
        /\ \/ job'.pc = "saveSent"
           \/ job'.pc = "abandon" /\ job'.end = "FAILED" /\ UNCHANGED tx
    BY <1>3, <1>6, GotoMoves, AbandonMoves DEF Submit
  <2>4. /\ \A o \in Orders : o # job.o => tx'[o] = tx[o]
        /\ tx'[job.o] \in {"unsent", "pool"}
    BY <1>3, <1>6, <2>2 DEF Submit, TypeOK
  <2>5. \A o \in Orders : RowKeeps(o)'
    BY <2>1, <2>4 DEF Settled, RowKeeps, Fits
  <2>6. TaskKeeps'
    BY <2>2, <2>3 DEF TaskKeeps, GivenUpRightly
  <2> QED BY <2>5, <2>6 DEF Settled
<1>7. CASE SaveSent \/ SaveConfirmed \/ SaveUnknown
  <2>1. /\ UNCHANGED tx
        /\ job' = None \/ (job'.o = job.o /\ job'.pc = "await")
    BY <1>3, <1>7, GotoMoves DEF SaveSent, SaveConfirmed, SaveUnknown, Finish
  <2>2. PICK r \in {SentRow, Confirmed(FALSE)} : CommitRow(job.o, r)
    BY <1>7 DEF SaveSent, SaveConfirmed, SaveUnknown
  <2>3. /\ row'[job.o].status \in {"SENT", "CONFIRMED"}
        /\ \A p \in Orders : p # job.o => row'[p] = row[p]
    <3>1. CASE SaveConfirmed
      <4>1. CommitRow(job.o, Confirmed(FALSE))
        BY <3>1 DEF SaveConfirmed
      <4> QED BY <1>3, <3>1, <4>1, CommitRowSets DEF Confirmed
    <3>2. CASE SaveSent \/ SaveUnknown
      <4>1. CommitRow(job.o, SentRow)
        BY <3>2 DEF SaveSent, SaveUnknown
      <4> QED BY <1>3, <4>1, CommitRowSets DEF SentRow
    <3> QED BY <1>7, <3>1, <3>2
  <2>4. Fits(tx[job.o], row'[job.o].status)
    BY <2>3 DEF Fits
  <2> QED BY <1>2, <2>1, <2>3, <2>4, SettledMove
<1>8. CASE AwaitConfirmation \/ ReadHeight \/ PollsRunOut
  <2>1. UNCHANGED <<tx, row>>
    BY <1>8 DEF AwaitConfirmation, ReadHeight, PollsRunOut
  <2>2. /\ job'.o = job.o
        /\ \/ job'.pc \in {"await", "height", "saveConfirmed", "saveUnknown"}
           \/ job'.pc = "abandon" /\ job'.end = "FAILED" /\ tx[job.o] = "failed"
           \/ job'.pc = "abandon" /\ job'.end = "FAILED" /\ tx[job.o] = "landed" /\ MayBeUnbookable
           \/ job'.pc = "abandon" /\ job'.end = "EXPIRED"
    BY <1>3, <1>8, GotoMoves, AbandonMoves DEF AwaitConfirmation, ReadHeight, PollsRunOut
  <2>3. Fits(tx[job.o], row'[job.o].status)
    BY <1>3, <2>1 DEF RowKeeps, Fits
  <2> QED BY <1>2, <2>1, <2>2, <2>3, SettledMove DEF GivenUpRightly
<1>9. CASE SaveAbandoned
  <2>1. job.pc = "abandon" /\ job' = None /\ UNCHANGED tx
    BY <1>9 DEF SaveAbandoned, At, Finish
  <2>2. GivenUpRightly(job.o, job.end)
    BY <1>2, <2>1 DEF Settled, TaskKeeps
  <2>3. /\ row'[job.o].status = job.end
        /\ \A p \in Orders : p # job.o => row'[p] = row[p]
    <3> DEFINE r == [NoRow EXCEPT !.status = job.end, !.sentAt = (tx[job.o] # "unsent")]
    <3>1. CommitRow(job.o, r)
      BY <1>9 DEF SaveAbandoned
    <3>2. r.status = job.end
      BY DEF NoRow
    <3> HIDE DEF r
    <3> QED BY <1>3, <3>1, <3>2, CommitRowSets
  <2>4. Fits(tx[job.o], row'[job.o].status)
    BY <2>1, <2>2, <2>3 DEF Fits, GivenUpRightly
  <2> QED BY <1>2, <2>1, <2>3, <2>4, SettledMove
<1> QED BY <1>4, <1>5, <1>6, <1>7, <1>8, <1>9 DEF Executor

\* Every step keeps rows and tasks so.
LEMMA SettledStep ==
  ASSUME ~WritesMayFail, Inductive, Settled, [Next]_vars PROVE Settled'
<1> USE DEF Inductive
<1>1. row \in [Orders -> IntentRow] /\ (job # None => job.o \in Orders)
  BY DEF TypeOK, JobRecord
<1>2. ASSUME NEW o \in Orders, UNCHANGED <<tx, job>>, Fits(tx[o], row'[o].status),
             \A p \in Orders : p # o => row'[p] = row[p],
             job # None /\ job.pc = "submit" => job.o # o
      PROVE  Settled'
  <2>1. \A p \in Orders : RowKeeps(p)'
    BY <1>2 DEF Settled, RowKeeps
  <2>2. TaskKeeps'
    BY <1>1, <1>2 DEF Settled, TaskKeeps, GivenUpRightly
  <2> QED BY <2>1, <2>2 DEF Settled
<1>3. ASSUME UNCHANGED <<tx, row>>, job' = None \/ UNCHANGED job PROVE Settled'
  BY <1>3 DEF Settled, TaskKeeps, RowKeeps, GivenUpRightly
<1>4. \A o \in Orders : tx[o] # "unsent" => ~(job # None /\ job.pc = "submit" /\ job.o = o)
  BY DEF TasksOnce, BeforeSend
<1>5. CASE Collect
  <2>1. finished \in Seq(Outcome) /\ finished # <<>>
    BY <1>5 DEF Collect, TypeOK
  <2>2. /\ Head(finished).o \in Orders
        /\ Head(finished).confirmed => tx[Head(finished).o] = "landed"
    <3>1. Head(finished) \in Outcome
      BY <2>1
    <3> QED BY <2>1, <3>1 DEF LandedFirst, Outcome
  <2>3. UNCHANGED <<tx, job>>
    BY <1>5 DEF Collect, Untouched
  <2>4. \/ UNCHANGED row
        \/ Head(finished).confirmed /\ CommitRow(Head(finished).o, Confirmed(TRUE))
    BY <1>5 DEF Collect
  <2>5. CASE Head(finished).confirmed /\ CommitRow(Head(finished).o, Confirmed(TRUE))
    <3>1. /\ row'[Head(finished).o].status = "CONFIRMED"
          /\ \A p \in Orders : p # Head(finished).o => row'[p] = row[p]
      BY <1>1, <2>2, <2>5, CommitRowSets DEF Confirmed
    <3>2. Fits(tx[Head(finished).o], row'[Head(finished).o].status)
      BY <3>1 DEF Fits
    <3> QED BY <1>2, <1>4, <2>2, <2>3, <2>5, <3>1, <3>2
  <2> QED BY <1>3, <2>3, <2>4, <2>5
<1>6. CASE PersistStep
  <2>1. persist.of \in Orders /\ tx[persist.of] = "landed"
    BY <1>6 DEF PersistStep, LandedFirst, TypeOK
  <2>2. UNCHANGED <<tx, job>> /\ (UNCHANGED row \/ row' = [row EXCEPT ![persist.of] = Booked(@)])
    BY <1>6 DEF PersistStep, Untouched, Commit
  <2>3. /\ row' = row \/ row'[persist.of].status = "CONFIRMED"
        /\ \A p \in Orders : p # persist.of => row'[p] = row[p]
    BY ZenonT(30), <1>1, <2>1, <2>2 DEF Booked, IntentRow
  <2>4. Fits(tx[persist.of], row'[persist.of].status)
    BY <2>1, <2>3 DEF Settled, RowKeeps, Fits
  <2> QED BY <1>2, <1>4, <2>1, <2>2, <2>3, <2>4
<1>7. ASSUME NEW o \in Orders, Reconcile(o) PROVE Settled'
  <2>1. UNCHANGED <<tx, job>> /\ job = None
    BY <1>7 DEF Reconcile, TasksOnce
  <2>2. \/ UNCHANGED row
        \/ \E s : Settle(o, s) /\ Fits(tx[o], s)
    BY <1>7 DEF Reconcile, Fits
  <2>3. /\ \A p \in Orders : p # o => row'[p] = row[p]
        /\ Fits(tx[o], row'[o].status)
    <3>1. CASE UNCHANGED row
      BY <3>1 DEF Settled, RowKeeps
    <3>2. ASSUME NEW s, Settle(o, s)
          PROVE  row'[o].status = s /\ \A p \in Orders : p # o => row'[p] = row[p]
      <4>1. /\ row'[o] = [row[o] EXCEPT !.status = s]
            /\ \A p \in Orders : p # o => row'[p] = row[p]
        BY <1>1, <3>2, CommitRowSets DEF Settle
      <4> QED BY <1>1, <4>1 DEF IntentRow
    <3> QED BY <2>2, <3>1, <3>2 DEF Fits
  <2> QED BY <1>2, <2>1, <2>3
<1>8. CASE Chain
  <2>1. UNCHANGED <<row, job>>
    BY <1>8 DEF Chain, Land, FailOnChain, BlockhashExpires, Offchain
  <2>2. \A o \in Orders : tx'[o] = tx[o] \/ (tx[o] = "pool" /\ tx'[o] \in TxStates \ {"pool"})
    BY <1>8 DEF Chain, Land, FailOnChain, BlockhashExpires, TypeOK, TxStates
  <2>3. \A o \in Orders : RowKeeps(o)'
    BY <2>1, <2>2 DEF Settled, RowKeeps, Fits
  <2>4. TaskKeeps'
    <3>1. ASSUME job # None, job.pc = "abandon" PROVE GivenUpRightly(job.o, job.end)'
      <4>1. GivenUpRightly(job.o, job.end)
        BY <3>1 DEF Settled, TaskKeeps
      <4>2. job.end = "FAILED" => tx'[job.o] = tx[job.o]
        BY <1>1, <2>2, <3>1, <4>1 DEF GivenUpRightly
      <4> QED BY <2>1, <4>1, <4>2 DEF GivenUpRightly
    <3> QED BY <2>1, <3>1 DEF Settled, TaskKeeps
  <2> QED BY <2>3, <2>4 DEF Settled
<1>9. CASE Engine \/ Operator \/ UNCHANGED vars \/ Crash \/ Stop
  BY <1>3, <1>9
  DEF vars, Engine, SubmitBuy, SubmitSell, Withdraw, Operator, Operate, Arm, Disarm, Kill,
      Resume, Crash, Stop, Die
<1>10. CASE (\E o \in Orders : Launch(o)) \/ Apply \/ Restart \/ StartEngine
  BY <1>3, <1>10 DEF Launch, Apply, Untouched, Restart, StartEngine
<1> QED
  BY <1>5, <1>6, <1>7, <1>8, <1>9, <1>10, ExecutorSettles DEF Next, Tick, Recovery

\* While commits succeed, a row that says FAILED belongs to a transaction that
\* can land no more and has not landed, or landed with unreadable balances:
\* whatever the send's answer was, and whichever of the task and recover(), in
\* whichever process, wrote the row.
THEOREM FailedForGood == Spec => [](~WritesMayFail => FailedIsFinal)
<1>1. Init => Settled
  BY DEF Init, Settled, TaskKeeps, RowKeeps, Fits
<1>2. ~WritesMayFail /\ Inductive /\ Settled /\ [Next]_vars => Settled'
  BY SettledStep
<1>3. Settled => FailedIsFinal
  BY DEF Settled, RowKeeps, Fits, FailedIsFinal
<1>4. CASE WritesMayFail
  <2>1. ~WritesMayFail => FailedIsFinal
    BY <1>4
  <2> QED BY <2>1, PTL
<1>5. CASE ~WritesMayFail
  <2>1. Inductive /\ Settled /\ [Next]_vars => Settled'
    BY <1>2, <1>5
  <2> QED BY <1>1, <1>3, <2>1, InductiveInvariant, PTL DEF Spec
<1> QED BY <1>4, <1>5

----------------------------------------------------------------------------
(* One open position per mint, when commits do not fail *)

\* Where an order with a task can be: in the queue, at the lock, or finished.
Waits(o) == \E i \in DOMAIN waiting : waiting[i] = o
AtLock(o) == job # None /\ job.o = o
Done(o) == \E i \in DOMAIN finished : finished[i].o = o
InHand(o) == Waits(o) \/ AtLock(o) \/ Done(o)
Resolved(o) == \E i \in DOMAIN out : out[i].o = o

\* A task's order stays pending until the tick collects its one outcome.
TasksPend ==
    /\ \A o \in Orders : InHand(o) => o \in tasks /\ order[o] = "pending"
    /\ \A i, j \in DOMAIN finished : finished[i].o = finished[j].o => i = j
    /\ \A o \in Orders : Done(o) => ~Waits(o) /\ ~AtLock(o)

\* A step that leaves the tasks where they are, and their orders alone.
LEMMA PendFrame ==
  ASSUME TypeOK, TasksPend, UNCHANGED <<waiting, finished>>,
         job' = job \/ (job # None /\ job'.o = job.o),
         tasks \subseteq tasks', \A o \in tasks : order'[o] = order[o]
  PROVE  TasksPend'
<1>1. \A o \in Orders : AtLock(o)' => AtLock(o)
  BY DEF AtLock
<1>2. \A o \in Orders : (Waits(o)' <=> Waits(o)) /\ (Done(o)' <=> Done(o))
  BY DEF Waits, Done
<1> QED BY <1>1, <1>2 DEF TasksPend, InHand

\* The task that finishes leaves the lock for the outcomes.
LEMMA PendFinish ==
  ASSUME TypeOK, TasksPend, NEW c \in BOOLEAN, Finish(c), job # None,
         UNCHANGED <<waiting, tasks, order>>,
         \A i \in DOMAIN waiting : waiting[i] # job.o
  PROVE  TasksPend'
<1>1. finished \in Seq(Outcome) /\ job.o \in Orders
  BY DEF TypeOK, JobRecord
<1>2. finished' = Append(finished, [o |-> job.o, confirmed |-> c]) /\ job' = None
  BY DEF Finish
<1>3. /\ DOMAIN finished' = 1 .. Len(finished) + 1
      /\ \A i \in 1 .. Len(finished) : finished'[i] = finished[i]
      /\ finished'[Len(finished) + 1].o = job.o
  BY <1>1, <1>2
<1>4. ~Done(job.o)
  BY <1>1 DEF TasksPend, AtLock
<1>5. \A o \in Orders : Done(o)' <=> Done(o) \/ o = job.o
  BY <1>1, <1>3 DEF Done
<1>6. \A o \in Orders : (Waits(o)' <=> Waits(o)) /\ ~AtLock(o)'
  BY <1>2 DEF Waits, AtLock
<1>7. ~Waits(job.o) /\ AtLock(job.o)
  BY DEF Waits, AtLock
<1>8. \A i, j \in DOMAIN finished' : finished'[i].o = finished'[j].o => i = j
  BY <1>1, <1>3, <1>4 DEF TasksPend, Done
<1>9. \A o \in Orders : InHand(o)' <=> InHand(o)
  BY <1>5, <1>6, <1>7 DEF InHand, AtLock
<1> QED BY <1>5, <1>6, <1>7, <1>8, <1>9 DEF TasksPend

\* Every step keeps a task's order pending.
LEMMA PendStep == ASSUME Inductive, TasksPend, [Next]_vars PROVE TasksPend'
<1> USE DEF Inductive
<1>1. CASE AcquireLock
  <2>1. /\ waiting \in Seq(Orders) /\ waiting # <<>> /\ waiting' = Tail(waiting)
        /\ job'.o = Head(waiting) /\ UNCHANGED <<finished, tasks, order>>
    BY <1>1 DEF TypeOK, AcquireLock, NewJob, Unexecuted
  <2>2. /\ \A i \in DOMAIN waiting' : i + 1 \in DOMAIN waiting /\ waiting'[i] = waiting[i + 1]
        /\ 1 \in DOMAIN waiting /\ waiting[1] = Head(waiting)
    BY <2>1
  <2>3. \A o \in Orders : (Waits(o)' => Waits(o)) /\ (AtLock(o)' => Waits(o))
    BY <2>1, <2>2 DEF Waits, AtLock
  <2>4. \A o \in Orders : (Done(o)' <=> Done(o)) /\ (InHand(o)' => InHand(o))
    BY <2>1, <2>3 DEF Done, InHand
  <2> QED BY <2>1, <2>3, <2>4 DEF TasksPend
<1>2. CASE \/ ReadBalance \/ ReadTokens \/ FreshQuote \/ SavePrepared \/ BuildAndSign
           \/ SaveBuilt \/ Submit \/ SaveSent \/ AwaitConfirmation \/ ReadHeight \/ PollsRunOut
  <2>1. job # None /\ job \in JobRecord
    BY <1>2, HolderType
    DEF ReadBalance, ReadTokens, FreshQuote, SavePrepared, BuildAndSign, SaveBuilt, Submit,
        SaveSent, AwaitConfirmation, ReadHeight, PollsRunOut, At
  <2>2. (\E pc : Goto(pc)) \/ \E s, d : Abandon(s, d)
    BY <1>2
    DEF ReadBalance, ReadTokens, FreshQuote, SavePrepared, BuildAndSign, SaveBuilt, Submit,
        SaveSent, AwaitConfirmation, ReadHeight, PollsRunOut
  <2>3. job'.o = job.o
    BY <2>1, <2>2, GotoMoves, AbandonMoves
  <2>4. UNCHANGED <<waiting, tasks, order, finished>>
    BY <1>2
    DEF ReadBalance, ReadTokens, FreshQuote, SavePrepared, BuildAndSign, SaveBuilt, Submit,
        SaveSent, AwaitConfirmation, ReadHeight, PollsRunOut, Unexecuted
  <2> QED BY <2>1, <2>3, <2>4, PendFrame
<1>3. CASE SaveConfirmed \/ SaveUnknown \/ SaveAbandoned
  <2>1. PICK c \in BOOLEAN : Finish(c)
    BY <1>3 DEF SaveConfirmed, SaveUnknown, SaveAbandoned
  <2>2. job # None /\ \A i \in DOMAIN waiting : waiting[i] # job.o
    BY <1>3 DEF SaveConfirmed, SaveUnknown, SaveAbandoned, At, TasksOnce
  <2>3. UNCHANGED <<waiting, tasks, order>>
    BY <1>3 DEF SaveConfirmed, SaveUnknown, SaveAbandoned, Unexecuted
  <2> QED BY <2>1, <2>2, <2>3, PendFinish
<1>4. CASE Executor
  BY <1>1, <1>2, <1>3, <1>4 DEF Executor
<1>5. ASSUME NEW o \in Orders, Launch(o) PROVE TasksPend'
  <2>1. /\ waiting' = Append(waiting, o) /\ tasks' = tasks \cup {o} /\ o \notin launched
        /\ order[o] = "pending" /\ UNCHANGED <<job, finished, order>>
    BY <1>5 DEF Launch
  <2>2. ~InHand(o) /\ waiting \in Seq(Orders)
    BY SMTT(30), <2>1 DEF TasksOnce, InHand, Waits, AtLock, Done, TypeOK
  <2>3. \A p \in Orders : Waits(p)' <=> Waits(p) \/ p = o
    BY <2>1, <2>2 DEF Waits
  <2>4. \A p \in Orders : (AtLock(p)' <=> AtLock(p)) /\ (Done(p)' <=> Done(p))
    BY <2>1 DEF AtLock, Done
  <2> QED BY <2>1, <2>2, <2>3, <2>4 DEF TasksPend, InHand
<1>6. CASE Collect
  <2>1. /\ finished \in Seq(Outcome) /\ finished # <<>> /\ finished' = Tail(finished)
        /\ UNCHANGED <<waiting, job>> /\ tasks' = tasks \ {Head(finished).o}
        /\ order' \in {order, [order EXCEPT ![Head(finished).o] = "resolved"]}
    BY <1>6 DEF Collect, Untouched, TypeOK
  <2>2. /\ \A i \in DOMAIN finished' : i + 1 \in DOMAIN finished /\ finished'[i] = finished[i + 1]
        /\ 1 \in DOMAIN finished /\ finished[1] = Head(finished)
    BY <2>1
  <2>3. Head(finished).o \in Orders /\ Done(Head(finished).o)
    <3>1. Head(finished) \in Outcome
      BY <2>1, SequenceTypes
    <3> QED BY <2>2, <3>1 DEF Outcome, Done
  <2>4. ASSUME NEW o \in Orders, Done(o)' PROVE Done(o) /\ o # Head(finished).o
    <3>1. PICK i \in DOMAIN finished' : finished'[i].o = o
      BY <2>4 DEF Done
    <3>2. i + 1 # 1 /\ finished[i + 1].o = o /\ i + 1 \in DOMAIN finished
      BY <2>1, <2>2, <3>1
    <3> QED BY <2>2, <3>2 DEF Done, TasksPend
  <2>5. \A o \in Orders : (AtLock(o)' <=> AtLock(o)) /\ (Waits(o)' <=> Waits(o))
    BY <2>1 DEF AtLock, Waits
  <2>6. \A o \in Orders : InHand(o)' => InHand(o) /\ o # Head(finished).o
    BY <2>3, <2>4, <2>5 DEF InHand, TasksPend
  <2>7. order \in [Orders -> {"free", "pending", "resolved"}]
    BY DEF TypeOK
  <2>8. \A o \in Orders : InHand(o)' => o \in tasks' /\ order'[o] = "pending"
    BY <2>1, <2>6, <2>7 DEF TasksPend
  <2>9. \A i, j \in DOMAIN finished' : finished'[i].o = finished'[j].o => i = j
    BY <2>1, <2>2 DEF TasksPend
  <2> QED BY <2>4, <2>5, <2>8, <2>9 DEF TasksPend
<1>7. CASE Crash \/ Stop
  BY <1>7 DEF Crash, Stop, Die, TasksPend, InHand, Waits, AtLock, Done
<1>8. CASE Engine
  <2>1. UNCHANGED <<waiting, finished, job, tasks>>
    BY <1>8 DEF Engine, SubmitBuy, SubmitSell, Withdraw
  <2>2. \A o \in Orders : order'[o] = order[o] \/ order[o] = "free" \/ o \notin tasks
    BY <1>8 DEF Engine, SubmitBuy, SubmitSell, Withdraw, TypeOK
  <2>3. \A o \in Orders : InHand(o)' <=> InHand(o)
    BY <2>1 DEF InHand, Waits, AtLock, Done
  <2> QED BY <2>1, <2>2, <2>3 DEF TasksPend, Waits, AtLock, Done
<1>9. CASE Apply \/ PersistStep \/ Recovery \/ Chain \/ Operator \/ UNCHANGED vars
  <2>1. UNCHANGED <<waiting, finished, job, tasks, order>>
    BY <1>9
    DEF vars, Apply, PersistStep, Untouched, Recovery, Restart, Reconcile, StartEngine,
        Chain, Land, FailOnChain, BlockhashExpires, Offchain, Operator, Operate, Arm, Disarm,
        Kill, Resume
  <2> QED BY <2>1, PendFrame
<1> QED BY <1>4, <1>5, <1>6, <1>7, <1>8, <1>9 DEF Next, Tick

\* The BUY whose position an order opens or closes.
Subject(o) == IF o \in Buys THEN o ELSE target[o]

\* The tick's resolutions and a booking in progress belong to a process that is up.
Idle ==
    /\ phase # "running" => out = <<>>
    /\ phase = "down" => persist = NoBooking

\* A BUY has a claim on its mint while it may still open its position, and
\* while the account holds it; one BUY of a mint at a time.
Claims(b) == order[b] = "pending" \/ pos[b] = "open" \/ Resolved(b)
OneClaim == \A b, c \in Buys : MintOf[b] = MintOf[c] /\ Claims(b) /\ Claims(c) => b = c

\* The same of the positions of the account and of the database together.
Somewhere(b) == pos[b] = "open" \/ dbPos[b] = "open"
OneRow == \A b, c \in Buys : MintOf[b] = MintOf[c] /\ Somewhere(b) /\ Somewhere(c) => b = c

\* The account and the database differ only in the position being committed.
ToWrite(steps) == \E i \in DOMAIN steps : steps[i] = "position"
Agree ==
    /\ phase # "down" => \A b \in Buys :
         \/ (pos[b] = "open") <=> (dbPos[b] = "open")
         \/ persist # NoBooking /\ b = Subject(persist.of) /\ ToWrite(persist.steps)
    /\ persist # NoBooking =>
         pos[Subject(persist.of)] = (IF persist.of \in Buys THEN "open" ELSE "closed")

Positions == TasksPend /\ Idle /\ OneClaim /\ OneRow /\ Agree

\* What booking a launched order does to the positions of the account.
LEMMA BookMoves ==
  ASSUME TypeOK, NEW o \in Orders, o \in Sells => target[o] \in Buys, Bookable(o), Book(o)
  PROVE  /\ Subject(o) \in Buys
         /\ o \in Buys => pos' = [pos EXCEPT ![Subject(o)] = "open"] /\ Subject(o) = o
         /\ o \in Sells => pos' = [pos EXCEPT ![Subject(o)] = "closed"] /\ pos[Subject(o)] = "open"
         /\ \A b \in Buys : pos'[b] = "open" => pos[b] = "open" \/ b = o
<1>1. pos \in [Buys -> {"none", "open", "closed"}]
  BY DEF TypeOK
<1>2. CASE o \in Buys
  <2>1. o \notin Sells /\ pos' = [pos EXCEPT ![o] = "open"]
    BY <1>2, AutonomousAssumption DEF Book, OpenPosition
  <2>2. \A b \in Buys : pos'[b] = "open" => pos[b] = "open" \/ b = o
    BY <1>1, <1>2, <2>1
  <2> QED BY <1>2, <2>1, <2>2 DEF Subject
<1>3. CASE o \in Sells
  <2>1. /\ o \notin Buys /\ pos[target[o]] = "open"
        /\ pos' = [pos EXCEPT ![target[o]] = "closed"]
    BY <1>3, AutonomousAssumption DEF Book, Bookable, ClosePosition
  <2>2. \A b \in Buys : pos'[b] = "open" => pos[b] = "open"
    BY <1>1, <1>3, <2>1
  <2> QED BY <1>3, <2>1, <2>2 DEF Subject
<1> QED BY <1>2, <1>3 DEF Orders

\* The step that books leaves account and database differing in its subject only.
LEMMA BookAgrees ==
  ASSUME TypeOK, Agree, phase # "down", persist = NoBooking, NEW o \in Orders,
         o \in Sells => target[o] \in Buys, Bookable(o), Book(o),
         NEW steps, persist' = [of |-> o, steps |-> steps], ToWrite(steps),
         UNCHANGED <<dbPos, target>>
  PROVE  Agree'
<1>1. persist' # NoBooking
  BY AutonomousAssumption DEF NoBooking
<1>2. persist'.of = o /\ persist'.steps = steps /\ Subject(o)' = Subject(o)
  BY DEF Subject
<1>3. Subject(o) \in Buys /\ pos \in [Buys -> {"none", "open", "closed"}]
  BY BookMoves DEF TypeOK
<1>4. \A b \in Buys : b # Subject(o) => pos'[b] = pos[b]
  BY <1>3, BookMoves DEF Orders
<1>5. pos'[Subject(o)] = IF o \in Buys THEN "open" ELSE "closed"
  BY <1>3, BookMoves DEF Orders
<1>6. Subject(persist.of)' = Subject(o)
  BY <1>2 DEF Subject
<1>7. \A b \in Buys : b # Subject(o) => ((pos[b] = "open") <=> (dbPos[b] = "open"))
  BY DEF Agree
<1> QED BY <1>1, <1>2, <1>4, <1>5, <1>6, <1>7 DEF Agree

\* Booking the one BUY that claims a mint, or a SELL, keeps one row per mint.
LEMMA BookOneRow ==
  ASSUME TypeOK, Agree, OneRow, OneClaim', phase # "down", persist = NoBooking, NEW o \in Orders,
         o \in Sells => target[o] \in Buys, Bookable(o), Book(o), UNCHANGED dbPos
  PROVE  OneRow'
<1>1. Subject(o) \in Buys /\ pos \in [Buys -> {"none", "open", "closed"}]
  BY BookMoves DEF TypeOK
<1>2. CASE o \in Buys
  <2>1. \A b \in Buys : pos[b] = "open" => pos'[b] = "open"
    BY <1>1, <1>2, BookMoves
  <2>2. \A b \in Buys : dbPos[b] = "open" => pos[b] = "open"
    BY DEF Agree
  <2>3. \A b \in Buys : Somewhere(b)' => Claims(b)'
    BY <2>1, <2>2 DEF Somewhere, Claims
  <2> QED BY <2>3 DEF OneRow, OneClaim
<1>3. CASE o \in Sells
  <2>1. \A b \in Buys : Somewhere(b)' => Somewhere(b)
    BY <1>1, <1>3, BookMoves DEF Somewhere
  <2> QED BY <2>1 DEF OneRow
<1> QED BY <1>2, <1>3 DEF Orders

\* No step but SubmitBuy, Restart and the bookings of recover() adds a claim.
LEMMA ClaimsShrink ==
  ASSUME OneClaim, \A b \in Buys : Claims(b)' => Claims(b) PROVE OneClaim'
BY DEF OneClaim

\* Steps that leave the positions alone leave them in agreement.
LEMMA AgreeFrame ==
  ASSUME Inductive, [Next]_vars, Agree, UNCHANGED <<pos, dbPos, persist>>,
         phase' # "down" => phase # "down"
  PROVE  Agree'
<1>1. persist # NoBooking => Subject(persist.of)' = Subject(persist.of)
  <2> SUFFICES ASSUME persist # NoBooking PROVE Subject(persist.of)' = Subject(persist.of)
    OBVIOUS
  <2>1. persist.of \in Orders /\ tx[persist.of] = "landed"
    BY DEF Inductive, TypeOK, LandedFirst
  <2>2. persist.of \in Sells => target'[persist.of] = target[persist.of]
    BY <2>1, LandedStable
  <2> QED BY <2>1, <2>2 DEF Subject, Orders
<1> QED BY <1>1 DEF Agree

\* The tick applies a resolution: the BUY that opens had the claim already.
LEMMA ApplyPositions ==
  ASSUME Inductive, Positions, Apply PROVE OneClaim' /\ OneRow' /\ Agree' /\ Idle'
<1> USE DEF Inductive, Positions
<1>1. /\ phase = "running" /\ persist = NoBooking /\ out' = Tail(out)
      /\ out \in Seq(Outcome) /\ out # <<>>
      /\ UNCHANGED <<phase, order, dbPos, target>>
  BY DEF Apply, Untouched, TypeOK
<1>2. Head(out).o \in Orders /\ (Head(out).o \in Buys => Resolved(Head(out).o))
  <2>1. Head(out) \in Outcome /\ 1 \in DOMAIN out /\ out[1] = Head(out)
    BY <1>1, SequenceTypes
  <2> QED BY <2>1 DEF Outcome, Resolved
<1>3. \A i \in DOMAIN out' : i + 1 \in DOMAIN out /\ out'[i] = out[i + 1]
  BY <1>1
<1>4. \A b \in Buys : Resolved(b)' => Resolved(b)
  BY <1>1, <1>3 DEF Resolved
<1>5. Idle'
  BY <1>1 DEF Idle
<1>6. CASE Head(out).confirmed /\ Bookable(Head(out).o)
  <2>1. PICK o \in Orders : o = Head(out).o
    BY <1>2
  <2>2. /\ Bookable(o) /\ Book(o) /\ persist' = [of |-> o, steps |-> BookingSteps]
        /\ tx[o] = "landed" /\ (o \in Buys => Resolved(o))
    <3>1. 1 \in DOMAIN out /\ out[1] = Head(out)
      BY <1>1
    <3> QED BY <1>2, <1>6, <2>1, <3>1 DEF Apply, LandedFirst
  <2>3. o \in Sells => target[o] \in Buys
    BY <2>2 DEF TasksOnce, Fresh
  <2>4. ToWrite(BookingSteps)
    <3>1. 2 \in DOMAIN BookingSteps /\ BookingSteps[2] = "position"
      BY DEF BookingSteps
    <3> QED BY <3>1 DEF ToWrite
  <2>5. Agree'
    BY <1>1, <2>2, <2>3, <2>4, BookAgrees
  <2>6. \A b \in Buys : pos'[b] = "open" => pos[b] = "open" \/ Resolved(b)
    <3>1. \A b \in Buys : pos'[b] = "open" => pos[b] = "open" \/ b = o
      BY <2>2, <2>3, BookMoves
    <3> QED BY <2>2, <3>1
  <2>7. OneClaim'
    BY <1>1, <1>4, <2>6, ClaimsShrink DEF Claims
  <2>8. OneRow'
    BY <1>1, <2>2, <2>3, <2>7, BookOneRow
  <2> QED BY <1>5, <2>5, <2>7, <2>8
<1>7. CASE ~(Head(out).confirmed /\ Bookable(Head(out).o))
  <2>1. UNCHANGED <<pos, persist>>
    BY <1>7 DEF Apply
  <2>2. OneClaim'
    BY <1>1, <1>4, <2>1, ClaimsShrink DEF Claims
  <2>3. OneRow' /\ Agree'
    BY <1>1, <2>1 DEF OneRow, Somewhere, Agree, Subject
  <2> QED BY <1>5, <2>2, <2>3
<1> QED BY <1>6, <1>7

\* recover() books a BUY only where no position of its mint is open.
LEMMA ReconcilePositions ==
  ASSUME Inductive, Positions, NEW o \in Orders, Reconcile(o)
  PROVE  OneClaim' /\ OneRow' /\ Agree' /\ Idle'
<1> USE DEF Inductive, Positions
<1>1. /\ phase = "recovering" /\ persist = NoBooking
      /\ UNCHANGED <<phase, order, dbPos, target, out>>
  BY DEF Reconcile
<1>2. out = <<>> /\ \A b \in Orders : order[b] # "pending"
  BY <1>1 DEF Idle, TasksOnce
<1>3. Idle'
  BY <1>1 DEF Idle
<1>4. \A b \in Buys : (Claims(b)' <=> pos'[b] = "open") /\ (Claims(b) <=> pos[b] = "open")
  BY <1>1, <1>2 DEF Claims, Resolved, Orders
<1>5. CASE UNCHANGED <<pos, persist>>
  <2>1. OneClaim'
    BY <1>4, <1>5, ClaimsShrink
  <2>2. OneRow' /\ Agree'
    BY <1>1, <1>5 DEF OneRow, Somewhere, Agree, Subject
  <2> QED BY <1>3, <2>1, <2>2
<1>6. CASE ~UNCHANGED <<pos, persist>>
  <2>1. /\ tx[o] = "landed" /\ RecoverBookable(o) /\ Bookable(o) /\ Book(o)
        /\ persist' = [of |-> o, steps |-> Append(BookingSteps, "intent")]
    BY <1>6 DEF Reconcile, RecoverBookable
  <2>2. o \in Sells => target[o] \in Buys
    BY <2>1 DEF TasksOnce, Fresh
  <2>3. ToWrite(Append(BookingSteps, "intent"))
    <3> DEFINE s == Append(BookingSteps, "intent")
    <3>1. 2 \in DOMAIN s /\ s[2] = "position"
      BY DEF BookingSteps
    <3> QED BY <3>1 DEF ToWrite
  <2>4. Agree'
    BY <1>1, <2>1, <2>2, <2>3, BookAgrees
  <2>5. \A b \in Buys : Claims(b)' => Claims(b) \/ b = o
    BY <1>4, <2>1, <2>2, BookMoves
  <2>6. o \in Buys => \A b \in Buys : Claims(b) => MintOf[b] # MintOf[o]
    BY <1>4, <2>1 DEF RecoverBookable, Open
  <2>7. OneClaim'
    BY <2>5, <2>6 DEF OneClaim
  <2>8. OneRow'
    BY <1>1, <2>1, <2>2, <2>7, BookOneRow
  <2> QED BY <1>3, <2>4, <2>7, <2>8
<1> QED BY <1>5, <1>6

\* A commit of the booking in progress brings the database to the account.
LEMMA PersistPositions ==
  ASSUME ~WritesMayFail, Inductive, Positions, PersistStep
  PROVE  OneClaim' /\ OneRow' /\ Agree' /\ Idle'
<1> USE DEF Inductive, Positions
<1>1. /\ persist # NoBooking /\ UNCHANGED <<phase, order, pos, target, out>>
      /\ Commit(persist.of, Head(persist.steps))
      /\ persist' = IF Tail(persist.steps) = <<>> THEN NoBooking
                    ELSE [persist EXCEPT !.steps = Tail(persist.steps)]
  BY DEF PersistStep, Untouched
<1>2. persist \in [of : Orders, steps : Seq(Commits) \ {<<>>}]
  BY <1>1 DEF TypeOK
<1>3. PICK o, steps : o = persist.of /\ steps = persist.steps
  OBVIOUS
<1>4. /\ o \in Orders /\ steps \in Seq(Commits) /\ steps # <<>> /\ phase # "down"
      /\ o \in Sells => target[o] \in Buys
      /\ pos[Subject(o)] = (IF o \in Buys THEN "open" ELSE "closed")
  BY <1>1, <1>2, <1>3 DEF LandedFirst, Agree, Idle
<1>5. Subject(o) \in Buys /\ Subject(o)' = Subject(o)
  BY <1>1, <1>4 DEF Subject, Orders
<1>6. dbPos' = IF Head(steps) = "position"
               THEN [dbPos EXCEPT ![Subject(o)] = IF o \in Buys THEN "open" ELSE "closed"]
               ELSE dbPos
  BY <1>1, <1>3 DEF Commit, Subject
<1>7. \A b \in Buys : Somewhere(b)' => Somewhere(b)
  BY <1>1, <1>4, <1>5, <1>6 DEF Somewhere, TypeOK
<1>8. OneRow'
  BY <1>7 DEF OneRow
<1>9. OneClaim'
  BY <1>1, ClaimsShrink DEF Claims, Resolved
<1>10. Idle'
  BY <1>1, <1>4 DEF Idle
<1>11. \A b \in Buys : \/ (pos[b] = "open") <=> (dbPos[b] = "open")
                       \/ b = Subject(o) /\ ToWrite(steps)
  BY <1>3, <1>4 DEF Agree
<1>12. ToWrite(steps) => Head(steps) = "position" \/ ToWrite(Tail(steps))
  <2> SUFFICES ASSUME NEW i \in DOMAIN steps, steps[i] = "position", i # 1
               PROVE  ToWrite(Tail(steps))
    BY <1>4 DEF ToWrite
  <2>1. i - 1 \in DOMAIN Tail(steps) /\ Tail(steps)[i - 1] = "position"
    BY <1>4
  <2> QED BY <2>1 DEF ToWrite
<1>13. Tail(steps) = <<>> => ~ToWrite(Tail(steps))
  BY DEF ToWrite
<1>14. \A b \in Buys : \/ (pos[b] = "open") <=> (dbPos'[b] = "open")
                       \/ b = Subject(o) /\ ToWrite(Tail(steps))
  BY <1>4, <1>5, <1>6, <1>11, <1>12 DEF TypeOK
<1>15. persist' = NoBooking \/ (persist'.of = o /\ persist'.steps = Tail(steps))
  BY <1>1, <1>2, <1>3
<1>16. Agree'
  <2>1. CASE persist' = NoBooking
    <3>1. Tail(steps) = <<>>
      <4>1. NoBooking.of \notin Orders
        BY AutonomousAssumption DEF NoBooking
      <4>2. Tail(steps) # <<>> => persist'.of = o
        BY <1>1, <1>2, <1>3
      <4> QED BY <1>4, <2>1, <4>1, <4>2
    <3> QED BY <1>1, <1>13, <1>14, <2>1, <3>1 DEF Agree
  <2>2. CASE persist' # NoBooking
    <3>1. persist'.of = o /\ persist'.steps = Tail(steps)
      BY <1>15, <2>2
    <3>2. Subject(persist.of)' = Subject(o)
      BY <1>1, <3>1 DEF Subject
    <3> QED BY <1>1, <1>4, <1>14, <2>2, <3>1, <3>2 DEF Agree
  <2> QED BY <2>1, <2>2
<1> QED BY <1>8, <1>9, <1>10, <1>16

\* A restart takes the database's positions, of which there is one per mint.
LEMMA RestartPositions ==
  ASSUME Inductive, Positions, Restart PROVE OneClaim' /\ OneRow' /\ Agree' /\ Idle'
<1> USE DEF Inductive, Positions
<1>1. /\ phase = "down" /\ phase' = "recovering"
      /\ pos' = [b \in Buys |-> IF dbPos[b] = "open" THEN "open" ELSE "none"]
      /\ UNCHANGED <<dbPos, order, out, persist>>
  BY DEF Restart
<1>2. out = <<>> /\ persist = NoBooking /\ \A b \in Orders : order[b] # "pending"
  BY <1>1 DEF Idle, TasksOnce
<1>3. \A b \in Buys : Claims(b)' => dbPos[b] = "open"
  BY <1>1, <1>2 DEF Claims, Resolved, Orders
<1>4. OneClaim'
  BY <1>3 DEF OneClaim, OneRow, Somewhere
<1>5. \A b \in Buys : Somewhere(b)' => Somewhere(b)
  BY <1>1 DEF Somewhere
<1>6. OneRow'
  BY <1>5 DEF OneRow
<1>7. Agree'
  BY <1>1, <1>2 DEF Agree
<1>8. Idle'
  BY <1>1, <1>2 DEF Idle
<1> QED BY <1>4, <1>6, <1>7, <1>8

\* A crash forgets every claim; a stop also saves the positions that are open.
LEMMA DiePositions ==
  ASSUME Inductive, Positions, Crash \/ Stop PROVE OneClaim' /\ OneRow' /\ Agree' /\ Idle'
<1> USE DEF Inductive, Positions
<1>1. /\ phase' = "down" /\ out' = <<>> /\ persist' = NoBooking
      /\ pos' = [b \in Buys |-> "none"]
      /\ order' = [o \in Orders |-> IF order[o] = "pending" THEN "resolved" ELSE order[o]]
  BY DEF Crash, Stop, Die
<1>2. \A b \in Buys : ~Claims(b)'
  BY <1>1 DEF Claims, Resolved, Orders
<1>3. \A b \in Buys : dbPos'[b] = "open" => Somewhere(b)
  BY DEF Crash, Stop, Somewhere
<1>4. \A b \in Buys : Somewhere(b)' => Somewhere(b)
  BY <1>1, <1>3 DEF Somewhere
<1> QED BY <1>1, <1>2, <1>4 DEF OneClaim, OneRow, Agree, Idle

\* The steps left touch no position: a BUY submitted where nobody has a claim,
\* an outcome collected, and what concerns neither.
LEMMA QuietPositions ==
  ASSUME Inductive, Positions, [Next]_vars, UNCHANGED <<pos, dbPos, persist, phase>>,
         \/ \E b \in Buys : SubmitBuy(b)
         \/ Collect
         \/ /\ UNCHANGED out
            /\ \A b \in Buys : order'[b] = "pending" => order[b] = "pending"
  PROVE  OneClaim' /\ OneRow' /\ Agree' /\ Idle'
<1> USE DEF Inductive, Positions
<1>1. Agree'
  BY AgreeFrame
<1>2. OneRow'
  BY DEF OneRow, Somewhere
<1>3. ASSUME NEW b \in Buys, SubmitBuy(b) PROVE OneClaim' /\ Idle'
  <2>1. ~Engaged(MintOf[b]) /\ UNCHANGED out /\ order' = [order EXCEPT ![b] = "pending"]
    BY <1>3 DEF SubmitBuy
  <2>2. \A c \in Buys : Claims(c) => MintOf[c] # MintOf[b]
    BY <2>1 DEF Engaged, Claims, Resolved
  <2>3. \A c \in Buys : Claims(c)' => Claims(c) \/ c = b
    BY <2>1 DEF Claims, Resolved, TypeOK
  <2>4. OneClaim'
    BY <2>2, <2>3 DEF OneClaim
  <2> QED BY <2>1, <2>4 DEF Idle
<1>4. CASE Collect
  <2>1. /\ phase = "running" /\ finished # <<>>
        /\ finished \in Seq(Outcome) /\ out \in Seq(Outcome)
        /\ out' \in {<<>>, Append(out, Head(finished))}
        /\ order' \in {order, [order EXCEPT ![Head(finished).o] = "resolved"]}
    BY <1>4 DEF Collect, TypeOK
  <2>2. Head(finished) \in Outcome /\ 1 \in DOMAIN finished /\ finished[1] = Head(finished)
    BY <2>1, SequenceTypes
  <2>3. Head(finished).o \in Orders /\ order[Head(finished).o] = "pending"
    BY <2>2 DEF Outcome, TasksPend, InHand, Done
  <2>4. \A b \in Buys : Resolved(b)' => Resolved(b) \/ b = Head(finished).o
    <3>1. CASE out' = <<>>
      BY <3>1 DEF Resolved
    <3>2. CASE out' = Append(out, Head(finished))
      <4>1. \A i \in DOMAIN out' :
              (i \in DOMAIN out /\ out'[i] = out[i]) \/ out'[i] = Head(finished)
        BY <2>1, <3>2
      <4> QED BY <4>1 DEF Resolved
    <3> QED BY <2>1, <3>1, <3>2
  <2>5. \A b \in Buys : order'[b] = "pending" => order[b] = "pending"
    BY <2>1, <2>3 DEF TypeOK, Orders
  <2>6. OneClaim'
    BY <2>3, <2>4, <2>5, ClaimsShrink DEF Claims
  <2> QED BY <1>1, <1>2, <2>1, <2>6 DEF Idle
<1>5. CASE UNCHANGED out /\ \A b \in Buys : order'[b] = "pending" => order[b] = "pending"
  <2>1. OneClaim'
    BY <1>5, ClaimsShrink DEF Claims, Resolved
  <2> QED BY <1>1, <1>2, <1>5, <2>1 DEF Idle
<1> QED BY <1>1, <1>2, <1>3, <1>4, <1>5

\* Every step keeps one position per mint.
LEMMA PositionsStep ==
  ASSUME ~WritesMayFail, Inductive, Positions, [Next]_vars PROVE Positions'
<1>1. TasksPend'
  BY PendStep DEF Positions
<1> SUFFICES OneClaim' /\ OneRow' /\ Agree' /\ Idle'
  BY <1>1 DEF Positions
<1>2. CASE Executor \/ Chain \/ Operator \/ UNCHANGED vars
  <2>1. UNCHANGED <<pos, dbPos, persist, phase, out, order>>
    BY <1>2
    DEF vars, Executor, Unexecuted, AcquireLock, ReadBalance, ReadTokens, FreshQuote,
        SavePrepared, BuildAndSign, SaveBuilt, Submit, SaveSent, AwaitConfirmation, ReadHeight,
        PollsRunOut, SaveConfirmed, SaveUnknown, SaveAbandoned, Chain, Offchain, Land,
        FailOnChain,
        BlockhashExpires, Operator, Operate, Arm, Disarm, Kill, Resume
  <2>2. \A b \in Buys : order'[b] = "pending" => order[b] = "pending"
    BY <2>1
  <2> QED BY <2>1, <2>2, QuietPositions
<1>3. CASE Engine
  <2>1. UNCHANGED <<pos, dbPos, persist, phase, out>>
    BY <1>3 DEF Engine, SubmitBuy, SubmitSell, Withdraw
  <2>2. \/ \E b \in Buys : SubmitBuy(b)
        \/ \A b \in Buys : order'[b] = "pending" => order[b] = "pending"
    <3>1. order \in [Orders -> {"free", "pending", "resolved"}]
      BY DEF Inductive, TypeOK
    <3>2. ASSUME NEW s \in Sells, SubmitSell(s)
          PROVE  \A b \in Buys : order'[b] = "pending" => order[b] = "pending"
      BY <3>1, <3>2, AutonomousAssumption DEF SubmitSell, Orders
    <3>3. ASSUME NEW o \in Orders, Withdraw(o)
          PROVE  \A b \in Buys : order'[b] = "pending" => order[b] = "pending"
      BY <3>1, <3>3 DEF Withdraw, Orders
    <3> QED BY <1>3, <3>2, <3>3 DEF Engine
  <2> QED BY <2>1, <2>2, QuietPositions
<1>4. CASE (\E o \in Orders : Launch(o)) \/ Collect
  <2>1. UNCHANGED <<pos, dbPos, persist, phase>>
    BY <1>4 DEF Launch, Collect, Untouched
  <2>2. Collect \/ UNCHANGED <<out, order>>
    BY <1>4 DEF Launch
  <2>3. Collect \/ \A b \in Buys : order'[b] = "pending" => order[b] = "pending"
    BY <2>2
  <2> QED BY <2>1, <2>2, <2>3, QuietPositions
<1>5. CASE StartEngine
  <2>1. /\ UNCHANGED <<pos, dbPos, persist, out, order>> /\ persist = NoBooking
        /\ phase = "recovering" /\ phase' = "running"
    BY <1>5 DEF StartEngine
  <2>2. Agree'
    BY <2>1 DEF Agree, Positions
  <2>3. OneClaim' /\ OneRow' /\ Idle'
    BY <2>1 DEF OneClaim, Claims, Resolved, OneRow, Somewhere, Idle, Positions
  <2> QED BY <2>2, <2>3
<1> QED
  BY <1>2, <1>3, <1>4, <1>5, ApplyPositions, ReconcilePositions, PersistPositions,
     RestartPositions, DiePositions
  DEF Next, Tick, Recovery

\* While commits succeed the account never holds two positions of one mint: a
\* BUY keeps its claim from its submission to its booking, and recover() books
\* none where the database, which may be a commit behind the account that
\* died, still shows the mint's last one.
THEOREM PositionPerMint == Spec => [](~WritesMayFail => OnePositionPerMint)
<1>1. Init => Positions
  <2>1. Init => TasksPend /\ OneClaim
    BY AutonomousAssumption
    DEF Init, TasksPend, InHand, Waits, AtLock, Done, OneClaim, Claims, Resolved, Orders
  <2>2. Init => OneRow /\ Agree /\ Idle
    BY DEF Init, OneRow, Somewhere, Agree, Idle
  <2> QED BY <2>1, <2>2 DEF Positions
<1>2. Positions => OnePositionPerMint
  BY DEF Positions, OneClaim, Claims, OnePositionPerMint, Open
<1>3. CASE WritesMayFail
  <2>1. ~WritesMayFail => OnePositionPerMint
    BY <1>3
  <2> QED BY <2>1, PTL
<1>4. CASE ~WritesMayFail
  <2>1. Inductive /\ Positions /\ [Next]_vars => Positions'
    BY <1>4, PositionsStep
  <2> QED BY <1>1, <1>2, <2>1, InductiveInvariant, PTL DEF Spec
<1> QED BY <1>3, <1>4

----------------------------------------------------------------------------
(* Money: what the steps do to the amounts that the rails count *)

\* The awaits of a BUY between the rails and its send: its spend is decided.
Cleared == {"quote", "prepare", "build", "saveBuilt", "submit"}
Buying == job # None /\ job.o \in Buys
SentOrders == {o \in Orders : sends[o] > 0}
Pool == {o \in Orders : tx[o] = "pool"}

LEMMA SpendIsSum == ASSUME NEW S PROVE Spend(S) = SumOf(amt, S)
BY DEF Spend, SumOf

LEMMA SpentNext == Spend(spentBy)' = SumOf(amt', spentBy')
BY DEF Spend, SumOf, MapThenSumSet, MapThenFoldSet

\* Amounts and sends change at the balance, at the tokens and at the send only.
LEMMA AmountFrame ==
  ASSUME [Next]_vars
  PROVE  /\ ~ReadBalance /\ ~ReadTokens => UNCHANGED amt
         /\ ~Submit => UNCHANGED sends
         /\ ~SaveSent /\ ~Crash /\ ~Stop /\ ~Restart => UNCHANGED spentBy
         /\ ~Crash /\ ~Stop => UNCHANGED crashes
BY ZenonT(30) DEF vars, Next, Executor, Tick, Engine, Recovery, Chain, Operator, Operate, Crash, Stop,
       Die, Unexecuted, Untouched, Offchain, AcquireLock, ReadBalance, ReadTokens, FreshQuote,
       SavePrepared, BuildAndSign, SaveBuilt, Submit, SaveSent, AwaitConfirmation, ReadHeight,
       PollsRunOut, SaveConfirmed, SaveUnknown, SaveAbandoned, Launch, Collect, Apply,
       PersistStep,
       SubmitBuy, SubmitSell, Withdraw, Restart, Reconcile, StartEngine, Land, FailOnChain,
       BlockhashExpires, Arm, Disarm, Kill, Resume

\* Where the task that holds the lock was before a step that is no rail and no send.
LEMMA HolderMoves ==
  ASSUME TypeOK, [Next]_vars, ~ReadBalance, ~ReadTokens, ~Submit
  PROVE  /\ job' # None /\ job'.pc \in Cleared =>
              job # None /\ job'.o = job.o /\ job.pc \in Cleared
         /\ job' # None /\ job'.pc \in {"tokens", "saveSent"} => UNCHANGED job
         /\ job # None /\ job.pc = "saveSent" /\ ~SaveSent /\ ~Crash /\ ~Stop => UNCHANGED job
<1>1. CASE AcquireLock
  BY <1>1 DEF AcquireLock, NewJob, Cleared
<1>2. CASE FreshQuote \/ SavePrepared \/ BuildAndSign \/ SaveBuilt
  <2>1. job # None /\ job.pc \in Cleared /\ job \in JobRecord
    BY <1>2, HolderType DEF FreshQuote, SavePrepared, BuildAndSign, SaveBuilt, At, Cleared
  <2>2. \/ \E s, d : Abandon(s, d)
        \/ \E pc \in Cleared : Goto(pc)
    BY <1>2 DEF FreshQuote, SavePrepared, BuildAndSign, SaveBuilt, Cleared
  <2>3. job'.o = job.o /\ job'.pc \in Cleared \cup {"abandon"}
    BY <2>1, <2>2, GotoMoves, AbandonMoves
  <2> QED BY <2>1, <2>3 DEF Cleared
<1>3. CASE SaveSent \/ AwaitConfirmation \/ ReadHeight \/ PollsRunOut
  <2>1. job # None /\ job.pc \in {"saveSent", "await", "height"} /\ job \in JobRecord
        /\ (AwaitConfirmation \/ PollsRunOut => job.pc = "await")
        /\ (ReadHeight => job.pc = "height")
    BY <1>3, HolderType DEF SaveSent, AwaitConfirmation, ReadHeight, PollsRunOut, At
  <2>2. \/ \E s, d : Abandon(s, d)
        \/ \E pc \in {"await", "height", "saveConfirmed", "saveUnknown"} : Goto(pc)
    BY <1>3 DEF SaveSent, AwaitConfirmation, ReadHeight, PollsRunOut
  <2>3. job'.pc \in {"abandon", "await", "height", "saveConfirmed", "saveUnknown"}
    BY <2>1, <2>2, GotoMoves, AbandonMoves
  <2> QED BY <1>3, <2>1, <2>3 DEF Cleared
<1>4. CASE SaveConfirmed \/ SaveUnknown \/ SaveAbandoned \/ Crash \/ Stop
  BY <1>4 DEF SaveConfirmed, SaveUnknown, SaveAbandoned, Finish, Crash, Stop, Die, At
<1>5. CASE Engine \/ Tick \/ Recovery \/ Chain \/ Operator \/ UNCHANGED vars
  BY <1>5
  DEF vars, Tick, Engine, Recovery, Chain, Operator, Operate, Untouched, Offchain, Launch,
      Collect, Apply, PersistStep, SubmitBuy, SubmitSell, Withdraw, Restart, Reconcile,
      StartEngine, Land, FailOnChain, BlockhashExpires, Arm, Disarm, Kill, Resume
<1> QED BY <1>1, <1>2, <1>3, <1>4, <1>5 DEF Next, Executor

\* A transaction enters the pool by the send of the task at the lock, and
\* changes there only on the chain.
LEMMA PoolMoves ==
  ASSUME TypeOK, [Next]_vars, NEW o \in Orders
  PROVE  /\ tx'[o] = "pool" => tx[o] = "pool" \/ (Submit /\ o = job.o)
         /\ tx'[o] = "landed" => tx[o] \in {"pool", "landed"}
         /\ tx'[o] = "unsent" \/ tx[o] # "unsent" \/ (Submit /\ o = job.o)
<1>1. tx \in [Orders -> TxStates]
  BY DEF TypeOK
<1>2. CASE Submit
  BY <1>1, <1>2 DEF Submit
<1>3. CASE Chain
  <2>1. PICK p \in Orders : Land(p) \/ FailOnChain(p) \/ BlockhashExpires(p)
    BY <1>3 DEF Chain
  <2> QED BY <1>1, <2>1 DEF Land, FailOnChain, BlockhashExpires
<1>4. CASE ~Submit /\ ~Chain
  <2>1. UNCHANGED tx
    BY <1>4
    DEF vars, Next, Executor, Tick, Engine, Recovery, Operator, Operate, Crash, Stop,
       Die, Unexecuted, Untouched, Offchain, AcquireLock, ReadBalance, ReadTokens, FreshQuote,
       SavePrepared, BuildAndSign, SaveBuilt, SaveSent, AwaitConfirmation, ReadHeight,
       PollsRunOut, SaveConfirmed, SaveUnknown, SaveAbandoned, Launch, Collect, Apply,
       PersistStep,
       SubmitBuy, SubmitSell, Withdraw, Restart, Reconcile, StartEngine, Arm, Disarm, Kill,
       Resume
  <2> QED BY <2>1
<1> QED BY <1>2, <1>3, <1>4

\* Only a SELL reads the wallet's tokens.
SellsRead == Buying => job.pc # "tokens"

LEMMA SellsReadStep == ASSUME TypeOK, SellsRead, [Next]_vars PROVE SellsRead'
<1>1. CASE ReadBalance \/ ReadTokens \/ Submit
  <2>1. job # None /\ job \in JobRecord
    BY <1>1, HolderType DEF ReadBalance, ReadTokens, Submit, At
  <2>2. \/ \E s, d : Abandon(s, d)
        \/ \E pc \in {"quote", "saveSent"} : Goto(pc)
        \/ Goto("tokens") /\ job.o \in Sells
    BY <1>1 DEF ReadBalance, ReadTokens, Submit
  <2>3. job'.o = job.o /\ (job'.pc = "tokens" => job.o \in Sells)
    BY <2>1, <2>2, GotoMoves, AbandonMoves
  <2> QED BY <2>3, AutonomousAssumption DEF SellsRead, Buying
<1>2. CASE ~(ReadBalance \/ ReadTokens \/ Submit)
  <2>1. job' # None /\ job'.pc = "tokens" => UNCHANGED job
    BY <1>2, HolderMoves
  <2> QED BY <2>1 DEF SellsRead, Buying
<1> QED BY <1>1, <1>2

----------------------------------------------------------------------------
(* The daily cap *)

\* What BUYs put on the wire is counted, except that of the task about to
\* count it; and what the task at the lock was allowed still fits.
Counted ==
    /\ phase # "down"
    /\ spentBy \subseteq SentOrders
    /\ Spend(spentBy) =< MaxDailySpend
    /\ \A b \in OnTheWire : b \in spentBy \/ (job # None /\ job.o = b /\ job.pc = "saveSent")
    /\ Buying /\ job.pc \in Cleared \cup {"saveSent"} =>
         /\ job.o \notin spentBy
         /\ Spend(spentBy) + amt[job.o] =< MaxDailySpend
    /\ Buying /\ job.pc = "saveSent" => job.o \in SentOrders

\* A finite set of orders, and amounts: what the lemmas about sums ask for.
LEMMA Amounts ==
  ASSUME TypeOK, IsFiniteSet(Orders)
  PROVE  /\ amt \in [Orders -> Nat]
         /\ \A S \in SUBSET Orders : IsFiniteSet(S) /\ SumOf(amt, S) \in Nat
<1>1. amt \in [Orders -> Nat]
  BY DEF TypeOK
<1> QED BY <1>1, FS_Subset, SumOfNat

\* An order at the rails has not been sent, and its new amount counts nowhere.
LEMMA AmountMoves ==
  ASSUME TypeOK, TasksOnce, IsFiniteSet(Orders), ReadBalance \/ ReadTokens
  PROVE  /\ job.o \in Orders /\ sends[job.o] = 0 /\ tx[job.o] = "unsent"
         /\ amt' \in [Orders -> Nat]
         /\ \A p \in Orders : p # job.o => amt'[p] = amt[p]
         /\ \A S \in SUBSET Orders : job.o \notin S => SumOf(amt', S) = SumOf(amt, S)
<1>1. job \in JobRecord /\ job.o \in Orders /\ job # None
  BY HolderType DEF ReadBalance, ReadTokens, At
<1>2. sends[job.o] = 0 /\ tx[job.o] = "unsent"
  BY <1>1 DEF ReadBalance, ReadTokens, At, TasksOnce, BeforeSend
<1>3. amt \in [Orders -> Nat]
  BY DEF TypeOK
<1>4. \E v \in Nat : amt' = [amt EXCEPT ![job.o] = v] \/ UNCHANGED amt
  <2>1. CASE ReadBalance
    <3>1. job.o \in Buys => ClampSpend(job.o) \in Nat
      BY <1>1, ClampSpendType
    <3> QED BY <2>1, <3>1 DEF ReadBalance
  <2>2. CASE ReadTokens
    BY <1>1, <2>2, MintForType DEF ReadTokens, TasksOnce
  <2> QED BY <2>1, <2>2
<1>5. amt' \in [Orders -> Nat] /\ \A p \in Orders : p # job.o => amt'[p] = amt[p]
  BY <1>3, <1>4
<1>6. ASSUME NEW S \in SUBSET Orders, job.o \notin S PROVE SumOf(amt', S) = SumOf(amt, S)
  <2>1. IsFiniteSet(S) /\ \A p \in S : amt'[p] = amt[p]
    BY <1>5, <1>6, FS_Subset
  <2> QED BY <1>3, <1>5, <2>1, SumOfSame
<1> QED BY <1>1, <1>2, <1>5, <1>6

\* A BUY whose spend has just been decided has passed the rails with it.
LEMMA RailsPassed ==
  ASSUME TypeOK, SellsRead, ReadBalance \/ ReadTokens, Buying',
         job'.pc \in Cleared \cup {"saveSent"}
  PROVE  /\ job'.o = job.o /\ job.o \in Orders /\ BuyAllowed(ClampSpend(job.o))
         /\ amt'[job.o] = ClampSpend(job.o)
<1>1. job # None /\ job \in JobRecord /\ job.o \in Orders /\ job.pc \in {"balance", "tokens"}
  BY HolderType DEF ReadBalance, ReadTokens, At
<1>2. ~(\E s, d : Abandon(s, d)) /\ ~Goto("tokens")
  BY <1>1, GotoMoves, AbandonMoves DEF Cleared
<1>3. job'.o = job.o
  <2>1. \E pc : Goto(pc)
    BY <1>2 DEF ReadBalance, ReadTokens
  <2> QED BY <1>1, <2>1, GotoMoves
<1>4. job.o \in Buys /\ ReadBalance
  BY <1>1, <1>3 DEF Buying, SellsRead, ReadTokens, At
<1>5. BuyAllowed(ClampSpend(job.o)) /\ amt' = [amt EXCEPT ![job.o] = ClampSpend(job.o)]
  BY <1>2, <1>4, AutonomousAssumption DEF ReadBalance
<1> QED BY <1>1, <1>3, <1>5 DEF TypeOK

\* The rails let a BUY through within the cap.
LEMMA BalanceCounts ==
  ASSUME Inductive, SellsRead, IsFiniteSet(Orders), Counted, ReadBalance \/ ReadTokens
  PROVE  Counted'
<1> USE DEF Inductive
<1>1. /\ job.o \in Orders /\ sends[job.o] = 0 /\ tx[job.o] = "unsent"
      /\ \A S \in SUBSET Orders : job.o \notin S => SumOf(amt', S) = SumOf(amt, S)
  BY AmountMoves
<1>2. UNCHANGED <<phase, spentBy, sends, tx>>
  BY DEF ReadBalance, ReadTokens, Unexecuted
<1>3. job # None /\ job \in JobRecord /\ job.pc \in {"balance", "tokens"}
  BY HolderType DEF ReadBalance, ReadTokens, At
<1>4. job.o \notin spentBy /\ spentBy \in SUBSET Orders
  BY <1>1 DEF Counted, SentOrders, TypeOK, Orders
<1>5. Spend(spentBy)' = Spend(spentBy)
  <2>1. SumOf(amt', spentBy) = SumOf(amt, spentBy)
    BY <1>1, <1>4
  <2>2. Spend(spentBy)' = SumOf(amt', spentBy')
    BY SpentNext
  <2> QED BY <1>2, <2>1, <2>2, SpendIsSum
<1>6. phase' # "down" /\ spentBy' \subseteq SentOrders'
  BY <1>2 DEF Counted, SentOrders
<1>7. Spend(spentBy)' =< MaxDailySpend
  BY <1>5 DEF Counted
<1>8. \A b \in OnTheWire' : b \in spentBy'
  BY <1>2, <1>3 DEF Counted, OnTheWire
<1>9. ASSUME Buying', job'.pc \in Cleared \cup {"saveSent"}
      PROVE  job'.o \notin spentBy' /\ Spend(spentBy)' + amt'[job'.o] =< MaxDailySpend
  <2>1. /\ job'.o = job.o /\ BuyAllowed(ClampSpend(job.o))
        /\ amt'[job.o] = ClampSpend(job.o)
    BY <1>1, <1>9, RailsPassed DEF Cleared
  <2>2. Spend(spentBy) + ClampSpend(job.o) =< MaxDailySpend
    BY <2>1 DEF BuyAllowed
  <2> QED BY <1>2, <1>4, <1>5, <2>1, <2>2
<1>10. job'.pc # "saveSent"
  <2>1. Goto("quote") \/ Goto("tokens") \/ \E s, d : Abandon(s, d)
    BY DEF ReadBalance, ReadTokens
  <2> QED BY <1>3, <2>1, GotoMoves, AbandonMoves
<1> QED BY <1>6, <1>7, <1>8, <1>9, <1>10 DEF Counted

\* A step that changes nothing that is counted keeps Counted.
LEMMA CountedFrame ==
  ASSUME Counted, UNCHANGED <<amt, spentBy>>, phase' # "down",
         \A o \in Orders : o \in SentOrders => o \in SentOrders',
         \A b \in Buys : tx'[b] \in {"pool", "landed"} =>
            b \in OnTheWire \/ (job' # None /\ job'.o = b /\ job'.pc = "saveSent"),
         job # None /\ job.pc = "saveSent" => UNCHANGED job,
         Buying' /\ job'.pc \in Cleared \cup {"saveSent"} =>
            /\ Buying /\ job'.o = job.o /\ job.pc \in Cleared \cup {"saveSent"}
            /\ job'.pc = "saveSent" => UNCHANGED job \/ job.o \in SentOrders'
  PROVE  Counted'
<1>1. Spend(spentBy)' = Spend(spentBy)
  BY SpentNext, SpendIsSum
<1>2. spentBy' \subseteq SentOrders'
  BY DEF Counted, SentOrders
<1>3. \A b \in OnTheWire' : b \in spentBy' \/ (job' # None /\ job'.o = b /\ job'.pc = "saveSent")
  BY DEF Counted, OnTheWire
<1>4. Buying' /\ job'.pc \in Cleared \cup {"saveSent"} =>
        job'.o \notin spentBy' /\ Spend(spentBy)' + amt'[job'.o] =< MaxDailySpend
  BY <1>1 DEF Counted
<1>5. Buying' /\ job'.pc = "saveSent" => job'.o \in SentOrders'
  BY AutonomousAssumption DEF Counted, Buying, Orders
<1> QED BY <1>1, <1>2, <1>3, <1>4, <1>5 DEF Counted

LEMMA SendCounts == ASSUME Inductive, Counted, Submit, [Next]_vars PROVE Counted'
<1> USE DEF Inductive
<1>1. job # None /\ job \in JobRecord /\ job.o \in Orders /\ job.pc = "submit"
  BY HolderType DEF Submit, At
<1>2. sends \in [Orders -> Nat] /\ tx \in [Orders -> TxStates]
  BY DEF TypeOK
<1>3. /\ UNCHANGED <<amt, spentBy, phase>>
      /\ sends' = [sends EXCEPT ![job.o] = @ + 1]
      /\ (Goto("saveSent") /\ tx' = [tx EXCEPT ![job.o] = "pool"])
           \/ (Abandon("FAILED", FALSE) /\ UNCHANGED tx)
  BY DEF Submit
<1>4. \A o \in Orders : o \in SentOrders \/ o = job.o => o \in SentOrders'
  BY <1>1, <1>2, <1>3 DEF SentOrders
<1>5. \A b \in Buys : tx'[b] \in {"pool", "landed"} =>
        b \in OnTheWire \/ (job' # None /\ job'.o = b /\ job'.pc = "saveSent")
  <2>1. CASE Goto("saveSent") /\ tx' = [tx EXCEPT ![job.o] = "pool"]
    <3>1. job' # None /\ job'.o = job.o /\ job'.pc = "saveSent"
      <4>1. job' \in JobRecord
        BY <1>1, <2>1, GotoType DEF JobSteps
      <4> QED BY <1>1, <2>1, <4>1, GotoMoves, NoneAssumption
    <3> QED BY <1>1, <1>2, <2>1, <3>1 DEF OnTheWire, Orders
  <2>2. CASE UNCHANGED tx
    BY <2>2 DEF OnTheWire
  <2> QED BY <1>3, <2>1, <2>2
<1>6. job'.o = job.o /\ job'.pc \in {"saveSent", "abandon"}
  BY <1>1, <1>3, GotoMoves, AbandonMoves
<1>7. Buying' => Buying
  BY <1>1, <1>6 DEF Buying
<1>8. phase' # "down"
  BY <1>3 DEF Counted
<1> QED BY <1>1, <1>3, <1>4, <1>5, <1>6, <1>7, <1>8, CountedFrame DEF Cleared

LEMMA SentCounts ==
  ASSUME Inductive, IsFiniteSet(Orders), Counted, SaveSent PROVE Counted'
<1> USE DEF Inductive
<1>1. job # None /\ job \in JobRecord /\ job.o \in Orders /\ job.pc = "saveSent"
  BY HolderType DEF SaveSent, At
<1>2. /\ UNCHANGED <<amt, phase, tx, sends>> /\ Goto("await")
      /\ spentBy' = IF job.o \in Buys THEN spentBy \cup {job.o} ELSE spentBy
  BY DEF SaveSent, Unexecuted
<1>3. job'.o = job.o /\ job'.pc = "await"
  BY <1>1, <1>2, GotoMoves
<1>4. Spend(spentBy)' =< MaxDailySpend
  <2>1. Spend(spentBy)' = SumOf(amt, spentBy')
    BY <1>2, SpentNext
  <2>2. CASE job.o \in Buys
    <3>1. job.o \notin spentBy /\ SumOf(amt, spentBy) + amt[job.o] =< MaxDailySpend
      BY <1>1, <2>2, SpendIsSum DEF Counted, Buying
    <3>2. spentBy \in SUBSET Orders
      BY DEF TypeOK, Orders
    <3>3. /\ amt \in [Orders -> Nat] /\ IsFiniteSet(spentBy) /\ SumOf(amt, spentBy) \in Nat
          /\ amt[job.o] \in Nat
      BY <1>1, <3>2, Amounts
    <3>4. SumOf(amt, spentBy \cup {job.o}) = amt[job.o] + SumOf(amt, spentBy)
      BY <1>1, <3>1, <3>2, <3>3, SumOfAdded
    <3> QED BY <1>2, <2>1, <2>2, <3>1, <3>3, <3>4
  <2>3. CASE job.o \notin Buys
    BY <1>2, <2>1, <2>3, SpendIsSum DEF Counted
  <2> QED BY <2>2, <2>3
<1>5. spentBy' \subseteq SentOrders'
  <2>1. SentOrders' = SentOrders
    BY <1>2 DEF SentOrders
  <2>2. job.o \in Buys => job.o \in SentOrders
    BY <1>1 DEF Counted, Buying
  <2> QED BY <1>2, <2>1, <2>2 DEF Counted
<1>6. \A b \in OnTheWire' : b \in spentBy'
  BY <1>1, <1>2 DEF Counted, OnTheWire
<1>7. ~(job'.pc \in Cleared \cup {"saveSent"})
  BY <1>3 DEF Cleared
<1>8. phase' # "down"
  BY <1>2 DEF Counted
<1> QED BY <1>4, <1>5, <1>6, <1>7, <1>8 DEF Counted

LEMMA CapStep ==
  ASSUME Inductive, SellsRead, IsFiniteSet(Orders), crashes = 0 => Counted, [Next]_vars
  PROVE  crashes' = 0 => Counted'
<1> USE DEF Inductive
<1>1. CASE Crash \/ Stop
  BY <1>1 DEF Crash, Stop, Die, TypeOK
<1> SUFFICES ASSUME ~Crash, ~Stop, crashes' = 0, Counted PROVE Counted'
  BY <1>1, AmountFrame
<1>2. CASE ReadBalance \/ ReadTokens
  BY <1>2, BalanceCounts
<1>3. CASE Submit
  BY <1>3, SendCounts
<1>4. CASE SaveSent
  BY <1>4, SentCounts
<1>5. CASE ~(ReadBalance \/ ReadTokens \/ Submit \/ SaveSent)
  <2>1. ~Restart
    BY DEF Counted, Restart
  <2>2. UNCHANGED <<amt, spentBy, sends>>
    BY <1>5, <2>1, AmountFrame
  <2>3. phase' # "down"
    BY <1>5
    DEF Counted, vars, Next, Executor, Tick, Engine, Recovery, Chain, Operator, Operate,
        Unexecuted, Untouched, Offchain, AcquireLock, FreshQuote, SavePrepared, BuildAndSign,
        SaveBuilt, AwaitConfirmation, ReadHeight, PollsRunOut, SaveConfirmed, SaveUnknown,
        SaveAbandoned, Launch, Collect, Apply, PersistStep, SubmitBuy, SubmitSell, Withdraw,
        Restart, Reconcile,
        StartEngine, Land, FailOnChain, BlockhashExpires, Arm, Disarm, Kill, Resume
  <2>4. \A b \in Buys : tx'[b] \in {"pool", "landed"} => b \in OnTheWire
    BY <1>5, PoolMoves DEF OnTheWire, Orders
  <2>5. job # None /\ job.pc = "saveSent" => UNCHANGED job
    BY <1>5, HolderMoves
  <2>6. Buying' /\ job'.pc \in Cleared \cup {"saveSent"} =>
            /\ Buying /\ job'.o = job.o /\ job.pc \in Cleared \cup {"saveSent"}
            /\ job'.pc = "saveSent" => UNCHANGED job
    BY <1>5, HolderMoves DEF Buying
  <2> QED BY <2>2, <2>3, <2>4, <2>5, <2>6, CountedFrame DEF SentOrders
<1> QED BY <1>2, <1>3, <1>4, <1>5

\* What BUYs have put on the wire, and may still take from the wallet, stays
\* within the daily cap as long as the process is not restarted: whatever is
\* queued, given up as unknown or relaunched, a BUY fits under the cap with
\* all that were sent before it.
THEOREM SpendWithinCap ==
  ASSUME IsFiniteSet(Orders) PROVE Spec => [](crashes = 0 => DailySpendCapped)
<1> DEFINE Capped == SellsRead /\ (crashes = 0 => Counted)
<1>1. ASSUME Init PROVE Capped
  <2>1. Spend({}) = 0
    BY <1>1, TypeInit, SpendIsSum, SumOfEmpty DEF TypeOK
  <2>2. MaxDailySpend \in Nat
    BY AutonomousAssumption
  <2>3. OnTheWire = {}
    BY <1>1 DEF Init, OnTheWire, Orders
  <2> QED BY <1>1, <2>1, <2>2, <2>3 DEF Init, SellsRead, Counted, Buying
<1>2. Inductive /\ Capped /\ [Next]_vars => Capped'
  BY CapStep, SellsReadStep DEF Inductive
<1>3. Inductive /\ Capped => (crashes = 0 => DailySpendCapped)
  <2> SUFFICES ASSUME Inductive, Counted PROVE DailySpendCapped
    OBVIOUS
  <2>1. /\ amt \in [Orders -> Nat] /\ spentBy \in SUBSET Orders
        /\ \A S \in SUBSET Orders : IsFiniteSet(S) /\ SumOf(amt, S) \in Nat
    BY Amounts DEF Inductive, TypeOK, Orders
  <2>2. OnTheWire \in SUBSET Orders
    BY DEF OnTheWire, Orders
  <2>3. MaxDailySpend \in Nat
    BY AutonomousAssumption
  <2>4. CASE OnTheWire \subseteq spentBy
    <3>1. SumOf(amt, OnTheWire) =< SumOf(amt, spentBy)
      BY <2>1, <2>4, SumOfPart
    <3>2. SumOf(amt, spentBy) =< MaxDailySpend
      BY SpendIsSum DEF Counted
    <3>3. SumOf(amt, OnTheWire) \in Nat /\ SumOf(amt, spentBy) \in Nat
      BY <2>1, <2>2
    <3> QED BY <2>3, <3>1, <3>2, <3>3, SpendIsSum DEF DailySpendCapped
  <2>5. CASE ~(OnTheWire \subseteq spentBy)
    <3>1. /\ Buying /\ job.pc = "saveSent" /\ job.o \in Orders
          /\ OnTheWire \subseteq spentBy \cup {job.o}
      BY <2>5 DEF Counted, OnTheWire, Buying, Orders
    <3>2. job.o \notin spentBy /\ SumOf(amt, spentBy) + amt[job.o] =< MaxDailySpend
      BY <3>1, SpendIsSum DEF Counted
    <3>3. SumOf(amt, spentBy \cup {job.o}) = amt[job.o] + SumOf(amt, spentBy)
      BY <2>1, <3>1, <3>2, SumOfAdded
    <3>4. spentBy \cup {job.o} \in SUBSET Orders
      BY <2>1, <3>1
    <3>5. SumOf(amt, OnTheWire) =< SumOf(amt, spentBy \cup {job.o})
      BY <2>1, <3>1, <3>4, SumOfPart
    <3>6. /\ SumOf(amt, OnTheWire) \in Nat /\ SumOf(amt, spentBy) \in Nat
          /\ SumOf(amt, spentBy \cup {job.o}) \in Nat /\ amt[job.o] \in Nat
      BY <2>1, <2>2, <3>1, <3>4
    <3> QED BY <2>3, <3>2, <3>3, <3>5, <3>6, SpendIsSum DEF DailySpendCapped
  <2> QED BY <2>4, <2>5
<1> HIDE DEF Capped
<1> QED BY <1>1, <1>2, <1>3, InductiveInvariant, PTL DEF Spec

----------------------------------------------------------------------------
(* The fee reserve *)

Fees(S) == Fee * Cardinality(S)

\* What the wallet holds, with the fees and the given-up BUYs that may have
\* been taken from it, and what may still be taken.
Left == wallet + Fees(SentOrders) + SumOf(amt, orphaned \cap Buys)
Owed == SumOf(amt, Pool \cap Buys) + Fees(Pool)
Covers(spend) == Left >= SmallerOf(Reserve, InitialWallet) + Owed + spend

\* The task at the lock still follows what it has sent.
Following == {"saveSent", "await", "height", "saveUnknown", "abandon"}

\* The reserve covers what is on the wire, and the BUY the rails let through;
\* what is on the wire is followed or given up.
Reserved ==
    /\ orphaned \subseteq SentOrders
    /\ \A o \in Pool : o \in orphaned \/ (job # None /\ job.o = o /\ job.pc \in Following)
    /\ Covers(0)
    /\ Buying /\ job.pc \in Cleared => Covers(amt[job.o])

LEMMA FeesCount ==
  ASSUME IsFiniteSet(Orders), NEW S \in SUBSET Orders
  PROVE  /\ Fees(S) \in Nat
         /\ \A x \in Orders \ S : Fees(S \cup {x}) = Fees(S) + Fee
         /\ \A x \in S : Fees(S) = Fees(S \ {x}) + Fee
         /\ \A T \in SUBSET S : Fees(T) =< Fees(S)
<1>1. Fee \in Nat
  BY AutonomousAssumption
<1>2. \A T \in SUBSET Orders : IsFiniteSet(T) /\ Cardinality(T) \in Nat
  BY FS_Subset, FS_CardinalityType
<1>3. \A n \in Nat : Fee * n \in Nat /\ Fee * (n + 1) = Fee * n + Fee
  BY <1>1
<1>4. \A n, m \in Nat : n =< m => Fee * n =< Fee * m
  BY <1>1
<1>5. Fees(S) \in Nat
  BY <1>2, <1>3 DEF Fees
<1>6. ASSUME NEW x \in Orders \ S PROVE Fees(S \cup {x}) = Fees(S) + Fee
  <2>1. Cardinality(S \cup {x}) = Cardinality(S) + 1
    BY <1>2, FS_AddElement
  <2> QED BY <1>2, <1>3, <2>1 DEF Fees
<1>7. ASSUME NEW x \in S PROVE Fees(S) = Fees(S \ {x}) + Fee
  <2>1. Cardinality(S \ {x}) = Cardinality(S) - 1 /\ Cardinality(S \ {x}) \in Nat
    BY <1>2, FS_RemoveElement
  <2>2. Cardinality(S) = Cardinality(S \ {x}) + 1
    BY <1>2, <2>1
  <2> QED BY <1>3, <2>1, <2>2 DEF Fees
<1>8. ASSUME NEW T \in SUBSET S PROVE Fees(T) =< Fees(S)
  <2>1. Cardinality(T) =< Cardinality(S)
    BY <1>2, FS_Subset
  <2> QED BY <1>2, <1>4, <2>1 DEF Fees
<1> QED BY <1>5, <1>6, <1>7, <1>8

LEMMA MoneyTypes ==
  ASSUME TypeOK, IsFiniteSet(Orders)
  PROVE  /\ amt \in [Orders -> Nat] /\ wallet \in Nat /\ Fee \in Nat
         /\ SentOrders \in SUBSET Orders /\ Pool \in SUBSET Orders
         /\ orphaned \cap Buys \in SUBSET Orders /\ Pool \cap Buys \in SUBSET Orders
         /\ Fees(SentOrders) \in Nat /\ Fees(Pool) \in Nat
         /\ SumOf(amt, orphaned \cap Buys) \in Nat /\ SumOf(amt, Pool \cap Buys) \in Nat
         /\ SmallerOf(Reserve, InitialWallet) \in Nat
<1>1. /\ SentOrders \in SUBSET Orders /\ Pool \in SUBSET Orders
      /\ orphaned \cap Buys \in SUBSET Orders /\ Pool \cap Buys \in SUBSET Orders
  BY DEF TypeOK, SentOrders, Pool
<1>2. Fees(SentOrders) \in Nat /\ Fees(Pool) \in Nat
  BY <1>1, FeesCount
<1>3. SmallerOf(Reserve, InitialWallet) \in Nat /\ Fee \in Nat
  BY AutonomousAssumption DEF SmallerOf
<1>4. amt \in [Orders -> Nat] /\ wallet \in Nat
  BY DEF TypeOK
<1>5. SumOf(amt, orphaned \cap Buys) \in Nat /\ SumOf(amt, Pool \cap Buys) \in Nat
  BY <1>1, Amounts
<1> QED BY <1>1, <1>2, <1>3, <1>4, <1>5

LEMMA MoneyTypesNext ==
  ASSUME TypeOK', IsFiniteSet(Orders)
  PROVE  /\ amt' \in [Orders -> Nat] /\ wallet' \in Nat
         /\ SentOrders' \in SUBSET Orders /\ Pool' \in SUBSET Orders
         /\ orphaned' \cap Buys \in SUBSET Orders /\ Pool' \cap Buys \in SUBSET Orders
         /\ Fees(SentOrders') \in Nat /\ Fees(Pool') \in Nat
         /\ SumOf(amt', orphaned' \cap Buys) \in Nat /\ SumOf(amt', Pool' \cap Buys) \in Nat
<1>1. /\ SentOrders' \in SUBSET Orders /\ Pool' \in SUBSET Orders
      /\ orphaned' \cap Buys \in SUBSET Orders /\ Pool' \cap Buys \in SUBSET Orders
  BY DEF TypeOK, SentOrders, Pool
<1>2. Fees(SentOrders') \in Nat /\ Fees(Pool') \in Nat
  BY <1>1, FeesCount
<1>3. amt' \in [Orders -> Nat] /\ wallet' \in Nat
  BY DEF TypeOK
<1>4. IsFiniteSet(orphaned' \cap Buys) /\ IsFiniteSet(Pool' \cap Buys)
  BY <1>1, FS_Subset
<1>5. SumOf(amt', orphaned' \cap Buys) \in Nat /\ SumOf(amt', Pool' \cap Buys) \in Nat
  BY <1>1, <1>3, <1>4, SumOfNat
<1> QED BY <1>1, <1>2, <1>3, <1>5

\* What a step leaves in the wallet less what it leaves on the wire, when it
\* does not decide or send a BUY.
LEMMA CoversFrame ==
  ASSUME Inductive, TypeOK', IsFiniteSet(Orders), Reserved, Left' - Owed' >= Left - Owed,
         Buying' /\ job'.pc \in Cleared =>
            Buying /\ job.pc \in Cleared /\ amt'[job'.o] = amt[job.o] /\ job.o \in Orders
  PROVE  /\ Covers(0)'
         /\ Buying' /\ job'.pc \in Cleared => Covers(amt[job.o])'
<1>1. /\ Left \in Nat /\ Owed \in Nat /\ SmallerOf(Reserve, InitialWallet) \in Nat
      /\ amt \in [Orders -> Nat]
  BY MoneyTypes DEF Left, Owed, Inductive
<1>2. Left' \in Nat /\ Owed' \in Nat
  BY MoneyTypesNext DEF Left, Owed
<1>3. \A n \in Nat : Left >= SmallerOf(Reserve, InitialWallet) + Owed + n
                      => Left' >= SmallerOf(Reserve, InitialWallet) + Owed' + n
  <2>1. \A a, b, c, d, e \in Nat : \A n \in Nat :
          c - d >= a - b /\ a >= e + b + n => c >= e + d + n
    OBVIOUS
  <2> QED BY <1>1, <1>2, <2>1
<1>4. Covers(0)'
  BY <1>3 DEF Covers, Reserved
<1>5. ASSUME Buying', job'.pc \in Cleared PROVE Covers(amt[job.o])'
  <2>1. /\ Left >= SmallerOf(Reserve, InitialWallet) + Owed + amt[job.o]
        /\ amt'[job'.o] = amt[job.o] /\ amt[job.o] \in Nat
    BY <1>1, <1>5 DEF Covers, Reserved
  <2> QED BY <1>3, <2>1 DEF Covers
<1> QED BY <1>4, <1>5

\* A transaction that leaves the pool takes from the wallet no more than was
\* owed for it.
LEMMA ChainLeaves ==
  ASSUME Inductive, IsFiniteSet(Orders), Chain
  PROVE  Left' - Owed' >= Left - Owed
<1> USE DEF Inductive
<1>1. PICK o \in Orders : Land(o) \/ FailOnChain(o) \/ BlockhashExpires(o)
  BY DEF Chain
<1>2. UNCHANGED <<amt, sends, orphaned>>
  BY <1>1 DEF Land, FailOnChain, BlockhashExpires, Offchain
<1>3. tx \in [Orders -> TxStates] /\ tx[o] = "pool" /\ o \in Pool
  BY <1>1 DEF Land, FailOnChain, BlockhashExpires, TypeOK, Pool
<1>4. Pool' = Pool \ {o}
  BY <1>1, <1>3 DEF Land, FailOnChain, BlockhashExpires, Pool
<1>5. /\ amt \in [Orders -> Nat] /\ wallet \in Nat /\ Fee \in Nat /\ amt[o] \in Nat
      /\ Pool \in SUBSET Orders /\ Pool \cap Buys \in SUBSET Orders
      /\ Fees(Pool) \in Nat /\ Fees(SentOrders) \in Nat
      /\ SumOf(amt, Pool \cap Buys) \in Nat /\ SumOf(amt, orphaned \cap Buys) \in Nat
  BY MoneyTypes
<1>6. Fees(Pool) = Fees(Pool \ {o}) + Fee /\ Fees(Pool \ {o}) \in Nat
  BY <1>3, <1>5, FeesCount
<1>7. /\ SumOf(amt, (Pool \ {o}) \cap Buys) \in Nat
      /\ SumOf(amt, (Pool \ {o}) \cap Buys) =< SumOf(amt, Pool \cap Buys)
  <2>1. (Pool \ {o}) \cap Buys \in SUBSET (Pool \cap Buys) /\ IsFiniteSet(Pool \cap Buys)
    BY <1>5, FS_Subset
  <2>2. (Pool \ {o}) \cap Buys \in SUBSET Orders
    BY <1>5
  <2> QED BY <1>5, <2>1, <2>2, Amounts, SumOfPart
<1>8. o \in Buys => SumOf(amt, Pool \cap Buys) = amt[o] + SumOf(amt, (Pool \ {o}) \cap Buys)
  <2> SUFFICES ASSUME o \in Buys
               PROVE  SumOf(amt, Pool \cap Buys) = amt[o] + SumOf(amt, (Pool \ {o}) \cap Buys)
    OBVIOUS
  <2>1. (Pool \cap Buys) \ {o} = (Pool \ {o}) \cap Buys
    OBVIOUS
  <2>2. o \in Pool \cap Buys /\ IsFiniteSet(Pool \cap Buys)
    BY <1>3, <1>5, FS_Subset
  <2>3. SumOf(amt, Pool \cap Buys) = amt[o] + SumOf(amt, (Pool \cap Buys) \ {o})
    BY <1>5, <2>2, SumOfMember
  <2> QED BY <2>1, <2>3
<1>9. \/ o \in Buys /\ wallet' = wallet - amt[o] - Fee
      \/ o \in Sells /\ wallet' = wallet + amt[o] - Fee
      \/ wallet' = wallet - Fee
      \/ wallet' = wallet
  BY <1>1 DEF Land, FailOnChain, BlockhashExpires
<1>10. SentOrders' = SentOrders
  BY <1>2 DEF SentOrders
<1>11. /\ Left' = wallet' + Fees(SentOrders) + SumOf(amt, orphaned \cap Buys)
       /\ Owed' = SumOf(amt, (Pool \ {o}) \cap Buys) + Fees(Pool \ {o})
  BY <1>2, <1>4, <1>10 DEF Left, Owed
<1>12. /\ Left = wallet + Fees(SentOrders) + SumOf(amt, orphaned \cap Buys)
       /\ Owed = SumOf(amt, Pool \cap Buys) + Fees(Pool)
  BY DEF Left, Owed
<1> HIDE DEF Inductive
<1>13. CASE o \in Buys /\ wallet' = wallet - amt[o] - Fee
  BY <1>5, <1>6, <1>7, <1>8, <1>11, <1>12, <1>13
<1>14. CASE wallet' = wallet + amt[o] - Fee \/ wallet' = wallet - Fee \/ wallet' = wallet
  BY <1>5, <1>6, <1>7, <1>11, <1>12, <1>14
<1> QED BY <1>9, <1>13, <1>14

\* Giving an order up counts it on the side of the wallet.
LEMMA OrphansLeave ==
  ASSUME Inductive, IsFiniteSet(Orders), UNCHANGED <<wallet, tx, sends, amt>>,
         orphaned \subseteq orphaned', TypeOK'
  PROVE  Left' - Owed' >= Left - Owed
<1>1. SentOrders' = SentOrders /\ Pool' = Pool
  BY DEF SentOrders, Pool
<1>2. orphaned \cap Buys \in SUBSET (orphaned' \cap Buys)
  OBVIOUS
<1>3. /\ amt \in [Orders -> Nat] /\ wallet \in Nat /\ Fees(SentOrders) \in Nat
      /\ Fees(Pool) \in Nat /\ SumOf(amt, Pool \cap Buys) \in Nat
      /\ SumOf(amt, orphaned \cap Buys) \in Nat
  BY MoneyTypes DEF Inductive
<1>4. orphaned' \cap Buys \in SUBSET Orders /\ SumOf(amt', orphaned' \cap Buys) \in Nat
  BY MoneyTypesNext
<1>5. SumOf(amt, orphaned \cap Buys) =< SumOf(amt, orphaned' \cap Buys)
  <2>1. IsFiniteSet(orphaned' \cap Buys)
    BY <1>4, FS_Subset
  <2> QED BY <1>2, <1>3, <1>4, <2>1, SumOfPart
<1>6. /\ Left' = wallet + Fees(SentOrders) + SumOf(amt, orphaned' \cap Buys)
      /\ Owed' = SumOf(amt, Pool \cap Buys) + Fees(Pool)
  BY <1>1 DEF Left, Owed
<1>7. SumOf(amt, orphaned' \cap Buys) \in Nat
  BY <1>4
<1>8. /\ Left = wallet + Fees(SentOrders) + SumOf(amt, orphaned \cap Buys)
      /\ Owed = SumOf(amt, Pool \cap Buys) + Fees(Pool)
  BY DEF Left, Owed
<1> QED BY <1>3, <1>5, <1>6, <1>7, <1>8

\* The rails let a BUY through when the wallet keeps the reserve; by then all
\* that is on the wire has been given up, and fees count once for each send.
LEMMA BalanceReserves ==
  ASSUME Inductive, TypeOK', SellsRead, IsFiniteSet(Orders), Reserved, ReadBalance \/ ReadTokens
  PROVE  Reserved'
<1> USE DEF Inductive
<1>1. /\ job.o \in Orders /\ sends[job.o] = 0 /\ tx[job.o] = "unsent"
      /\ \A S \in SUBSET Orders : job.o \notin S => SumOf(amt', S) = SumOf(amt, S)
  BY AmountMoves
<1>2. UNCHANGED <<sends, tx, wallet, orphaned>>
  BY DEF ReadBalance, ReadTokens, Unexecuted
<1>3. job # None /\ job.pc \in {"balance", "tokens"}
  BY DEF ReadBalance, ReadTokens, At
<1>4. job.o \notin Pool /\ job.o \notin orphaned
  BY <1>1 DEF Pool, Reserved, SentOrders
<1>5. /\ amt \in [Orders -> Nat] /\ wallet \in Nat
      /\ Pool \in SUBSET Orders /\ Pool \cap Buys \in SUBSET Orders
      /\ SentOrders \in SUBSET Orders /\ orphaned \cap Buys \in SUBSET Orders
      /\ Fees(Pool) \in Nat /\ Fees(SentOrders) \in Nat
      /\ SumOf(amt, Pool \cap Buys) \in Nat /\ SumOf(amt, orphaned \cap Buys) \in Nat
      /\ SmallerOf(Reserve, InitialWallet) \in Nat
  BY MoneyTypes
<1>6. Pool' = Pool /\ SentOrders' = SentOrders
  BY <1>2 DEF Pool, SentOrders
<1>7. /\ SumOf(amt', orphaned \cap Buys) = SumOf(amt, orphaned \cap Buys)
      /\ SumOf(amt', Pool \cap Buys) = SumOf(amt, Pool \cap Buys)
  BY <1>1, <1>4, <1>5
<1>8. Left' = Left /\ Owed' = Owed
  BY <1>2, <1>6, <1>7 DEF Left, Owed
<1>9. Pool \subseteq orphaned
  BY <1>3 DEF Reserved, Following
<1>10. Covers(0)'
  BY <1>8 DEF Reserved, Covers
<1>11. ASSUME Buying', job'.pc \in Cleared PROVE Covers(amt[job.o])'
  <2>1. /\ job'.o = job.o /\ BuyAllowed(ClampSpend(job.o))
        /\ amt'[job.o] = ClampSpend(job.o)
    BY <1>11, RailsPassed
  <2> DEFINE spend == ClampSpend(job.o)
  <2>2. spend \in Nat /\ wallet - spend >= Reserve
    BY <1>1, <2>1, ClampSpendType DEF BuyAllowed, Balance
  <2>3. Reserve \in Nat /\ Reserve >= SmallerOf(Reserve, InitialWallet)
    BY AutonomousAssumption DEF SmallerOf
  <2>4. Fees(Pool) =< Fees(SentOrders)
    <3>1. Pool \in SUBSET SentOrders
      BY <1>9 DEF Reserved
    <3> QED BY <1>5, <3>1, FeesCount
  <2>5. SumOf(amt, Pool \cap Buys) =< SumOf(amt, orphaned \cap Buys)
    <3>1. Pool \cap Buys \in SUBSET (orphaned \cap Buys) /\ IsFiniteSet(orphaned \cap Buys)
      BY <1>5, <1>9, FS_Subset
    <3> QED BY <1>5, <3>1, SumOfPart
  <2>6. /\ Left = wallet + Fees(SentOrders) + SumOf(amt, orphaned \cap Buys)
        /\ Owed = SumOf(amt, Pool \cap Buys) + Fees(Pool)
    BY DEF Left, Owed
  <2> HIDE DEF spend
  <2>7. Left >= SmallerOf(Reserve, InitialWallet) + Owed + spend
    BY <1>5, <2>2, <2>3, <2>4, <2>5, <2>6
  <2> QED BY <1>8, <2>1, <2>7 DEF Covers, spend
<1>12. \A o \in Pool' : o \in orphaned'
  BY <1>2, <1>6, <1>9
<1>13. orphaned' \subseteq SentOrders'
  BY <1>2, <1>6 DEF Reserved
<1> QED BY <1>10, <1>11, <1>12, <1>13 DEF Reserved

\* A send takes up what the rails left room for.
LEMMA SendReserves ==
  ASSUME Inductive, TypeOK', IsFiniteSet(Orders), Reserved, Submit
  PROVE  Reserved'
<1> USE DEF Inductive
<1>1. /\ job # None /\ job \in JobRecord /\ job.o \in Orders /\ job.pc = "submit"
      /\ sends[job.o] = 0 /\ tx[job.o] = "unsent"
  BY HolderType DEF Submit, At, TasksOnce, BeforeSend
<1>2. sends \in [Orders -> Nat] /\ tx \in [Orders -> TxStates]
  BY DEF TypeOK
<1>3. /\ UNCHANGED <<amt, wallet, orphaned>>
      /\ sends' = [sends EXCEPT ![job.o] = @ + 1]
      /\ \/ Goto("saveSent") /\ tx' = [tx EXCEPT ![job.o] = "pool"]
         \/ Abandon("FAILED", FALSE) /\ UNCHANGED tx
  BY DEF Submit
<1>4. SentOrders' = SentOrders \cup {job.o} /\ job.o \notin SentOrders
  BY <1>1, <1>2, <1>3 DEF SentOrders
<1>5. job.o \notin Pool
  BY <1>1 DEF Pool
<1>6. /\ amt \in [Orders -> Nat] /\ wallet \in Nat /\ Fee \in Nat
      /\ Pool \in SUBSET Orders /\ Pool \cap Buys \in SUBSET Orders
      /\ SentOrders \in SUBSET Orders
      /\ Fees(Pool) \in Nat /\ Fees(SentOrders) \in Nat
      /\ SumOf(amt, Pool \cap Buys) \in Nat /\ SumOf(amt, orphaned \cap Buys) \in Nat
      /\ SmallerOf(Reserve, InitialWallet) \in Nat
  BY MoneyTypes
<1>7. Fees(SentOrders') = Fees(SentOrders) + Fee
  BY <1>1, <1>4, <1>6, FeesCount
<1>8. /\ Left = wallet + Fees(SentOrders) + SumOf(amt, orphaned \cap Buys)
      /\ Owed = SumOf(amt, Pool \cap Buys) + Fees(Pool)
      /\ Left' = wallet + Fees(SentOrders) + Fee + SumOf(amt, orphaned \cap Buys)
      /\ Owed' = SumOf(amt, Pool' \cap Buys) + Fees(Pool')
  BY <1>3, <1>6, <1>7 DEF Left, Owed
<1>9. job'.o = job.o /\ job'.pc \in {"saveSent", "abandon"} /\ (Goto("saveSent") => job' # None)
  <2>1. Goto("saveSent") => job' \in JobRecord
    BY <1>1, GotoType DEF JobSteps
  <2> QED BY <1>1, <1>3, <2>1, GotoMoves, AbandonMoves, NoneAssumption
<1>10. orphaned' \subseteq SentOrders'
  BY <1>3, <1>4 DEF Reserved
<1>11. CASE UNCHANGED tx
  <2>1. Pool' = Pool
    BY <1>11 DEF Pool
  <2>2. Covers(0)'
    <3>1. Left >= SmallerOf(Reserve, InitialWallet) + Owed
      BY <1>6, <1>8 DEF Reserved, Covers
    <3>2. Left' >= SmallerOf(Reserve, InitialWallet) + Owed' + 0
      BY <1>6, <1>8, <2>1, <3>1
    <3> QED BY <3>2 DEF Covers
  <2>3. \A o \in Pool' : o \in orphaned'
    BY <1>1, <1>3, <2>1 DEF Reserved, Following
  <2> QED BY <1>9, <1>10, <2>2, <2>3 DEF Reserved, Cleared
<1>12. CASE Goto("saveSent") /\ tx' = [tx EXCEPT ![job.o] = "pool"]
  <2>1. Pool' = Pool \cup {job.o}
    BY <1>1, <1>2, <1>12 DEF Pool
  <2>2. Fees(Pool') = Fees(Pool) + Fee
    BY <1>1, <1>5, <1>6, <2>1, FeesCount
  <2>3. ASSUME job.o \in Buys PROVE Covers(0)'
    <3>1. Pool' \cap Buys = (Pool \cap Buys) \cup {job.o} /\ job.o \notin Pool \cap Buys
      BY <1>5, <2>1, <2>3
    <3>2. IsFiniteSet(Pool \cap Buys)
      BY <1>6, FS_Subset
    <3>3. SumOf(amt, Pool' \cap Buys) = amt[job.o] + SumOf(amt, Pool \cap Buys)
      <4>1. amt \in [Orders -> Int] /\ Pool \cap Buys \in SUBSET Orders /\ job.o \in Orders
        BY <1>1, <1>6
      <4>2. SumOf(amt, (Pool \cap Buys) \cup {job.o}) = amt[job.o] + SumOf(amt, Pool \cap Buys)
        BY <3>1, <3>2, <4>1, SumOfAdded
      <4> QED BY <3>1, <4>2
    <3>4. Left >= SmallerOf(Reserve, InitialWallet) + Owed + amt[job.o] /\ amt[job.o] \in Nat
      BY <1>1, <1>6, <2>3 DEF Reserved, Covers, Buying, Cleared
    <3>5. Left' = Left + Fee /\ Owed' = Owed + amt[job.o] + Fee
      BY <1>6, <1>8, <2>2, <3>3, <3>4
    <3>6. Left \in Nat /\ Owed \in Nat
      BY <1>6, <1>8
    <3>7. Left' >= SmallerOf(Reserve, InitialWallet) + Owed' + 0
      BY <1>6, <3>4, <3>5, <3>6
    <3> QED BY <3>7 DEF Covers
  <2>4. ASSUME job.o \notin Buys PROVE Covers(0)'
    <3>1. Pool' \cap Buys = Pool \cap Buys
      BY <2>1, <2>4
    <3>2. Left >= SmallerOf(Reserve, InitialWallet) + Owed
      BY <1>6, <1>8 DEF Reserved, Covers
    <3>3. Left' = Left + Fee /\ Owed' = Owed + Fee
      <4>1. SumOf(amt, Pool' \cap Buys) = SumOf(amt, Pool \cap Buys)
        BY <3>1
      <4> QED BY <1>6, <1>8, <2>2, <4>1
    <3>4. Left \in Nat /\ Owed \in Nat
      BY <1>6, <1>8
    <3>5. Left' >= SmallerOf(Reserve, InitialWallet) + Owed' + 0
      BY <1>6, <3>2, <3>3, <3>4
    <3> QED BY <3>5 DEF Covers
  <2>5. Covers(0)'
    BY <2>3, <2>4
  <2>6. \A o \in Pool' : o \in orphaned' \/ (job' # None /\ job'.o = o /\ job'.pc \in Following)
    <3>1. \A o \in Pool : o \in orphaned'
      BY <1>1, <1>3 DEF Reserved, Following
    <3>2. job' # None /\ job'.o = job.o /\ job'.pc = "saveSent"
      BY <1>1, <1>9, <1>12, GotoMoves
    <3> QED BY <2>1, <3>1, <3>2 DEF Following
  <2> QED BY <1>9, <1>10, <2>5, <2>6 DEF Reserved, Cleared
<1> QED BY <1>3, <1>11, <1>12

\* A transaction in the pool is followed by its task until it is given up.
LEMMA FollowedStep ==
  ASSUME Inductive, Reserved, [Next]_vars, ~Submit
  PROVE  /\ orphaned \subseteq orphaned' /\ orphaned' \subseteq SentOrders'
         /\ \A o \in Pool' :
              o \in orphaned' \/ (job' # None /\ job'.o = o /\ job'.pc \in Following)
<1> USE DEF Inductive
<1>1. Pool' \subseteq Pool /\ SentOrders' = SentOrders
  BY PoolMoves, AmountFrame DEF Pool, SentOrders
<1>2. \A o \in Pool : o \in SentOrders
  BY DEF Pool, SentOrders, TasksOnce, TypeOK
<1>3. CASE Crash \/ Stop
  <2>1. orphaned' = orphaned \cup Pool
    BY <1>3 DEF Crash, Stop, Die, Pool
  <2> QED BY <1>1, <1>2, <2>1 DEF Reserved
<1>4. CASE SaveUnknown \/ SaveAbandoned
  <2>1. job # None /\ job \in JobRecord /\ job.o \in Orders
    BY <1>4, HolderType DEF SaveUnknown, SaveAbandoned, At
  <2>2. orphaned' = IF job.o \in Pool THEN orphaned \cup {job.o} ELSE orphaned
    BY <1>4, <2>1 DEF SaveUnknown, SaveAbandoned, GiveUp, Pool
  <2> QED BY <1>1, <1>2, <2>1, <2>2 DEF Reserved
<1> SUFFICES ASSUME ~Crash, ~Stop, ~SaveUnknown, ~SaveAbandoned
    PROVE  /\ orphaned \subseteq orphaned' /\ orphaned' \subseteq SentOrders'
           /\ \A o \in Pool' :
                o \in orphaned' \/ (job' # None /\ job'.o = o /\ job'.pc \in Following)
  BY <1>3, <1>4
<1>5. UNCHANGED orphaned
  BY
  DEF vars, Next, Executor, Tick, Engine, Recovery, Chain, Operator, Operate, Unexecuted,
      Untouched, Offchain, AcquireLock, ReadBalance, ReadTokens, FreshQuote, SavePrepared,
      BuildAndSign, SaveBuilt, SaveSent, AwaitConfirmation, ReadHeight, PollsRunOut,
      SaveConfirmed, Launch, Collect, Apply, PersistStep, SubmitBuy, SubmitSell, Withdraw, Restart, Reconcile,
      StartEngine, Land, FailOnChain, BlockhashExpires, Arm, Disarm, Kill, Resume
<1>6. CASE SaveSent \/ AwaitConfirmation \/ ReadHeight \/ PollsRunOut
  <2>1. job # None /\ job \in JobRecord /\ job.o \in Orders /\ UNCHANGED tx
    BY <1>6, HolderType DEF SaveSent, AwaitConfirmation, ReadHeight, PollsRunOut, At, Unexecuted
  <2>2. \/ \E pc \in Following : Goto(pc)
        \/ \E end : Abandon(end, FALSE)
        \/ tx[job.o] = "landed"
    BY <1>6 DEF SaveSent, AwaitConfirmation, ReadHeight, PollsRunOut, Following
  <2>3. CASE (\E pc \in Following : Goto(pc)) \/ (\E end : Abandon(end, FALSE))
    <3>1. job'.o = job.o /\ job'.pc \in Following
      BY <2>1, <2>3, GotoMoves, AbandonMoves DEF Following
    <3>2. job' # None
      BY <1>6, <2>1, GotoType, AbandonType, NoneAssumption
      DEF SaveSent, AwaitConfirmation, ReadHeight, PollsRunOut, JobSteps, Statuses
    <3> QED BY <1>1, <1>5, <3>1, <3>2 DEF Reserved
  <2>4. CASE tx[job.o] = "landed"
    <3>1. \A o \in Pool : o \in orphaned
      BY <2>4 DEF Reserved, Pool
    <3> QED BY <1>1, <1>5, <3>1 DEF Reserved
  <2> QED BY <2>2, <2>3, <2>4
<1>7. CASE AcquireLock \/ ReadBalance \/ ReadTokens \/ FreshQuote \/ SavePrepared
           \/ BuildAndSign \/ SaveBuilt
  <2>1. ~(job # None /\ job.pc \in Following)
    BY <1>7
    DEF AcquireLock, ReadBalance, ReadTokens, FreshQuote, SavePrepared, BuildAndSign,
        SaveBuilt, At, Following
  <2> QED BY <1>1, <1>5, <2>1 DEF Reserved
<1>8. CASE SaveConfirmed
  <2>1. ~(job # None /\ job.pc \in Following)
    BY <1>8 DEF SaveConfirmed, At, Following
  <2> QED BY <1>1, <1>5, <2>1 DEF Reserved
<1>9. CASE Engine \/ Tick \/ Recovery \/ Chain \/ Operator \/ UNCHANGED vars
  <2>1. UNCHANGED job
    BY <1>9
    DEF vars, Tick, Engine, Recovery, Chain, Operator, Operate, Untouched, Offchain, Launch,
        Collect, Apply, PersistStep, SubmitBuy, SubmitSell, Withdraw, Restart, Reconcile,
        StartEngine, Land, FailOnChain, BlockhashExpires, Arm, Disarm, Kill, Resume
  <2> QED BY <1>1, <1>5, <2>1 DEF Reserved
<1> QED BY <1>6, <1>7, <1>8, <1>9 DEF Next, Executor

LEMMA ReservedStep ==
  ASSUME Inductive, TypeOK', SellsRead, IsFiniteSet(Orders), Reserved, [Next]_vars
  PROVE  Reserved'
<1> USE DEF Inductive
<1>1. CASE ReadBalance \/ ReadTokens
  BY <1>1, BalanceReserves
<1>2. CASE Submit
  BY <1>2, SendReserves
<1>3. CASE ~(ReadBalance \/ ReadTokens \/ Submit)
  <2>1. /\ orphaned \subseteq orphaned' /\ orphaned' \subseteq SentOrders'
        /\ \A o \in Pool' :
             o \in orphaned' \/ (job' # None /\ job'.o = o /\ job'.pc \in Following)
    BY <1>3, FollowedStep
  <2>2. UNCHANGED <<amt, sends>>
    BY <1>3, AmountFrame
  <2>3. Left' - Owed' >= Left - Owed
    <3>1. CASE Chain
      BY <3>1, ChainLeaves
    <3>2. CASE ~Chain
      <4>1. UNCHANGED <<wallet, tx>>
        BY <1>3, <3>2
        DEF vars, Next, Executor, Tick, Engine, Recovery, Operator, Operate, Crash, Stop, Die,
            Unexecuted, Untouched, Offchain, AcquireLock, FreshQuote, SavePrepared,
            BuildAndSign, SaveBuilt, SaveSent, AwaitConfirmation, ReadHeight, PollsRunOut,
            SaveConfirmed, SaveUnknown, SaveAbandoned, Launch, Collect, Apply, PersistStep,
            SubmitBuy, SubmitSell,
            Withdraw, Restart, Reconcile, StartEngine, Arm, Disarm, Kill, Resume
      <4> QED BY <2>1, <2>2, <4>1, OrphansLeave
    <3> QED BY <3>1, <3>2
  <2>4. Buying' /\ job'.pc \in Cleared =>
           Buying /\ job.pc \in Cleared /\ amt'[job'.o] = amt[job.o] /\ job.o \in Orders
    BY <1>3, <2>2, HolderMoves DEF Buying, Orders
  <2>5. /\ Covers(0)'
        /\ Buying' /\ job'.pc \in Cleared => Covers(amt[job.o])'
    BY <2>3, <2>4, CoversFrame
  <2> QED BY <2>1, <2>5 DEF Reserved
<1> QED BY <1>1, <1>2, <1>3

\* But for fees and for BUYs given up on the wire, as unknown or as expired, the
\* wallet keeps its reserve, across crashes, restarts and recoveries: whatever lands
\* late was covered when its BUY passed the rails.
THEOREM WalletKeepsReserve == ASSUME IsFiniteSet(Orders) PROVE Spec => []ReserveKept
<1> DEFINE Keeps == SellsRead /\ Reserved
<1>1. ASSUME Init PROVE Keeps
  <2>1. TypeOK /\ wallet = InitialWallet /\ Pool = {} /\ orphaned = {} /\ job = None
    BY <1>1, TypeInit DEF Init, Pool, Orders
  <2>2. SumOf(amt, {}) = 0 /\ Fees(SentOrders) \in Nat /\ Fees({}) = 0
    <3>1. Cardinality({}) = 0 /\ Fee * 0 = 0
      BY FS_EmptySet, AutonomousAssumption
    <3> QED BY <2>1, <3>1, MoneyTypes, SumOfEmpty DEF Fees, TypeOK
  <2>3. Left = InitialWallet + Fees(SentOrders) /\ Owed = 0
    <3>1. orphaned \cap Buys = {} /\ Pool \cap Buys = {}
      BY <2>1
    <3>2. InitialWallet \in Nat
      BY AutonomousAssumption
    <3> QED BY <2>1, <2>2, <3>1, <3>2 DEF Left, Owed
  <2>4. /\ InitialWallet \in Nat /\ SmallerOf(Reserve, InitialWallet) \in Nat
        /\ SmallerOf(Reserve, InitialWallet) =< InitialWallet
    BY AutonomousAssumption DEF SmallerOf
  <2>5. Covers(0)
    BY <2>2, <2>3, <2>4 DEF Covers
  <2> QED BY <2>1, <2>5 DEF SellsRead, Reserved, Buying
<1>2. Inductive /\ TypeOK' /\ Keeps /\ [Next]_vars => Keeps'
  BY ReservedStep, SellsReadStep DEF Inductive
<1>3. Inductive /\ Keeps => ReserveKept
  <2> SUFFICES ASSUME Inductive, Reserved PROVE ReserveKept
    OBVIOUS
  <2>1. /\ Left \in Nat /\ Owed \in Nat /\ SmallerOf(Reserve, InitialWallet) \in Nat
        /\ Left = wallet + Fees(SentOrders) + SumOf(amt, orphaned \cap Buys)
    BY MoneyTypes DEF Left, Owed, Inductive
  <2>2. Left >= SmallerOf(Reserve, InitialWallet)
    BY <2>1 DEF Reserved, Covers
  <2> QED BY <2>1, <2>2, SpendIsSum DEF ReserveKept, Fees, SentOrders
<1>4. Inductive => TypeOK
  BY DEF Inductive
<1> HIDE DEF Keeps
<1> QED BY <1>1, <1>2, <1>3, <1>4, InductiveInvariant, PTL DEF Spec
=============================================================================
