--------------------------- MODULE OperationsProofs ---------------------------
(* Theorems about Operations, for every set of processes and every bound. *)
EXTENDS Operations, DataLemmas, SequenceTheorems

Phases == {"new", "refused", "booting", "starting", "running", "stopping", "recording",
           "recorded", "final", "exited", "dead"}

\* A process between the two has written its start into the boot record.
Started == {"starting", "running", "stopping", "recording", "recorded", "final", "exited"}

BootTypeOK ==
    /\ phase \in [Procs -> Phases]
    /\ seen \in [Procs -> BootRecord \cup {None}]
    /\ boot \in BootRecord \cup {None}

\* The record is there as soon as somebody started, and a process that is about
\* to mark it has read its own.
BootInv ==
    /\ BootTypeOK
    /\ \A p \in Procs : phase[p] \in Started => boot # None
    /\ \A p \in Procs : phase[p] = "recording" => seen[p] # None /\ seen[p].owner = p
    /\ StopMarkIsOwn

----------------------------------------------------------------------------
(* The boot record *)

\* Start-up of the home: no record, no process.
LEMMA BootInit == Init => BootInv
BY DEF Init, BootInv, BootTypeOK, StopMarkIsOwn, Phases, Started

\* Steps that move no process and touch neither the record nor who has read it.
LEMMA BootFrame ==
  ASSUME BootInv, UNCHANGED <<phase, seen, boot>> PROVE BootInv'
BY DEF BootInv, BootTypeOK, StopMarkIsOwn

\* A process that moves on without reading or writing the record, and does not
\* give up a right to its stop mark.
LEMMA BootMove ==
  ASSUME BootInv, NEW p \in Procs, NEW to \in Phases \ {"recording"},
         phase' = [phase EXCEPT ![p] = to], UNCHANGED boot,
         seen' = seen \/ \E s \in BootRecord \cup {None} : seen' = [seen EXCEPT ![p] = s],
         to \in Started => phase[p] \in Started,
         phase[p] \in {"recorded", "final", "exited", "dead"}
           => to \in {"recorded", "final", "exited", "dead"}
  PROVE  BootInv'
<1> USE DEF BootInv, BootTypeOK
<1>1. phase'[p] = to /\ \A q \in Procs : q # p => phase'[q] = phase[q]
  OBVIOUS
<1>2. \A q \in Procs : q # p => seen'[q] = seen[q]
  OBVIOUS
<1>3. BootTypeOK'
  OBVIOUS
<1>4. ASSUME NEW q \in Procs, phase'[q] \in Started PROVE boot' # None
  BY <1>1, <1>4
<1>5. ASSUME NEW q \in Procs, phase'[q] = "recording" PROVE seen'[q] # None /\ seen'[q].owner = q
  BY <1>1, <1>2, <1>5
<1>6. StopMarkIsOwn'
  BY <1>1 DEF StopMarkIsOwn, BootRecord
<1> QED BY <1>3, <1>4, <1>5, <1>6

\* Steps of the files, the markers, the clock and the readers.
LEMMA BootElsewhere ==
  ASSUME BootInv,
         \/ \E p \in Procs :
              AskToStop(p) \/ Poll(p) \/ Handle(p) \/ Typed(p) \/ WriteOnce(p)
         \/ \E who \in Procs \cup {Cli} : Disarm(who) \/ DisarmClear(who)
         \/ CreateWallet \/ Arm \/ Kill \/ Write \/ FinishLine \/ Truncate \/ Tick
         \/ UNCHANGED vars
  PROVE  BootInv'
<1>1. UNCHANGED <<phase, seen, boot>>
  BY DEF AskToStop, Poll, Handle, Typed, WriteOnce, Disarm, DisarmClear, CreateWallet, Arm, Kill,
         Write, FinishLine, Truncate, Tick, vars, procs, records
<1> QED BY <1>1, BootFrame

\* The life of a process: two steps write the record, one reads it to mark it,
\* the others only move.
LEMMA BootLife == ASSUME BootInv, NEW p \in Procs, Life(p) PROVE BootInv'
<1> USE DEF BootInv, BootTypeOK, Goes, records, procs
<1>1. CASE Start(p)
  <2>1. PICK to \in {"refused", "booting"} : phase' = [phase EXCEPT ![p] = to]
    BY <1>1 DEF Start
  <2>2. UNCHANGED boot /\ seen' = [seen EXCEPT ![p] = boot]
    BY <1>1 DEF Start
  <2>3. phase[p] = "new"
    BY <1>1 DEF Start
  <2> QED BY <2>1, <2>2, <2>3, BootMove DEF Phases, Started
<1>2. CASE RecordStart(p)
  <2>1. phase[p] = "booting" /\ phase' = [phase EXCEPT ![p] = "starting"]
    BY <1>2 DEF RecordStart
  <2>2. seen' = [seen EXCEPT ![p] = None]
    BY <1>2 DEF RecordStart
  <2>3. boot' = [owner |-> p, previous |-> Previous(seen[p]), stopped |-> FALSE]
    BY <1>2 DEF RecordStart
  <2>4. boot' \in BootRecord
    BY <2>3 DEF BootRecord, Previous
  <2>5. boot' # None
    BY <2>4, OperationsAssumption
  <2> QED
    BY <2>1, <2>2, <2>3, <2>4, <2>5 DEF Phases, StopMarkIsOwn
<1>3. CASE Open(p)
  <2>1. phase[p] = "starting" /\ phase' = [phase EXCEPT ![p] = "running"] /\ UNCHANGED <<boot, seen>>
    BY <1>3 DEF Open
  <2> QED BY <2>1, BootMove DEF Phases, Started
<1>4. CASE AskToStop(p)
  BY <1>4, BootElsewhere
<1>5. CASE Leave(p)
  <2>1. phase[p] = "running" /\ phase' = [phase EXCEPT ![p] = "stopping"]
    BY <1>5 DEF Leave, Running
  <2>2. UNCHANGED <<boot, seen>>
    BY <1>5 DEF Leave
  <2> QED BY <2>1, <2>2, BootMove DEF Phases, Started
<1>6. CASE Record(p)
  <2>1. phase[p] = "stopping" /\ UNCHANGED boot
    BY <1>6 DEF Record
  <2>2. boot # None
    BY <2>1 DEF Started
  <2>3. CASE boot.owner = p
    <3>1. phase' = [phase EXCEPT ![p] = "recording"] /\ seen' = [seen EXCEPT ![p] = boot]
      BY <1>6, <2>3 DEF Record
    <3> QED BY <2>1, <2>2, <2>3, <3>1 DEF Phases, StopMarkIsOwn
  <2>4. CASE boot.owner # p
    <3>1. phase' = [phase EXCEPT ![p] = "recorded"] /\ seen' = [seen EXCEPT ![p] = None]
      BY <1>6, <2>2, <2>4 DEF Record
    <3> QED BY <2>1, <3>1, BootMove DEF Phases, Started
  <2> QED BY <2>3, <2>4
<1>7. CASE RecordStop(p)
  <2>1. phase[p] = "recording" /\ phase' = [phase EXCEPT ![p] = "recorded"]
    BY <1>7 DEF RecordStop
  <2>2. boot' = [seen[p] EXCEPT !.stopped = TRUE] /\ seen' = [seen EXCEPT ![p] = None]
    BY <1>7 DEF RecordStop
  <2>3. seen[p] \in BootRecord /\ seen[p].owner = p
    BY <2>1
  <2>4. boot' \in BootRecord /\ boot'.owner = p
    BY <2>2, <2>3 DEF BootRecord
  <2>5. boot' # None
    BY <2>4, OperationsAssumption
  <2> QED
    BY <2>1, <2>2, <2>4, <2>5 DEF Phases, StopMarkIsOwn
<1>8. CASE FinalBegin(p)
  <2>1. phase[p] = "recorded" /\ phase' = [phase EXCEPT ![p] = "final"] /\ UNCHANGED <<boot, seen>>
    BY <1>8 DEF FinalBegin
  <2> QED BY <2>1, BootMove DEF Phases, Started
<1>9. CASE FinalEnd(p)
  <2>1. phase[p] = "final" /\ phase' = [phase EXCEPT ![p] = "exited"] /\ UNCHANGED <<boot, seen>>
    BY <1>9 DEF FinalEnd
  <2> QED BY <2>1, BootMove DEF Phases, Started
<1>10. CASE Crash(p)
  <2>1. phase' = [phase EXCEPT ![p] = "dead"] /\ seen' = [seen EXCEPT ![p] = None] /\ UNCHANGED boot
    BY <1>10 DEF Crash
  <2> QED BY <2>1, BootMove DEF Phases, Started
<1> QED
  BY <1>1, <1>2, <1>3, <1>4, <1>5, <1>6, <1>7, <1>8, <1>9, <1>10 DEF Life

\* The record of the run that is on is never marked by the late stop of
\* another: record_stop tells records apart by their owner, and a process that
\* has left "stopping" does not come back.
THEOREM StopMarks == Spec => []StopMarkIsOwn
<1>1. Init => BootInv
  BY BootInit
<1>2. BootInv /\ [Next]_vars => BootInv'
  BY BootLife, BootElsewhere DEF Next
<1>3. BootInv => StopMarkIsOwn
  BY DEF BootInv
<1> QED BY <1>1, <1>2, <1>3, PTL DEF Spec

----------------------------------------------------------------------------
(* Disarming *)

\* Without its cause, the overlap of a disarm and an arm: an armed.json that
\* is older than a disarmed.json is about to be removed by whoever wrote that.
DisarmInv == armed /\ ~rearmed => disarming # {}

\* The markers change only in these actions; the last four leave armed.json,
\* disarming and rearmed alone.
LEMMA DisarmStep == DisarmInv /\ [Next]_vars => DisarmInv'
<1> SUFFICES ASSUME DisarmInv, [Next]_vars PROVE DisarmInv'
  OBVIOUS
<1> USE DEF DisarmInv
<1>1. ASSUME UNCHANGED <<armed, disarming, rearmed>> PROVE DisarmInv'
  BY <1>1
<1>2. ASSUME NEW who, DisarmMark(who) PROVE DisarmInv'
  BY <1>2 DEF DisarmMark
<1>3. ASSUME NEW p \in Procs, Life(p) PROVE DisarmInv'
  BY <1>3 DEF Life, Start, RecordStart, Open, AskToStop, Leave, Record, RecordStop, FinalBegin,
              FinalEnd, Crash, markers
<1>4. ASSUME NEW p \in Procs, Poll(p) \/ WriteOnce(p) PROVE DisarmInv'
  BY <1>4 DEF Poll, WriteOnce, markers
<1>5. ASSUME NEW p \in Procs, Handle(p) \/ Typed(p) PROVE DisarmInv'
  <2>1. UNCHANGED armed /\ \E word : Carry(p, word)
    BY <1>5 DEF Handle, Typed
  <2>2. DisarmMark(p) \/ UNCHANGED <<disarming, rearmed>>
    BY <2>1 DEF Carry
  <2> QED BY <1>1, <1>2, <2>1, <2>2
<1>6. ASSUME NEW who \in Procs \cup {Cli}, Disarm(who) \/ DisarmClear(who) PROVE DisarmInv'
  BY <1>2, <1>6 DEF Disarm, DisarmClear
<1>7. CASE Arm
  BY <1>7 DEF Arm, ArmBegin, ArmConfirm, ArmMark, ArmClear, ArmAbort
<1>8. CASE CreateWallet \/ Kill \/ Write \/ FinishLine \/ Truncate \/ Tick \/ UNCHANGED vars
  BY <1>8 DEF CreateWallet, Kill, Write, FinishLine, Truncate, Tick, vars, markers
<1> QED BY <1>3, <1>4, <1>5, <1>6, <1>7, <1>8 DEF Next

\* A disarm that did both its writes is not undone by an arm it overlapped,
\* nor by the death of anybody.
THEOREM DisarmsStand == Spec => []DisarmStands
<1>1. Init => DisarmInv
  BY DEF Init, DisarmInv
<1>2. DisarmInv => DisarmStands
  BY DEF DisarmInv, DisarmStands, Armed
<1> QED BY <1>1, <1>2, DisarmStep, PTL DEF Spec
----------------------------------------------------------------------------
(* The commands file *)

Pieces == [n : Nat, word : Words, end : BOOLEAN]
Lines == [n : Nat, word : Words, whole : BOOLEAN]
EndsOf(s) == {k \in DOMAIN s : s[k].end}

\* `lines` are read from s, the i-th of its m lines at the end at[i].
ReadAt(at, m, s, lines) ==
    /\ at \in [1..m -> EndsOf(s)]
    /\ \A i, j \in 1..m : i < j => at[i] < at[j]
    /\ \A k \in EndsOf(s) : \E i \in 1..m : at[i] = k
    /\ lines \in Seq(Lines) /\ DOMAIN lines = 1..m
    /\ \A i \in 1..m : /\ lines[i].n = s[at[i]].n
                       /\ lines[i].whole <=> (at[i] > 1 /\ ~s[at[i] - 1].end)

\* LinesOf goes through the ends in their order.
LEMMA LinesInOrder ==
  ASSUME NEW s \in Seq(Pieces)
  PROVE  \E m \in Nat : \E at : ReadAt(at, m, s, LinesOf(s))
<1> DEFINE E == EndsOf(s)
           m == Cardinality(E)
           key == [k \in E |-> k]
           at == [i \in 1..m |-> CHOOSE k \in E : Cardinality({l \in E : l =< k}) = i]
<1>1. E \in SUBSET (1..Len(s)) /\ Len(s) \in Nat
  BY LenProperties DEF EndsOf
<1>2. IsFiniteSet(E) /\ m \in Nat
  <2> DEFINE all == 1..Len(s)
  <2>1. IsFiniteSet(all)
    BY <1>1, FS_Interval
  <2>2. E \in SUBSET all
    BY <1>1
  <2> HIDE DEF all, E
  <2> QED BY <2>1, <2>2, FS_Subset, FS_CardinalityType
<1>3. key \in [E -> Int] /\ \A d, e \in E : key[d] = key[e] => d = e
  BY <1>1
<1>4. \A k \in E : k \in Int
  BY <1>1
<1>5. \A k \in E : RankIn(E, key, k) = Cardinality({l \in E : l =< k})
  <2> SUFFICES ASSUME NEW k \in E PROVE UpTo(E, key, k) = {l \in E : l =< k}
    BY DEF RankIn
  <2> QED BY DEF UpTo
<1> HIDE DEF E, key
<1>6. /\ \A e \in E : RankIn(E, key, e) \in 1..m
      /\ \A d, e \in E : key[d] < key[e] => RankIn(E, key, d) < RankIn(E, key, e)
      /\ \A d, e \in E : RankIn(E, key, d) = RankIn(E, key, e) => d = e
      /\ \A i \in 1..m : \E e \in E : RankIn(E, key, e) = i
  BY <1>2, <1>3, Ranks
<1>7. \A i \in 1..m : at[i] \in E /\ RankIn(E, key, at[i]) = i
  <2> SUFFICES ASSUME NEW i \in 1..m PROVE at[i] \in E /\ RankIn(E, key, at[i]) = i
    OBVIOUS
  <2>1. \E k \in E : Cardinality({l \in E : l =< k}) = i
    BY <1>5, <1>6
  <2>2. at[i] \in E /\ Cardinality({l \in E : l =< at[i]}) = i
    BY <2>1
  <2> QED BY <1>5, <2>2
<1>8. at \in [1..m -> E]
  BY <1>7
<1>9. LinesOf(s) = [i \in 1..m |-> [n |-> s[at[i]].n, word |-> s[at[i]].word,
                                    whole |-> at[i] > 1 /\ ~s[at[i] - 1].end]]
  BY DEF LinesOf, E, EndsOf
<1> HIDE DEF at, m
<1>10. ASSUME NEW i \in 1..m, NEW j \in 1..m, i < j PROVE at[i] < at[j]
  <2>1. at[i] \in E /\ at[j] \in E /\ key[at[i]] = at[i] /\ key[at[j]] = at[j]
    BY <1>7 DEF key
  <2>2. RankIn(E, key, at[i]) = i /\ RankIn(E, key, at[j]) = j /\ ~(j < i) /\ i # j
    BY <1>2, <1>7, <1>10
  <2>3. at[i] # at[j]
    BY <2>2
  <2>4. ~(at[j] < at[i])
    <3>1. key[at[j]] < key[at[i]] => RankIn(E, key, at[j]) < RankIn(E, key, at[i])
      BY <1>6, <2>1
    <3>2. ~(key[at[j]] < key[at[i]])
      BY <2>2, <3>1
    <3> QED BY <2>1, <3>2
  <2>5. at[i] \in Int /\ at[j] \in Int
    BY <1>7, <1>4
  <2> QED BY <2>3, <2>4, <2>5
<1>11. ASSUME NEW k \in E PROVE \E i \in 1..m : at[i] = k
  <2>1. RankIn(E, key, k) \in 1..m
    BY <1>6
  <2>2. at[RankIn(E, key, k)] = k
    BY <1>6, <1>7, <2>1
  <2> QED BY <2>1, <2>2
<1>12. /\ LinesOf(s) \in Seq(Lines) /\ DOMAIN LinesOf(s) = 1..m
       /\ \A i \in 1..m : /\ LinesOf(s)[i].n = s[at[i]].n
                          /\ LinesOf(s)[i].whole <=> (at[i] > 1 /\ ~s[at[i] - 1].end)
  <2> DEFINE whole(i) == at[i] > 1 /\ ~s[at[i] - 1].end
             line(i) == [n |-> s[at[i]].n, word |-> s[at[i]].word, whole |-> whole(i)]
             read == LinesOf(s)
  <2>1. DOMAIN read = 1..m /\ \A i \in 1..m : read[i] = line(i)
    BY <1>9
  <2>2. \A k \in E : s[k] \in Pieces
    BY <1>1, ElementOfSeq
  <2>3. ASSUME NEW i \in 1..m
        PROVE  line(i) \in Lines /\ line(i).n = s[at[i]].n /\ (line(i).whole <=> whole(i))
    <3>1. s[at[i]].n \in Nat /\ s[at[i]].word \in Words
      BY <1>7, <2>2 DEF Pieces
    <3>2. whole(i) \in BOOLEAN
      OBVIOUS
    <3> HIDE DEF whole
    <3> QED BY <3>1, <3>2 DEF Lines
  <2>4. read = [i \in 1..m |-> line(i)]
    BY <1>9
  <2> HIDE DEF line, read
  <2>5. read \in Seq(Lines)
    BY <1>2, <2>3, <2>4
  <2> QED BY <2>1, <2>3, <2>5 DEF read
<1>13. ReadAt(at, m, s, LinesOf(s))
  BY <1>8, <1>10, <1>11, <1>12 DEF ReadAt, E
<1> QED BY <1>2, <1>13

\* `new` is read from the pieces after `from` up to `end`, the i-th line at at[i].
TakenAt(at, f, from, end, new) ==
    /\ at \in [DOMAIN new -> (from + 1)..end]
    /\ \A i, j \in DOMAIN new : i < j => at[i] < at[j]
    /\ \A k \in (from + 1)..end : f[k].end => \E i \in DOMAIN new : at[i] = k
    /\ \A i \in DOMAIN new :
         /\ f[at[i]].end /\ new[i].n = f[at[i]].n
         /\ new[i].whole <=> (at[i] > from + 1 /\ ~f[at[i] - 1].end)

\* What a poll consumes of file f after its first `from` pieces: up to the last
\* end of a line, which is the line of every end it passes, in their order.
LEMMA Consumed ==
  ASSUME NEW f \in Seq(Pieces), NEW from \in 0..Len(f), NEW end, NEW new,
         end = from + Complete(SubSeq(f, from + 1, Len(f))),
         new = LinesOf(SubSeq(f, from + 1, end))
  PROVE  /\ end \in from..Len(f) /\ (end # from => f[end].end)
         /\ new \in Seq(Lines) /\ \E at : TakenAt(at, f, from, end, new)
<1> DEFINE len == Len(f)
           chunk == SubSeq(f, from + 1, len)
<1>1. len \in Nat /\ from \in 0..len /\ \A k \in 1..len : f[k] \in Pieces
  BY LenProperties, ElementOfSeq
<1> HIDE DEF len
<1>2. ASSUME NEW n \in from..len
      PROVE  LET c == SubSeq(f, from + 1, n)
             IN  /\ c \in Seq(Pieces) /\ Len(c) = n - from /\ DOMAIN c = 1..(n - from)
                 /\ \A i \in 1..(n - from) : c[i] = f[from + i]
  <2> DEFINE c == SubSeq(f, from + 1, n)
  <2>1. \A i \in (from + 1)..n : f[i] \in Pieces
    BY <1>1
  <2>2. from + 1 \in Int /\ n \in Int
    BY <1>1
  <2>3. /\ c \in Seq(Pieces)
        /\ Len(c) = IF from + 1 <= n THEN n - (from + 1) + 1 ELSE 0
        /\ \A i \in 1 .. n - (from + 1) + 1 : c[i] = f[from + 1 + i - 1]
    BY <2>1, <2>2, SubSeqProperties
  <2> HIDE DEF c
  <2>4. Len(c) = n - from
    BY <1>1, <2>3
  <2>5. DOMAIN c = 1..(n - from)
    BY <2>3, <2>4, LenProperties
  <2>6. ASSUME NEW i \in 1..(n - from) PROVE c[i] = f[from + i]
    <3>1. i \in 1 .. n - (from + 1) + 1 /\ from + 1 + i - 1 = from + i
      BY <1>1
    <3> QED BY <2>3, <3>1
  <2> QED BY <2>3, <2>4, <2>5, <2>6 DEF c
<1>3. /\ chunk \in Seq(Pieces) /\ DOMAIN chunk = 1..(len - from)
      /\ \A i \in 1..(len - from) : chunk[i] = f[from + i]
  BY <1>1, <1>2
<1> HIDE DEF chunk
<1>4. /\ Complete(chunk) \in 0..(len - from)
      /\ Complete(chunk) # 0 => f[from + Complete(chunk)].end
  <2>1. CASE EndsOf(chunk) = {}
    <3>1. Complete(chunk) = 0
      BY <2>1 DEF Complete, EndsOf
    <3> QED BY <1>1, <3>1
  <2>2. CASE EndsOf(chunk) # {}
    <3>1. PICK m \in Nat : \E at : ReadAt(at, m, chunk, LinesOf(chunk))
      BY <1>3, LinesInOrder
    <3>2. PICK at : ReadAt(at, m, chunk, LinesOf(chunk))
      BY <3>1
    <3>3. /\ at \in [1..m -> EndsOf(chunk)]
          /\ \A i, j \in 1..m : i < j => at[i] < at[j]
          /\ \A k \in EndsOf(chunk) : \E i \in 1..m : at[i] = k
      BY <3>2 DEF ReadAt
    <3>4. m \in 1..m
      BY <2>2, <3>3
    <3>5. EndsOf(chunk) \in SUBSET (1..(len - from))
      BY <1>3 DEF EndsOf
    <3>6. at[m] \in EndsOf(chunk)
      BY <3>4, <3>3
    <3>7. EndsOf(chunk) \subseteq Int
      BY <3>5
    <3>8. ASSUME NEW k \in EndsOf(chunk) PROVE at[m] >= k
      <4>1. PICK i \in 1..m : at[i] = k
        BY <3>3
      <4>2. i < m \/ i = m
        OBVIOUS
      <4>3. at[i] < at[m] \/ at[i] = at[m]
        BY <3>4, <3>3, <4>2
      <4>4. k \in Int /\ at[m] \in Int
        BY <3>7, <3>6
      <4> QED BY <4>1, <4>3, <4>4
    <3> DEFINE top == Complete(chunk)
    <3>9. top = CHOOSE x \in EndsOf(chunk) : \A y \in EndsOf(chunk) : x >= y
      BY <2>2 DEF Complete, EndsOf, Max
    <3> HIDE DEF top
    <3>10. top \in EndsOf(chunk)
      BY <3>8, <3>9, <3>6
    <3>11. top \in 1..(len - from) /\ chunk[top].end
      BY <3>5, <3>10 DEF EndsOf
    <3>12. f[from + top].end /\ top \in 0..(len - from)
      BY <1>1, <1>3, <3>11
    <3> QED BY <3>12 DEF top
  <2> QED BY <2>1, <2>2
<1>5. end \in from..len /\ (end # from => f[end].end)
  <2> DEFINE top == Complete(chunk)
  <2>1. end = from + top /\ top \in 0..(len - from) /\ (top # 0 => f[from + top].end)
    BY <1>4 DEF chunk, len
  <2> HIDE DEF top
  <2> QED BY <1>1, <2>1
<1> DEFINE c == SubSeq(f, from + 1, end)
           w == end - from
<1>6. /\ c \in Seq(Pieces) /\ Len(c) = w /\ DOMAIN c = 1..w /\ \A i \in 1..w : c[i] = f[from + i]
  BY <1>2, <1>5
<1>7. new = LinesOf(c) /\ w \in Nat /\ end = from + w
  BY <1>1, <1>5
<1> HIDE DEF c, w
<1>8. PICK m \in Nat : \E place : ReadAt(place, m, c, new)
  BY <1>6, <1>7, LinesInOrder
<1>9. PICK place : ReadAt(place, m, c, new)
  BY <1>8
<1>10. /\ place \in [1..m -> EndsOf(c)]
       /\ \A i, j \in 1..m : i < j => place[i] < place[j]
       /\ \A k \in EndsOf(c) : \E i \in 1..m : place[i] = k
       /\ new \in Seq(Lines) /\ DOMAIN new = 1..m
  BY <1>9 DEF ReadAt
<1>11. \A i \in 1..m : /\ new[i].n = c[place[i]].n
                       /\ new[i].whole <=> (place[i] > 1 /\ ~c[place[i] - 1].end)
  BY <1>9 DEF ReadAt
<1>12. \A i \in 1..m : place[i] \in 1..w /\ c[place[i]].end /\ c[place[i]] \in Pieces
  <2>1. \A k \in 1..w : c[k] \in Pieces
    BY <1>6, ElementOfSeq
  <2>2. \A i \in 1..m : place[i] \in EndsOf(c)
    BY <1>10
  <2> QED BY <1>6, <2>1, <2>2 DEF EndsOf
<1>13. DOMAIN new = 1..m
  BY <1>10
<1>14. new \in Seq(Lines)
  BY <1>10
<1> DEFINE at == [i \in 1..m |-> from + place[i]]
<1>15. at \in [1..m -> (from + 1)..end] /\ \A i \in 1..m : at[i] = from + place[i]
  BY <1>1, <1>7, <1>12
<1> HIDE DEF at
<1>16. ASSUME NEW i \in 1..m, NEW j \in 1..m, i < j PROVE at[i] < at[j]
  <2>1. place[i] \in 1..w /\ place[j] \in 1..w
    BY <1>12
  <2>2. place[i] \in Int /\ place[j] \in Int /\ from \in Int /\ place[i] < place[j]
    BY <1>1, <1>10, <1>16, <2>1
  <2> QED BY <1>15, <2>2
<1>17. ASSUME NEW k \in (from + 1)..end, f[k].end PROVE \E i \in 1..m : at[i] = k
  <2>1. k - from \in 1..w /\ from + (k - from) = k
    BY <1>1, <1>7
  <2>2. k - from \in EndsOf(c)
    BY <1>6, <1>17, <2>1 DEF EndsOf
  <2>3. PICK i \in 1..m : place[i] = k - from
    BY <1>10, <2>2
  <2> QED BY <1>15, <2>1, <2>3
<1>18. ASSUME NEW i \in 1..m
       PROVE  /\ f[at[i]].end /\ new[i].n = f[at[i]].n
              /\ new[i].whole <=> (at[i] > from + 1 /\ ~f[at[i] - 1].end)
  <2> DEFINE q == place[i]
  <2>1. /\ q \in 1..w /\ at[i] = from + q /\ c[q] = f[from + q] /\ c[q].end
        /\ new[i].n = c[q].n /\ (new[i].whole <=> (q > 1 /\ ~c[q - 1].end))
    <3>1. q \in 1..w /\ c[q].end
      BY <1>12
    <3>2. at[i] = from + q
      BY <1>15
    <3>3. c[q] = f[from + q]
      BY <1>6, <3>1
    <3>4. new[i].n = c[q].n /\ (new[i].whole <=> (q > 1 /\ ~c[q - 1].end))
      BY <1>11
    <3> QED BY <3>1, <3>2, <3>3, <3>4
  <2> HIDE DEF q
  <2>2. q > 1 => c[q - 1] = f[at[i] - 1]
    <3> SUFFICES ASSUME q > 1 PROVE c[q - 1] = f[at[i] - 1]
      OBVIOUS
    <3>1. q - 1 \in 1..w /\ from + (q - 1) = at[i] - 1
      BY <1>1, <1>7, <2>1
    <3> QED BY <1>6, <3>1
  <2>3. q > 1 <=> at[i] > from + 1
    BY <1>1, <1>7, <2>1
  <2> QED BY <2>1, <2>2, <2>3
<1>19. at \in [DOMAIN new -> (from + 1)..end]
  BY <1>13, <1>15
<1>20. TakenAt(at, f, from, end, new)
  BY <1>13, <1>16, <1>17, <1>18, <1>19 DEF TakenAt
<1> QED BY <1>5, <1>14, <1>20 DEF len

\* The file: the pieces of one line side by side, the lines in the order in
\* which they were begun.
FileOK(f, w) ==
    /\ f \in Seq(Pieces) /\ w \in Nat
    /\ \A k \in 1..Len(f) : f[k].n =< w
    /\ \A k \in 1..Len(f) : f[k].end => k > 1 /\ ~f[k - 1].end /\ f[k - 1].n = f[k].n
    /\ \A k, l \in 1..Len(f) : k < l /\ ~f[l].end => f[k].n < f[l].n
    /\ \A k \in 1..(Len(f) - 1) : ~f[k].end => f[k + 1].end

\* Every piece after o is of a later line than those taken.
Ahead(t, f, o) == \A i \in DOMAIN t, k \in (o + 1)..Len(f) : t[i].n < f[k].n

\* What was taken is whole and in order, but for the rest of a line begun
\* before the reader started.
Ordered(t, w, from) ==
    /\ \A i \in DOMAIN t : t[i].n =< w /\ (t[i].whole \/ t[i].n =< from)
    /\ \A i, j \in DOMAIN t : i < j => t[i].n < t[j].n

\* Everything up to o was taken.
Caught(t, f, o, from) ==
    /\ o =< Len(f)
    /\ o > 0 /\ ~f[o].end => t = <<>> /\ f[o].n =< from
    /\ \A k \in 1..o : f[k].n > from => \E i \in DOMAIN t : t[i].n = f[k].n
    /\ Ahead(t, f, o)

\* After a truncation a reader has still to begin with the file.
ReaderOK(t, f, w, o, from, lost) ==
    /\ Ordered(t, w, from)
    /\ lost => Ahead(t, f, 0)
    /\ ~lost => Caught(t, f, o, from)

\* The next piece of the file: the first one of a new line, or the rest of the last.
Follows(f, w, g, v) ==
    \E q \in Pieces :
        /\ g = Append(f, q)
        /\ \/ v = w + 1 /\ q.n = v /\ ~q.end /\ (f # <<>> => f[Len(f)].end)
           \/ v = w /\ q.end /\ f # <<>> /\ ~f[Len(f)].end /\ q.n = f[Len(f)].n

LEMMA Numbered ==
  /\ \A f \in Seq(Pieces) : /\ Len(f) \in Nat /\ (f # <<>> => Len(f) > 0)
                            /\ \A k \in 1..Len(f) : f[k].n \in Nat
  /\ \A t \in Seq(Lines) : \A i \in DOMAIN t : t[i].n \in Nat
<1>1. ASSUME NEW f \in Seq(Pieces), NEW k \in 1..Len(f) PROVE f[k].n \in Nat
  <2>1. f[k] \in Pieces
    BY ElementOfSeq
  <2> QED BY <2>1 DEF Pieces
<1>2. ASSUME NEW f \in Seq(Pieces) PROVE Len(f) \in Nat /\ (f # <<>> => Len(f) > 0)
  BY EmptySeq, LenProperties
<1>3. ASSUME NEW t \in Seq(Lines), NEW i \in DOMAIN t PROVE t[i].n \in Nat
  <2>1. i \in 1..Len(t)
    BY LenProperties
  <2>2. t[i] \in Lines
    BY <2>1, ElementOfSeq
  <2> QED BY <2>2 DEF Lines
<1> QED BY <1>1, <1>2, <1>3

LEMMA FileGrows == ASSUME NEW f, NEW w, NEW g, NEW v, FileOK(f, w), Follows(f, w, g, v)
                   PROVE  FileOK(g, v)
<1> DEFINE len == Len(f)
<1>1. PICK q \in Pieces :
        /\ g = Append(f, q)
        /\ \/ v = w + 1 /\ q.n = v /\ ~q.end /\ (f # <<>> => f[len].end)
           \/ v = w /\ q.end /\ f # <<>> /\ ~f[len].end /\ q.n = f[len].n
  BY DEF Follows
<1>2. /\ f \in Seq(Pieces) /\ w \in Nat /\ len \in Nat /\ \A k \in 1..len : f[k].n \in Nat
      /\ f # <<>> => len > 0
  BY Numbered DEF FileOK
<1>3. /\ g \in Seq(Pieces) /\ Len(g) = len + 1 /\ g[len + 1] = q
      /\ \A k \in 1..len : g[k] = f[k]
  BY <1>1, <1>2, AppendProperties
<1>4. /\ \A k \in 1..len : f[k].n =< w
      /\ \A k \in 1..len : f[k].end => k > 1 /\ ~f[k - 1].end /\ f[k - 1].n = f[k].n
      /\ \A k, l \in 1..len : k < l /\ ~f[l].end => f[k].n < f[l].n
      /\ \A k \in 1..(len - 1) : ~f[k].end => f[k + 1].end
  BY DEF FileOK
<1>5. v \in Nat /\ w =< v /\ q.n \in Nat /\ q.n =< v
  BY <1>1, <1>2, <1>4 DEF Pieces
<1> HIDE DEF len
<1>6. \A k \in 1..(len + 1) : (k \in 1..len /\ g[k] = f[k]) \/ (k = len + 1 /\ g[k] = q)
  BY <1>2, <1>3
<1>7. \A k \in 1..(len + 1) : g[k].n =< v
  BY <1>2, <1>4, <1>5, <1>6
<1>8. ASSUME NEW k \in 1..(len + 1), g[k].end
      PROVE  k > 1 /\ ~g[k - 1].end /\ g[k - 1].n = g[k].n
  <2>1. CASE k \in 1..len
    <3>1. k > 1 /\ ~f[k - 1].end /\ f[k - 1].n = f[k].n /\ k - 1 \in 1..len
      BY <1>2, <1>3, <1>4, <1>8, <2>1
    <3> QED BY <1>3, <2>1, <3>1
  <2>2. CASE k = len + 1
    <3>1. len > 0 /\ ~f[len].end /\ q.n = f[len].n /\ len \in 1..len /\ k - 1 = len
      BY <1>1, <1>2, <1>3, <1>8, <2>2
    <3> QED BY <1>2, <1>3, <2>2, <3>1
  <2> QED BY <1>6, <2>1, <2>2
<1>9. ASSUME NEW k \in 1..(len + 1), NEW l \in 1..(len + 1), k < l, ~g[l].end
      PROVE  g[k].n < g[l].n
  <2>1. k \in 1..len /\ g[k] = f[k]
    BY <1>2, <1>3, <1>9
  <2>2. CASE l \in 1..len
    BY <1>3, <1>4, <1>9, <2>1, <2>2
  <2>3. CASE l = len + 1
    <3>1. g[l] = q /\ q.n = w + 1
      BY <1>1, <1>3, <1>9, <2>3
    <3>2. f[k].n =< w /\ f[k].n \in Nat
      BY <1>2, <1>4, <2>1
    <3> QED BY <1>2, <2>1, <3>1, <3>2
  <2> QED BY <1>6, <2>2, <2>3
<1>10. ASSUME NEW k \in 1..((len + 1) - 1), ~g[k].end PROVE g[k + 1].end
  <2>1. k \in 1..len /\ g[k] = f[k]
    BY <1>2, <1>3
  <2>2. CASE k = len
    <3>1. f # <<>> /\ ~f[len].end
      BY <1>10, <2>1, <2>2, <1>2, EmptySeq DEF len
    <3> QED BY <1>1, <1>3, <2>2, <3>1
  <2>3. CASE k # len
    <3>1. k \in 1..(len - 1) /\ k + 1 \in 1..len
      BY <1>2, <2>1, <2>3
    <3> QED BY <1>3, <1>4, <1>10, <2>1, <3>1
  <2> QED BY <2>2, <2>3
<1> QED BY <1>3, <1>5, <1>7, <1>8, <1>9, <1>10 DEF FileOK

\* Nothing a reader has taken comes again when the file grows.
LEMMA ReaderOutlives ==
  ASSUME NEW f, NEW w, NEW g, NEW v, FileOK(f, w), Follows(f, w, g, v),
         NEW t \in Seq(Lines), NEW o \in Nat, NEW from \in Nat, NEW lost \in BOOLEAN,
         ReaderOK(t, f, w, o, from, lost)
  PROVE  ReaderOK(t, g, v, o, from, lost)
<1> DEFINE len == Len(f)
<1>1. PICK q \in Pieces :
        /\ g = Append(f, q)
        /\ \/ v = w + 1 /\ q.n = v /\ ~q.end /\ (f # <<>> => f[len].end)
           \/ v = w /\ q.end /\ f # <<>> /\ ~f[len].end /\ q.n = f[len].n
  BY DEF Follows
<1>2. /\ f \in Seq(Pieces) /\ w \in Nat /\ len \in Nat /\ \A k \in 1..len : f[k].n \in Nat
      /\ f # <<>> => len > 0
  BY Numbered DEF FileOK
<1>3. /\ Len(g) = len + 1 /\ g[len + 1] = q /\ q.n \in Nat
      /\ \A k \in 1..len : g[k] = f[k]
  BY <1>1, <1>2, AppendProperties DEF Pieces
<1>4. \A i \in DOMAIN t : t[i].n \in Nat
  BY Numbered
<1>5. Ordered(t, v, from)
  <2>1. \A i \in DOMAIN t : t[i].n =< v
    BY <1>1, <1>2, <1>4 DEF ReaderOK, Ordered
  <2> QED BY <2>1 DEF ReaderOK, Ordered
<1> HIDE DEF len
<1>6. ASSUME NEW c \in Nat, c =< len, Ahead(t, f, c),
             c = len /\ c > 0 /\ ~f[c].end => t = <<>>
      PROVE  Ahead(t, g, c)
  <2> SUFFICES ASSUME NEW i \in DOMAIN t, NEW k \in (c + 1)..(len + 1) PROVE t[i].n < g[k].n
    BY <1>3 DEF Ahead
  <2>1. CASE k \in (c + 1)..len
    <3>1. g[k] = f[k]
      BY <1>2, <1>3, <2>1
    <3> QED BY <1>6, <2>1, <3>1 DEF Ahead, len
  <2>2. CASE k = len + 1 /\ v = w + 1 /\ q.n = v
    <3>1. t[i].n =< w /\ t[i].n \in Nat
      BY <1>4 DEF ReaderOK, Ordered
    <3> QED BY <1>2, <1>3, <2>2, <3>1
  <2>3. CASE k = len + 1 /\ f # <<>> /\ ~f[len].end /\ q.n = f[len].n
    <3>1. c < len
      <4>1. CASE c = len
        <5>1. t = <<>>
          BY <1>2, <1>6, <2>3, <4>1
        <5>2. DOMAIN t = {}
          BY <5>1
        <5> QED BY <5>2
      <4> QED BY <1>2, <1>6, <4>1
    <3>2. len \in (c + 1)..len
      BY <1>2, <3>1
    <3>3. t[i].n < f[len].n
      BY <1>6, <3>2 DEF Ahead, len
    <3> QED BY <1>3, <2>3, <3>3
  <2>4. k \in (c + 1)..len \/ k = len + 1
    BY <1>2, <1>6
  <2> QED BY <1>1, <2>1, <2>2, <2>3, <2>4
<1>7. CASE lost
  <2>1. Ahead(t, f, 0) /\ 0 \in Nat /\ 0 =< len
    BY <1>2, <1>7 DEF ReaderOK
  <2>2. Ahead(t, g, 0)
    BY <1>6, <2>1
  <2> QED BY <1>5, <1>7, <2>2 DEF ReaderOK
<1>8. CASE ~lost
  <2>1. /\ o =< len /\ Ahead(t, f, o)
        /\ o > 0 /\ ~f[o].end => t = <<>> /\ f[o].n =< from
        /\ \A k \in 1..o : f[k].n > from => \E i \in DOMAIN t : t[i].n = f[k].n
    BY <1>8 DEF ReaderOK, Caught, len
  <2>2. Ahead(t, g, o)
    BY <1>6, <2>1
  <2>3. \A k \in 1..o : g[k] = f[k]
    BY <1>2, <1>3, <2>1
  <2>4. o =< Len(g)
    BY <1>2, <1>3, <2>1
  <2>5. o > 0 => g[o] = f[o]
    BY <2>3
  <2>6. Caught(t, g, o, from)
    BY <2>1, <2>2, <2>3, <2>4, <2>5 DEF Caught
  <2> QED BY <1>5, <1>8, <2>6 DEF ReaderOK
<1> QED BY <1>7, <1>8

\* What comes after the end of a line is of a later one.
LEMMA EndsApart ==
  ASSUME NEW f, NEW w, FileOK(f, w), NEW k \in 1..Len(f), NEW l \in 1..Len(f), k < l, f[k].end
  PROVE  f[k].n < f[l].n
<1>1. Len(f) \in Nat
  BY Numbered DEF FileOK
<1>2. CASE ~f[l].end
  BY <1>2 DEF FileOK
<1>3. CASE f[l].end
  <2>1. ~f[l - 1].end /\ f[l - 1].n = f[l].n
    BY <1>3 DEF FileOK
  <2>2. k # l - 1
    BY <2>1
  <2>3. l - 1 \in 1..Len(f) /\ k < l - 1
    BY <1>1, <2>2
  <2>4. f[k].n < f[l - 1].n
    BY <2>1, <2>3 DEF FileOK
  <2> QED BY <2>1, <2>4
<1> QED BY <1>2, <1>3

\* A poll that begins where everything before was taken takes what it consumes.
LEMMA ReaderReads ==
  ASSUME NEW f, NEW w, FileOK(f, w), NEW t \in Seq(Lines), NEW from \in Nat,
         NEW start \in Nat, Ordered(t, w, from), Caught(t, f, start, from), NEW end, NEW new,
         end = start + Complete(SubSeq(f, start + 1, Len(f))),
         new = LinesOf(SubSeq(f, start + 1, end))
  PROVE  new \in Seq(Lines) /\ end \in Nat /\ ReaderOK(t \o new, f, w, end, from, FALSE)
<1> DEFINE len == Len(f)
           u == t \o new
           m == Len(t)
<1>1. /\ f \in Seq(Pieces) /\ w \in Nat /\ len \in Nat /\ start \in 0..len
      /\ \A k \in 1..len : f[k].n \in Nat
  BY Numbered DEF FileOK, Caught
<1>2. /\ end \in start..len /\ (end # start => f[end].end)
      /\ new \in Seq(Lines) /\ \E at : TakenAt(at, f, start, end, new)
  BY <1>1, Consumed
<1>3. PICK at : TakenAt(at, f, start, end, new)
  BY <1>2
<1>4. /\ at \in [DOMAIN new -> (start + 1)..end]
      /\ \A i, j \in DOMAIN new : i < j => at[i] < at[j]
      /\ \A k \in (start + 1)..end : f[k].end => \E i \in DOMAIN new : at[i] = k
  BY <1>3 DEF TakenAt
<1>5. \A i \in DOMAIN new :
         /\ f[at[i]].end /\ new[i].n = f[at[i]].n
         /\ new[i].whole <=> (at[i] > start + 1 /\ ~f[at[i] - 1].end)
  BY <1>3 DEF TakenAt
<1>6. \A i \in DOMAIN new : at[i] \in (start + 1)..end /\ at[i] \in 1..len
  BY <1>1, <1>2, <1>4
<1>7. /\ m \in Nat /\ DOMAIN t = 1..m /\ u \in Seq(Lines)
      /\ DOMAIN u = 1..(m + Len(new)) /\ DOMAIN new = 1..Len(new) /\ Len(new) \in Nat
      /\ \A i \in 1..(m + Len(new)) : u[i] = IF i <= m THEN t[i] ELSE new[i - m]
  BY <1>2, LenProperties, ConcatProperties
<1> HIDE DEF u, m, len
<1>8. \A i \in DOMAIN u : \/ i \in DOMAIN t /\ u[i] = t[i]
                          \/ i > m /\ i - m \in DOMAIN new /\ u[i] = new[i - m]
  BY <1>7
<1>9. /\ \A i \in DOMAIN t : i \in DOMAIN u /\ u[i] = t[i]
      /\ \A i \in DOMAIN new : i + m \in DOMAIN u /\ u[i + m] = new[i]
  BY SMTT(30), <1>7
<1>10. /\ Ahead(t, f, start)
       /\ start > 0 /\ ~f[start].end => t = <<>> /\ f[start].n =< from
       /\ \A k \in 1..start : f[k].n > from => \E i \in DOMAIN t : t[i].n = f[k].n
  BY DEF Caught
<1>11. ASSUME NEW i \in DOMAIN new
       PROVE  new[i].n =< w /\ (new[i].whole \/ new[i].n =< from)
  <2> DEFINE k == at[i]
  <2>1. /\ k \in (start + 1)..end /\ k \in 1..len /\ f[k].end /\ new[i].n = f[k].n
        /\ new[i].whole <=> (k > start + 1 /\ ~f[k - 1].end)
    BY <1>5, <1>6
  <2> HIDE DEF k
  <2>2. f[k].n =< w /\ k > 1 /\ ~f[k - 1].end /\ f[k - 1].n = f[k].n
    BY <2>1 DEF FileOK, len
  <2>3. CASE k > start + 1
    BY <2>1, <2>2, <2>3
  <2>4. CASE k = start + 1
    <3>1. start > 0 /\ k - 1 = start
      BY <1>1, <2>2, <2>4
    <3> QED BY <1>10, <2>1, <2>2, <3>1
  <2>5. k > start + 1 \/ k = start + 1
    BY <1>1, <2>1
  <2> QED BY <2>3, <2>4, <2>5
<1>12. ASSUME NEW i \in DOMAIN new, NEW j \in DOMAIN new, i < j PROVE new[i].n < new[j].n
  <2>1. f[at[i]].n < f[at[j]].n
    BY <1>4, <1>5, <1>6, <1>12, EndsApart DEF len
  <2> QED BY <1>5, <2>1
<1>13. ASSUME NEW i \in DOMAIN t, NEW j \in DOMAIN new PROVE t[i].n < new[j].n
  <2>1. at[j] \in (start + 1)..len
    BY <1>1, <1>2, <1>6
  <2>2. t[i].n < f[at[j]].n
    BY <1>10, <2>1 DEF Ahead, len
  <2> QED BY <1>5, <2>2
<1>14. Ordered(u, w, from)
  <2>1. \A i \in DOMAIN u : u[i].n =< w /\ (u[i].whole \/ u[i].n =< from)
    BY <1>8, <1>11 DEF Ordered
  <2>2. ASSUME NEW i \in DOMAIN u, NEW j \in DOMAIN u, i < j PROVE u[i].n < u[j].n
    <3>1. CASE i \in DOMAIN t /\ j \in DOMAIN t
      BY <1>9, <2>2, <3>1 DEF Ordered
    <3>2. CASE i \in DOMAIN t /\ u[i] = t[i] /\ j - m \in DOMAIN new /\ u[j] = new[j - m]
      BY <1>13, <3>2
    <3>3. CASE /\ i - m \in DOMAIN new /\ u[i] = new[i - m]
               /\ j - m \in DOMAIN new /\ u[j] = new[j - m]
      <4>1. i - m < j - m
        BY <1>7, <2>2
      <4> QED BY <1>12, <3>3, <4>1
    <3>4. ~(i > m /\ j \in DOMAIN t)
      BY <1>7, <2>2
    <3> QED BY <1>8, <3>1, <3>2, <3>3, <3>4
  <2> QED BY <2>1, <2>2 DEF Ordered
<1>15. ASSUME end > 0, ~f[end].end PROVE u = <<>> /\ f[end].n =< from
  <2>1. end = start
    BY <1>2, <1>15
  <2>2. t = <<>> /\ f[end].n =< from
    BY <1>10, <1>15, <2>1
  <2>3. DOMAIN new = {}
    <3>1. ASSUME NEW i \in DOMAIN new PROVE FALSE
      <4>1. at[i] \in (start + 1)..start
        BY <1>6, <2>1
      <4> QED BY <1>1, <4>1
    <3> QED BY <3>1
  <2>4. Len(new) = 0 /\ m = 0
    BY <1>7, <2>2, <2>3, EmptySeq DEF m
  <2>5. Len(u) = 0
    BY <1>7, <2>4, LenProperties
  <2> QED BY <1>7, <2>2, <2>5, EmptySeq
<1>16. ASSUME NEW k \in 1..end, f[k].n > from PROVE \E i \in DOMAIN u : u[i].n = f[k].n
  <2>1. CASE k =< start
    <3>1. PICK i \in DOMAIN t : t[i].n = f[k].n
      BY SMTT(30), <1>1, <1>10, <1>16, <2>1
    <3> QED BY <1>9, <3>1
  <2>2. ASSUME NEW l \in (start + 1)..end, f[l].end, f[l].n = f[k].n
        PROVE  \E i \in DOMAIN u : u[i].n = f[k].n
    <3>1. PICK i \in DOMAIN new : at[i] = l
      BY <1>4, <2>2
    <3>2. new[i].n = f[k].n
      BY <1>5, <2>2, <3>1
    <3> QED BY <1>9, <3>2
  <2>3. CASE k > start /\ f[k].end
    <3>1. k \in (start + 1)..end
      BY <1>1, <1>2, <2>3
    <3> QED BY <2>2, <2>3, <3>1
  <2>4. CASE k > start /\ ~f[k].end
    <3>1. k # end /\ end # start
      BY <1>1, <1>2, <2>4
    <3>2. k \in 1..(len - 1) /\ k + 1 \in (start + 1)..end /\ k + 1 \in 1..len
      BY <1>1, <1>2, <2>4, <3>1
    <3>3. f[k + 1].end
      BY <2>4, <3>2 DEF FileOK, len
    <3>4. f[(k + 1) - 1].n = f[k + 1].n
      BY <3>2, <3>3 DEF FileOK, len
    <3>5. (k + 1) - 1 = k
      BY <1>1, <1>2
    <3> QED BY <2>2, <3>2, <3>3, <3>4, <3>5
  <2> QED BY <1>1, <1>2, <2>1, <2>3, <2>4
<1>17. ASSUME NEW i \in DOMAIN u, NEW k \in (end + 1)..len PROVE u[i].n < f[k].n
  <2>1. CASE i \in DOMAIN t /\ u[i] = t[i]
    <3>1. k \in (start + 1)..len
      BY <1>1, <1>2
    <3> QED BY <1>10, <2>1, <3>1 DEF Ahead, len
  <2>2. ASSUME NEW j \in DOMAIN new PROVE new[j].n < f[k].n
    <3>1. at[j] < k /\ k \in 1..len
      BY <1>1, <1>2, <1>6
    <3>2. f[at[j]].n < f[k].n
      BY <1>5, <1>6, <3>1, EndsApart DEF len
    <3> QED BY <1>5, <3>2
  <2> QED BY <1>8, <2>1, <2>2
<1>18. Caught(u, f, end, from)
  BY <1>1, <1>2, <1>15, <1>16, <1>17 DEF Caught, Ahead, len
<1>19. end \in Nat
  BY <1>1, <1>2
<1> QED BY <1>2, <1>14, <1>18, <1>19 DEF ReaderOK, u

\* Whoever runs and has not been misled has taken the file as far as it got;
\* whoever does not run has taken nothing.
ReadsOK(p, f, w) ==
    /\ phase[p] # "running" =>
         offset[p] = 0 /\ batch[p] = <<>> /\ done[p] = <<>> /\ p \notin cut /\ p \notin confused
    /\ phase[p] = "running" /\ p \notin confused =>
         /\ p \in cut => ReaderOK(Taken(p), f, w, offset[p], first[p], TRUE)
         /\ p \notin cut => ReaderOK(Taken(p), f, w, offset[p], first[p], FALSE)

ReadersIn(f, w) ==
    /\ FileOK(f, w)
    /\ offset \in [Procs -> Nat] /\ first \in [Procs -> Nat]
    /\ batch \in [Procs -> Seq(Lines)] /\ done \in [Procs -> Seq(Lines)]
    /\ \A p \in Procs : ReadsOK(p, f, w)
Readers == ReadersIn(file, written)

LEMMA TakenType == ASSUME Readers, NEW p \in Procs PROVE Taken(p) \in Seq(Lines)
<1>1. done[p] \in Seq(Lines) /\ batch[p] \in Seq(Lines)
  BY DEF Readers, ReadersIn
<1> QED BY <1>1, ConcatProperties DEF Taken

\* The file grows by a piece, and no reader has moved.
LEMMA ReadersOutlive ==
  ASSUME NEW f, NEW w, NEW g, NEW v, ReadersIn(f, w), Follows(f, w, g, v),
         \A p \in Procs : Taken(p) \in Seq(Lines)
  PROVE  ReadersIn(g, v)
<1>1. FileOK(f, w) /\ FileOK(g, v)
  BY FileGrows DEF ReadersIn
<1>2. ASSUME NEW p \in Procs PROVE ReadsOK(p, g, v)
  <2>1. ReadsOK(p, f, w) /\ offset[p] \in Nat /\ first[p] \in Nat
    BY DEF ReadersIn
  <2>2. ASSUME NEW lost \in BOOLEAN, ReaderOK(Taken(p), f, w, offset[p], first[p], lost)
        PROVE  ReaderOK(Taken(p), g, v, offset[p], first[p], lost)
    BY <1>1, <2>1, <2>2, ReaderOutlives
  <2> QED BY <2>1, <2>2 DEF ReadsOK
<1> QED BY <1>1, <1>2 DEF ReadersIn

\* The readers do not see what else happens in the home.
LEMMA ReadersRest ==
  ASSUME Readers, UNCHANGED commands,
         \A p \in Procs : phase'[p] = "running" <=> phase[p] = "running"
  PROVE  Readers'
<1>1. ASSUME NEW p \in Procs, ReadsOK(p, file, written) PROVE ReadsOK(p, file, written)'
  BY <1>1 DEF ReadsOK, Taken, commands
<1> QED BY <1>1 DEF Readers, ReadersIn, commands

\* One reader moves.
LEMMA OneReader ==
  ASSUME Readers, NEW p \in Procs, UNCHANGED <<file, written>>,
         (offset \in [Procs -> Nat] /\ first \in [Procs -> Nat])',
         (batch \in [Procs -> Seq(Lines)] /\ done \in [Procs -> Seq(Lines)])',
         \A q \in Procs \ {p} :
            /\ phase'[q] = phase[q] /\ offset'[q] = offset[q] /\ first'[q] = first[q]
            /\ batch'[q] = batch[q] /\ done'[q] = done[q]
            /\ q \in cut' <=> q \in cut
            /\ q \in confused' <=> q \in confused,
         ReadsOK(p, file, written)'
  PROVE  Readers'
<1>1. ASSUME NEW q \in Procs, ReadsOK(q, file, written), q # p PROVE ReadsOK(q, file, written)'
  BY <1>1 DEF ReadsOK, Taken
<1> QED BY <1>1 DEF Readers, ReadersIn

LEMMA ReadersBegin == Init => Readers
<1> SUFFICES ASSUME Init PROVE Readers
  OBVIOUS
<1>1. <<>> \in Seq(Pieces) /\ <<>> \in Seq(Lines) /\ Len(<<>>) = 0
  BY EmptySeq
<1>2. FileOK(file, written)
  BY <1>1 DEF Init, FileOK
<1>3. \A p \in Procs : ReadsOK(p, file, written)
  BY DEF Init, ReadsOK
<1> QED BY <1>1, <1>2, <1>3 DEF Init, Readers, ReadersIn

\* A process begins with what is written after its start, or loses its reader.
LEMMA ReadersComeAndGo ==
  ASSUME BootTypeOK, Readers, NEW p \in Procs, Open(p) \/ Leave(p) \/ Crash(p)
  PROVE  Readers'
<1>1. /\ phase \in [Procs -> Phases] /\ FileOK(file, written) /\ ReadsOK(p, file, written)
      /\ offset \in [Procs -> Nat] /\ first \in [Procs -> Nat]
      /\ batch \in [Procs -> Seq(Lines)] /\ done \in [Procs -> Seq(Lines)]
  BY DEF BootTypeOK, Readers, ReadersIn
<1>2. Len(file) \in Nat /\ written \in Nat /\ <<>> \in Seq(Lines)
  BY <1>1, Numbered, EmptySeq DEF FileOK
<1>3. CASE Open(p)
  <2>1. /\ phase[p] = "starting" /\ phase' = [phase EXCEPT ![p] = "running"]
        /\ offset' = [offset EXCEPT ![p] = Len(file)]
        /\ first' = [first EXCEPT ![p] = written]
        /\ UNCHANGED <<file, written, batch, done, cut, confused>>
    BY <1>3 DEF Open, Goes
  <2>2. /\ batch[p] = <<>> /\ done[p] = <<>> /\ p \notin cut /\ p \notin confused
    BY <1>1, <2>1 DEF ReadsOK
  <2>3. Taken(p)' = <<>>
    BY <1>2, <2>1, <2>2, ConcatEmptySeq DEF Taken
  <2>4. ReaderOK(<<>>, file, written, Len(file), written, FALSE)
    <3>1. Ordered(<<>>, written, written)
      BY DEF Ordered
    <3>2. \A k \in 1..Len(file) : ~(file[k].n > written)
      BY <1>1, <1>2, Numbered DEF FileOK
    <3>3. Len(file) > 0 => file[Len(file)].n =< written
      BY <1>1, <1>2 DEF FileOK
    <3>4. Caught(<<>>, file, Len(file), written)
      BY <1>2, <3>2, <3>3 DEF Caught, Ahead
    <3> QED BY <3>1, <3>4 DEF ReaderOK
  <2>5. ReadsOK(p, file, written)'
    <3>1. phase'[p] = "running" /\ p \notin cut' /\ offset'[p] = Len(file) /\ first'[p] = written
      BY <1>1, <2>1, <2>2
    <3> QED BY <2>1, <2>3, <2>4, <3>1 DEF ReadsOK
  <2>6. offset' \in [Procs -> Nat] /\ first' \in [Procs -> Nat]
    BY <1>1, <1>2, <2>1
  <2>7. \A q \in Procs \ {p} :
            phase'[q] = phase[q] /\ offset'[q] = offset[q] /\ first'[q] = first[q]
    BY <1>1, <2>1
  <2> QED BY <1>1, <2>1, <2>5, <2>6, <2>7, OneReader
<1>4. CASE Leave(p) \/ Crash(p)
  <2>1. PICK to \in {"stopping", "dead"} : phase' = [phase EXCEPT ![p] = to]
    BY <1>4 DEF Leave, Crash, Goes
  <2>2. Forget(p) /\ UNCHANGED <<file, written>>
    BY <1>4 DEF Leave, Crash
  <2>3. /\ offset' = [offset EXCEPT ![p] = 0] /\ first' = [first EXCEPT ![p] = 0]
        /\ batch' = [batch EXCEPT ![p] = <<>>] /\ done' = [done EXCEPT ![p] = <<>>]
        /\ cut' = cut \ {p} /\ confused' = confused \ {p}
    BY <2>2 DEF Forget
  <2>4. /\ offset' \in [Procs -> Nat] /\ first' \in [Procs -> Nat]
        /\ batch' \in [Procs -> Seq(Lines)] /\ done' \in [Procs -> Seq(Lines)]
    BY <1>1, <1>2, <2>3
  <2>5. phase'[p] # "running" /\ \A q \in Procs \ {p} : phase'[q] = phase[q]
    BY <1>1, <2>1
  <2>6. ReadsOK(p, file, written)'
    BY <1>1, <2>3, <2>5 DEF ReadsOK
  <2>7. \A q \in Procs \ {p} :
            /\ offset'[q] = offset[q] /\ first'[q] = first[q]
            /\ batch'[q] = batch[q] /\ done'[q] = done[q]
            /\ q \in cut' <=> q \in cut
            /\ q \in confused' <=> q \in confused
    BY <1>1, <2>3
  <2> QED BY <2>2, <2>4, <2>5, <2>6, <2>7, OneReader
<1> QED BY <1>3, <1>4

\* What is handled was at the head of what was read.
LEMMA ReaderHandles == ASSUME Readers, NEW p \in Procs, Handle(p) PROVE Readers'
<1> DEFINE d == done[p]
           b == batch[p]
<1>1. /\ d \in Seq(Lines) /\ b \in Seq(Lines) /\ b # <<>> /\ ReadsOK(p, file, written)
      /\ offset \in [Procs -> Nat] /\ first \in [Procs -> Nat]
      /\ batch \in [Procs -> Seq(Lines)] /\ done \in [Procs -> Seq(Lines)]
  BY DEF Readers, ReadersIn, Handle
<1>2. /\ done' = [done EXCEPT ![p] = Append(d, Head(b))]
      /\ batch' = [batch EXCEPT ![p] = Tail(b)]
      /\ UNCHANGED <<phase, file, written, offset, first, cut, confused>>
  BY DEF Handle
<1>3. /\ Head(b) \in Lines /\ Tail(b) \in Seq(Lines) /\ Append(d, Head(b)) \in Seq(Lines)
      /\ <<Head(b)>> \in Seq(Lines)
  BY <1>1, HeadTailProperties, AppendProperties
<1>4. Append(d, Head(b)) \o Tail(b) = d \o b
  <2>1. Append(d, Head(b)) = d \o <<Head(b)>>
    BY <1>1, <1>3, AppendIsConcat
  <2>2. (d \o <<Head(b)>>) \o Tail(b) = d \o (<<Head(b)>> \o Tail(b))
    BY <1>1, <1>3, ConcatAssociative
  <2>3. <<Head(b)>> \o Tail(b) = b
    <3> DEFINE c == <<Head(b)>>
               r == Tail(b)
               s == c \o r
    <3>1. Len(c) = 1 /\ c[1] = Head(b) /\ c \in Seq(Lines) /\ r \in Seq(Lines)
      BY <1>3
    <3>2. Len(b) \in Nat /\ Len(r) = Len(b) - 1 /\ Head(b) = b[1]
          /\ \A i \in 1..Len(r) : r[i] = b[i + 1]
      BY <1>1, HeadTailProperties, LenProperties
    <3> HIDE DEF c, r
    <3>3. /\ s \in Seq(Lines) /\ Len(s) = Len(c) + Len(r)
          /\ \A i \in 1..(Len(c) + Len(r)) : s[i] = IF i <= Len(c) THEN c[i] ELSE r[i - Len(c)]
      BY <3>1, ConcatProperties
    <3> HIDE DEF s
    <3>4. Len(s) = Len(b)
      BY <3>1, <3>2, <3>3
    <3>5. ASSUME NEW i \in 1..Len(s) PROVE s[i] = b[i]
      <4>1. CASE i = 1
        BY <3>1, <3>2, <3>3, <4>1
      <4>2. CASE i # 1
        <5>1. i - 1 \in 1..Len(r) /\ (i - 1) + 1 = i
          BY <3>2, <3>4, <4>2
        <5>2. s[i] = r[i - 1]
          BY <3>1, <3>2, <3>3, <3>4, <4>2
        <5> QED BY <3>2, <5>1, <5>2
      <4> QED BY <4>1, <4>2
    <3>6. s = b
      BY <1>1, <3>3, <3>4, <3>5, SeqEqual
    <3> QED BY <3>6 DEF s, c, r
  <2> QED BY <2>1, <2>2, <2>3
<1>5. done'[p] = Append(d, Head(b)) /\ batch'[p] = Tail(b)
  BY <1>1, <1>2
<1>6. Taken(p)' = Taken(p)
  BY <1>4, <1>5 DEF Taken
<1>7. phase[p] = "running"
  BY DEF Handle, Running
<1>8. ReadsOK(p, file, written)'
  BY <1>1, <1>2, <1>6, <1>7 DEF ReadsOK
<1>9. (batch \in [Procs -> Seq(Lines)] /\ done \in [Procs -> Seq(Lines)])'
  BY <1>1, <1>2, <1>3
<1>10. \A q \in Procs \ {p} : batch'[q] = batch[q] /\ done'[q] = done[q]
  BY <1>1, <1>2
<1> QED BY <1>1, <1>2, <1>8, <1>9, <1>10, OneReader

\* A reader that has lost its place and not its file begins again, at the
\* beginning.
LEMMA ReaderPolls == ASSUME Readers, NEW p \in Procs, Poll(p) PROVE Readers'
<1> DEFINE start == From(p)
           end == start + Complete(SubSeq(file, start + 1, Len(file)))
           new == LinesOf(SubSeq(file, start + 1, end))
<1>1. /\ ReadsOK(p, file, written) /\ FileOK(file, written)
      /\ offset \in [Procs -> Nat] /\ first \in [Procs -> Nat]
      /\ batch \in [Procs -> Seq(Lines)] /\ done \in [Procs -> Seq(Lines)]
  BY DEF Readers, ReadersIn
<1>2. /\ phase[p] = "running" /\ batch[p] = <<>>
      /\ offset' = [offset EXCEPT ![p] = end] /\ batch' = [batch EXCEPT ![p] = new]
      /\ cut' = cut \ {p}
      /\ confused' = IF p \in cut /\ start > 0 THEN confused \cup {p} ELSE confused
      /\ UNCHANGED <<phase, file, written, first, done>>
  BY DEF Poll, Running, Chunk, procs
<1> HIDE DEF end, new, start
<1>3. Taken(p) = done[p] /\ done[p] \in Seq(Lines)
  BY <1>1, <1>2, ConcatEmptySeq DEF Taken
<1>4. Len(file) \in Nat /\ offset[p] \in Nat /\ first[p] \in Nat /\ start \in 0..Len(file)
  <2>1. Len(file) \in Nat /\ offset[p] \in Nat /\ first[p] \in Nat
    BY <1>1, Numbered DEF FileOK
  <2> QED BY <2>1 DEF start, From
<1>5. new \in Seq(Lines) /\ end \in Nat
  <2>1. file \in Seq(Pieces)
    BY <1>1 DEF FileOK
  <2>2. end \in start..Len(file) /\ new \in Seq(Lines)
    BY <1>4, <2>1, Consumed DEF end, new
  <2> QED BY <1>4, <2>2
<1>6. ASSUME p \notin confused'
      PROVE  ReaderOK(done[p] \o new, file, written, end, first[p], FALSE)
  <2>1. p \notin confused /\ ~(p \in cut /\ start > 0)
    BY <1>2, <1>6
  <2>2. ASSUME Ordered(done[p], written, first[p]), Caught(done[p], file, start, first[p])
        PROVE  ReaderOK(done[p] \o new, file, written, end, first[p], FALSE)
    <3>1. /\ end = start + Complete(SubSeq(file, start + 1, Len(file)))
          /\ new = LinesOf(SubSeq(file, start + 1, end))
      BY DEF end, new
    <3>2. start \in Nat /\ first[p] \in Nat /\ done[p] \in Seq(Lines)
      BY <1>3, <1>4
    <3> QED BY <1>1, <2>2, <3>1, <3>2, ReaderReads
  <2>3. CASE p \in cut
    <3>1. start = 0
      BY <1>4, <2>1, <2>3
    <3>2. ReaderOK(done[p], file, written, offset[p], first[p], TRUE)
      BY <1>1, <1>2, <1>3, <2>1, <2>3 DEF ReadsOK
    <3>3. Ordered(done[p], written, first[p]) /\ Ahead(done[p], file, 0)
      BY <3>2 DEF ReaderOK
    <3>4. Caught(done[p], file, start, first[p])
      BY <1>4, <3>1, <3>3 DEF Caught
    <3> QED BY <3>3, <3>4, <2>2
  <2>4. CASE p \notin cut
    <3>1. ReaderOK(done[p], file, written, offset[p], first[p], FALSE)
      BY <1>1, <1>2, <1>3, <2>1, <2>4 DEF ReadsOK
    <3>2. Ordered(done[p], written, first[p]) /\ Caught(done[p], file, offset[p], first[p])
      BY <3>1 DEF ReaderOK
    <3>3. start = offset[p]
      BY <1>4, <3>2 DEF Caught, start, From
    <3> QED BY <3>2, <3>3, <2>2
  <2> QED BY <2>3, <2>4
<1>7. offset'[p] = end /\ batch'[p] = new /\ p \notin cut'
  BY <1>1, <1>2
<1>8. Taken(p)' = done[p] \o new
  BY <1>2, <1>7 DEF Taken
<1>9. ReadsOK(p, file, written)'
  BY <1>2, <1>6, <1>7, <1>8 DEF ReadsOK
<1>10. (offset \in [Procs -> Nat] /\ batch \in [Procs -> Seq(Lines)])'
  BY <1>1, <1>2, <1>5
<1>11. \A q \in Procs \ {p} : /\ offset'[q] = offset[q] /\ batch'[q] = batch[q]
                              /\ q \in cut' <=> q \in cut
                              /\ q \in confused' <=> q \in confused
  BY <1>1, <1>2
<1> QED BY <1>1, <1>2, <1>9, <1>10, <1>11, OneReader

\* The file has changed under readers that have not moved.
LEMMA FileMoved ==
  ASSUME ReadersIn(file', written'), UNCHANGED <<phase, offset, first, batch, done, cut, confused>>
  PROVE  Readers'
<1>1. ASSUME NEW p \in Procs, ReadsOK(p, file', written') PROVE ReadsOK(p, file, written)'
  BY <1>1 DEF ReadsOK, Taken
<1> QED BY <1>1 DEF Readers, ReadersIn

LEMMA LineWritten == ASSUME Readers, Write PROVE Readers'
<1>1. PICK word \in Words, whole \in BOOLEAN :
        file' = file \o IF whole
                        THEN <<Piece(written', word, FALSE), Piece(written', word, TRUE)>>
                        ELSE <<Piece(written', word, FALSE)>>
  BY DEF Write
<1> DEFINE v == written + 1
           a == Piece(v, word, FALSE)
           b == Piece(v, word, TRUE)
           g == Append(file, a)
<1>2. /\ written' = v /\ UNCHANGED <<phase, offset, first, batch, done, cut, confused>>
      /\ file # <<>> => file[Len(file)].end
  BY DEF Write, Unfinished, Last, procs
<1>3. file \in Seq(Pieces) /\ v \in Nat
  BY DEF Readers, ReadersIn, FileOK
<1>4. /\ a \in Pieces /\ a.n = v /\ ~a.end
      /\ b \in Pieces /\ b.n = v /\ b.end
  BY <1>3 DEF Piece, Pieces
<1>5. file' = IF whole THEN file \o <<a, b>> ELSE file \o <<a>>
  BY <1>1, <1>2
<1> HIDE DEF a, b
<1>6. /\ g \in Seq(Pieces) /\ g # <<>> /\ g[Len(g)] = a
      /\ file' = IF whole THEN Append(g, b) ELSE g
  <2>1. g \in Seq(Pieces) /\ g # <<>> /\ g[Len(g)] = a
    BY <1>3, <1>4, AppendProperties
  <2>2. g = file \o <<a>>
    BY <1>3, <1>4, AppendIsConcat
  <2>3. Append(g, b) = (file \o <<a>>) \o <<b>>
    BY <1>4, <2>1, <2>2, AppendIsConcat
  <2>4. (file \o <<a>>) \o <<b>> = file \o (<<a>> \o <<b>>)
    <3>1. <<a>> \in Seq(Pieces) /\ <<b>> \in Seq(Pieces)
      BY <1>4
    <3> QED BY <1>3, <3>1, ConcatAssociative
  <2>5. <<a>> \o <<b>> = <<a, b>>
    <3> DEFINE c == <<a>>
               d == <<b>>
               e == c \o d
               h == <<a, b>>
    <3>1. /\ c \in Seq(Pieces) /\ Len(c) = 1 /\ c[1] = a
          /\ d \in Seq(Pieces) /\ Len(d) = 1 /\ d[1] = b
      BY <1>4
    <3> HIDE DEF c, d
    <3>2. /\ e \in Seq(Pieces) /\ Len(e) = Len(c) + Len(d)
          /\ \A i \in 1..(Len(c) + Len(d)) : e[i] = IF i <= Len(c) THEN c[i] ELSE d[i - Len(c)]
      BY <3>1, ConcatProperties
    <3> HIDE DEF e
    <3>3. Len(e) = 2 /\ e[1] = a /\ e[2] = b
      BY <3>1, <3>2
    <3>4. h \in Seq(Pieces) /\ Len(h) = 2 /\ h[1] = a /\ h[2] = b
      BY <1>4
    <3> HIDE DEF h
    <3>5. \A i \in 1..Len(e) : e[i] = h[i]
      BY <3>3, <3>4
    <3>6. e = h
      BY <3>2, <3>3, <3>4, <3>5, SeqEqual
    <3> QED BY <3>6 DEF e, c, d, h
  <2> QED BY <1>5, <2>1, <2>2, <2>3, <2>4, <2>5
<1> HIDE DEF g
<1>7. Follows(file, written, g, v)
  BY <1>2, <1>4 DEF Follows, g
<1>8. \A p \in Procs : Taken(p) \in Seq(Lines)
  BY TakenType
<1>9. ReadersIn(g, v)
  BY <1>7, <1>8, ReadersOutlive DEF Readers
<1>10. Follows(g, v, Append(g, b), v)
  BY <1>4, <1>6 DEF Follows
<1>11. ReadersIn(Append(g, b), v)
  BY <1>8, <1>9, <1>10, ReadersOutlive
<1>12. ReadersIn(file', written')
  BY <1>2, <1>6, <1>9, <1>11
<1> QED BY <1>2, <1>12, FileMoved

LEMMA LineFinished == ASSUME Readers, FinishLine PROVE Readers'
<1> DEFINE last == file[Len(file)]
           q == Piece(last.n, last.word, TRUE)
<1>1. /\ file # <<>> /\ ~last.end /\ file' = Append(file, q)
      /\ UNCHANGED <<written, phase, offset, first, batch, done, cut, confused>>
  BY DEF FinishLine, Unfinished, Last, procs
<1>2. file \in Seq(Pieces) /\ Len(file) \in 1..Len(file)
  BY <1>1, Numbered DEF Readers, ReadersIn, FileOK
<1>3. last \in Pieces
  BY <1>2, ElementOfSeq
<1>4. q \in Pieces /\ q.n = last.n /\ q.end
  BY <1>3 DEF Piece, Pieces
<1>5. Follows(file, written, file', written')
  BY <1>1, <1>4 DEF Follows
<1>6. ReadersIn(file', written')
  BY <1>5, TakenType, ReadersOutlive DEF Readers
<1> QED BY <1>1, <1>6, FileMoved

\* Whoever has read something of the file has still to notice that it is empty.
LEMMA FileEmptied == ASSUME Readers, Truncate PROVE Readers'
<1>1. /\ file' = <<>> /\ cut' = cut \cup {p \in Running : offset[p] > 0}
      /\ UNCHANGED <<written, phase, offset, first, batch, done, confused>>
  BY DEF Truncate, procs
<1>2. <<>> \in Seq(Pieces) /\ Len(<<>>) = 0
  BY EmptySeq
<1>3. FileOK(<<>>, written)
  BY <1>2 DEF Readers, ReadersIn, FileOK
<1>4. ASSUME NEW p \in Procs PROVE ReadsOK(p, file, written)'
  <2>1. ReadsOK(p, file, written) /\ offset[p] \in Nat
    BY DEF Readers, ReadersIn
  <2>2. CASE phase[p] # "running"
    BY <1>1, <2>1, <2>2 DEF ReadsOK, Running
  <2>3. CASE phase[p] = "running" /\ p \notin confused
    <3>1. Ordered(Taken(p), written, first[p])
      BY <2>1, <2>3 DEF ReadsOK, ReaderOK
    <3>2. Ahead(Taken(p), <<>>, 0)
      BY <1>2 DEF Ahead
    <3>3. Caught(Taken(p), <<>>, 0, first[p])
      BY <1>2, <3>2 DEF Caught
    <3>4. p \notin cut' => offset[p] = 0
      BY <1>1, <2>1, <2>3 DEF Running
    <3>5. Taken(p)' = Taken(p)
      BY <1>1 DEF Taken
    <3>6. p \in cut' => ReaderOK(Taken(p), <<>>, written, offset[p], first[p], TRUE)
      BY <3>1, <3>2 DEF ReaderOK
    <3>7. p \notin cut' => ReaderOK(Taken(p), <<>>, written, offset[p], first[p], FALSE)
      BY <3>1, <3>3, <3>4 DEF ReaderOK
    <3> QED BY <1>1, <2>3, <3>5, <3>6, <3>7 DEF ReadsOK
  <2>4. CASE phase[p] = "running" /\ p \in confused
    BY <1>1, <2>4 DEF ReadsOK
  <2> QED BY <2>2, <2>3, <2>4
<1> QED BY <1>1, <1>3, <1>4 DEF Readers, ReadersIn

LEMMA ReadersStep == BootTypeOK /\ Readers /\ [Next]_vars => Readers'
<1> SUFFICES ASSUME BootTypeOK, Readers, [Next]_vars PROVE Readers'
  OBVIOUS
<1>1. ASSUME NEW p \in Procs, Open(p) \/ Leave(p) \/ Crash(p) PROVE Readers'
  BY <1>1, ReadersComeAndGo
<1>2. ASSUME NEW p \in Procs,
             \/ Start(p) \/ RecordStart(p) \/ AskToStop(p) \/ Record(p) \/ RecordStop(p)
             \/ FinalBegin(p) \/ FinalEnd(p)
      PROVE  Readers'
  <2>1. UNCHANGED commands
    BY <1>2 DEF Start, RecordStart, AskToStop, Record, RecordStop, FinalBegin, FinalEnd
  <2>2. \/ UNCHANGED phase
        \/ /\ phase[p] # "running"
           /\ \E to \in Phases \ {"running"} : phase' = [phase EXCEPT ![p] = to]
    BY <1>2 DEF Start, RecordStart, AskToStop, Record, RecordStop, FinalBegin, FinalEnd, Goes, Phases
  <2>3. \A q \in Procs : phase'[q] = "running" <=> phase[q] = "running"
    BY <2>2 DEF BootTypeOK
  <2> QED BY <2>1, <2>3, ReadersRest
<1>3. ASSUME NEW p \in Procs, Poll(p) \/ Handle(p) PROVE Readers'
  BY <1>3, ReaderPolls, ReaderHandles
<1>4. CASE Write \/ FinishLine \/ Truncate
  BY <1>4, LineWritten, LineFinished, FileEmptied
<1>5. CASE \/ \E p \in Procs : Typed(p) \/ WriteOnce(p)
           \/ \E who \in Procs \cup {Cli} : Disarm(who) \/ DisarmClear(who)
           \/ CreateWallet \/ Arm \/ Kill \/ Tick \/ UNCHANGED vars
  <2>1. UNCHANGED <<phase, commands>>
    BY <1>5 DEF Typed, WriteOnce, Disarm, DisarmClear, CreateWallet, Arm, Kill, Tick, vars, procs
  <2> QED BY <2>1, ReadersRest
<1> QED BY <1>1, <1>2, <1>3, <1>4, <1>5 DEF Next, Life

\* A process handles the lines of the commands file as they were written, in
\* that order and each once, whatever the operators do to the file while it
\* polls, unless a file emptied and grown past its offset has misled it.
THEOREM CommandsHandled == Spec => []HandledAsWritten
<1>1. Init => BootInv /\ Readers
  BY BootInit, ReadersBegin
<1>2. BootInv /\ Readers /\ [Next]_vars => (BootInv /\ Readers)'
  <2>1. BootInv /\ [Next]_vars => BootInv'
    BY BootLife, BootElsewhere DEF Next
  <2>2. BootInv => BootTypeOK
    BY DEF BootInv
  <2> QED BY <2>1, <2>2, ReadersStep
<1>3. BootInv /\ Readers => HandledAsWritten
  <2> SUFFICES ASSUME Readers, NEW p \in Running \ confused
               PROVE  /\ Ordered(Taken(p), written, first[p])
                      /\ p \notin cut => Caught(Taken(p), file, offset[p], first[p])
    BY DEF HandledAsWritten, Ordered, Caught
  <2>1. ReadsOK(p, file, written) /\ phase[p] = "running"
    BY DEF Readers, ReadersIn, Running
  <2> QED BY <2>1 DEF ReadsOK, ReaderOK
<1> QED BY <1>1, <1>2, <1>3, PTL DEF Spec
----------------------------------------------------------------------------
(* The heartbeat *)

\* Everything a session row was written for is listed.
LEMMA Listed ==
  ASSUME began \in Seq(Procs), NEW S
  PROVE  /\ NewestFirst(S) \in Seq(Procs)
         /\ \A i \in DOMAIN began : began[i] \in S => began[i] \in Range(NewestFirst(S))
<1> DEFINE E == {k \in DOMAIN began : began[k] \in S}
           m == Cardinality(E)
           key == [k \in E |-> -k]
           At(n) == CHOOSE k \in E : Cardinality({l \in E : k =< l}) = n
<1>1. DOMAIN began = 1..Len(began) /\ Len(began) \in Nat
  BY LenProperties
<1>2. IsFiniteSet(E) /\ m \in Nat
  <2> DEFINE all == 1..Len(began)
  <2>1. IsFiniteSet(all)
    BY <1>1, FS_Interval
  <2>2. E \in SUBSET all
    BY <1>1
  <2> HIDE DEF all, E
  <2> QED BY <2>1, <2>2, FS_Subset, FS_CardinalityType
<1>3. \A k \in E : k \in Int /\ began[k] \in Procs /\ k \in DOMAIN began
  BY <1>1, ElementOfSeq
<1>4. key \in [E -> Int] /\ \A d, e \in E : key[d] = key[e] => d = e
  BY <1>3
<1>5. \A k \in E : RankIn(E, key, k) = Cardinality({l \in E : k =< l})
  <2> SUFFICES ASSUME NEW k \in E PROVE UpTo(E, key, k) = {l \in E : k =< l}
    BY DEF RankIn
  <2>1. \A l \in E : key[l] =< key[k] <=> k =< l
    BY <1>3
  <2> QED BY <2>1 DEF UpTo
<1>6. /\ NewestFirst(S) = [n \in 1..m |-> began[At(n)]]
      /\ \A i \in DOMAIN began : began[i] \in S => i \in E
  BY DEF NewestFirst
<1> HIDE DEF E, key
<1>7. /\ \A e \in E : RankIn(E, key, e) \in 1..m
      /\ \A d, e \in E : RankIn(E, key, d) = RankIn(E, key, e) => d = e
      /\ \A n \in 1..m : \E e \in E : RankIn(E, key, e) = n
  BY <1>2, <1>4, Ranks
<1>8. ASSUME NEW n \in 1..m PROVE At(n) \in E /\ RankIn(E, key, At(n)) = n
  <2>1. \E k \in E : Cardinality({l \in E : k =< l}) = n
    BY <1>5, <1>7
  <2>2. At(n) \in E /\ Cardinality({l \in E : At(n) =< l}) = n
    BY <2>1
  <2> QED BY <1>5, <2>2
<1> HIDE DEF At, m
<1>9. \A n \in 1..m : began[At(n)] \in Procs
  BY <1>3, <1>8
<1>10. NewestFirst(S) \in Seq(Procs)
  BY <1>2, <1>6, <1>9
<1>11. ASSUME NEW i \in DOMAIN began, began[i] \in S
       PROVE  began[i] \in Range(NewestFirst(S))
  <2>1. \E n \in 1..m : At(n) = i
    BY <1>6, <1>7, <1>8, <1>11
  <2> QED BY <1>6, <2>1 DEF Range
<1> QED BY <1>10, <1>11

\* The session that runs is opened, if it has a row.
LEMMA Opened ==
  ASSUME began \in Seq(Procs), NEW i \in DOMAIN began, RunningSession = began[i]
  PROVE  Selected = began[i]
<1> DEFINE a == NewestFirst(Procs \ Autonomous)
           b == NewestFirst(Autonomous)
           p == began[i]
           c == a \o b
<1>1. p \in Procs
  <2>1. i \in 1..Len(began)
    BY LenProperties
  <2> QED BY <2>1, ElementOfSeq
<1>2. a \in Seq(Procs) /\ b \in Seq(Procs)
  BY Listed
<1>3. p \in Range(a) \/ p \in Range(b)
  BY <1>1, Listed
<1> HIDE DEF a, b
<1>4. /\ Len(a) \in Nat /\ DOMAIN a = 1..Len(a)
      /\ Len(b) \in Nat /\ DOMAIN b = 1..Len(b)
  BY <1>2, LenProperties
<1>5. /\ c \in Seq(Procs) /\ Len(c) = Len(a) + Len(b)
      /\ \A k \in 1..(Len(a) + Len(b)) : c[k] = IF k <= Len(a) THEN a[k] ELSE b[k - Len(a)]
  BY <1>2, ConcatProperties
<1>6. DOMAIN c = 1..(Len(a) + Len(b))
  BY <1>5, LenProperties
<1> HIDE DEF c
<1>7. p \in Range(c)
  <2>1. ASSUME NEW k \in DOMAIN a PROVE a[k] \in Range(c)
    <3>1. k \in DOMAIN c /\ c[k] = a[k]
      BY <1>4, <1>5, <1>6
    <3> QED BY <3>1 DEF Range
  <2>2. ASSUME NEW k \in DOMAIN b PROVE b[k] \in Range(c)
    <3> DEFINE l == k + Len(a)
    <3>1. l \in DOMAIN c /\ ~(l <= Len(a)) /\ l - Len(a) = k
      BY <1>4, <1>6
    <3> HIDE DEF l
    <3>2. c[l] = b[k]
      BY <1>5, <1>6, <3>1
    <3> QED BY <3>1, <3>2 DEF Range
  <2> QED BY <1>3, <2>1, <2>2 DEF Range
<1>8. RunningSession \in Range(Refs)
  BY <1>7 DEF c, a, b, Refs
<1> QED BY <1>8 DEF Selected

Heartbeats ==
    [session : Procs, age : Nat, health : {"HEALTHY", "DEGRADED", "UNHEALTHY", "STOPPED"},
     stopped : BOOLEAN]
NotFinal == {"running", "stopping", "recording", "recorded", "dead"}

\* What is shown of whom: only a process that has not begun to write its last
\* heartbeat is shown without the mark that it is the last, and who has
\* reported has been overtaken by nobody or by somebody later.
Shown ==
    /\ since \in [Procs -> Nat] /\ quiet \in Nat /\ began \in Seq(Procs)
    /\ \A p \in Procs : IF phase[p] = "running" THEN \E i \in DOMAIN began : began[i] = p
                                                 ELSE since[p] = Past
    /\ status # None =>
         /\ status \in Heartbeats
         /\ phase[status.session] \in IF status.stopped THEN {"exited"} ELSE NotFinal
         /\ \A p \in Procs : since[p] < Past => status.age <= since[p]
         /\ status.health = "HEALTHY" /\ status.session \in Autonomous =>
              Armed \/ quiet <= status.age

LEMMA ShownBegins == Init => Shown
<1> SUFFICES ASSUME Init PROVE Shown
  OBVIOUS
<1>1. Past \in Nat
  BY OperationsAssumption DEF Past
<1> QED BY <1>1, EmptySeq DEF Init, Shown

LEMMA ShownIsHonest == ASSUME Shown PROVE StatusIsHonest
<1>1. Past \in Nat /\ FreshFor \in Nat /\ Past = FreshFor + 1
  BY OperationsAssumption DEF Past
<1>2. RunningSession # None => phase[RunningSession] \notin {"new", "refused", "exited"}
  BY DEF Shown, NotFinal, RunningSession, Fresh
<1>3. ASSUME NEW p \in Running, since[p] < Past, status # None, status.session = p
      PROVE  Selected = p
  <2>1. p \in Procs /\ phase[p] = "running" /\ since[p] \in Nat /\ status.age \in Nat
    BY <1>3 DEF Running, Shown, Heartbeats
  <2>2. status.age <= since[p] /\ ~status.stopped
    BY <1>3, <2>1 DEF Shown
  <2>3. RunningSession = p
    BY <1>1, <1>3, <2>1, <2>2 DEF RunningSession, Fresh
  <2>4. PICK i \in DOMAIN began : began[i] = p
    BY <2>1 DEF Shown
  <2>5. began \in Seq(Procs)
    BY DEF Shown
  <2> QED BY <2>3, <2>4, <2>5, Opened
<1>4. ASSUME NEW p \in Running, since[p] < Past, status # None, status.session # p
      PROVE  status.age <= since[p]
  BY <1>4 DEF Running, Shown
<1>5. status # None /\ status.health = "HEALTHY" /\ status.session \in Autonomous =>
        Armed \/ quiet <= status.age
  BY DEF Shown
<1> QED BY <1>2, <1>3, <1>4, <1>5 DEF StatusIsHonest

\* A step of the markers counts from the moment at which it stops buys.
LEMMA MarkersMove ==
  ASSUME Shown, UNCHANGED <<phase, since, status, began>>,
         quiet' \in Nat, Armed' \/ quiet' = 0 \/ (~Armed /\ quiet' = quiet)
  PROVE  Shown'
<1>1. status # None /\ status.health = "HEALTHY" /\ status.session \in Autonomous =>
        Armed' \/ quiet' <= status.age
  BY DEF Shown, Heartbeats
<1> QED BY <1>1 DEF Shown

\* A process moves on, away from the heartbeat it has written.
LEMMA ProcessMoves ==
  ASSUME BootTypeOK, Shown, NEW p \in Procs, NEW to \in Phases \ {"running"},
         phase' = [phase EXCEPT ![p] = to], UNCHANGED <<status, began, markers>>,
         phase[p] \in NotFinal => to \in NotFinal, phase[p] # "exited",
         since' = [since EXCEPT ![p] = Past] \/ (UNCHANGED since /\ phase[p] # "running")
  PROVE  Shown'
<1>1. Past \in Nat
  BY OperationsAssumption DEF Past
<1>2. phase'[p] = to /\ \A q \in Procs \ {p} : phase'[q] = phase[q]
  BY DEF BootTypeOK
<1>3. since' \in [Procs -> Nat] /\ since'[p] = Past /\ \A q \in Procs \ {p} : since'[q] = since[q]
  BY <1>1 DEF Shown
<1>4. UNCHANGED <<quiet, Armed>>
  BY DEF markers, Armed
<1>5. \A q \in Procs : IF phase'[q] = "running" THEN \E i \in DOMAIN began : began[i] = q
                                                ELSE since'[q] = Past
  BY <1>2, <1>3 DEF Shown
<1>6. ASSUME status # None
      PROVE  /\ status \in Heartbeats
             /\ phase'[status.session] \in IF status.stopped THEN {"exited"} ELSE NotFinal
             /\ \A q \in Procs : since'[q] < Past => status.age <= since'[q]
  <2>1. status \in Heartbeats /\ status.session \in Procs
    BY <1>6 DEF Shown, Heartbeats
  <2>2. phase'[status.session] \in IF status.stopped THEN {"exited"} ELSE NotFinal
    BY <1>2, <1>6, <2>1 DEF Shown
  <2>3. ASSUME NEW q \in Procs, since'[q] < Past PROVE status.age <= since'[q]
    <3>1. q # p
      BY <1>1, <1>3, <2>3
    <3>2. since'[q] = since[q]
      BY <1>3, <3>1
    <3> QED BY <1>6, <2>3, <3>2 DEF Shown
  <2> QED BY <2>1, <2>2, <2>3
<1> QED BY <1>3, <1>4, <1>5, <1>6 DEF Shown

LEMMA ProcessOpens == ASSUME BootTypeOK, Shown, NEW p \in Procs, Open(p) PROVE Shown'
<1>1. /\ phase[p] = "starting" /\ phase' = [phase EXCEPT ![p] = "running"]
      /\ began' = Append(began, p) /\ UNCHANGED <<since, status, markers>>
  BY DEF Open, Goes
<1>2. phase'[p] = "running" /\ \A q \in Procs \ {p} : phase'[q] = phase[q]
  BY <1>1 DEF BootTypeOK
<1>3. UNCHANGED <<quiet, Armed>>
  BY <1>1 DEF markers, Armed
<1>4. began \in Seq(Procs) /\ Len(began) \in Nat /\ DOMAIN began = 1..Len(began)
  BY LenProperties DEF Shown
<1>5. /\ began' \in Seq(Procs) /\ DOMAIN began' = 1..(Len(began) + 1)
      /\ \A i \in 1..Len(began) : began'[i] = began[i]
      /\ began'[Len(began) + 1] = p
  <2>1. /\ began' \in Seq(Procs) /\ Len(began') = Len(began) + 1
        /\ \A i \in 1..Len(began) : began'[i] = began[i]
        /\ began'[Len(began) + 1] = p
    BY <1>1, <1>4, AppendProperties
  <2> QED BY <2>1, LenProperties
<1>6. \A q \in Procs : IF phase'[q] = "running" THEN \E i \in DOMAIN began' : began'[i] = q
                                                ELSE since[q] = Past
  <2>1. Len(began) + 1 \in DOMAIN began' /\ DOMAIN began \subseteq DOMAIN began'
    BY <1>4, <1>5
  <2>2. \A i \in DOMAIN began : i \in DOMAIN began' /\ began'[i] = began[i]
    BY <1>4, <1>5, <2>1
  <2>3. ASSUME NEW q \in Procs \ {p}, phase[q] = "running"
        PROVE  \E i \in DOMAIN began' : began'[i] = q
    BY <2>2, <2>3 DEF Shown
  <2>4. \E i \in DOMAIN began' : began'[i] = p
    BY <1>5, <2>1
  <2>5. \A q \in Procs \ {p} : phase[q] # "running" => since[q] = Past
    BY DEF Shown
  <2> QED BY <1>2, <2>3, <2>4, <2>5
<1>7. status # None =>
        phase'[status.session] \in IF status.stopped THEN {"exited"} ELSE NotFinal
  BY <1>1, <1>2 DEF Shown, Heartbeats, NotFinal
<1> QED BY <1>1, <1>3, <1>5, <1>6, <1>7 DEF Shown

\* Whoever writes a heartbeat overtakes everybody.
LEMMA HeartbeatShown == ASSUME BootTypeOK, Shown, NEW p \in Procs, WriteOnce(p) PROVE Shown'
<1>1. PICK others \in {"HEALTHY"} \cup Troubles :
        status' = Heartbeat(p, Verdict(p, others), FALSE)
  BY DEF WriteOnce
<1>2. /\ phase[p] = "running" /\ since' = [since EXCEPT ![p] = 0]
      /\ UNCHANGED <<phase, began, markers>>
  BY DEF WriteOnce, Running
<1>3. UNCHANGED <<quiet, Armed>>
  BY <1>2 DEF markers, Armed
<1>4. /\ Verdict(p, others) \in {"HEALTHY", "DEGRADED", "UNHEALTHY"}
      /\ Verdict(p, others) = "HEALTHY" /\ p \in Autonomous => Armed
  BY OperationsAssumption DEF Verdict
<1>5. /\ status' \in Heartbeats /\ status'.session = p /\ status'.age = 0 /\ ~status'.stopped
      /\ status'.health = "HEALTHY" /\ p \in Autonomous => Armed
  BY <1>1, <1>4 DEF Heartbeat, Heartbeats
<1>6. /\ since' \in [Procs -> Nat]
      /\ \A q \in Procs : phase[q] # "running" => since'[q] = since[q]
      /\ \A q \in Procs : 0 <= since'[q]
  BY <1>2 DEF Shown
<1>7. phase'[p] \in NotFinal
  BY <1>2 DEF NotFinal
<1> QED BY <1>2, <1>3, <1>5, <1>6, <1>7 DEF Shown

\* The last heartbeat is away while it is written, and says so at its end.
LEMMA LastHeartbeat ==
  ASSUME BootTypeOK, Shown, NEW p \in Procs, FinalBegin(p) \/ FinalEnd(p) PROVE Shown'
<1>1. PICK to \in {"final", "exited"} : phase' = [phase EXCEPT ![p] = to]
  BY DEF FinalBegin, FinalEnd, Goes
<1>2. phase[p] # "running" /\ UNCHANGED <<since, began, quiet>>
  BY DEF FinalBegin, FinalEnd, markers
<1>3. phase'[p] = to /\ \A q \in Procs \ {p} : phase'[q] = phase[q]
  BY <1>1 DEF BootTypeOK
<1>4. \A q \in Procs : IF phase'[q] = "running" THEN \E i \in DOMAIN began : began[i] = q
                                                ELSE since[q] = Past
  BY <1>2, <1>3 DEF Shown
<1>5. CASE FinalBegin(p)
  <2>1. status' = None
    BY <1>5 DEF FinalBegin
  <2> QED BY <1>2, <1>4, <2>1 DEF Shown
<1>6. CASE FinalEnd(p)
  <2>1. status' = Heartbeat(p, "STOPPED", TRUE) /\ phase'[p] = "exited"
    BY <1>6 DEF FinalEnd, Goes, BootTypeOK
  <2>2. /\ status' \in Heartbeats /\ status'.session = p /\ status'.age = 0 /\ status'.stopped
        /\ status'.health # "HEALTHY"
    BY <2>1 DEF Heartbeat, Heartbeats
  <2>3. \A q \in Procs : 0 <= since[q]
    BY DEF Shown
  <2> QED BY <1>2, <1>4, <2>1, <2>2, <2>3 DEF Shown
<1> QED BY <1>5, <1>6

\* The clock ages the heartbeat with everybody who has reported.
LEMMA ClockTicks == ASSUME BootTypeOK, Shown, Tick PROVE Shown'
<1>1. /\ Past \in Nat /\ FreshFor \in Nat /\ Past = FreshFor + 1
      /\ Interval + MaxLag \in Nat /\ Interval + MaxLag <= FreshFor
  BY OperationsAssumption DEF Past
<1>2. /\ \A p \in Running : since[p] < Interval + MaxLag
      /\ since' = [p \in Procs |-> IF p \in Running THEN since[p] + 1 ELSE since[p]]
      /\ status' = IF status = None THEN None ELSE [status EXCEPT !.age = Older(status.age)]
      /\ quiet' = Older(quiet) /\ UNCHANGED <<began, phase, armed, disarmed, kill>>
  BY DEF Tick
<1>3. \A n \in Nat : Older(n) \in Nat /\ Older(n) <= n + 1
  BY <1>1 DEF Older
<1>4. \A m, n \in Nat : m <= n => Older(m) <= Older(n)
  BY <1>1 DEF Older
<1>5. /\ since \in [Procs -> Nat] /\ quiet \in Nat /\ began \in Seq(Procs)
      /\ since' \in [Procs -> Nat] /\ quiet' \in Nat
  BY <1>2, <1>3 DEF Shown
<1>6. /\ \A p \in Procs : phase[p] = "running" => since[p] < Past /\ since'[p] = since[p] + 1
      /\ \A p \in Procs : phase[p] # "running" => since'[p] = Past
  BY <1>1, <1>2, <1>5 DEF Running, Shown
<1>7. UNCHANGED Armed
  BY <1>2 DEF Armed
<1>8. ASSUME status # None
      PROVE  /\ status' \in Heartbeats
             /\ phase[status'.session] \in IF status'.stopped THEN {"exited"} ELSE NotFinal
             /\ \A p \in Procs : since'[p] < Past => status'.age <= since'[p]
             /\ status'.health = "HEALTHY" /\ status'.session \in Autonomous =>
                  Armed \/ quiet' <= status'.age
  <2>1. status \in Heartbeats /\ status.age \in Nat
    BY <1>8 DEF Shown, Heartbeats
  <2>2. Older(status.age) \in Nat
    BY <1>3, <2>1
  <2>3. /\ status' \in Heartbeats /\ status'.session = status.session
        /\ status'.stopped = status.stopped /\ status'.health = status.health
        /\ status'.age = Older(status.age)
    BY <1>2, <1>8, <2>1, <2>2 DEF Heartbeats
  <2>4. ASSUME NEW p \in Procs, since'[p] < Past PROVE status'.age <= since'[p]
    <3>1. phase[p] = "running" /\ since[p] < Past /\ since'[p] = since[p] + 1 /\ since[p] \in Nat
      BY <1>1, <1>5, <1>6, <2>4
    <3>2. status.age <= since[p]
      BY <1>8, <3>1 DEF Shown
    <3> QED BY <1>3, <2>1, <2>3, <3>1, <3>2
  <2>5. Armed \/ quiet <= status.age => Armed \/ quiet' <= status'.age
    BY <1>2, <1>4, <1>5, <2>1, <2>3
  <2> QED BY <1>8, <2>3, <2>4, <2>5 DEF Shown
<1>9. status' # None => status # None
  BY <1>2
<1>10. \A p \in Procs : IF phase[p] = "running" THEN \E i \in DOMAIN began : began[i] = p
                                                ELSE since'[p] = Past
  BY <1>6 DEF Shown
<1> QED BY <1>2, <1>5, <1>7, <1>8, <1>9, <1>10 DEF Shown

LEMMA ShownStep == BootTypeOK /\ Shown /\ [Next]_vars => Shown'
<1> SUFFICES ASSUME BootTypeOK, Shown, [Next]_vars PROVE Shown'
  OBVIOUS
<1>1. ASSUME NEW p \in Procs,
             Start(p) \/ RecordStart(p) \/ Leave(p) \/ Record(p) \/ RecordStop(p) \/ Crash(p)
      PROVE  Shown'
  <2>1. PICK to \in Phases \ {"running"} : phase' = [phase EXCEPT ![p] = to]
    BY <1>1 DEF Start, RecordStart, Leave, Record, RecordStop, Crash, Goes, Phases
  <2>2. UNCHANGED <<status, began, markers>>
    BY <1>1 DEF Start, RecordStart, Leave, Record, RecordStop, Crash, records
  <2>3. phase'[p] = to
    BY <2>1 DEF BootTypeOK
  <2>4. (phase[p] \in NotFinal => to \in NotFinal) /\ phase[p] # "exited"
    BY <1>1, <2>3 DEF Start, RecordStart, Leave, Record, RecordStop, Crash, Goes, NotFinal,
                     Running, Alive, BootTypeOK
  <2>5. since' = [since EXCEPT ![p] = Past] \/ (UNCHANGED since /\ phase[p] # "running")
    BY <1>1 DEF Start, RecordStart, Leave, Record, RecordStop, Crash, Forget
  <2> QED BY <2>1, <2>2, <2>4, <2>5, ProcessMoves
<1>2. ASSUME NEW p \in Procs, Open(p) \/ WriteOnce(p) \/ FinalBegin(p) \/ FinalEnd(p)
      PROVE  Shown'
  BY <1>2, ProcessOpens, HeartbeatShown, LastHeartbeat
<1>3. quiet \in Nat
  BY DEF Shown
<1>4. ASSUME UNCHANGED <<phase, since, status, began, quiet, armed, disarmed, kill>> PROVE Shown'
  <2>1. UNCHANGED Armed
    BY <1>4 DEF Armed
  <2> QED BY <1>3, <1>4, <2>1, MarkersMove
<1>5. CASE \/ \E p \in Procs : AskToStop(p) \/ Poll(p)
           \/ CreateWallet \/ Write \/ FinishLine \/ Truncate \/ UNCHANGED vars
  BY <1>4, <1>5 DEF AskToStop, Poll, CreateWallet, Write, FinishLine, Truncate, vars, procs,
                    markers, records
<1>6. ASSUME NEW p \in Procs, NEW word, Carry(p, word),
             UNCHANGED <<phase, since, status, began, armed>>
      PROVE  Shown'
  <2>1. CASE word \in {"kill", "resume"}
    <3>1. SetKill(word = "kill") /\ UNCHANGED disarmed
      BY <1>6, <2>1 DEF Carry
    <3> QED BY <1>3, <1>6, <3>1, MarkersMove DEF SetKill, Quiet, Armed
  <2>2. CASE word = "disarm"
    <3>1. DisarmMark(p) /\ UNCHANGED kill
      BY <1>6, <2>2 DEF Carry
    <3> QED BY <1>3, <1>6, <3>1, MarkersMove DEF DisarmMark, Quiet, Armed
  <2>3. CASE word \notin {"kill", "resume", "disarm"}
    BY <1>4, <1>6, <2>3 DEF Carry
  <2> QED BY <2>1, <2>2, <2>3
<1>7. ASSUME NEW p \in Procs, Handle(p) \/ Typed(p) PROVE Shown'
  <2>1. UNCHANGED <<phase, since, status, began, armed>> /\ \E word : Carry(p, word)
    BY <1>7 DEF Handle, Typed, records
  <2> QED BY <1>6, <2>1
<1>8. ASSUME NEW who \in Procs \cup {Cli}, Disarm(who) \/ DisarmClear(who) PROVE Shown'
  <2>1. UNCHANGED <<phase, since, status, began>>
    BY <1>8 DEF Disarm, DisarmClear, procs, records
  <2>2. ~Armed' /\ Quiet(FALSE)
    BY <1>8 DEF Disarm, DisarmClear, DisarmMark, Armed
  <2> QED BY <1>3, <2>1, <2>2, MarkersMove DEF Quiet
<1>9. CASE Kill
  <2>1. UNCHANGED <<phase, since, status, began, armed, disarmed>>
    BY <1>9 DEF Kill, procs, records
  <2>2. \E on \in BOOLEAN : SetKill(on)
    BY <1>9 DEF Kill
  <2> QED BY <1>3, <2>1, <2>2, MarkersMove DEF SetKill, Quiet, Armed
<1>10. CASE Arm
  <2>1. /\ UNCHANGED <<phase, since, status, began, quiet, kill>>
        /\ armed' = armed \/ armed' = TRUE
        /\ disarmed' = disarmed \/ disarmed' = FALSE
    BY <1>10 DEF Arm, ArmBegin, ArmConfirm, ArmMark, ArmClear, ArmAbort, procs, records
  <2>2. Armed => Armed'
    BY <2>1 DEF Armed
  <2> QED BY <1>3, <2>1, <2>2, MarkersMove
<1> QED BY <1>1, <1>2, <1>5, <1>7, <1>8, <1>9, <1>10, ClockTicks DEF Next, Life

\* What the dashboard and the health check show of the processes in a home is
\* so, however these start, stop, die and overwrite each other's heartbeat.
THEOREM HonestStatus == Spec => []StatusIsHonest
<1>1. Init => BootInv /\ Shown
  BY BootInit, ShownBegins
<1>2. BootInv /\ Shown /\ [Next]_vars => (BootInv /\ Shown)'
  <2>1. BootInv /\ [Next]_vars => BootInv'
    BY BootLife, BootElsewhere DEF Next
  <2>2. BootInv => BootTypeOK
    BY DEF BootInv
  <2> QED BY <2>1, <2>2, ShownStep
<1> QED BY <1>1, <1>2, ShownIsHonest, PTL DEF Spec
=============================================================================
