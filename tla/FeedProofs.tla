----------------------------- MODULE FeedProofs -----------------------------
(* Theorems about Provider and about Token, for every value of their constants: how data are  *)
(* asked for, and what is made of them.                                                       *)
EXTENDS Provider, Token, DataLemmas, SequenceTheorems

----------------------------------------------------------------------------
(* Numbers *)

LEMMA CappedIs ==
  ASSUME NEW n \in Int, NEW cap \in Int
  PROVE  Capped(n, cap) = IF n <= cap THEN n ELSE cap
BY DEF Capped, Min

LEMMA LargerOf ==
  ASSUME NEW a \in Int, NEW b \in Int
  PROVE  Max({a, b}) = IF a >= b THEN a ELSE b
BY DEF Max

\* A doubling delay is positive, and so is its cap.
LEMMA Doubled ==
  ASSUME NEW d \in Nat \ {0}, NEW n \in 0..(MaxTrips + MaxLimited), NEW cap \in Nat
  PROVE  /\ Capped(d * 2^n, cap) \in 0..cap
         /\ cap > 0 => Capped(d * 2^n, cap) > 0
<1>1. 2^n \in Nat \ {0}
  BY PowersOfTwo
<1> DEFINE m == 2^n
<1>2. d * m \in Nat \ {0}
  <2> HIDE DEF m
  <2>1. m \in Nat \ {0}
    BY <1>1 DEF m
  <2> QED BY <2>1
<1> HIDE DEF m
<1>3. Capped(d * m, cap) = IF d * m <= cap THEN d * m ELSE cap
  BY <1>2, CappedIs
<1>4. Capped(d * m, cap) \in 0..cap /\ (cap > 0 => Capped(d * m, cap) > 0)
  BY <1>2, <1>3
<1> QED BY <1>4 DEF m

----------------------------------------------------------------------------
(* Types *)

HostRecord ==
    [state : {"HEALTHY", "DEGRADED", "RATE_LIMITED", "DOWN"}, probe : BOOLEAN,
     cooldown : 0..CooldownMax, open : 0..OpenMax, failures : 0..TripAfter,
     limited : 0..MaxLimited, trips : 0..MaxTrips]

RequestState == [at : Stages, wake : Nat, left : Nat]

Typed ==
    /\ host \in HostRecord
    /\ tokens \in 0..Burst
    /\ caller \in [Callers -> RequestState]
    /\ calls \in 0..MaxCalls
    /\ admitted \in 0..2

\* Success closes everything that kept a sick host shut.
LEMMA SuccessType ==
  ASSUME NEW h \in HostRecord
  PROVE  /\ OnSuccess(h) \in HostRecord
         /\ OnSuccess(h).state = "HEALTHY" /\ OnSuccess(h).open = 0 /\ ~OnSuccess(h).probe
         /\ OnSuccess(h).cooldown <= h.cooldown
<1> DEFINE rest == IF h.state = "HEALTHY" THEN h.cooldown ELSE 0
<1>1. h.cooldown \in 0..CooldownMax /\ {CooldownMax, OpenMax, TripAfter, MaxLimited} \subseteq Nat
  BY ProviderAssumption DEF HostRecord
<1>2. rest \in 0..CooldownMax /\ rest <= h.cooldown
  BY <1>1
<1>3. OnSuccess(h) = [h EXCEPT !.failures = 0, !.limited = 0, !.probe = FALSE, !.open = 0,
                               !.state = "HEALTHY", !.cooldown = rest]
  BY DEF OnSuccess
<1>4. 0 \in 0..OpenMax /\ 0 \in 0..TripAfter /\ 0 \in 0..MaxLimited
  BY <1>1
<1> HIDE DEF rest
<1> QED BY ZenonT(30), <1>2, <1>3, <1>4 DEF HostRecord

\* Whatever a 429 earns is a cooldown of at most the maximum.
LEMMA CooldownType ==
  ASSUME NEW h \in HostRecord, NEW header \in RetryAfters, NEW d \in Cooldowns(h, header)
  PROVE  d \in 0..CooldownMax
<1>1. CASE header # NoHeader
  <2>1. header \in Nat /\ CooldownMax \in Nat
    BY <1>1, ProviderAssumption
  <2>2. d = Capped(header, CooldownMax)
    BY <1>1 DEF Cooldowns
  <2> QED BY <2>1, <2>2, CappedIs
<1>2. CASE header = NoHeader
  <2> DEFINE base == Capped(CooldownMin * 2^h.limited, CooldownMax)
             top == Capped(base + base \div 4, CooldownMax)
  <2>1. h.limited \in 0..(MaxTrips + MaxLimited) /\ CooldownMin \in Nat \ {0}
        /\ CooldownMax \in Nat
    BY ProviderAssumption DEF HostRecord
  <2>2. base \in 0..CooldownMax
    BY <2>1, Doubled
  <2>3. d \in base..top
    BY <1>2 DEF Cooldowns
  <2> HIDE DEF base
  <2>4. base + base \div 4 \in Int
    BY <2>1, <2>2
  <2>5. top \in Int /\ top <= CooldownMax
    BY <2>1, <2>4, CappedIs
  <2> QED BY <2>1, <2>2, <2>3, <2>5
<1> QED BY <1>1, <1>2

\* A rate limit lengthens the cooldown and nothing else that shuts a host.
LEMMA LimitedType ==
  ASSUME NEW h \in HostRecord, NEW d \in 0..CooldownMax
  PROVE  /\ OnRateLimited(h, d) \in HostRecord
         /\ OnRateLimited(h, d).open = h.open /\ OnRateLimited(h, d).probe = h.probe
         /\ (OnRateLimited(h, d).state = "DOWN" <=> h.state = "DOWN")
<1>1. Capped(h.limited + 1, MaxLimited) \in 0..MaxLimited
  BY CappedIs, ProviderAssumption DEF HostRecord
<1>2. Max({h.cooldown, d}) \in 0..CooldownMax
  <2>1. h.cooldown \in Int /\ d \in Int
    BY ProviderAssumption DEF HostRecord
  <2> QED BY <2>1, LargerOf DEF HostRecord
<1> QED BY <1>1, <1>2 DEF OnRateLimited, HostRecord

\* A failure opens the circuit of a host it brings down, and of no other.
LEMMA FailureType ==
  ASSUME NEW h \in HostRecord
  PROVE  /\ OnFailure(h) \in HostRecord
         /\ OnFailure(h).cooldown = h.cooldown
         /\ \/ OnFailure(h).state = "DOWN" /\ OnFailure(h).open > 0 /\ ~OnFailure(h).probe
            \/ /\ OnFailure(h).open = h.open /\ OnFailure(h).probe = h.probe /\ ~h.probe
               /\ (OnFailure(h).state = "DOWN" <=> h.state = "DOWN")
<1> DEFINE failures == Capped(h.failures + 1, TripAfter)
           trips == Capped(h.trips + 1, MaxTrips)
           open == Capped(OpenFor * 2^(trips - 1), OpenMax)
<1>1. failures \in 0..TripAfter /\ trips \in 1..MaxTrips
  BY CappedIs, ProviderAssumption DEF HostRecord
<1>2. open \in 0..OpenMax /\ open > 0
  <2>1. trips - 1 \in 0..(MaxTrips + MaxLimited)
    BY <1>1, ProviderAssumption
  <2> HIDE DEF trips
  <2> QED BY <2>1, Doubled, ProviderAssumption
<1>3. OnFailure(h) =
        IF h.probe \/ failures = TripAfter
        THEN [h EXCEPT !.failures = failures, !.trips = trips, !.probe = FALSE,
                       !.open = open, !.state = "DOWN"]
        ELSE [h EXCEPT !.failures = failures,
                       !.state = IF @ = "HEALTHY" /\ failures >= 2 THEN "DEGRADED" ELSE @]
  BY DEF OnFailure
<1> HIDE DEF failures, trips, open
<1>4. CASE h.probe \/ failures = TripAfter
  <2>1. OnFailure(h) = [h EXCEPT !.failures = failures, !.trips = trips, !.probe = FALSE,
                                 !.open = open, !.state = "DOWN"]
    BY <1>3, <1>4
  <2>2. trips \in 0..MaxTrips
    BY <1>1, ProviderAssumption
  <2>3. OnFailure(h) \in HostRecord
    BY <1>1, <1>2, <2>1, <2>2 DEF HostRecord
  <2>4. /\ OnFailure(h).cooldown = h.cooldown /\ OnFailure(h).state = "DOWN"
        /\ OnFailure(h).open = open /\ OnFailure(h).probe = FALSE
    BY <2>1 DEF HostRecord
  <2> QED BY <1>2, <2>3, <2>4
<1>5. CASE ~(h.probe \/ failures = TripAfter)
  BY <1>1, <1>3, <1>5 DEF HostRecord
<1> QED BY <1>4, <1>5

\* Moving a request and taking a token keep the types.
LEMMA MovesType ==
  ASSUME Typed, NEW c \in Callers, NEW at \in Stages, NEW wake \in Nat, NEW left \in Nat,
         Moves(c, at, wake, left)
  PROVE  caller' \in [Callers -> RequestState]
<1>1. [at |-> at, wake |-> wake, left |-> left] \in RequestState
  BY DEF RequestState
<1> QED BY <1>1 DEF Typed, Moves

LEMMA EndsType ==
  ASSUME Typed, NEW c \in Callers, Ends(c)
  PROVE  caller' \in [Callers -> RequestState]
<1>1. Idle \in RequestState
  BY DEF Idle, RequestState, Stages
<1> QED BY <1>1 DEF Typed, Ends

LEMMA PaceType ==
  ASSUME Typed, NEW c \in Callers, NEW g, NEW left \in Nat, Pace(c, g, left)
  PROVE  tokens' \in 0..Burst /\ caller' \in [Callers -> RequestState]
<1>1. tokens' \in 0..Burst
  BY ProviderAssumption DEF Pace, Typed
<1>2. Moves(c, "sent", 0, left) \/ Moves(c, "pacing", 0, left)
  BY DEF Pace
<1>3. {"sent", "pacing"} \subseteq Stages
  BY DEF Stages
<1> QED BY <1>1, <1>2, <1>3, MovesType

LEMMA AcquireType ==
  ASSUME Typed, NEW c \in Callers, NEW g, NEW left \in Nat, Acquire(c, g, left)
  PROVE  tokens' \in 0..Burst /\ caller' \in [Callers -> RequestState]
<1>1. CASE Pace(c, [g EXCEPT !.free = @ - 1], left)
  BY <1>1, PaceType
<1>2. CASE Moves(c, "queued", 0, left) /\ UNCHANGED tokens
  <2>1. "queued" \in Stages
    BY DEF Stages
  <2> QED BY <1>2, <2>1, MovesType DEF Typed
<1> QED BY <1>1, <1>2 DEF Acquire

\* Admission leaves a probing host where it was, but for the probe.
LEMMA AdmitType ==
  ASSUME Typed, NEW c \in Callers, NEW h \in HostRecord, NEW g, NEW left \in Nat,
         Admit(c, h, g, left)
  PROVE  /\ host' \in HostRecord
         /\ host' = [h EXCEPT !.probe = HalfOpen(h) \/ @]
         /\ tokens' \in 0..Burst /\ caller' \in [Callers -> RequestState]
         /\ admitted' \in 0..2
<1>1. host' = [h EXCEPT !.probe = HalfOpen(h) \/ @]
  <2>1. CASE HalfOpen(h)
    <3>1. host' = [h EXCEPT !.probe = TRUE] /\ (HalfOpen(h) \/ h.probe) = TRUE
      BY <2>1 DEF Admit, Probing
    <3> QED BY <2>1, <3>1
  <2>2. CASE ~HalfOpen(h)
    <3>1. host' = h
      BY <2>2 DEF Admit, Probing
    <3>2. (HalfOpen(h) \/ h.probe) = h.probe
      BY <2>2 DEF HostRecord
    <3> QED BY <2>2, <3>1, <3>2 DEF HostRecord
  <2> QED BY <2>1, <2>2
<1>2. host' \in HostRecord
  BY <1>1 DEF HostRecord, HalfOpen
<1>3. CASE Refused(h, g)
  <2>1. Ends(c) /\ UNCHANGED <<tokens, admitted>>
    BY <1>3 DEF Admit
  <2> QED BY <1>1, <1>2, <2>1, EndsType DEF Typed
<1>4. CASE ~Refused(h, g)
  <2> DEFINE in == [g EXCEPT !.waiting = @ + 1]
  <2>1. /\ admitted' = Capped(admitted + (IF HalfOpen(h) THEN 1 ELSE 0), 2)
        /\ \/ h.cooldown > 0 /\ Moves(c, "cooling", h.cooldown, left) /\ UNCHANGED tokens
           \/ Acquire(c, in, left)
    BY <1>4 DEF Admit
  <2>2. admitted' \in 0..2
    <3>1. admitted + (IF HalfOpen(h) THEN 1 ELSE 0) \in Nat
      BY DEF Typed
    <3> QED BY <2>1, <3>1, CappedIs
  <2>3. h.cooldown \in Nat /\ "cooling" \in Stages
    BY ProviderAssumption DEF HostRecord, Stages
  <2>4. tokens' \in 0..Burst /\ caller' \in [Callers -> RequestState]
    BY <2>1, <2>3, MovesType, AcquireType DEF Typed
  <2> QED BY <1>1, <1>2, <2>2, <2>4
<1> QED BY <1>3, <1>4

LEMMA CountsType == ASSUME Typed, Counts PROVE admitted' \in 0..2
BY DEF Typed, Counts

LEMMA TypedInit == Init => Typed
<1> SUFFICES ASSUME Init PROVE Typed
  OBVIOUS
<1>1. host \in HostRecord
  BY ProviderAssumption DEF Init, HostRecord
<1>2. Idle \in RequestState
  BY DEF Idle, RequestState, Stages
<1> QED BY <1>1, <1>2, ProviderAssumption DEF Init, Typed

LEMMA TypedStep == ASSUME Typed, [Next]_vars PROVE Typed'
<1>1. ASSUME NEW c \in Callers, Call(c) PROVE Typed'
  <2>1. PICK r \in Retries : Admit(c, host, gate, r)
    BY <1>1 DEF Call
  <2>2. calls' \in 0..MaxCalls
    BY <1>1, ProviderAssumption DEF Call, Typed
  <2>3. host \in HostRecord /\ r \in Nat
    BY ProviderAssumption DEF Typed
  <2> QED BY <2>1, <2>2, <2>3, AdmitType DEF Typed
<1>2. ASSUME NEW c \in Callers, Cooled(c) \/ GetPermit(c) \/ GetToken(c) PROVE Typed'
  <2>1. caller[c].left \in Nat
    BY DEF Typed, RequestState
  <2>2. Acquire(c, gate, caller[c].left) \/ Pace(c, gate, caller[c].left)
    BY <1>2 DEF Cooled, GetPermit, GetToken
  <2>3. UNCHANGED <<host, calls, admitted>>
    BY <1>2 DEF Cooled, GetPermit, GetToken
  <2> QED BY <2>1, <2>2, <2>3, AcquireType, PaceType DEF Typed
<1>3. ASSUME NEW c \in Callers, Retry(c) PROVE Typed'
  <2>1. caller[c].left \in Nat /\ host \in HostRecord
    BY DEF Typed, RequestState
  <2>2. Admit(c, host, gate, caller[c].left) /\ UNCHANGED calls
    BY <1>3 DEF Retry
  <2> QED BY <2>1, <2>2, AdmitType DEF Typed
<1>4. ASSUME NEW c \in Callers, Succeed(c) \/ ClientError(c) \/ Malformed(c) PROVE Typed'
  <2>1. host' \in {host, OnSuccess(host), OnFailure(host)} /\ Ends(c) /\ UNCHANGED <<tokens, calls>>
    BY <1>4 DEF Succeed, ClientError, Malformed
  <2>2. host' \in HostRecord
    BY <2>1, SuccessType, FailureType DEF Typed
  <2>3. Counts \/ UNCHANGED admitted
    BY <1>4 DEF Succeed, ClientError, Malformed
  <2> QED BY <2>1, <2>2, <2>3, EndsType, CountsType DEF Typed
<1>5. ASSUME NEW c \in Callers, Fail(c) PROVE Typed'
  <2>1. host' = OnFailure(host) /\ UNCHANGED <<tokens, calls>> /\ Counts
    BY <1>5 DEF Fail
  <2>2. \/ Ends(c)
        \/ \E d \in BackoffDelays : caller[c].left > 0 /\ Moves(c, "backoff", d, caller[c].left - 1)
    BY <1>5 DEF Fail
  <2>3. /\ "backoff" \in Stages /\ BackoffDelays \subseteq Nat
        /\ caller[c].left > 0 => caller[c].left - 1 \in Nat
    BY ProviderAssumption DEF Typed, RequestState, Stages
  <2>4. caller' \in [Callers -> RequestState]
    BY <2>2, <2>3, EndsType, MovesType
  <2> QED BY <2>1, <2>4, FailureType, CountsType DEF Typed
<1>6. ASSUME NEW c \in Callers, NEW header \in RetryAfters, RateLimit(c, header) PROVE Typed'
  <2>1. PICK d \in Cooldowns(host, header) :
           LET h == OnRateLimited(host, d) IN
           \/ caller[c].left > 0 /\ Admit(c, h, Release(gate), caller[c].left - 1)
           \/ host' = h /\ Ends(c) /\ UNCHANGED <<tokens, admitted>>
    BY <1>6 DEF RateLimit
  <2>2. OnRateLimited(host, d) \in HostRecord
    BY CooldownType, LimitedType DEF Typed
  <2>3. UNCHANGED calls
    BY <1>6 DEF RateLimit
  <2>4. caller[c].left > 0 => caller[c].left - 1 \in Nat
    BY DEF Typed, RequestState
  <2> QED BY <2>1, <2>2, <2>3, <2>4, AdmitType, EndsType DEF Typed
<1>7. CASE Tick
  <2>1. host' = [host EXCEPT !.cooldown = Max({@ - 1, 0}), !.open = Max({@ - 1, 0})]
    BY <1>7 DEF Tick
  <2>2. Max({host.cooldown - 1, 0}) \in 0..CooldownMax /\ Max({host.open - 1, 0}) \in 0..OpenMax
    <3>1. host.cooldown - 1 \in Int /\ host.open - 1 \in Int
      BY ProviderAssumption DEF Typed, HostRecord
    <3> QED BY <3>1, LargerOf, ProviderAssumption DEF Typed, HostRecord
  <2>3. host' \in HostRecord
    BY <2>1, <2>2 DEF Typed, HostRecord
  <2>4. tokens' \in 0..Burst
    <3>1. tokens + 1 \in Int /\ Burst \in Nat /\ tokens' = Capped(tokens + 1, Burst)
      BY <1>7, ProviderAssumption DEF Tick, Typed
    <3> QED BY <3>1, CappedIs DEF Typed
  <2>5. \A c \in Callers : Max({caller[c].wake - 1, 0}) \in Nat
    <3>1. \A c \in Callers : caller[c].wake - 1 \in Int
      BY DEF Typed, RequestState
    <3> QED BY <3>1, LargerOf
  <2>6. caller' \in [Callers -> RequestState]
    BY <1>7, <2>5 DEF Tick, Typed, RequestState
  <2> QED BY <1>7, <2>3, <2>4, <2>6 DEF Tick, Typed
<1>8. CASE UNCHANGED vars
  BY <1>8 DEF vars, Typed
<1> QED BY <1>1, <1>2, <1>3, <1>4, <1>5, <1>6, <1>7, <1>8 DEF Next, Proceed, Answer

----------------------------------------------------------------------------
(* Every permit is somebody's *)

\* Who holds a permit when q is the queue for one.
HoldersOf(q) ==
    {c \in Callers : \/ caller[c].at = "queued" /\ c \notin Range(q)
                     \/ caller[c].at \in {"pacing", "sent"}}

GateRecord == [free : Nat, queue : Seq(Callers), waiting : Int]

WellQueued(g) ==
    /\ g \in GateRecord
    /\ IsInjective(g.queue)
    /\ g.queue # <<>> => g.free = 0

\* The gate g accounts for every request but that of caller c, which holds p permits and
\* is counted w times among the waiting.  Holds half-way through a step that moves c.
Accounts(c, g, p, w) ==
    /\ WellQueued(g)
    /\ \A d \in Range(g.queue) : d # c /\ caller[d].at = "queued"
    /\ g.free + p + Cardinality(HoldersOf(g.queue) \ {c}) = MaxConcurrent
    /\ g.waiting = w + Cardinality(Waiting \ {c})

\* PermitsConserved with what makes it inductive: who queues is queued.
Accounted ==
    /\ WellQueued(gate)
    /\ \A d \in Range(gate.queue) : caller[d].at = "queued"
    /\ gate.free + Cardinality(HoldersOf(gate.queue)) = MaxConcurrent
    /\ gate.waiting = Cardinality(Waiting)

LEMMA FiniteCrowds ==
  ASSUME IsFiniteSet(Callers), NEW S \in SUBSET Callers, NEW c
  PROVE  /\ IsFiniteSet(S) /\ IsFiniteSet(S \ {c})
         /\ Cardinality(S) \in Nat /\ Cardinality(S \ {c}) \in Nat
         /\ Cardinality(S) = Cardinality(S \ {c}) + (IF c \in S THEN 1 ELSE 0)
<1>1. IsFiniteSet(S)
  BY FS_Subset
<1>2. /\ IsFiniteSet(S \ {c})
      /\ Cardinality(S \ {c}) = IF c \in S THEN Cardinality(S) - 1 ELSE Cardinality(S)
  BY <1>1, FS_RemoveElement
<1>3. Cardinality(S) \in Nat /\ Cardinality(S \ {c}) \in Nat
  BY <1>1, <1>2, FS_CardinalityType
<1> QED BY <1>1, <1>2, <1>3

\* What a caller's place says about the permits and the waiting it accounts for.
LEMMA AccountOf ==
  ASSUME IsFiniteSet(Callers), Typed, Accounted, NEW c \in Callers
  PROVE  /\ caller[c].at \in {"idle", "backoff"} => Accounts(c, gate, 0, 0)
         /\ caller[c].at = "cooling" => Accounts(c, gate, 0, 1)
         /\ Granted(c) \/ caller[c].at = "pacing" => Accounts(c, gate, 1, 1)
         /\ caller[c].at = "sent" => Accounts(c, gate, 1, 0)
<1> DEFINE H == HoldersOf(gate.queue)
<1>1. H \subseteq Callers /\ Waiting \subseteq Callers
  BY DEF HoldersOf, Waiting
<1>2. Cardinality(H) = Cardinality(H \ {c}) + (IF c \in H THEN 1 ELSE 0)
      /\ Cardinality(H \ {c}) \in Nat
  BY <1>1, FiniteCrowds
<1>3. Cardinality(Waiting) = Cardinality(Waiting \ {c}) + (IF c \in Waiting THEN 1 ELSE 0)
      /\ Cardinality(Waiting \ {c}) \in Nat
  BY <1>1, FiniteCrowds
<1>4. gate.free \in Nat /\ MaxConcurrent \in Nat
  BY ProviderAssumption DEF Accounted, WellQueued, GateRecord
<1>5. ASSUME NEW p \in {0, 1}, NEW w \in {0, 1}, c \in H <=> p = 1, c \in Waiting <=> w = 1,
             c \notin Range(gate.queue)
      PROVE  Accounts(c, gate, p, w)
  <2>1. gate.free + p + Cardinality(H \ {c}) = MaxConcurrent
    BY <1>2, <1>4, <1>5 DEF Accounted
  <2>2. gate.waiting = w + Cardinality(Waiting \ {c})
    BY <1>3, <1>5 DEF Accounted
  <2> QED BY <1>5, <2>1, <2>2 DEF Accounts, Accounted
<1>6. caller[c].at # "queued" => c \notin Range(gate.queue)
  BY DEF Accounted
<1>7. ASSUME caller[c].at \in {"idle", "backoff"} PROVE Accounts(c, gate, 0, 0)
  <2>1. c \notin H /\ c \notin Waiting
    BY <1>7 DEF HoldersOf, Waiting
  <2> QED BY <1>5, <1>6, <1>7, <2>1
<1>8. ASSUME caller[c].at = "cooling" PROVE Accounts(c, gate, 0, 1)
  <2>1. c \notin H /\ c \in Waiting
    BY <1>8 DEF HoldersOf, Waiting
  <2> QED BY <1>5, <1>6, <1>8, <2>1
<1>9. ASSUME Granted(c) \/ caller[c].at = "pacing" PROVE Accounts(c, gate, 1, 1)
  <2>1. c \in H /\ c \in Waiting /\ c \notin Range(gate.queue)
    BY <1>6, <1>9 DEF HoldersOf, Waiting, Granted
  <2> QED BY <1>5, <2>1
<1>10. ASSUME caller[c].at = "sent" PROVE Accounts(c, gate, 1, 0)
  <2>1. c \in H /\ c \notin Waiting
    BY <1>10 DEF HoldersOf, Waiting
  <2> QED BY <1>5, <1>6, <1>10, <2>1
<1> QED BY <1>7, <1>8, <1>9, <1>10

\* A permit given back is free, or the next in the queue holds it.
LEMMA ReleaseAccounts ==
  ASSUME IsFiniteSet(Callers), NEW c \in Callers, NEW g \in GateRecord, Accounts(c, g, 1, 0)
  PROVE  Accounts(c, Release(g), 0, 0)
         /\ Release(g) \in GateRecord
<1>1. CASE g.queue = <<>>
  <2>1. /\ Release(g) = [g EXCEPT !.free = @ + 1]
        /\ Release(g) \in GateRecord
        /\ Release(g).free = g.free + 1 /\ Release(g).queue = g.queue
        /\ Release(g).waiting = g.waiting
    BY <1>1 DEF Release, GateRecord
  <2>2. Cardinality(HoldersOf(g.queue) \ {c}) \in Nat
    <3>1. HoldersOf(g.queue) \subseteq Callers
      BY DEF HoldersOf
    <3> QED BY <3>1, FiniteCrowds
  <2>3. Release(g).free + 0 + Cardinality(HoldersOf(g.queue) \ {c}) = MaxConcurrent
    <3>1. g.free + 1 + Cardinality(HoldersOf(g.queue) \ {c}) = MaxConcurrent /\ g.free \in Nat
      BY DEF Accounts, GateRecord
    <3> QED BY <2>1, <2>2, <3>1
  <2>4. WellQueued(Release(g))
    BY <1>1, <2>1 DEF Accounts, WellQueued
  <2>5. \A d \in Range(Release(g).queue) : d # c /\ caller[d].at = "queued"
    BY <2>1 DEF Accounts
  <2>6. Release(g).waiting = 0 + Cardinality(Waiting \ {c})
    BY <2>1 DEF Accounts
  <2>7. Release(g).free + 0 + Cardinality(HoldersOf(Release(g).queue) \ {c}) = MaxConcurrent
    BY <2>1, <2>3
  <2> QED BY <2>1, <2>4, <2>5, <2>6, <2>7 DEF Accounts
<1>2. CASE g.queue # <<>>
  <2> DEFINE q == g.queue
             next == Head(q)
             r == Tail(q)
  <2>1. /\ Release(g) = [g EXCEPT !.queue = r]
        /\ Release(g).free = g.free /\ Release(g).queue = r /\ Release(g).waiting = g.waiting
    BY <1>2 DEF Release, GateRecord
  <2>2. /\ q \in Seq(Callers) /\ r \in Seq(Callers) /\ next \in Callers
        /\ Len(r) + 1 = Len(q) /\ next = q[1] /\ \A i \in 1..Len(r) : r[i] = q[i + 1]
    BY <1>2 DEF GateRecord
  <2>3. Release(g) \in GateRecord
    BY <2>1, <2>2 DEF GateRecord
  <2>4. IsInjective(q) /\ g.free = 0 /\ \A d \in Range(q) : d # c /\ caller[d].at = "queued"
    BY <1>2 DEF Accounts, WellQueued
  <2> HIDE DEF r, next, q
  <2>5. /\ DOMAIN q = 1..Len(q) /\ DOMAIN r = 1..Len(r) /\ Len(r) \in Nat
    BY <2>2
  <2>6. IsInjective(r)
    <3>1. ASSUME NEW i \in 1..Len(r), NEW j \in 1..Len(r), r[i] = r[j] PROVE i = j
      <4>1. i + 1 \in 1..Len(q) /\ j + 1 \in 1..Len(q) /\ q[i + 1] = q[j + 1]
        BY <2>2, <2>5, <3>1
      <4>2. i + 1 = j + 1
        BY <2>4, <2>5, <4>1 DEF IsInjective
      <4> QED BY <4>2
    <3> QED BY <2>5, <3>1 DEF IsInjective
  <2>7. Range(q) = Range(r) \cup {next}
    <3>1. ASSUME NEW i \in 1..Len(q) PROVE q[i] = next \/ \E j \in 1..Len(r) : q[i] = r[j]
      <4>1. i = 1 \/ (i - 1 \in 1..Len(r) /\ r[i - 1] = q[i])
        BY <2>2, <2>5
      <4> QED BY <2>2, <4>1
    <3>2. ASSUME NEW j \in 1..Len(r) PROVE j + 1 \in 1..Len(q) /\ r[j] = q[j + 1]
      BY <2>2, <2>5
    <3>3. 1 \in 1..Len(q)
      BY <2>2, <2>5
    <3>4. Range(q) \subseteq Range(r) \cup {next}
      BY <2>5, <3>1 DEF Range
    <3>5. next \in Range(q)
      BY <2>2, <2>5, <3>3 DEF Range
    <3>6. Range(r) \subseteq Range(q)
      BY <2>5, <3>2 DEF Range
    <3> QED BY <3>4, <3>5, <3>6
  <2>8. next \notin Range(r)
    <3>1. ASSUME NEW j \in 1..Len(r), r[j] = next PROVE FALSE
      <4>1. j + 1 \in 1..Len(q) /\ 1 \in 1..Len(q) /\ q[j + 1] = q[1]
        BY <2>2, <2>5, <3>1
      <4>2. j + 1 = 1
        BY <2>4, <2>5, <4>1 DEF IsInjective
      <4> QED BY <4>2
    <3> QED BY <2>5, <3>1 DEF Range
  <2>9. /\ HoldersOf(r) = HoldersOf(q) \cup {next} /\ next \notin HoldersOf(q) /\ next # c
    <3>1. caller[next].at = "queued" /\ next # c /\ next \in Callers
      BY <2>2, <2>4, <2>7
    <3> QED BY <2>7, <2>8, <3>1 DEF HoldersOf
  <2>10. HoldersOf(q) \subseteq Callers
    BY DEF HoldersOf
  <2>11. IsFiniteSet(HoldersOf(q) \ {c}) /\ Cardinality(HoldersOf(q) \ {c}) \in Nat
    BY <2>10, FiniteCrowds
  <2>12. HoldersOf(r) \ {c} = (HoldersOf(q) \ {c}) \cup {next} /\ next \notin HoldersOf(q) \ {c}
    BY <2>9
  <2>13. Cardinality(HoldersOf(r) \ {c}) = Cardinality(HoldersOf(q) \ {c}) + 1
    BY <2>11, <2>12, FS_AddElement
  <2>14. g.free + 1 + Cardinality(HoldersOf(q) \ {c}) = MaxConcurrent
    BY DEF Accounts, q
  <2>15. g.free + 0 + Cardinality(HoldersOf(r) \ {c}) = MaxConcurrent
    BY <2>4, <2>11, <2>13, <2>14
  <2>16. \A d \in Range(r) : d # c /\ caller[d].at = "queued"
    BY <2>4, <2>7
  <2> QED BY <2>1, <2>2, <2>3, <2>4, <2>6, <2>15, <2>16 DEF Accounts, WellQueued
<1> QED BY <1>1, <1>2

\* Caller c comes to stage at, and nobody else moves.
Comes(c, at) == caller'[c].at = at /\ \A d \in Callers \ {c} : caller'[d].at = caller[d].at

LEMMA MovesComes ==
  ASSUME Typed, NEW c \in Callers, NEW at, NEW wake, NEW left
  PROVE  /\ Moves(c, at, wake, left) => Comes(c, at)
         /\ Ends(c) => Comes(c, "idle")
BY DEF Typed, Moves, Ends, Comes, Idle

\* A caller that comes to a stage with what it is accounted for makes the account whole.
LEMMA Settles ==
  ASSUME IsFiniteSet(Callers), NEW c \in Callers, NEW at \in Stages \ {"queued"},
         NEW p \in {0, 1}, NEW w \in {0, 1},
         p = 1 <=> at \in {"pacing", "sent"}, w = 1 <=> at \in {"cooling", "pacing"},
         Accounts(c, gate', p, w), Comes(c, at)
  PROVE  Accounted'
<1> DEFINE H == HoldersOf(gate'.queue) \ {c}
           W == Waiting \ {c}
<1>1. /\ HoldersOf(gate.queue)' \subseteq Callers /\ Waiting' \subseteq Callers
      /\ H \subseteq Callers /\ W \subseteq Callers
  BY DEF HoldersOf, Waiting
<1>2. c \notin Range(gate'.queue)
  BY DEF Accounts
<1>3. HoldersOf(gate.queue)' \ {c} = H /\ (c \in HoldersOf(gate.queue)' <=> p = 1)
  BY <1>2 DEF HoldersOf, Comes
<1>4. Waiting' \ {c} = W /\ (c \in Waiting' <=> w = 1)
  BY DEF Waiting, Comes
<1>5. Cardinality(HoldersOf(gate.queue)') = Cardinality(H) + p /\ Cardinality(H) \in Nat
  <2> DEFINE K == HoldersOf(gate.queue)'
  <2>1. K \subseteq Callers /\ K \ {c} = H /\ (c \in K <=> p = 1)
    BY <1>1, <1>3
  <2> HIDE DEF K, H
  <2>2. /\ Cardinality(K) = Cardinality(K \ {c}) + (IF c \in K THEN 1 ELSE 0)
        /\ Cardinality(K \ {c}) \in Nat
    BY <2>1, FiniteCrowds
  <2>3. Cardinality(K) = Cardinality(H) + p /\ Cardinality(H) \in Nat
    BY <2>1, <2>2
  <2> QED BY <2>3 DEF K
<1>6. Cardinality(Waiting') = Cardinality(W) + w /\ Cardinality(W) \in Nat
  <2> DEFINE K == Waiting'
  <2>1. K \subseteq Callers /\ K \ {c} = W /\ (c \in K <=> w = 1)
    BY <1>1, <1>4
  <2> HIDE DEF K, W
  <2>2. /\ Cardinality(K) = Cardinality(K \ {c}) + (IF c \in K THEN 1 ELSE 0)
        /\ Cardinality(K \ {c}) \in Nat
    BY <2>1, FiniteCrowds
  <2>3. Cardinality(K) = Cardinality(W) + w /\ Cardinality(W) \in Nat
    BY <2>1, <2>2
  <2> QED BY <2>3 DEF K
<1>7. gate'.free + p + Cardinality(H) = MaxConcurrent /\ gate'.free \in Nat
  BY DEF Accounts, WellQueued, GateRecord
<1>8. gate'.free + Cardinality(HoldersOf(gate.queue)') = MaxConcurrent
  BY <1>5, <1>7
<1>9. gate'.waiting = Cardinality(Waiting')
  BY <1>6 DEF Accounts
<1>10. \A d \in Range(gate'.queue) : caller'[d].at = "queued"
  <2>1. Range(gate'.queue) \subseteq Callers
    BY DEF Accounts, WellQueued, GateRecord, Range
  <2> QED BY <2>1 DEF Accounts, Comes
<1>11. WellQueued(gate')
  BY DEF Accounts
<1> QED BY <1>8, <1>9, <1>10, <1>11 DEF Accounted, WellQueued

\* Whoever finds no free permit, or others waiting for one, is queued behind them.
LEMMA Queues ==
  ASSUME IsFiniteSet(Callers), NEW c \in Callers, NEW g, Accounts(c, g, 0, 1),
         ~(g.free > 0 /\ g.queue = <<>>),
         gate' = [g EXCEPT !.queue = Append(@, c)], Comes(c, "queued")
  PROVE  Accounted'
<1> DEFINE q == g.queue
           r == Append(q, c)
<1>1. /\ g \in GateRecord /\ g.free \in Nat /\ q \in Seq(Callers) /\ g.free = 0
      /\ IsInjective(q) /\ c \notin Range(q)
  BY DEF Accounts, WellQueued, GateRecord
<1>2. /\ gate' \in GateRecord /\ gate'.free = g.free /\ gate'.queue = r
      /\ gate'.waiting = g.waiting
  BY SMTT(30), <1>1 DEF GateRecord
<1>3. /\ DOMAIN q = 1..Len(q) /\ DOMAIN r = 1..(Len(q) + 1) /\ Len(q) \in Nat
      /\ r[Len(q) + 1] = c /\ \A i \in 1..Len(q) : r[i] = q[i]
  BY <1>1
<1> HIDE DEF r, q
<1>4. Range(r) = Range(q) \cup {c}
  <2>1. \A i \in DOMAIN r : i \in DOMAIN q \/ i = Len(q) + 1
    BY <1>3
  <2>2. \A i \in DOMAIN q : i \in DOMAIN r /\ r[i] = q[i]
    BY <1>3
  <2>3. Len(q) + 1 \in DOMAIN r
    BY <1>3
  <2>4. Range(r) \subseteq Range(q) \cup {c}
    BY <1>3, <2>1, <2>2 DEF Range
  <2>5. Range(q) \subseteq Range(r) /\ c \in Range(r)
    BY <1>3, <2>2, <2>3 DEF Range
  <2> QED BY <2>4, <2>5
<1>5. IsInjective(r)
  <2>1. \A i \in DOMAIN q : q[i] # c
    BY <1>1 DEF Range
  <2>2. \A i \in DOMAIN r : (i \in DOMAIN q /\ r[i] = q[i]) \/ (i = Len(q) + 1 /\ r[i] = c)
    BY <1>3
  <2> QED BY <1>1, <2>1, <2>2 DEF IsInjective
<1> DEFINE H == HoldersOf(q) \ {c}
           W == Waiting \ {c}
<1>6. /\ H \subseteq Callers /\ Waiting' \subseteq Callers /\ W \subseteq Callers
  BY DEF HoldersOf, Waiting
<1>7. HoldersOf(gate.queue)' = H
  BY <1>2, <1>4 DEF HoldersOf, Comes
<1>8. Waiting' \ {c} = W /\ c \in Waiting'
  BY DEF Waiting, Comes
<1>9. Cardinality(H) \in Nat /\ Cardinality(Waiting') = Cardinality(W) + 1
      /\ Cardinality(W) \in Nat
  BY <1>6, <1>8, FiniteCrowds
<1>10. gate'.free + Cardinality(HoldersOf(gate.queue)') = MaxConcurrent
  <2>1. g.free + 0 + Cardinality(H) = MaxConcurrent
    BY DEF Accounts, q
  <2>2. Cardinality(HoldersOf(gate.queue)') = Cardinality(H)
    BY <1>7
  <2> QED BY <1>1, <1>2, <1>9, <2>1, <2>2
<1>11. gate'.waiting = Cardinality(Waiting')
  <2>1. g.waiting = 1 + Cardinality(W)
    BY DEF Accounts
  <2> QED BY <1>2, <1>9, <2>1
<1>12. \A d \in Range(gate'.queue) : caller'[d].at = "queued"
  <2>1. Range(q) \subseteq Callers
    BY <1>1, <1>3 DEF Range
  <2>2. \A d \in Range(q) : d # c /\ caller[d].at = "queued"
    BY DEF Accounts, q
  <2> QED BY <1>2, <1>4, <2>1, <2>2 DEF Comes
<1>13. WellQueued(gate')
  BY <1>1, <1>2, <1>5 DEF WellQueued
<1> QED BY <1>10, <1>11, <1>12, <1>13 DEF Accounted, WellQueued

\* Changing what is free and counted, with the permits and the waiting of c to match.
LEMMA Recounts ==
  ASSUME IsFiniteSet(Callers), NEW c, NEW g, NEW p \in {0, 1}, NEW w \in {0, 1},
         Accounts(c, g, p, w)
  PROVE  /\ w = 1 => Accounts(c, [g EXCEPT !.waiting = @ - 1], p, 0)
         /\ w = 0 => Accounts(c, [g EXCEPT !.waiting = @ + 1], p, 1)
         /\ p = 0 /\ g.free > 0 /\ g.queue = <<>>
              => Accounts(c, [g EXCEPT !.free = @ - 1], 1, w)
<1>1. g \in GateRecord
  BY DEF Accounts, WellQueued
<1>2. ASSUME NEW n \in Int, NEW v \in {0, 1}, n - v = g.waiting - w
      PROVE  Accounts(c, [g EXCEPT !.waiting = n], p, v)
  <2> DEFINE f == [g EXCEPT !.waiting = n]
  <2>1. f \in GateRecord /\ f.free = g.free /\ f.queue = g.queue /\ f.waiting = n
    BY <1>1 DEF GateRecord
  <2> HIDE DEF f
  <2>2. WellQueued(f)
    BY <2>1 DEF Accounts, WellQueued
  <2>3. f.free + p + Cardinality(HoldersOf(f.queue) \ {c}) = MaxConcurrent
    BY <2>1 DEF Accounts
  <2>4. n = v + Cardinality(Waiting \ {c})
    <3>1. g.waiting = w + Cardinality(Waiting \ {c}) /\ g.waiting \in Int
      BY <1>1 DEF Accounts, GateRecord
    <3>2. Waiting \subseteq Callers
      BY DEF Waiting
    <3>3. Cardinality(Waiting \ {c}) \in Nat
      BY <3>2, FiniteCrowds
    <3> QED BY <1>2, <3>1, <3>3
  <2>5. \A d \in Range(f.queue) : d # c /\ caller[d].at = "queued"
    BY <2>1 DEF Accounts
  <2>6. Accounts(c, f, p, v)
    BY <2>1, <2>2, <2>3, <2>4, <2>5 DEF Accounts
  <2> QED BY <2>6 DEF f
<1>3. g.waiting \in Int /\ g.free \in Nat
  BY <1>1 DEF GateRecord
<1>4. w = 1 => Accounts(c, [g EXCEPT !.waiting = @ - 1], p, 0)
  BY <1>2, <1>3
<1>5. w = 0 => Accounts(c, [g EXCEPT !.waiting = @ + 1], p, 1)
  <2> DEFINE n == g.waiting + 1
  <2>1. n \in Int /\ (w = 0 => n - 1 = g.waiting - w)
    BY <1>3
  <2> HIDE DEF n
  <2>2. w = 0 => Accounts(c, [g EXCEPT !.waiting = n], p, 1)
    BY <1>2, <2>1
  <2> QED BY <2>2 DEF n
<1>6. ASSUME p = 0, g.free > 0, g.queue = <<>>
      PROVE  Accounts(c, [g EXCEPT !.free = @ - 1], 1, w)
  <2> DEFINE f == [g EXCEPT !.free = @ - 1]
  <2>1. /\ f \in GateRecord /\ f.free = g.free - 1 /\ f.queue = g.queue
        /\ f.waiting = g.waiting
    BY <1>1, <1>6 DEF GateRecord
  <2> HIDE DEF f
  <2>2. f.free + 1 = g.free + p
    BY <1>3, <1>6, <2>1
  <2>3. f.free + 1 + Cardinality(HoldersOf(f.queue) \ {c}) = MaxConcurrent
    BY <2>1, <2>2 DEF Accounts
  <2>4. WellQueued(f)
    BY <1>6, <2>1 DEF Accounts, WellQueued
  <2>5. \A d \in Range(f.queue) : d # c /\ caller[d].at = "queued"
    BY <2>1 DEF Accounts
  <2>6. Accounts(c, f, 1, w)
    BY <2>1, <2>3, <2>4, <2>5 DEF Accounts
  <2> QED BY <2>6 DEF f
<1> QED BY <1>4, <1>5, <1>6

LEMMA PaceAccounts ==
  ASSUME IsFiniteSet(Callers), Typed, NEW c \in Callers, NEW g, NEW left,
         Accounts(c, g, 1, 1), Pace(c, g, left)
  PROVE  Accounted'
<1>1. CASE tokens > 0
  <2>1. Comes(c, "sent") /\ gate' = [g EXCEPT !.waiting = @ - 1]
    BY <1>1, MovesComes DEF Pace
  <2>2. Accounts(c, gate', 1, 0)
    BY <2>1, Recounts
  <2>3. "sent" \in Stages \ {"queued"}
    BY DEF Stages
  <2> QED BY <2>1, <2>2, <2>3, Settles
<1>2. CASE ~(tokens > 0)
  <2>1. Comes(c, "pacing") /\ gate' = g
    BY <1>2, MovesComes DEF Pace
  <2>2. Accounts(c, gate', 1, 1)
    BY <2>1
  <2>3. "pacing" \in Stages \ {"queued"}
    BY DEF Stages
  <2> QED BY <2>1, <2>2, <2>3, Settles
<1> QED BY <1>1, <1>2

LEMMA AcquireAccounts ==
  ASSUME IsFiniteSet(Callers), Typed, NEW c \in Callers, NEW g, NEW left,
         Accounts(c, g, 0, 1), Acquire(c, g, left)
  PROVE  Accounted'
<1>1. CASE g.free > 0 /\ g.queue = <<>>
  <2>1. Accounts(c, [g EXCEPT !.free = @ - 1], 1, 1)
    BY <1>1, Recounts
  <2>2. Pace(c, [g EXCEPT !.free = @ - 1], left)
    BY <1>1 DEF Acquire
  <2> QED BY <2>1, <2>2, PaceAccounts
<1>2. CASE ~(g.free > 0 /\ g.queue = <<>>)
  <2>1. Comes(c, "queued") /\ gate' = [g EXCEPT !.queue = Append(@, c)]
    BY <1>2, MovesComes DEF Acquire
  <2> QED BY <1>2, <2>1, Queues
<1> QED BY <1>1, <1>2

\* A request that ends or backs off is accounted for by nothing.
LEMMA LeavesAccounts ==
  ASSUME IsFiniteSet(Callers), NEW c \in Callers, NEW at \in {"idle", "backoff"},
         Accounts(c, gate', 0, 0), Comes(c, at)
  PROVE  Accounted'
<1>1. at \in Stages \ {"queued"}
  BY DEF Stages
<1> QED BY <1>1, Settles

LEMMA AdmitAccounts ==
  ASSUME IsFiniteSet(Callers), Typed, NEW c \in Callers, NEW h, NEW g, NEW left,
         Accounts(c, g, 0, 0), Admit(c, h, g, left)
  PROVE  Accounted'
<1>1. CASE Refused(h, g)
  <2>1. Comes(c, "idle") /\ gate' = g
    BY <1>1, MovesComes DEF Admit
  <2>2. Accounts(c, gate', 0, 0)
    BY <2>1
  <2> QED BY <2>1, <2>2, LeavesAccounts
<1>2. CASE ~Refused(h, g)
  <2> DEFINE in == [g EXCEPT !.waiting = @ + 1]
  <2>1. Accounts(c, in, 0, 1)
    BY Recounts
  <2>2. \/ Moves(c, "cooling", h.cooldown, left) /\ gate' = in
        \/ Acquire(c, in, left)
    BY <1>2 DEF Admit
  <2> HIDE DEF in
  <2>3. CASE Moves(c, "cooling", h.cooldown, left) /\ gate' = in
    <3>1. Comes(c, "cooling") /\ "cooling" \in Stages \ {"queued"}
      BY <2>3, MovesComes DEF Stages
    <3>2. Accounts(c, gate', 0, 1)
      BY <2>1, <2>3
    <3> QED BY <3>1, <3>2, Settles
  <2>4. CASE Acquire(c, in, left)
    BY <2>1, <2>4, AcquireAccounts
  <2> QED BY <2>2, <2>3, <2>4
<1> QED BY <1>1, <1>2

LEMMA AccountedInit == ASSUME IsFiniteSet(Callers) PROVE Init => Accounted
<1> SUFFICES ASSUME Init PROVE Accounted
  OBVIOUS
<1>1. gate \in GateRecord /\ gate.queue = <<>> /\ gate.free = MaxConcurrent /\ gate.waiting = 0
  BY ProviderAssumption DEF Init, GateRecord
<1>2. HoldersOf(gate.queue) = {} /\ Waiting = {}
  BY DEF Init, HoldersOf, Waiting, Idle
<1>3. Cardinality(HoldersOf(gate.queue)) = 0 /\ Cardinality(Waiting) = 0
  BY <1>2, FS_EmptySet
<1>4. IsInjective(gate.queue) /\ Range(gate.queue) = {}
  BY <1>1 DEF IsInjective, Range
<1>5. WellQueued(gate)
  BY <1>1, <1>4 DEF WellQueued
<1>6. gate.free + Cardinality(HoldersOf(gate.queue)) = MaxConcurrent
  BY <1>1, <1>3, ProviderAssumption
<1>7. gate.waiting = Cardinality(Waiting)
  BY <1>1, <1>3
<1> QED BY <1>4, <1>5, <1>6, <1>7 DEF Accounted

LEMMA AccountedStep ==
  ASSUME IsFiniteSet(Callers), Typed, Accounted, [Next]_vars PROVE Accounted'
<1>1. ASSUME NEW c \in Callers, Call(c) \/ Retry(c) PROVE Accounted'
  <2>1. caller[c].at \in {"idle", "backoff"} /\ \E r : Admit(c, host, gate, r)
    BY <1>1 DEF Call, Retry
  <2>2. Accounts(c, gate, 0, 0)
    BY <2>1, AccountOf
  <2> QED BY <2>1, <2>2, AdmitAccounts
<1>2. ASSUME NEW c \in Callers, Cooled(c) PROVE Accounted'
  BY <1>2, AccountOf, AcquireAccounts DEF Cooled
<1>3. ASSUME NEW c \in Callers, GetPermit(c) \/ GetToken(c) PROVE Accounted'
  BY <1>3, AccountOf, PaceAccounts DEF GetPermit, GetToken
<1>4. ASSUME NEW c \in Callers, c \in Sent
      PROVE  Accounts(c, Release(gate), 0, 0)
  <2>1. Accounts(c, gate, 1, 0)
    BY <1>4, AccountOf DEF Sent
  <2>2. gate \in GateRecord
    BY DEF Accounted, WellQueued
  <2> QED BY <2>1, <2>2, ReleaseAccounts
<1>5. ASSUME NEW c \in Callers,
             Succeed(c) \/ ClientError(c) \/ Malformed(c) \/ Fail(c)
      PROVE  Accounted'
  <2>1. c \in Sent /\ gate' = Release(gate)
    BY <1>5 DEF Succeed, ClientError, Malformed, Fail
  <2>2. Ends(c) \/ \E d, left : Moves(c, "backoff", d, left)
    BY <1>5 DEF Succeed, ClientError, Malformed, Fail
  <2>3. \E at \in {"idle", "backoff"} : Comes(c, at)
    BY <2>2, MovesComes
  <2>4. Accounts(c, gate', 0, 0)
    BY <1>4, <2>1
  <2> QED BY <2>3, <2>4, LeavesAccounts
<1>6. ASSUME NEW c \in Callers, NEW header \in RetryAfters, RateLimit(c, header) PROVE Accounted'
  <2>1. c \in Sent
    BY <1>6 DEF RateLimit
  <2>2. \/ \E h, left : Admit(c, h, Release(gate), left)
        \/ Ends(c) /\ gate' = Release(gate)
    BY <1>6 DEF RateLimit
  <2>3. CASE \E h, left : Admit(c, h, Release(gate), left)
    BY <1>4, <2>1, <2>3, AdmitAccounts
  <2>4. CASE Ends(c) /\ gate' = Release(gate)
    <3>1. Accounts(c, gate', 0, 0) /\ Comes(c, "idle")
      BY <1>4, <2>1, <2>4, MovesComes
    <3> QED BY <3>1, LeavesAccounts
  <2> QED BY <2>2, <2>3, <2>4
<1>7. ASSUME UNCHANGED gate, \A d \in Callers : caller'[d].at = caller[d].at PROVE Accounted'
  <2>1. HoldersOf(gate.queue)' = HoldersOf(gate.queue) /\ Waiting' = Waiting
    BY <1>7 DEF HoldersOf, Waiting
  <2>2. \A d \in Range(gate.queue) : d \in Callers
    BY DEF Accounted, WellQueued, GateRecord, Range
  <2>3. \A d \in Range(gate'.queue) : caller'[d].at = "queued"
    BY <1>7, <2>2 DEF Accounted
  <2>4. WellQueued(gate')
    BY <1>7 DEF Accounted
  <2>5. /\ gate'.free + Cardinality(HoldersOf(gate.queue)') = MaxConcurrent
        /\ gate'.waiting = Cardinality(Waiting')
    BY <1>7, <2>1 DEF Accounted
  <2> QED BY <2>3, <2>4, <2>5 DEF Accounted, WellQueued
<1>8. CASE Tick
  <2>1. /\ UNCHANGED gate
        /\ caller' = [c \in Callers |-> [caller[c] EXCEPT !.wake = Max({@ - 1, 0})]]
    BY <1>8 DEF Tick
  <2>2. \A d \in Callers : caller'[d].at = caller[d].at
    BY <2>1 DEF Typed, RequestState
  <2> QED BY <1>7, <2>1, <2>2
<1>9. CASE UNCHANGED vars
  BY <1>7, <1>9 DEF vars
<1> QED BY <1>1, <1>2, <1>3, <1>5, <1>6, <1>8, <1>9 DEF Next, Proceed, Answer

\* No permit of a host's semaphore is lost or handed out twice, whatever becomes of a request,
\* and `waiting` counts the requests that wait (PermitsConserved: slot(), _admit, _pace).
THEOREM PermitsKept == ASSUME IsFiniteSet(Callers) PROVE Spec => []PermitsConserved
<1>1. Init => Typed /\ Accounted
  BY TypedInit, AccountedInit
<1>2. Typed /\ Accounted /\ [Next]_vars => Typed' /\ Accounted'
  BY TypedStep, AccountedStep
<1>3. Accounted => PermitsConserved
  <2>1. {c \in Callers : Granted(c) \/ caller[c].at \in {"pacing", "sent"}}
          = HoldersOf(gate.queue)
    BY DEF Granted, HoldersOf
  <2> QED BY <2>1 DEF Accounted, WellQueued, PermitsConserved
<1> QED BY <1>1, <1>2, <1>3, PTL DEF Spec

----------------------------------------------------------------------------
(* A host that is shut is spared *)

\* A host that is up has neither an open circuit nor a probe out; one that is down has let
\* nothing through since it went down but, half open, its probe.
CircuitOf(h, n) ==
    /\ h.state # "DOWN" => h.open = 0 /\ ~h.probe
    /\ h.state = "DOWN" => n = 0 \/ (n = 1 /\ h.probe /\ h.open = 0)

\* Caller c, if it gets as far as the wire now, finds the host open.
Unshut(c) ==
    /\ host.open = 0
    /\ caller[c].at = "cooling" => host.cooldown <= caller[c].wake
    /\ caller[c].at \in {"queued", "pacing"} => host.cooldown = 0

Spared ==
    /\ CircuitOf(host, admitted)
    /\ \A c \in Waiting \ overtaken : Unshut(c)

\* What the half-open test lets through is one probe.
LEMMA AdmitCircuit ==
  ASSUME Typed, NEW c \in Callers, NEW h \in HostRecord, NEW g, NEW left \in Nat,
         CircuitOf(h, admitted), Admit(c, h, g, left)
  PROVE  CircuitOf(host, admitted)'
<1>1. host' = IF HalfOpen(h) THEN [h EXCEPT !.probe = TRUE] ELSE h
  BY DEF Admit, Probing
<1>2. host'.state = h.state /\ host'.open = h.open /\ (h.probe => host'.probe)
  BY <1>1 DEF HostRecord
<1>3. CASE h.state # "DOWN"
  <2>1. host' = h
    BY <1>1, <1>3 DEF HalfOpen
  <2> QED BY <1>3, <2>1 DEF CircuitOf
<1>4. CASE h.state = "DOWN" /\ Refused(h, g)
  <2>1. admitted' = admitted
    BY <1>4 DEF Admit
  <2> QED BY <1>2, <1>4, <2>1 DEF CircuitOf
<1>5. CASE h.state = "DOWN" /\ ~Refused(h, g)
  <2>1. h.open = 0 /\ ~h.probe
    BY <1>5, ProviderAssumption DEF Refused, HostRecord
  <2>2. HalfOpen(h) /\ admitted = 0
    BY <1>5, <2>1 DEF HalfOpen, CircuitOf
  <2>3. admitted' = Capped(0 + 1, 2)
    BY <1>5, <2>2 DEF Admit
  <2>4. admitted' = 1
    BY <2>3, CappedIs
  <2>5. host'.probe
    BY <1>1, <2>2 DEF HostRecord
  <2> QED BY <1>2, <1>5, <2>1, <2>4, <2>5 DEF CircuitOf
<1> QED BY <1>3, <1>4, <1>5

LEMMA CircuitStep ==
  ASSUME Typed, CircuitOf(host, admitted), [Next]_vars PROVE CircuitOf(host, admitted)'
<1>1. ASSUME NEW c \in Callers, Call(c) \/ Retry(c) PROVE CircuitOf(host, admitted)'
  <2>1. \E r \in Nat : Admit(c, host, gate, r)
    BY <1>1, ProviderAssumption DEF Call, Retry, Typed, RequestState
  <2>2. host \in HostRecord
    BY DEF Typed
  <2> QED BY <2>1, <2>2, AdmitCircuit
<1>2. ASSUME NEW c \in Callers, Succeed(c) PROVE CircuitOf(host, admitted)'
  <2>1. host' = OnSuccess(host)
    BY <1>2 DEF Succeed
  <2>2. host'.state = "HEALTHY" /\ host'.open = 0 /\ ~host'.probe
    BY <2>1, SuccessType DEF Typed
  <2> QED BY <2>2 DEF CircuitOf
<1>3. ASSUME NEW c \in Callers, Malformed(c) \/ Fail(c) PROVE CircuitOf(host, admitted)'
  <2>1. host' = OnFailure(host) /\ Counts
    BY <1>3 DEF Malformed, Fail
  <2>2. host'.open \in Nat /\ host.open \in Nat
    BY <2>1, FailureType, ProviderAssumption DEF Typed, HostRecord
  <2>3. CASE host'.state = "DOWN" /\ host'.open > 0 /\ ~host'.probe
    <3>1. CASE host'.open > host.open
      BY <2>1, <2>3, <3>1 DEF Counts, CircuitOf
    <3>2. CASE ~(host'.open > host.open)
      <4>1. host.open # 0
        BY <2>2, <2>3, <3>2
      <4>2. admitted = 0
        BY <4>1 DEF CircuitOf
      <4> QED BY <2>1, <2>3, <3>2, <4>2 DEF Counts, CircuitOf
    <3> QED BY <3>1, <3>2
  <2>4. CASE /\ host'.open = host.open /\ host'.probe = host.probe
             /\ (host'.state = "DOWN" <=> host.state = "DOWN")
    <3>1. admitted' = admitted
      BY <2>1, <2>2, <2>4 DEF Counts
    <3> QED BY <2>4, <3>1 DEF CircuitOf
  <2> QED BY <2>1, <2>3, <2>4, FailureType DEF Typed
<1>4. ASSUME NEW c \in Callers, NEW header \in RetryAfters, RateLimit(c, header)
      PROVE  CircuitOf(host, admitted)'
  <2>1. PICK d \in Cooldowns(host, header) :
           LET h == OnRateLimited(host, d) IN
           \/ caller[c].left > 0 /\ Admit(c, h, Release(gate), caller[c].left - 1)
           \/ host' = h /\ UNCHANGED admitted
    BY <1>4 DEF RateLimit
  <2> DEFINE h == OnRateLimited(host, d)
  <2>2. h \in HostRecord /\ h.open = host.open /\ h.probe = host.probe
        /\ (h.state = "DOWN" <=> host.state = "DOWN")
    BY CooldownType, LimitedType DEF Typed
  <2> HIDE DEF h
  <2>3. CircuitOf(h, admitted)
    BY <2>2 DEF CircuitOf
  <2>4. caller[c].left > 0 => caller[c].left - 1 \in Nat
    BY DEF Typed, RequestState
  <2>5. \/ caller[c].left > 0 /\ Admit(c, h, Release(gate), caller[c].left - 1)
        \/ host' = h /\ UNCHANGED admitted
    BY <2>1 DEF h
  <2>6. CASE host' = h /\ UNCHANGED admitted
    BY <2>3, <2>6 DEF CircuitOf
  <2> QED BY <2>2, <2>3, <2>4, <2>5, <2>6, AdmitCircuit
<1>5. CASE Tick
  <2>1. /\ host' = [host EXCEPT !.cooldown = Max({@ - 1, 0}), !.open = Max({@ - 1, 0})]
        /\ admitted' = admitted
    BY <1>5 DEF Tick
  <2>2. host.open = 0 => Max({host.open - 1, 0}) = 0
    BY LargerOf
  <2>3. /\ host'.state = host.state /\ host'.probe = host.probe
        /\ (host.open = 0 => host'.open = 0)
    BY <2>1, <2>2 DEF Typed, HostRecord
  <2> QED BY <2>1, <2>3 DEF CircuitOf
<1>6. ASSUME UNCHANGED <<host, admitted>> PROVE CircuitOf(host, admitted)'
  BY <1>6 DEF CircuitOf
<1>7. ASSUME NEW c \in Callers,
             Cooled(c) \/ GetPermit(c) \/ GetToken(c) \/ ClientError(c)
      PROVE  CircuitOf(host, admitted)'
  BY <1>6, <1>7 DEF Cooled, GetPermit, GetToken, ClientError
<1>8. CASE UNCHANGED vars
  BY <1>6, <1>8 DEF vars
<1> QED BY <1>1, <1>2, <1>3, <1>4, <1>5, <1>7, <1>8 DEF Next, Proceed, Answer

\* Only caller c moves.
Only(c) == \A d \in Callers \ {c} : caller'[d] = caller[d]

WaitingStages == {"cooling", "queued", "pacing"}

LEMMA MovesOnly ==
  ASSUME Typed, NEW c \in Callers, NEW at, NEW wake, NEW left
  PROVE  /\ Moves(c, at, wake, left)
              => Only(c) /\ caller'[c].at = at /\ caller'[c].wake = wake
         /\ Ends(c) => Only(c) /\ caller'[c].at = "idle"
BY DEF Typed, Moves, Ends, Only, Idle

\* Whoever takes a permit or queues for one is the only one to move.
LEMMA AcquireOnly ==
  ASSUME Typed, NEW c \in Callers, NEW g, NEW left, Acquire(c, g, left) \/ Pace(c, g, left)
  PROVE  Only(c) /\ caller'[c].at \in {"queued", "pacing", "sent"}
<1>1. \E at \in {"queued", "pacing", "sent"} : Moves(c, at, 0, left)
  BY DEF Acquire, Pace
<1> QED BY <1>1, MovesOnly

\* Nobody is admitted to a shut host, but that a short cooldown is slept out.
LEMMA AdmitOpen ==
  ASSUME Typed, NEW c \in Callers, NEW h \in HostRecord, NEW g, NEW left, Admit(c, h, g, left)
  PROVE  /\ Only(c)
         /\ host'.cooldown = h.cooldown /\ host'.open = h.open
         /\ \/ caller'[c].at = "idle"
            \/ h.open = 0 /\ caller'[c].at = "cooling" /\ caller'[c].wake = h.cooldown
            \/ /\ h.open = 0 /\ h.cooldown = 0
               /\ caller'[c].at \in {"queued", "pacing", "sent"}
<1>1. host'.cooldown = h.cooldown /\ host'.open = h.open
  BY DEF Admit, Probing, HostRecord
<1>2. h.open \in Nat /\ h.cooldown \in Nat
  BY ProviderAssumption DEF HostRecord
<1>3. CASE Refused(h, g)
  <2>1. Ends(c)
    BY <1>3 DEF Admit
  <2> QED BY <1>1, <2>1, MovesOnly DEF Idle
<1>4. CASE ~Refused(h, g)
  <2>1. h.open = 0
    BY <1>2, <1>4 DEF Refused
  <2>2. \/ Moves(c, "cooling", h.cooldown, left)
        \/ h.cooldown = 0 /\ Acquire(c, [g EXCEPT !.waiting = @ + 1], left)
    BY <1>2, <1>4 DEF Admit
  <2>3. CASE Moves(c, "cooling", h.cooldown, left)
    <3>1. Only(c) /\ caller'[c].at = "cooling" /\ caller'[c].wake = h.cooldown
      BY <2>3, MovesOnly
    <3> QED BY <1>1, <2>1, <3>1
  <2>4. CASE h.cooldown = 0 /\ Acquire(c, [g EXCEPT !.waiting = @ + 1], left)
    BY <1>1, <2>1, <2>4, AcquireOnly
  <2> QED BY <2>2, <2>3, <2>4
<1> QED BY <1>3, <1>4

\* Who waits through a step without being overtaken finds the host no more shut than before.
LEMMA NotOvertaken ==
  ASSUME Typed, Spared, Overtakes, host' \in HostRecord,
         NEW d \in Waiting, d \in Waiting' \ overtaken'
  PROVE  /\ Unshut(d) /\ host'.open = 0 /\ host'.cooldown <= host.cooldown
         /\ host.cooldown \in Nat /\ host'.cooldown \in Nat
<1>1. /\ {host.open, host'.open, host.cooldown, host'.cooldown} \subseteq Nat
  BY ProviderAssumption DEF Typed, HostRecord
<1>2. caller'[d].at \in WaitingStages
  BY DEF Waiting, WaitingStages
<1>3. ~(host'.cooldown > host.cooldown \/ host'.open > host.open) /\ d \notin overtaken
  BY <1>2 DEF Overtakes, WaitingStages
<1>4. Unshut(d)
  BY <1>3 DEF Spared
<1>5. host.open = 0
  BY <1>4 DEF Unshut
<1>6. host'.open = 0 /\ host'.cooldown <= host.cooldown
  BY <1>1, <1>3, <1>5
<1> QED BY <1>1, <1>4, <1>6

\* A step of caller c keeps the others unshut, and c with them if it was not waiting
\* and comes to wait with the host open, or was waiting and goes on.
LEMMA SparedMove ==
  ASSUME Typed, Spared, Overtakes, host' \in HostRecord, CircuitOf(host, admitted)',
         NEW c \in Callers, Only(c), c \in Waiting' \ overtaken' => Unshut(c)'
  PROVE  Spared'
<1>1. ASSUME NEW d \in Waiting' \ overtaken', d # c PROVE Unshut(d)'
  <2>1. d \in Callers /\ caller'[d] = caller[d]
    BY <1>1 DEF Waiting, Only
  <2>2. d \in Waiting
    BY <1>1, <2>1 DEF Waiting
  <2>3. /\ Unshut(d) /\ host'.open = 0 /\ host'.cooldown <= host.cooldown
        /\ host.cooldown \in Nat /\ host'.cooldown \in Nat
    BY <1>1, <2>2, NotOvertaken
  <2>4. caller[d].at = "cooling" => host'.cooldown <= caller[d].wake
    <3>1. caller[d].wake \in Nat
      BY <2>1 DEF Typed, RequestState
    <3> QED BY <2>3, <3>1 DEF Unshut
  <2>5. caller[d].at \in {"queued", "pacing"} => host'.cooldown = 0
    BY <2>3 DEF Unshut
  <2> QED BY <2>1, <2>3, <2>4, <2>5 DEF Unshut
<1> QED BY <1>1 DEF Spared

\* What the theorem says of one step, and of one caller in it.
SparedBy(c) ==
    c \notin Sent /\ caller'[c].at = "sent" /\ (host'.cooldown > 0 \/ host'.open > 0)
      => c \in overtaken

\* Admission, of a caller that was not waiting.
LEMMA SparedAdmit ==
  ASSUME Typed, Spared, Overtakes, host' \in HostRecord, CircuitOf(host, admitted)',
         NEW c \in Callers, NEW h \in HostRecord, NEW g, NEW left, Admit(c, h, g, left)
  PROVE  Spared' /\ SparedBy(c) /\ Only(c)
<1>1. /\ Only(c) /\ host'.cooldown = h.cooldown /\ host'.open = h.open
      /\ \/ caller'[c].at = "idle"
         \/ h.open = 0 /\ caller'[c].at = "cooling" /\ caller'[c].wake = h.cooldown
         \/ h.open = 0 /\ h.cooldown = 0 /\ caller'[c].at \in {"queued", "pacing", "sent"}
  BY AdmitOpen
<1>2. h.cooldown \in Nat
  BY ProviderAssumption DEF HostRecord
<1>3. c \in Waiting' => Unshut(c)'
  BY <1>1, <1>2 DEF Waiting, Unshut
<1>4. SparedBy(c)
  BY <1>1 DEF SparedBy
<1> QED BY <1>1, <1>3, <1>4, SparedMove

\* A caller that waited and goes on, towards the wire.
LEMMA SparedGoesOn ==
  ASSUME Typed, Spared, Overtakes, UNCHANGED <<host, admitted>>, NEW c \in Callers, NEW g,
         NEW left, Acquire(c, g, left) \/ Pace(c, g, left),
         caller[c].at \in WaitingStages, caller[c].at = "cooling" => caller[c].wake = 0
  PROVE  Spared' /\ SparedBy(c) /\ Only(c)
<1>1. Only(c) /\ caller'[c].at \in {"queued", "pacing", "sent"}
  BY AcquireOnly
<1>2. c \in Waiting /\ host.cooldown \in Nat
  BY ProviderAssumption DEF Waiting, WaitingStages, Typed, HostRecord
<1>3. c \notin overtaken => host.open = 0 /\ host.cooldown = 0
  <2>1. c \notin overtaken => Unshut(c)
    BY <1>2 DEF Spared
  <2> QED BY <1>2, <2>1 DEF Unshut, WaitingStages
<1>4. SparedBy(c)
  BY <1>3 DEF SparedBy
<1>5. c \in Waiting' \ overtaken' => Unshut(c)'
  <2>1. c \in overtaken /\ c \in Waiting' => c \in overtaken'
    BY DEF Overtakes, Waiting
  <2> QED BY <1>1, <1>3, <2>1 DEF Unshut
<1>6. host' \in HostRecord /\ CircuitOf(host, admitted)'
  BY DEF Typed, Spared, CircuitOf
<1> QED BY <1>1, <1>4, <1>5, <1>6, SparedMove

\* A caller that leaves the wire, and is not admitted again.
LEMMA SparedLeaves ==
  ASSUME Typed, Spared, Overtakes, host' \in HostRecord, CircuitOf(host, admitted)',
         NEW c \in Callers, Ends(c) \/ \E d, left : Moves(c, "backoff", d, left)
  PROVE  Spared' /\ SparedBy(c) /\ Only(c)
<1>1. Only(c) /\ caller'[c].at \in {"idle", "backoff"}
  BY MovesOnly
<1>2. c \notin Waiting' /\ SparedBy(c)
  BY <1>1 DEF Waiting, SparedBy
<1> QED BY <1>1, <1>2, SparedMove

LEMMA SparedStep ==
  ASSUME Typed, Spared, [Next]_vars
  PROVE  Spared' /\ \A c \in Callers : SparedBy(c)
<1>1. CircuitOf(host, admitted)' /\ host' \in HostRecord /\ host \in HostRecord
  BY CircuitStep, TypedStep DEF Spared, Typed
<1>2. ASSUME NEW c \in Callers, Spared' /\ SparedBy(c) /\ Only(c)
      PROVE  Spared' /\ \A d \in Callers : SparedBy(d)
  <2>1. ASSUME NEW d \in Callers \ {c} PROVE SparedBy(d)
    BY <1>2 DEF Only, SparedBy, Sent
  <2> QED BY <1>2, <2>1
<1>3. ASSUME NEW c \in Callers, Call(c) \/ Retry(c) PROVE Spared' /\ SparedBy(c) /\ Only(c)
  <2>1. Overtakes /\ \E left : Admit(c, host, gate, left)
    BY <1>3 DEF Call, Retry
  <2> QED BY <1>1, <2>1, SparedAdmit
<1>4. ASSUME NEW c \in Callers, Cooled(c) \/ GetPermit(c) \/ GetToken(c)
      PROVE  Spared' /\ SparedBy(c) /\ Only(c)
  <2>1. /\ Overtakes /\ UNCHANGED <<host, admitted>>
        /\ Acquire(c, gate, caller[c].left) \/ Pace(c, gate, caller[c].left)
    BY <1>4 DEF Cooled, GetPermit, GetToken
  <2>2. /\ caller[c].at \in WaitingStages
        /\ caller[c].at = "cooling" => caller[c].wake = 0
    BY <1>4 DEF Cooled, GetPermit, GetToken, Granted, WaitingStages
  <2> QED BY <2>1, <2>2, SparedGoesOn
<1>5. ASSUME NEW c \in Callers, Succeed(c) \/ ClientError(c) \/ Malformed(c) \/ Fail(c)
      PROVE  Spared' /\ SparedBy(c) /\ Only(c)
  <2>1. Overtakes /\ (Ends(c) \/ \E d, left : Moves(c, "backoff", d, left))
    BY <1>5 DEF Succeed, ClientError, Malformed, Fail
  <2> QED BY <1>1, <2>1, SparedLeaves
<1>6. ASSUME NEW c \in Callers, NEW header \in RetryAfters, RateLimit(c, header)
      PROVE  Spared' /\ SparedBy(c) /\ Only(c)
  <2>1. PICK d \in Cooldowns(host, header) :
           \/ \E left : Admit(c, OnRateLimited(host, d), Release(gate), left)
           \/ Ends(c)
    BY <1>6 DEF RateLimit
  <2>2. OnRateLimited(host, d) \in HostRecord
    BY <1>1, CooldownType, LimitedType
  <2>3. Overtakes
    BY <1>6 DEF RateLimit
  <2> QED BY <1>1, <2>1, <2>2, <2>3, SparedAdmit, SparedLeaves
<1>7. ASSUME NEW c \in Callers, Call(c) \/ Proceed(c)
      PROVE  Spared' /\ \A d \in Callers : SparedBy(d)
  <2>1. Spared' /\ SparedBy(c) /\ Only(c)
    BY <1>3, <1>4, <1>5, <1>6, <1>7 DEF Proceed, Answer
  <2> QED BY <1>2, <2>1
<1>8. CASE Tick
  <2>1. /\ host' = [host EXCEPT !.cooldown = Max({@ - 1, 0}), !.open = Max({@ - 1, 0})]
        /\ caller' = [c \in Callers |-> [caller[c] EXCEPT !.wake = Max({@ - 1, 0})]]
        /\ overtaken' = overtaken
    BY <1>8 DEF Tick
  <2>2. /\ host'.cooldown = Max({host.cooldown - 1, 0}) /\ host'.open = Max({host.open - 1, 0})
        /\ host.cooldown \in Nat /\ host.open \in Nat
    BY <1>1, <2>1, ProviderAssumption DEF HostRecord
  <2>3. /\ (host.cooldown = 0 => host'.cooldown = 0) /\ (host.open = 0 => host'.open = 0)
        /\ host'.cooldown = IF host.cooldown - 1 >= 0 THEN host.cooldown - 1 ELSE 0
    BY <2>2, LargerOf
  <2>4. \A c \in Callers : /\ caller'[c].at = caller[c].at
                           /\ caller'[c].wake = Max({caller[c].wake - 1, 0})
                           /\ caller[c].wake \in Nat
    BY <2>1 DEF Typed, RequestState
  <2>5. \A c \in Callers :
           caller'[c].wake = IF caller[c].wake - 1 >= 0 THEN caller[c].wake - 1 ELSE 0
    <3>1. \A n \in Int : Max({n, 0}) = IF n >= 0 THEN n ELSE 0
      BY LargerOf
    <3>2. ASSUME NEW c \in Callers PROVE caller[c].wake - 1 \in Int
      <4>1. caller[c].wake \in Nat
        BY <2>4
      <4> QED BY <4>1
    <3> QED BY <2>4, <3>1, <3>2
  <2>6. \A c \in Callers : SparedBy(c)
    BY <2>4 DEF SparedBy, Sent
  <2>7. ASSUME NEW c \in Waiting' \ overtaken' PROVE Unshut(c)'
    <3>1. c \in Callers /\ c \in Waiting \ overtaken
      BY <2>1, <2>4 DEF Waiting
    <3>2. Unshut(c)
      BY <3>1 DEF Spared
    <3>3. host.cooldown <= caller[c].wake => host'.cooldown <= caller'[c].wake
      <4>1. /\ caller[c].wake \in Nat
            /\ caller'[c].wake = IF caller[c].wake - 1 >= 0 THEN caller[c].wake - 1 ELSE 0
        BY <2>4, <2>5, <3>1
      <4> QED BY <2>2, <2>3, <4>1
    <3> QED BY <2>3, <2>4, <3>1, <3>2, <3>3 DEF Unshut
  <2> QED BY <1>1, <2>6, <2>7 DEF Spared
<1>9. CASE UNCHANGED vars
  <2>1. \A c \in Callers : SparedBy(c)
    BY <1>9 DEF vars, SparedBy, Sent
  <2>2. \A c : Unshut(c)' <=> Unshut(c)
    BY <1>9 DEF vars, Unshut
  <2>3. Waiting' = Waiting /\ overtaken' = overtaken
    BY <1>9 DEF vars, Waiting
  <2> QED BY <1>1, <2>1, <2>2, <2>3 DEF Spared
<1> QED BY <1>7, <1>8, <1>9 DEF Next

\* A host that is shut is left alone: nobody goes out to it but who waited when it shut, and
\* one probe between two trips of its circuit (ShutHostIsSpared: slot() and _admit).
THEOREM ShutHosts == Spec => ShutHostIsSpared
<1>1. Init => Typed /\ Spared
  <2>1. Init => CircuitOf(host, admitted) /\ Waiting = {}
    BY DEF Init, CircuitOf, Waiting, Idle
  <2> QED BY <2>1, TypedInit DEF Spared
<1>2. Typed /\ Spared /\ [Next]_vars => Typed' /\ Spared'
  BY TypedStep, SparedStep
<1>3. Typed /\ Spared /\ [Next]_vars =>
        [/\ host'.state = "DOWN" => admitted' <= 1
         /\ \A c \in Callers :
              c \notin Sent /\ caller'[c].at = "sent" /\ (host'.cooldown > 0 \/ host'.open > 0)
                => c \in overtaken]_vars
  <2> SUFFICES ASSUME Typed, Spared, [Next]_vars
               PROVE  /\ host'.state = "DOWN" => admitted' <= 1
                      /\ \A c \in Callers :
                           c \notin Sent /\ caller'[c].at = "sent"
                             /\ (host'.cooldown > 0 \/ host'.open > 0) => c \in overtaken
    OBVIOUS
  <2>1. Spared' /\ \A c \in Callers : SparedBy(c)
    BY SparedStep
  <2>2. host'.state = "DOWN" => admitted' <= 1
    BY <2>1 DEF Spared, CircuitOf
  <2> QED BY <2>1, <2>2 DEF SparedBy
<1> QED BY <1>1, <1>2, <1>3, PTL DEF Spec, ShutHostIsSpared

----------------------------------------------------------------------------
(* What arrives *)

TradeSet == {[trade EXCEPT !.at = t] : trade \in Trades, t \in Int}
SnapSet == {[report EXCEPT !.at = t] : report \in Reports, t \in Int}
           \cup {Streamed(trade) : trade \in TradeSet}
SigSet == {trade.sig : trade \in Trades} \ {None}

\* A finite set of things with a depth has a deepest one.
LEMMA DeepestExists ==
  ASSUME NEW S, IsFiniteSet(S), S # {}, NEW d \in [S -> Int]
  PROVE  \E i \in S : \A j \in S : d[j] =< d[i]
<1> DEFINE Q == {s \in SUBSET S : s # {} => \E i \in s : \A j \in s : d[j] =< d[i]}
<1>1. {} \in Q
  OBVIOUS
<1>2. ASSUME NEW s \in SUBSET S, s # {}, \A x \in s : s \ {x} \in Q PROVE s \in Q
  <2>1. PICK x \in s : TRUE
    BY <1>2
  <2>2. s \ {x} \in Q
    BY <1>2
  <2>3. CASE s \ {x} = {}
    <3>1. \A j \in s : d[j] =< d[x]
      BY <2>3
    <3> QED BY <3>1
  <2>4. CASE s \ {x} # {}
    <3>1. PICK i \in s \ {x} : \A j \in s \ {x} : d[j] =< d[i]
      BY <2>2, <2>4
    <3>2. d[i] \in Int /\ d[x] \in Int /\ \A j \in s : d[j] \in Int
      OBVIOUS
    <3>3. CASE d[x] =< d[i]
      <4>1. \A j \in s : d[j] =< d[i]
        BY <3>1, <3>3
      <4> QED BY <4>1
    <3>4. CASE d[i] =< d[x]
      <4>1. \A j \in s : d[j] =< d[x]
        BY <3>1, <3>2, <3>4
      <4> QED BY <4>1
    <3> QED BY <3>2, <3>3, <3>4
  <2> QED BY <2>3, <2>4
<1> HIDE DEF Q
<1>3. SUBSET S \subseteq Q
  BY <1>1, <1>2, SetInduction
<1> QED BY <1>3 DEF Q

\* A report is the market of one of the pairs that were listed.
LEMMA ReportIs ==
  ASSUME NEW r \in Reports
  PROVE  /\ r = [Unreported("dexscreener") EXCEPT
                   !.price = r.price, !.liquidity = r.liquidity, !.volume = r.volume,
                   !.buys = r.buys, !.sells = r.sells, !.usdPerSol = r.usdPerSol]
         /\ r.price \in Number /\ r.liquidity \in Number
<1>1. PICK pairs \in PairLists : r = BestPair(pairs, Mint) /\ r # None
  BY DEF Reports, Known
<1> DEFINE views == [i \in DOMAIN pairs |-> ParsePair(pairs[i])]
           own == {i \in DOMAIN pairs : views[i] # None /\ views[i].token.mint = Mint}
           depth == [i \in own |-> OrZero(views[i].snap.liquidity)]
           deepest == {i \in own : \A j \in own : depth[j] =< depth[i]}
<1>2. own # {} /\ r = views[Min(deepest)].snap
  BY <1>1 DEF BestPair
<1>3. /\ DOMAIN pairs = 1..Len(pairs) /\ Len(pairs) \in Nat
      /\ \A i \in DOMAIN pairs : pairs[i].price \in Number /\ pairs[i].liquidity \in Number
  <2>1. /\ pairs \in Seq(ToSet(pairs))
        /\ \A i \in DOMAIN pairs : {pairs[i].price, pairs[i].liquidity} \subseteq Number
    BY PayloadAssumption
  <2>2. DOMAIN pairs = 1..Len(pairs) /\ Len(pairs) \in Nat
    <3> DEFINE E == ToSet(pairs)
    <3> HIDE DEF E
    <3> QED BY <2>1, LenProperties DEF E
  <2> QED BY <2>1, <2>2
<1>4. IsFiniteSet(own) /\ own \subseteq Nat
  <2>1. IsFiniteSet(1..Len(pairs))
    BY <1>3, FS_Interval
  <2>2. own \subseteq 1..Len(pairs) /\ 1..Len(pairs) \subseteq Nat
    BY <1>3
  <2> HIDE DEF own
  <2> QED BY <2>1, <2>2, FS_Subset
<1>5. \A i \in own : /\ views[i].snap = [Unreported("dexscreener") EXCEPT
                            !.price = pairs[i].price, !.liquidity = pairs[i].liquidity,
                            !.volume = pairs[i].volume, !.buys = pairs[i].buys,
                            !.sells = pairs[i].sells, !.usdPerSol = pairs[i].usdPerSol]
                     /\ pairs[i].price \in Number /\ pairs[i].liquidity \in Number
  BY <1>3 DEF ParsePair
<1>6. depth \in [own -> Int]
  <2>1. ASSUME NEW i \in own PROVE OrZero(views[i].snap.liquidity) \in Int
    <3>1. views[i].snap.liquidity = pairs[i].liquidity
      <4>1. views[i].snap = [Unreported("dexscreener") EXCEPT
                                !.price = pairs[i].price, !.liquidity = pairs[i].liquidity,
                                !.volume = pairs[i].volume, !.buys = pairs[i].buys,
                                !.sells = pairs[i].sells, !.usdPerSol = pairs[i].usdPerSol]
        BY <1>5
      <4> HIDE DEF views
      <4> QED BY <4>1 DEF Unreported
    <3>2. pairs[i].liquidity \in Number
      BY <1>5
    <3> HIDE DEF views
    <3> QED BY <3>1, <3>2 DEF OrZero, Number
  <2> QED BY <2>1
<1>7. PICK i \in own : \A j \in own : depth[j] =< depth[i]
  <2> HIDE DEF own, depth
  <2> QED BY <1>2, <1>4, <1>6, DeepestExists
<1>8. deepest # {} /\ deepest \in SUBSET Nat
  BY <1>4, <1>7
<1>9. Min(deepest) \in deepest
  <2> HIDE DEF deepest
  <2>1. \E n \in deepest : \A k \in deepest : n =< k
    BY <1>8, LeastNat
  <2> QED BY <2>1 DEF Min
<1>10. Min(deepest) \in own
  BY <1>9
<1> DEFINE m == Min(deepest)
<1> HIDE DEF deepest, m
<1>11. m \in own /\ r = views[m].snap
  BY <1>2, <1>10 DEF m
<1> HIDE DEF own
<1>12. /\ r = [Unreported("dexscreener") EXCEPT
                   !.price = pairs[m].price, !.liquidity = pairs[m].liquidity,
                   !.volume = pairs[m].volume, !.buys = pairs[m].buys,
                   !.sells = pairs[m].sells, !.usdPerSol = pairs[m].usdPerSol]
       /\ pairs[m].price \in Number /\ pairs[m].liquidity \in Number
  BY <1>5, <1>11
<1>13. /\ r.price = pairs[m].price /\ r.liquidity = pairs[m].liquidity
       /\ r.volume = pairs[m].volume /\ r.buys = pairs[m].buys /\ r.sells = pairs[m].sells
       /\ r.usdPerSol = pairs[m].usdPerSol
  BY <1>12 DEF Unreported
<1> QED BY <1>12, <1>13

\* A trade on the stream has the time it is given and a price, if it tells one.
LEMMA TradeIs ==
  ASSUME NEW t \in TradeSet
  PROVE  /\ t.at \in Int /\ t.price \in Number /\ t.reserve \in Number
         /\ t.sig # None => t.sig \in SigSet
<1>1. PICK trade \in Trades, at \in Int : t = [trade EXCEPT !.at = at]
  BY DEF TradeSet
<1>2. PICK msg \in TradeMessages : trade = ParseTrade(msg) /\ trade # None
  BY DEF Trades, Known
<1>3. {msg.sol, msg.tokens, msg.vSol, msg.vTokens} \subseteq Number /\ PriceUnit \in Int
  BY PayloadAssumption
<1> DEFINE curve == msg.vSol # None /\ msg.vTokens # None /\ OrZero(msg.vTokens) > 0
           price == IF curve THEN (msg.vSol * PriceUnit) \div msg.vTokens
                    ELSE IF msg.sol > 0 THEN (msg.sol * PriceUnit) \div msg.tokens
                    ELSE None
<1>4. /\ trade = [at |-> 0, sig |-> msg.sig, trader |-> msg.trader, buy |-> msg.type = "buy",
                  sol |-> msg.sol, reserve |-> msg.vSol, price |-> price]
      /\ msg.sol # None /\ msg.tokens # None /\ ~(OrZero(msg.tokens) <= 0)
  BY <1>2 DEF ParseTrade
<1>5. price \in Number
  <2>1. \A a, b \in Int : b > 0 => (a * PriceUnit) \div b \in Int
    BY <1>3
  <2>2. CASE curve
    <3>1. msg.vSol \in Int /\ msg.vTokens \in Int /\ msg.vTokens > 0
      BY <1>3, <2>2 DEF OrZero, Number
    <3> QED BY <2>1, <2>2, <3>1 DEF Number
  <2>3. CASE ~curve
    <3>1. msg.sol \in Int /\ msg.tokens \in Int /\ msg.tokens > 0
      BY <1>3, <1>4 DEF OrZero, Number
    <3> QED BY <2>1, <2>3, <3>1 DEF Number
  <2> QED BY <2>2, <2>3
<1> HIDE DEF price
<1>6. /\ t.at = at /\ t.sig = trade.sig /\ t.price = price /\ t.reserve = msg.vSol
  BY <1>1, <1>4
<1> QED BY <1>3, <1>5, <1>6 DEF SigSet

\* And what becomes of it in the memory.
LEMMA SnapIs ==
  ASSUME NEW s \in SnapSet
  PROVE  s.at \in Int /\ s.price \in Number /\ s.liquidity \in Number
<1>1. CASE \E report \in Reports, t \in Int : s = [report EXCEPT !.at = t]
  <2>1. PICK report \in Reports, t \in Int : s = [report EXCEPT !.at = t]
    BY <1>1
  <2>2. DOMAIN report = DOMAIN Unreported("dexscreener")
    <3> DEFINE u == Unreported("dexscreener")
    <3>1. report = [u EXCEPT !.price = report.price, !.liquidity = report.liquidity,
                             !.volume = report.volume, !.buys = report.buys,
                             !.sells = report.sells, !.usdPerSol = report.usdPerSol]
      BY ReportIs
    <3> HIDE DEF u
    <3> QED BY <3>1 DEF u
  <2>3. "at" \in DOMAIN report
    BY <2>2 DEF Unreported
  <2>4. s.at = t /\ s.price = report.price /\ s.liquidity = report.liquidity
    BY <2>1, <2>3
  <2> QED BY <2>4, ReportIs
<1>2. CASE \E trade \in TradeSet : s = Streamed(trade)
  <2>1. PICK trade \in TradeSet : s = Streamed(trade)
    BY <1>2
  <2>2. trade.at \in Int /\ trade.price \in Number /\ trade.reserve \in Number
    BY TradeIs
  <2> DEFINE real == IF trade.reserve = None THEN None ELSE Larger(0, trade.reserve - PumpReserve)
             usd == IF real = None \/ SolUsd = None THEN None ELSE real * 2 * SolUsd
  <2>3. s.at = trade.at /\ s.price = trade.price /\ s.liquidity = usd
    BY <2>1 DEF Streamed, Unreported
  <2>4. real \in Number
    BY <2>2, PayloadAssumption DEF Number, Larger
  <2>5. usd \in Number
    <3> HIDE DEF real
    <3> QED BY <2>4, PayloadAssumption DEF Number
  <2> QED BY <2>2, <2>3, <2>5
<1> QED BY <1>1, <1>2 DEF SnapSet

----------------------------------------------------------------------------
(* The memory of a token *)

Dropped(q, cap) == IF Len(q) < cap THEN 0 ELSE 1

\* A buffer that is pushed at its end loses its oldest element when it is full.
LEMMA PushedIs ==
  ASSUME NEW S, NEW q \in Seq(S), NEW x \in S, NEW cap \in Nat \ {0}, Len(q) =< cap
  PROVE  /\ Pushed(q, x, cap) \in Seq(S)
         /\ Len(Pushed(q, x, cap)) = Len(q) + 1 - Dropped(q, cap)
         /\ Len(Pushed(q, x, cap)) \in 1..cap
         /\ Pushed(q, x, cap)[Len(Pushed(q, x, cap))] = x
         /\ \A i \in 1..(Len(q) - Dropped(q, cap)) :
                Pushed(q, x, cap)[i] = q[i + Dropped(q, cap)]
<1>0. Len(q) \in Nat
  BY LenProperties
<1>1. CASE Len(q) < cap
  <2>1. Pushed(q, x, cap) = Append(q, x) /\ Dropped(q, cap) = 0
    BY <1>1 DEF Pushed, Dropped
  <2>2. /\ Append(q, x) \in Seq(S) /\ Len(Append(q, x)) = Len(q) + 1
        /\ Append(q, x)[Len(q) + 1] = x
        /\ \A i \in 1..Len(q) : Append(q, x)[i] = q[i]
    BY AppendProperties
  <2> QED BY <1>0, <1>1, <2>1, <2>2
<1>2. CASE ~(Len(q) < cap)
  <2> DEFINE r == Tail(q)
  <2>1. Pushed(q, x, cap) = Append(r, x) /\ Dropped(q, cap) = 1 /\ Len(q) = cap /\ q # <<>>
    BY <1>0, <1>2, EmptySeq DEF Pushed, Dropped
  <2>2. r \in Seq(S) /\ Len(r) = Len(q) - 1 /\ \A i \in 1..(Len(q) - 1) : r[i] = q[i + 1]
    BY <2>1, HeadAndTail
  <2> HIDE DEF r
  <2>3. /\ Append(r, x) \in Seq(S) /\ Len(Append(r, x)) = Len(r) + 1
        /\ Append(r, x)[Len(r) + 1] = x
        /\ \A i \in 1..Len(r) : Append(r, x)[i] = r[i]
    BY <2>2, AppendProperties
  <2> QED BY <1>0, <2>1, <2>2, <2>3
<1> QED BY <1>1, <1>2

Fields == {"token", "snaps", "trades", "sigs", "sigSet", "traders", "traderHistory",
           "holderHistory", "lastData", "authorities", "holders"}

MemoryTypes(m) ==
    /\ DOMAIN m = Fields
    /\ m.snaps \in Seq(SnapSet) /\ m.trades \in Seq(TradeSet) /\ m.sigs \in Seq(SigSet)
    /\ Len(m.snaps) =< SnapCap /\ Len(m.trades) =< TradeCap /\ Len(m.sigs) =< SigCap
    /\ m.lastData \in Number /\ (HasData(m) => m.lastData \in Int)

\* The set of signatures is what the buffer holds, each once.
SigsAgree(m) ==
    /\ m.sigSet = {m.sigs[p] : p \in 1..Len(m.sigs)}
    /\ \A p, q \in 1..Len(m.sigs) : m.sigs[p] = m.sigs[q] => p = q

\* Every remembered trade's signature is remembered, and no newer signature is without its
\* trade: the signatures outlast the trades.
SigsOutlast(m) ==
    \A i \in 1..Len(m.trades) : m.trades[i].sig # None =>
        \E p \in 1..Len(m.sigs) : /\ m.sigs[p] = m.trades[i].sig
                                  /\ Len(m.sigs) - p =< Len(m.trades) - i

CountedOnce(m) ==
    \A i, j \in 1..Len(m.trades) :
        m.trades[i].sig = m.trades[j].sig /\ m.trades[i].sig # None => i = j

SnapsInOrder(m) == \A i, j \in 1..Len(m.snaps) : i =< j => m.snaps[i].at =< m.snaps[j].at

Memory(m) ==
    MemoryTypes(m) /\ SigsAgree(m) /\ SigsOutlast(m) /\ CountedOnce(m) /\ SnapsInOrder(m)

\* Nothing is remembered of a token that was just seen.
LEMMA MemoryBegins == ASSUME NEW token PROVE Memory(NewTrack(token)) /\ ~HasData(NewTrack(token))
<1> DEFINE m == NewTrack(token)
<1>1. /\ DOMAIN m = Fields /\ m.snaps = <<>> /\ m.trades = <<>> /\ m.sigs = <<>>
      /\ m.sigSet = {} /\ m.lastData = None
  BY DEF NewTrack, Fields
<1>2. <<>> \in Seq(SnapSet) /\ <<>> \in Seq(TradeSet) /\ <<>> \in Seq(SigSet)
  BY EmptySeq
<1>3. Len(<<>>) = 0 /\ SnapCap \in Nat /\ TradeCap \in Nat /\ SigCap \in Nat
  BY EmptySeq, TrackerAssumption
<1> HIDE DEF m
<1>4. ~HasData(m)
  BY <1>1 DEF HasData
<1>5. MemoryTypes(m)
  BY <1>1, <1>2, <1>3, <1>4 DEF MemoryTypes, Number
<1>6. SigsAgree(m) /\ SigsOutlast(m) /\ CountedOnce(m) /\ SnapsInOrder(m)
  BY <1>1, <1>3 DEF SigsAgree, SigsOutlast, CountedOnce, SnapsInOrder
<1> QED BY <1>4, <1>5, <1>6 DEF m, Memory

\* What only the buffers decide survives a change of the rest.
LEMMA MemoryFrame ==
  ASSUME NEW m, Memory(m), NEW n, DOMAIN n = Fields,
         n.snaps = m.snaps, n.trades = m.trades, n.sigs = m.sigs, n.sigSet = m.sigSet,
         n.lastData = m.lastData
  PROVE  Memory(n) /\ (HasData(n) <=> HasData(m))
<1>1. HasData(n) <=> HasData(m)
  BY DEF HasData
<1>2. MemoryTypes(n)
  BY <1>1 DEF Memory, MemoryTypes
<1>3. SigsAgree(n) /\ SigsOutlast(n) /\ CountedOnce(n) /\ SnapsInOrder(n)
  BY DEF Memory, SigsAgree, SigsOutlast, CountedOnce, SnapsInOrder
<1> QED BY <1>1, <1>2, <1>3 DEF Memory

LEMMA MergeKeeps ==
  ASSUME NEW m, Memory(m), NEW other
  PROVE  /\ Memory(MergeToken(m, other)) /\ MergeToken(m, other).lastData = m.lastData
         /\ MergeToken(m, other).snaps = m.snaps
         /\ HasData(MergeToken(m, other)) <=> HasData(m)
<1> DEFINE n == MergeToken(m, other)
<1>1. /\ DOMAIN n = Fields /\ n.snaps = m.snaps /\ n.trades = m.trades /\ n.sigs = m.sigs
      /\ n.sigSet = m.sigSet /\ n.lastData = m.lastData
  BY DEF MergeToken, Memory, MemoryTypes, Fields
<1> HIDE DEF n
<1>2. Memory(n) /\ (HasData(n) <=> HasData(m))
  BY <1>1, MemoryFrame
<1> QED BY <1>1, <1>2 DEF n

LEMMA HoldersKeep ==
  ASSUME NEW m, Memory(m), NEW dist, NEW at
  PROVE  /\ Memory(AddHolders(m, dist, at)) /\ AddHolders(m, dist, at).lastData = m.lastData
         /\ HasData(AddHolders(m, dist, at)) <=> HasData(m)
<1> DEFINE n == AddHolders(m, dist, at)
<1>1. /\ DOMAIN n = Fields /\ n.snaps = m.snaps /\ n.trades = m.trades /\ n.sigs = m.sigs
      /\ n.sigSet = m.sigSet /\ n.lastData = m.lastData
  BY DEF AddHolders, Memory, MemoryTypes, Fields
<1> HIDE DEF n
<1>2. Memory(n) /\ (HasData(n) <=> HasData(m))
  BY <1>1, MemoryFrame
<1> QED BY <1>1, <1>2 DEF n

LEMMA AuthoritiesKeep ==
  ASSUME NEW m, Memory(m), NEW a
  PROVE  /\ Memory([m EXCEPT !.authorities = a])
         /\ [m EXCEPT !.authorities = a].lastData = m.lastData
         /\ HasData([m EXCEPT !.authorities = a]) <=> HasData(m)
<1> DEFINE n == [m EXCEPT !.authorities = a]
<1>1. /\ DOMAIN n = Fields /\ n.snaps = m.snaps /\ n.trades = m.trades /\ n.sigs = m.sigs
      /\ n.sigSet = m.sigSet /\ n.lastData = m.lastData
  BY DEF Memory, MemoryTypes, Fields
<1> HIDE DEF n
<1>2. Memory(n) /\ (HasData(n) <=> HasData(m))
  BY <1>1, MemoryFrame
<1> QED BY <1>1, <1>2 DEF n

\* A snapshot is refused or joins the newer end.
LEMMA SnapshotKeeps ==
  ASSUME NEW m, Memory(m), NEW s \in SnapSet
  PROVE  /\ Memory(AddSnapshot(m, s))
         /\ \/ AddSnapshot(m, s) = m
            \/ HasData(AddSnapshot(m, s)) /\ AddSnapshot(m, s).lastData = s.at
<1>1. CASE ~Accepts(m, s)
  BY <1>1 DEF AddSnapshot
<1>2. CASE Accepts(m, s)
  <2> DEFINE n == AddSnapshot(m, s)
             q == Pushed(m.snaps, s, SnapCap)
             k == Dropped(m.snaps, SnapCap)
             l == Len(m.snaps)
  <2>1. /\ DOMAIN n = Fields /\ n.snaps = q /\ n.trades = m.trades
        /\ n.sigs = m.sigs /\ n.sigSet = m.sigSet /\ n.lastData = s.at
    BY <1>2 DEF AddSnapshot, Memory, MemoryTypes, Fields
  <2>2. /\ m.snaps \in Seq(SnapSet) /\ l =< SnapCap /\ l \in Nat /\ SnapCap \in Nat \ {0}
    BY LenProperties, TrackerAssumption DEF Memory, MemoryTypes
  <2>3. /\ q \in Seq(SnapSet) /\ Len(q) = l + 1 - k /\ Len(q) \in 1..SnapCap
        /\ q[Len(q)] = s /\ \A i \in 1..(l - k) : q[i] = m.snaps[i + k]
    BY <2>2, PushedIs
  <2>4. k \in {0, 1} /\ (l = 0 => k = 0)
    BY <2>2 DEF Dropped
  <2>5. \A i \in 1..l : m.snaps[i].at \in Int /\ m.snaps[i].at =< s.at
    <3>1. \A i \in 1..l : m.snaps[i].at \in Int
      BY <2>2, ElementOfSeq, SnapIs
    <3>2. CASE l = 0
      BY <3>2
    <3>3. CASE l # 0
      <4>1. m.snaps # <<>> /\ ~(s.at < m.snaps[l].at)
        BY <1>2, <2>2, <3>3, EmptySeq DEF Accepts, Older, Last
      <4>2. \A i \in 1..l : m.snaps[i].at =< m.snaps[l].at
        BY <2>2, <3>3 DEF Memory, SnapsInOrder
      <4> QED BY <2>2, <3>1, <3>3, <4>1, <4>2, SnapIs
    <3> QED BY <3>2, <3>3
  <2> HIDE DEF q, k, l, n
  <2>6. n.snaps # <<>> /\ HasData(n)
    BY <2>1, <2>3, EmptySeq DEF HasData
  <2>7. MemoryTypes(n)
    BY <2>1, <2>3, SnapIs DEF Memory, MemoryTypes, Number
  <2>8. SnapsInOrder(n)
    <3> SUFFICES ASSUME NEW i \in 1..Len(q), NEW j \in 1..Len(q), i =< j
                 PROVE  q[i].at =< q[j].at
      BY <2>1 DEF SnapsInOrder
    <3>1. \A a \in 1..Len(q) : a = Len(q) \/ a \in 1..(l - k)
      BY <2>2, <2>3, <2>4
    <3>2. \A a \in 1..(l - k) : q[a] = m.snaps[a + k] /\ a + k \in 1..l
      <4>1. l \in Nat /\ k \in {0, 1}
        BY <2>2, <2>4
      <4>2. \A a \in 1..(l - k) : a + k \in 1..l
        BY <4>1
      <4>3. \A a \in 1..(l - k) : q[a] = m.snaps[a + k]
        BY <2>3
      <4> QED BY <4>2, <4>3
    <3>3. CASE j \in 1..(l - k)
      <4>1. i \in 1..(l - k) /\ i + k =< j + k
        BY <2>2, <2>4, <3>3
      <4>2. m.snaps[i + k].at =< m.snaps[j + k].at
        BY <3>2, <3>3, <4>1 DEF Memory, SnapsInOrder, l
      <4> QED BY <3>2, <3>3, <4>1, <4>2
    <3>4. CASE j = Len(q) /\ i \in 1..(l - k)
      BY <2>3, <2>5, <3>2, <3>4
    <3>5. CASE j = Len(q) /\ i = Len(q)
      <4>1. s.at \in Int
        BY SnapIs
      <4> QED BY <2>3, <3>5, <4>1
    <3> QED BY <3>1, <3>3, <3>4, <3>5
  <2>9. SigsAgree(n) /\ SigsOutlast(n) /\ CountedOnce(n)
    BY <2>1 DEF Memory, SigsAgree, SigsOutlast, CountedOnce
  <2>10. Memory(n)
    BY <2>7, <2>8, <2>9 DEF Memory
  <2> QED BY <2>1, <2>6, <2>10 DEF n
<1> QED BY <1>1, <1>2

\* A signature is remembered once; the oldest makes room for it.
LEMMA RememberIs ==
  ASSUME NEW m, Memory(m), NEW sig \in SigSet, sig \notin m.sigSet
  PROVE  /\ DOMAIN Remember(m, sig) = Fields
         /\ Remember(m, sig).sigs = Pushed(m.sigs, sig, SigCap)
         /\ Remember(m, sig).snaps = m.snaps /\ Remember(m, sig).trades = m.trades
         /\ Remember(m, sig).lastData = m.lastData
         /\ SigsAgree(Remember(m, sig))
<1> DEFINE r == Remember(m, sig)
           q == Pushed(m.sigs, sig, SigCap)
           k == Dropped(m.sigs, SigCap)
           l == Len(m.sigs)
<1>1. /\ DOMAIN r = Fields /\ r.sigs = q /\ r.snaps = m.snaps /\ r.trades = m.trades
      /\ r.lastData = m.lastData
      /\ r.sigSet = (IF l = SigCap THEN m.sigSet \ {Head(m.sigs)} ELSE m.sigSet) \cup {sig}
  BY DEF Remember, Memory, MemoryTypes, Fields, SigSet
<1>2. m.sigs \in Seq(SigSet) /\ l =< SigCap /\ l \in Nat /\ SigCap \in Nat \ {0}
  BY LenProperties, TrackerAssumption DEF Memory, MemoryTypes
<1>3. /\ q \in Seq(SigSet) /\ Len(q) = l + 1 - k /\ Len(q) \in 1..SigCap
      /\ q[Len(q)] = sig /\ \A p \in 1..(l - k) : q[p] = m.sigs[p + k]
  BY <1>2, PushedIs
<1>4. (k = 0 /\ l < SigCap) \/ (k = 1 /\ l = SigCap /\ l > 0)
  BY <1>2 DEF Dropped
<1>5. m.sigSet = {m.sigs[p] : p \in 1..l}
      /\ \A p, o \in 1..l : m.sigs[p] = m.sigs[o] => p = o
  BY DEF Memory, SigsAgree
<1> DEFINE old == IF l = SigCap THEN m.sigSet \ {Head(m.sigs)} ELSE m.sigSet
<1>6. old = {m.sigs[p] : p \in (1 + k)..l}
  <2>1. CASE k = 0
    BY <1>2, <1>4, <1>5, <2>1
  <2>2. CASE k = 1
    <3>1. m.sigs # <<>>
      BY <1>4, <2>2, EmptySeq
    <3>2. Head(m.sigs) = m.sigs[1] /\ 1 \in 1..l /\ l = SigCap
      BY <1>2, <1>4, <2>2, <3>1, HeadAndTail
    <3> HIDE DEF l
    <3>3. \A p \in 1..l : m.sigs[p] = Head(m.sigs) <=> p = 1
      BY <1>5, <3>2
    <3>4. \A p \in 1..l : p \in (1 + k)..l <=> p # 1
      BY <1>2, <2>2
    <3>5. (1 + k)..l \subseteq 1..l
      BY <1>2, <2>2
    <3> QED BY <1>5, <3>2, <3>3, <3>4, <3>5
  <2> QED BY <1>4, <2>1, <2>2
<1>7. {q[p] : p \in 1..Len(q)} = {m.sigs[p] : p \in (1 + k)..l} \cup {sig}
  <2> HIDE DEF q, k, l
  <2>1. \A p \in 1..Len(q) : p = Len(q) \/ p \in 1..(l - k)
    BY <1>2, <1>3, <1>4
  <2>2. \A p \in 1..(l - k) : p \in 1..Len(q) /\ p + k \in (1 + k)..l
    BY <1>2, <1>3, <1>4
  <2>3. \A p \in (1 + k)..l : p - k \in 1..(l - k) /\ (p - k) + k = p
    BY <1>2, <1>4
  <2>4. \A p \in (1 + k)..l : m.sigs[p] = q[p - k] /\ p - k \in 1..Len(q)
    BY <1>3, <2>2, <2>3
  <2>5. \A p \in 1..(l - k) : q[p] = m.sigs[p + k] /\ p + k \in (1 + k)..l
    BY <1>3, <2>2
  <2>6. Len(q) \in 1..Len(q)
    BY <1>3
  <2> QED BY <1>3, <2>1, <2>4, <2>5, <2>6
<1>8. \A p, o \in 1..Len(q) : q[p] = q[o] => p = o
  <2> HIDE DEF q, k, l
  <2> SUFFICES ASSUME NEW p \in 1..Len(q), NEW o \in 1..Len(q), q[p] = q[o] PROVE p = o
    OBVIOUS
  <2>1. \A i \in 1..Len(q) : i = Len(q) \/ i \in 1..(l - k)
    BY <1>2, <1>3, <1>4
  <2>2. \A i \in 1..(l - k) : i + k \in 1..l /\ q[i] = m.sigs[i + k]
    BY <1>2, <1>3, <1>4
  <2>3. \A i \in 1..(l - k) : q[i] # sig
    BY <1>5, <2>2
  <2>4. CASE p \in 1..(l - k) /\ o \in 1..(l - k)
    <3>1. p + k = o + k
      BY <1>5, <2>2, <2>4
    <3> QED BY <1>4, <2>4, <3>1
  <2> QED BY <1>3, <2>1, <2>3, <2>4
<1>9. SigsAgree(r)
  <2> HIDE DEF r, q, k, l, old
  <2>1. r.sigSet = {q[p] : p \in 1..Len(q)}
    BY <1>1, <1>6, <1>7 DEF old
  <2> QED BY <1>1, <1>8, <2>1 DEF SigsAgree
<1> QED BY <1>1, <1>9

\* A trade that is counted joins the newer end, and its signature with it.
LEMMA TradeKeeps ==
  ASSUME NEW m, Memory(m), NEW t \in TradeSet
  PROVE  /\ Memory(AddTrade(m, t)) /\ AddTrade(m, t).snaps = m.snaps
         /\ \/ AddTrade(m, t) = m
            \/ /\ HasData(AddTrade(m, t)) /\ AddTrade(m, t).lastData \in Int
               /\ AddTrade(m, t).lastData >= t.at
<1>1. CASE Counted(m, t)
  BY <1>1 DEF AddTrade
<1>2. CASE ~Counted(m, t)
  <2> DEFINE r == Remember(m, t.sig)
             n == AddTrade(m, t)
             T == Pushed(m.trades, t, TradeCap)
             k == Dropped(m.trades, TradeCap)
             l == Len(m.trades)
             j == IF t.sig = None THEN 0 ELSE Dropped(m.sigs, SigCap)
             h == IF t.sig = None THEN 0 ELSE 1
             b == Len(m.sigs)
  <2>1. /\ DOMAIN r = Fields /\ r.snaps = m.snaps /\ r.trades = m.trades
        /\ r.lastData = m.lastData /\ SigsAgree(r)
        /\ r.sigs \in Seq(SigSet) /\ Len(r.sigs) = b + h - j /\ Len(r.sigs) \in 0..SigCap
        /\ \A p \in 1..(b - j) : r.sigs[p] = m.sigs[p + j]
        /\ t.sig # None => r.sigs[Len(r.sigs)] = t.sig
        /\ b \in Nat /\ (j = 0 \/ (j = 1 /\ h = 1 /\ b = SigCap)) /\ h \in {0, 1}
    <3>1. m.sigs \in Seq(SigSet) /\ b =< SigCap /\ b \in Nat /\ SigCap \in Nat \ {0}
      BY LenProperties, TrackerAssumption DEF Memory, MemoryTypes
    <3>2. CASE t.sig = None
      <4>1. r = m /\ j = 0 /\ h = 0
        BY <3>2 DEF Remember
      <4> HIDE DEF r, j, h
      <4> QED BY <3>1, <3>2, <4>1 DEF Memory, MemoryTypes
    <3>3. CASE t.sig # None
      <4> DEFINE q == Pushed(m.sigs, t.sig, SigCap)
      <4>1. t.sig \in SigSet /\ t.sig \notin m.sigSet
        BY <1>2, <3>3, TradeIs DEF Counted
      <4>2. /\ DOMAIN r = Fields /\ r.sigs = q /\ r.snaps = m.snaps /\ r.trades = m.trades
            /\ r.lastData = m.lastData /\ SigsAgree(r)
        BY <4>1, RememberIs
      <4>3. j = Dropped(m.sigs, SigCap) /\ h = 1
        BY <3>3
      <4> HIDE DEF q, r, j, h
      <4>4. /\ q \in Seq(SigSet) /\ Len(q) = b + 1 - j /\ Len(q) \in 1..SigCap
            /\ q[Len(q)] = t.sig /\ \A p \in 1..(b - j) : q[p] = m.sigs[p + j]
        BY <3>1, <4>1, <4>3, PushedIs DEF q
      <4>5. j = 0 \/ (j = 1 /\ b = SigCap)
        BY <3>1, <4>3 DEF Dropped
      <4> QED BY <3>1, <4>2, <4>3, <4>4, <4>5
    <3> QED BY <3>2, <3>3
  <2>2. /\ m.trades \in Seq(TradeSet) /\ l =< TradeCap /\ l \in Nat /\ TradeCap \in Nat \ {0}
        /\ SigCap \in Nat \ {0} /\ TradeCap =< SigCap
    BY LenProperties, TrackerAssumption DEF Memory, MemoryTypes
  <2>3. /\ T \in Seq(TradeSet) /\ Len(T) = l + 1 - k /\ Len(T) \in 1..TradeCap
        /\ T[Len(T)] = t /\ \A i \in 1..(l - k) : T[i] = m.trades[i + k]
    BY <2>2, PushedIs
  <2>4. (k = 0 /\ l < TradeCap) \/ (k = 1 /\ l = TradeCap /\ l > 0)
    BY <2>2 DEF Dropped
  <2> DEFINE last == IF m.lastData = None THEN t.at ELSE Larger(m.lastData, t.at)
  <2>5. /\ DOMAIN n = Fields /\ n.snaps = r.snaps /\ n.trades = T /\ n.sigs = r.sigs
        /\ n.sigSet = r.sigSet /\ n.lastData = last
    <3> HIDE DEF r
    <3> QED BY <1>2, <2>1 DEF AddTrade, Fields, r
  <2>6. last \in Int /\ last >= t.at
    BY TradeIs DEF Memory, MemoryTypes, Number, Larger
  <2>7. n.trades # <<>> /\ HasData(n)
    <3> HIDE DEF T, n
    <3> QED BY <2>3, <2>5, EmptySeq DEF HasData
  <2> HIDE DEF r, n, T, k, l, j, h, b, last
  <2>8. MemoryTypes(n)
    <3>1. Len(n.sigs) =< SigCap /\ n.sigs \in Seq(SigSet)
      BY <2>1, <2>2, <2>5
    <3>2. Len(n.trades) =< TradeCap /\ n.trades \in Seq(TradeSet)
      BY <2>2, <2>3, <2>5
    <3>3. n.snaps \in Seq(SnapSet) /\ Len(n.snaps) =< SnapCap
      BY <2>1, <2>5 DEF Memory, MemoryTypes
    <3> QED BY <2>5, <2>6, <3>1, <3>2, <3>3 DEF MemoryTypes, Number
  <2>9. SigsAgree(n)
    <3>1. n.sigs = r.sigs /\ n.sigSet = r.sigSet
      BY <2>5
    <3>2. SigsAgree(r)
      BY <2>1
    <3> QED BY <3>1, <3>2 DEF SigsAgree
  <2>10. SnapsInOrder(n)
    BY <2>1, <2>5 DEF Memory, SnapsInOrder
  <2>11. \A i \in 1..Len(T) : i = Len(T) \/ i \in 1..(l - k)
    BY <2>2, <2>3, <2>4
  <2>12. \A i \in 1..(l - k) : T[i] = m.trades[i + k] /\ i + k \in 1..l
    BY <2>2, <2>3, <2>4
  <2>13. SigsOutlast(n)
    <3> SUFFICES ASSUME NEW i \in 1..Len(T), T[i].sig # None
                 PROVE  \E p \in 1..Len(r.sigs) : /\ r.sigs[p] = T[i].sig
                                                  /\ Len(r.sigs) - p =< Len(T) - i
      BY <2>5 DEF SigsOutlast
    <3>1. CASE i = Len(T)
      <4>1. t.sig # None /\ h = 1
        BY <2>3, <3>1 DEF h
      <4>2. Len(r.sigs) \in 1..Len(r.sigs)
        <5>1. Len(r.sigs) = b + h - j /\ b \in Nat /\ h = 1
          BY <2>1, <4>1
        <5>2. j = 0 \/ (j = 1 /\ b = SigCap)
          BY <2>1
        <5> QED BY <2>2, <5>1, <5>2
      <4>3. Len(r.sigs) - Len(r.sigs) =< Len(T) - i
        BY <2>1, <2>3, <3>1
      <4>4. r.sigs[Len(r.sigs)] = T[i].sig
        BY <2>1, <2>3, <3>1, <4>1
      <4> QED BY <4>2, <4>3, <4>4
    <3>2. CASE i \in 1..(l - k)
      <4>1. T[i].sig = m.trades[i + k].sig /\ i + k \in 1..l
        BY <2>12, <3>2
      <4>2. PICK p \in 1..b : m.sigs[p] = T[i].sig /\ b - p =< l - (i + k)
        BY <4>1 DEF Memory, SigsOutlast, l, b
      <4>3. p - j \in 1..(b - j)
        <5>1. CASE j = 0
          BY <2>1, <5>1
        <5>2. CASE j = 1 /\ b = SigCap
          <6>1. p # 1
            BY <2>1, <2>2, <2>4, <3>2, <4>2, <5>2
          <6> QED BY <2>1, <5>2, <6>1
        <5> QED BY <2>1, <5>1, <5>2
      <4>4. r.sigs[p - j] = T[i].sig
        <5>1. (p - j) + j = p
          BY <2>1
        <5> QED BY <2>1, <4>2, <4>3, <5>1
      <4>5. p - j \in 1..Len(r.sigs)
        BY <2>1, <4>3
      <4>6. Len(r.sigs) - (p - j) =< Len(T) - i
        <5>1. Len(r.sigs) = b + h - j /\ b \in Nat /\ h \in {0, 1} /\ j \in {0, 1}
          BY <2>1
        <5>2. Len(T) = l + 1 - k /\ l \in Nat /\ k \in {0, 1} /\ i \in Int
          BY <2>2, <2>3, <2>4
        <5>3. b - p =< l - (i + k) /\ p \in Int
          BY <4>2
        <5>4. Len(r.sigs) - (p - j) = b - p + h
          BY <5>1, <5>3
        <5>5. Len(T) - i = l - (i + k) + 1
          BY <5>2
        <5>6. b - p \in Int /\ l - (i + k) \in Int
          BY <5>1, <5>2, <5>3
        <5> QED BY <5>1, <5>3, <5>4, <5>5, <5>6
      <4> QED BY <4>4, <4>5, <4>6
    <3> QED BY <2>11, <3>1, <3>2
  <2>14. CountedOnce(n)
    <3>1. \A i \in 1..(l - k) : T[i].sig # None => T[i].sig # t.sig
      <4> SUFFICES ASSUME NEW i \in 1..(l - k), T[i].sig # None PROVE T[i].sig \in m.sigSet
        BY <1>2 DEF Counted
      <4>1. T[i].sig = m.trades[i + k].sig /\ i + k \in 1..l
        BY <2>12
      <4>2. PICK p \in 1..b : m.sigs[p] = T[i].sig
        BY <4>1 DEF Memory, SigsOutlast, l, b
      <4> QED BY <4>2 DEF Memory, SigsAgree, b
    <3> SUFFICES ASSUME NEW i \in 1..Len(T), NEW o \in 1..Len(T),
                        T[i].sig = T[o].sig, T[i].sig # None
                 PROVE  i = o
      BY <2>5 DEF CountedOnce
    <3>2. CASE i \in 1..(l - k) /\ o \in 1..(l - k)
      <4>1. m.trades[i + k].sig = m.trades[o + k].sig /\ i + k \in 1..l /\ o + k \in 1..l
        BY <2>12, <3>2
      <4>2. i + k = o + k
        BY <2>12, <3>2, <4>1 DEF Memory, CountedOnce, l
      <4> QED BY <2>4, <3>2, <4>2
    <3> QED BY <2>3, <2>11, <3>1, <3>2
  <2>15. Memory(n)
    BY <2>8, <2>9, <2>10, <2>13, <2>14 DEF Memory
  <2> QED BY <2>1, <2>5, <2>6, <2>7, <2>15 DEF n
<1> QED BY <1>1, <1>2

\* A window read backwards until the first entry that is too old holds all that are not.
LEMMA WindowIsWhole ==
  ASSUME NEW m, Memory(m), NEW at \in Int, NEW seconds \in Int
  PROVE  LET since == SnapshotsSince(m, at, seconds)
             passed == Len(m.snaps) - Len(since)
         IN  \A i \in DOMAIN m.snaps :
                 /\ i > passed <=> at - m.snaps[i].at <= seconds
                 /\ i > passed => since[i - passed] = m.snaps[i]
<1> DEFINE q == m.snaps
           l == Len(q)
           old == {i \in DOMAIN q : at - q[i].at > seconds}
           since == SubSeq(q, Max({0} \cup old) + 1, l)
<1>1. /\ q \in Seq(SnapSet) /\ l \in Nat /\ DOMAIN q = 1..l
      /\ \A i \in 1..l : q[i].at \in Int
  BY LenProperties, ElementOfSeq, SnapIs DEF Memory, MemoryTypes
<1>2. \A i, j \in 1..l : i =< j => q[i].at =< q[j].at
  BY DEF Memory, SnapsInOrder
<1> HIDE DEF q, l
<1> DEFINE d == [i \in {0} \cup old |-> i]
<1>3. {0} \cup old \subseteq 0..l /\ IsFiniteSet({0} \cup old)
  <2>1. {0} \cup old \subseteq 0..l
    BY <1>1
  <2>2. IsFiniteSet(0..l)
    BY <1>1, FS_Interval
  <2> HIDE DEF old
  <2> QED BY <2>1, <2>2, FS_Subset
<1>4. PICK e \in {0} \cup old : \A i \in {0} \cup old : i =< e
  <2> HIDE DEF old
  <2>1. d \in [{0} \cup old -> Int]
    BY <1>3
  <2>2. \E i \in {0} \cup old : \A j \in {0} \cup old : d[j] =< d[i]
    <3> HIDE DEF d
    <3> QED BY <1>3, <2>1, DeepestExists
  <2> QED BY <2>2
<1>5. Max({0} \cup old) = e
  <2> HIDE DEF old
  <2>1. \A x \in {0} \cup old : (\A y \in {0} \cup old : x >= y) => x = e
    BY <1>1, <1>3, <1>4
  <2> QED BY <1>3, <1>4, <2>1 DEF Max
<1>6. e \in 0..l
  BY <1>3
<1>7. \A i \in 1..l : i > e <=> at - q[i].at <= seconds
  <2> SUFFICES ASSUME NEW i \in 1..l PROVE i > e <=> at - q[i].at <= seconds
    OBVIOUS
  <2>1. CASE i > e
    <3>1. i \notin old
      BY <1>1, <1>4, <1>6, <2>1
    <3> QED BY <1>1, <2>1, <3>1
  <2>2. CASE ~(i > e)
    <3>1. e \in old
      BY <1>4, <1>6, <2>2
    <3>2. e \in 1..l /\ at - q[e].at > seconds
      BY <1>1, <3>1
    <3>3. q[i].at =< q[e].at
      BY <1>2, <1>6, <2>2, <3>2
    <3> QED BY <1>1, <2>2, <3>2, <3>3
  <2> QED BY <2>1, <2>2
<1>8. SnapshotsSince(m, at, seconds) = SubSeq(q, e + 1, l)
  BY <1>5 DEF SnapshotsSince, Recent, q, l
<1>9. /\ Len(SubSeq(q, e + 1, l)) = l - e
      /\ \A i \in 1..(l - e) : SubSeq(q, e + 1, l)[i] = q[e + i]
  <2>1. \A i \in (e + 1)..l : q[i] \in SnapSet
    BY <1>1, <1>6, ElementOfSeq DEF l
  <2>2. /\ SubSeq(q, e + 1, l) \in Seq(SnapSet)
        /\ Len(SubSeq(q, e + 1, l)) = IF e + 1 =< l THEN l - (e + 1) + 1 ELSE 0
        /\ \A i \in 1..(l - (e + 1) + 1) : SubSeq(q, e + 1, l)[i] = q[(e + 1) + i - 1]
    BY <1>1, <1>6, <2>1, SubSeqProperties
  <2> HIDE DEF l
  <2>3. \A i \in 1..(l - e) : i \in 1..(l - (e + 1) + 1) /\ (e + 1) + i - 1 = e + i
    BY <1>1, <1>6
  <2> QED BY <1>1, <1>6, <2>2, <2>3
<1> DEFINE w == SnapshotsSince(m, at, seconds)
<1>10. Len(w) = l - e /\ \A i \in 1..(l - e) : w[i] = q[e + i]
  BY <1>8, <1>9
<1> HIDE DEF w
<1>11. Len(m.snaps) - Len(w) = e
  BY <1>1, <1>6, <1>10 DEF q, l
<1>12. \A i \in 1..l : i > e => w[i - e] = q[i]
  <2> SUFFICES ASSUME NEW i \in 1..l, i > e PROVE w[i - e] = q[i]
    OBVIOUS
  <2>1. i - e \in 1..(l - e) /\ e + (i - e) = i
    BY <1>1, <1>6
  <2> QED BY <1>10, <2>1
<1>13. \A i \in DOMAIN q : /\ i > e <=> at - q[i].at <= seconds
                           /\ i > e => w[i - e] = q[i]
  BY <1>1, <1>7, <1>12
<1> QED BY <1>11, <1>13 DEF w, q

----------------------------------------------------------------------------
(* A decision reads the market as it was *)

Remembered == now \in Int /\ Memory(track)

LEMMA StartRemembers == TokenInit => Remembered
<1> SUFFICES ASSUME TokenInit PROVE Remembered
  OBVIOUS
<1>1. PICK token \in Sightings : track = NewTrack(token)
  BY DEF TokenInit
<1> QED BY <1>1, MemoryBegins DEF TokenInit, Remembered

\* What an action does to the memory: it leaves what is known of the market alone, adds data of
\* the moment, or begins anew.
Untouched == track'.lastData = track.lastData /\ (HasData(track') <=> HasData(track))
Refreshed == now' = now /\ HasData(track') /\ track'.lastData \in Int /\ track'.lastData >= now
Forgotten == position # None /\ ~HasData(track')

\* The report as it arrives.
LEMMA ReportArrives ==
  ASSUME NEW report \in Reports, now \in Int
  PROVE  [report EXCEPT !.at = now] \in SnapSet /\ [report EXCEPT !.at = now].at = now
<1>1. DOMAIN report = DOMAIN Unreported("dexscreener")
  <2> DEFINE u == Unreported("dexscreener")
  <2>1. report = [u EXCEPT !.price = report.price, !.liquidity = report.liquidity,
                           !.volume = report.volume, !.buys = report.buys,
                           !.sells = report.sells, !.usdPerSol = report.usdPerSol]
    BY ReportIs
  <2> HIDE DEF u
  <2> QED BY <2>1 DEF u
<1>2. "at" \in DOMAIN report
  BY <1>1 DEF Unreported
<1> QED BY <1>2 DEF SnapSet

LEMMA TradeArrives ==
  ASSUME NEW trade \in Trades, now \in Int
  PROVE  LET t == [trade EXCEPT !.at = now] IN
         /\ t \in TradeSet /\ t.at = now /\ Streamed(t) \in SnapSet /\ Streamed(t).at = now
<1> DEFINE t == [trade EXCEPT !.at = now]
<1>1. t \in TradeSet
  BY DEF TradeSet
<1>2. PICK msg \in TradeMessages : trade = ParseTrade(msg) /\ trade # None
  BY DEF Trades, Known
<1>3. "at" \in DOMAIN trade
  BY <1>2 DEF ParseTrade
<1>4. t.at = now
  BY <1>3
<1> HIDE DEF t
<1>5. Streamed(t) \in SnapSet
  BY <1>1 DEF SnapSet
<1>6. Streamed(t).at = t.at
  BY DEF Streamed, Unreported
<1> QED BY <1>1, <1>4, <1>5, <1>6 DEF t

LEMMA StepRemembers ==
  ASSUME Remembered, [TokenNext]_tokenVars
  PROVE  Remembered' /\ (Untouched \/ Refreshed \/ Forgotten)
<1> USE DEF market, feed, window, holding, world
<1>0. Step \in Int
  BY TokenAssumption
<1>1. CASE \E report \in Reports : Snapshot(report)
  <2>1. PICK report \in Reports : Snapshot(report)
    BY <1>1
  <2> DEFINE snap == [report EXCEPT !.at = now]
  <2>2. now' = now /\ track' = AddSnapshot(track, snap)
    BY <2>1 DEF Snapshot
  <2>3. snap \in SnapSet /\ snap.at = now
    BY ReportArrives DEF Remembered
  <2> HIDE DEF snap
  <2> QED BY <2>2, <2>3, SnapshotKeeps DEF Remembered, Untouched, Refreshed
<1>2. CASE \E trade \in Trades : Traded(trade)
  <2>1. PICK trade \in Trades : Traded(trade)
    BY <1>2
  <2> DEFINE t == [trade EXCEPT !.at = now]
             seen == AddTrade(track, t)
             snap == Streamed(t)
  <2>2. now' = now /\ (track' = seen \/ track' = AddSnapshot(seen, snap))
    BY <2>1 DEF Traded
  <2>3. t \in TradeSet /\ t.at = now /\ snap \in SnapSet /\ snap.at = now
    BY TradeArrives DEF Remembered
  <2> HIDE DEF t, snap
  <2>4. Memory(seen) /\ (seen = track \/ (/\ HasData(seen) /\ seen.lastData \in Int
                                          /\ seen.lastData >= now))
    BY <2>3, TradeKeeps DEF Remembered
  <2> HIDE DEF seen
  <2>5. CASE track' = seen
    BY <2>2, <2>4, <2>5 DEF Remembered, Untouched, Refreshed
  <2>6. CASE track' = AddSnapshot(seen, snap)
    <3>1. Memory(track') /\ (track' = seen \/ (HasData(track') /\ track'.lastData = now))
      BY <2>3, <2>4, <2>6, SnapshotKeeps
    <3> QED BY <2>2, <2>4, <3>1 DEF Remembered, Untouched, Refreshed
  <2> QED BY <2>2, <2>5, <2>6
<1>3. CASE \E other \in Sightings : Rediscovered(other)
  <2>1. PICK other \in Sightings : now' = now /\ track' = MergeToken(track, other)
    BY <1>3 DEF Rediscovered
  <2> QED BY <2>1, MergeKeeps DEF Remembered, Untouched
<1>4. CASE \E authorities \in Authorities : MetadataArrives(authorities)
  <2>1. PICK a \in Authorities : now' = now /\ track' = [track EXCEPT !.authorities = a]
    BY <1>4 DEF MetadataArrives
  <2> QED BY <2>1, AuthoritiesKeep DEF Remembered, Untouched
<1>5. CASE HoldersArrive
  <2>1. PICK dist : now' = now /\ track' = AddHolders(track, dist, now)
    BY <1>5 DEF HoldersArrive
  <2> QED BY <2>1, HoldersKeep DEF Remembered, Untouched
<1>6. CASE Restart
  <2>1. now' = now /\ track' = NewTrack(track.token) /\ position # None
    BY <1>6 DEF Restart
  <2> QED BY <2>1, MemoryBegins DEF Remembered, Forgotten
<1>7. CASE \/ ClockSetBack \/ AccountChanges \/ Finalize \/ Evaluate \/ Monitor
           \/ (\E error \in QuoteErrors : QuoteFails(error))
           \/ (\E pool \in Pools : QuoteArrives(pool))
           \/ (\E share \in ExitShares : ExitQuoteArrives(share))
           \/ ConfirmBuy \/ ConfirmSell \/ WithdrawBuy \/ WithdrawSell
           \/ UNCHANGED tokenVars
  <2>1. track' = track /\ (now' = now \/ now' = now - Step \/ now' = now + Step)
    BY <1>7 DEF ClockSetBack, AccountChanges, Finalize, Evaluate, Monitor, NextLook, QuoteFails,
                QuoteArrives, ExitQuoteArrives, ConfirmBuy, ConfirmSell, WithdrawBuy,
                WithdrawSell, tokenVars
  <2> QED BY <1>0, <2>1 DEF Remembered, Untouched
<1> QED BY <1>1, <1>2, <1>3, <1>4, <1>5, <1>6, <1>7 DEF TokenNext

\* However trades are repeated, snapshots delayed and the clock set back, a trade is counted
\* once and a window of the memory holds every snapshot that is young enough, for any limits of
\* the buffers that let the signatures outlast the trades.
THEOREM FaithfulMemory == TokenSpec => []MemoryIsFaithful
<1>1. Remembered => MemoryIsFaithful
  <2> SUFFICES ASSUME Remembered PROVE MemoryIsFaithful
    OBVIOUS
  <2>1. DOMAIN track.trades = 1..Len(track.trades)
    BY LenProperties DEF Remembered, Memory, MemoryTypes
  <2>2. \A i, j \in DOMAIN track.trades :
            track.trades[i].sig = track.trades[j].sig /\ track.trades[i].sig # None => i = j
    BY <2>1 DEF Remembered, Memory, CountedOnce
  <2>3. \A seconds \in {30, 60} : seconds \in Int
    OBVIOUS
  <2>4. Memory(track) /\ now \in Int
    BY DEF Remembered
  <2> QED BY <2>2, <2>3, <2>4, WindowIsWhole DEF MemoryIsFaithful
<1>2. Remembered /\ [TokenNext]_tokenVars => Remembered'
  BY StepRemembers
<1> QED BY <1>1, <1>2, StartRemembers, PTL DEF TokenSpec

----------------------------------------------------------------------------
(* The outcome window *)

LEMMA MaxIs ==
  ASSUME NEW S \in SUBSET Int, NEW x \in S, \A y \in S : y =< x
  PROVE  Max(S) = x
<1>1. \A z \in S : (\A y \in S : z >= y) => z = x
  OBVIOUS
<1>2. \A y \in S : x >= y
  OBVIOUS
<1> QED BY <1>1, <1>2 DEF Max

LEMMA MinIs ==
  ASSUME NEW S \in SUBSET Int, NEW x \in S, \A y \in S : x =< y
  PROVE  Min(S) = x
<1>1. \A z \in S : (\A y \in S : z =< y) => z = x
  OBVIOUS
<1> QED BY <1>1 DEF Min

\* Of the values p has on K, top is the highest and low the lowest since top was first reached.
PeakOf(K, p, top, low) ==
    \E k \in K : /\ p[k] = top
                 /\ \A i \in K : p[i] =< top /\ (i < k => p[i] < top)
                 /\ \E j \in K : j >= k /\ p[j] = low
                 /\ \A j \in K : j >= k => low =< p[j]

LEMMA PeakBegins ==
  ASSUME NEW n \in Int, NEW p, p[n] \in Int
  PROVE  PeakOf({n}, p, p[n], p[n])
BY DEF PeakOf

LEMMA PeakSame ==
  ASSUME NEW K, NEW p, NEW r, \A i \in K : r[i] = p[i], NEW top, NEW low, PeakOf(K, p, top, low)
  PROVE  PeakOf(K, r, top, low)
<1>1. PICK k \in K : /\ p[k] = top
                     /\ \A i \in K : p[i] =< top /\ (i < k => p[i] < top)
                     /\ \E j \in K : j >= k /\ p[j] = low
                     /\ \A j \in K : j >= k => low =< p[j]
  BY DEF PeakOf
<1>2. PICK j \in K : j >= k /\ p[j] = low
  BY <1>1
<1>3. r[k] = top /\ r[j] = low
  BY <1>1, <1>2
<1>4. \A i \in K : r[i] =< top /\ (i < k => r[i] < top)
  BY <1>1
<1>5. \A i \in K : i >= k => low =< r[i]
  BY <1>1
<1> QED BY <1>2, <1>3, <1>4, <1>5 DEF PeakOf

\* A new value is a new peak, or may be a new low.
LEMMA PeakGrows ==
  ASSUME NEW n \in Int, NEW K \in SUBSET Int, \A i \in K : i < n,
         NEW p, \A i \in K \cup {n} : p[i] \in Int, NEW top, NEW low, PeakOf(K, p, top, low)
  PROVE  /\ top \in Int /\ low \in Int
         /\ PeakOf(K \cup {n}, p, IF p[n] > top THEN p[n] ELSE top,
                                  IF p[n] > top THEN p[n] ELSE Smaller(low, p[n]))
<1>1. PICK k \in K : /\ p[k] = top
                     /\ \A i \in K : p[i] =< top /\ (i < k => p[i] < top)
                     /\ \E j \in K : j >= k /\ p[j] = low
                     /\ \A j \in K : j >= k => low =< p[j]
  BY DEF PeakOf
<1>2. PICK j \in K : j >= k /\ p[j] = low
  BY <1>1
<1>3. top \in Int /\ low \in Int /\ p[n] \in Int /\ k \in Int /\ j \in Int
  BY <1>1, <1>2
<1>4. \A i \in K : p[i] \in Int /\ i \in Int /\ i < n
  OBVIOUS
<1>5. CASE p[n] > top
  <2>1. \A i \in K \cup {n} : p[i] =< p[n] /\ (i < n => p[i] < p[n])
    BY <1>1, <1>3, <1>4, <1>5
  <2>2. \A i \in K \cup {n} : i >= n => p[n] =< p[i]
    BY <1>3, <1>4
  <2>3. PeakOf(K \cup {n}, p, p[n], p[n])
    BY <1>3, <2>1, <2>2 DEF PeakOf
  <2> QED BY <1>3, <1>5, <2>3
<1>6. CASE ~(p[n] > top)
  <2> DEFINE L == Smaller(low, p[n])
  <2>1. \A i \in K \cup {n} : p[i] =< top /\ (i < k => p[i] < top)
    BY <1>1, <1>3, <1>4, <1>6
  <2>2. \A i \in K \cup {n} : i >= k => L =< p[i]
    BY <1>1, <1>3, <1>4 DEF Smaller
  <2>3. \E i \in K \cup {n} : i >= k /\ p[i] = L
    <3>1. CASE low =< p[n]
      BY <1>2, <3>1 DEF Smaller
    <3>2. CASE ~(low =< p[n])
      <4>1. n >= k /\ p[n] = L
        BY <1>3, <1>4, <3>2 DEF Smaller
      <4> QED BY <4>1
    <3> QED BY <3>1, <3>2
  <2> HIDE DEF L
  <2>4. PeakOf(K \cup {n}, p, top, L)
    BY <1>1, <2>1, <2>2, <2>3 DEF PeakOf
  <2> QED BY <1>3, <1>6, <2>4 DEF L
<1> QED BY <1>5, <1>6

\* That is, in the words of the property.
LEMMA PeakSaid ==
  ASSUME NEW K \in SUBSET Int, NEW p, \A i \in K : p[i] \in Int,
         NEW top, NEW low, PeakOf(K, p, top, low)
  PROVE  /\ Max({p[i] : i \in K}) = top
         /\ Min({p[i] : i \in {j \in K : j >= Min({i \in K : p[i] = top})}}) = low
<1>1. PICK k \in K : /\ p[k] = top
                     /\ \A i \in K : p[i] =< top /\ (i < k => p[i] < top)
                     /\ \E j \in K : j >= k /\ p[j] = low
                     /\ \A j \in K : j >= k => low =< p[j]
  BY DEF PeakOf
<1>2. PICK j \in K : j >= k /\ p[j] = low
  BY <1>1
<1> DEFINE V == {p[i] : i \in K}
           F == {i \in K : p[i] = top}
           W == {p[i] : i \in {m \in K : m >= k}}
<1>3. Max(V) = top
  <2>1. V \in SUBSET Int /\ top \in V /\ \A y \in V : y =< top
    BY <1>1
  <2> HIDE DEF V
  <2> QED BY <2>1, MaxIs
<1>4. Min(F) = k
  <2>1. F \in SUBSET Int /\ k \in F
    BY <1>1
  <2>2. \A y \in F : k =< y
    <3> SUFFICES ASSUME NEW y \in F, ~(k =< y) PROVE FALSE
      OBVIOUS
    <3>1. y \in K /\ p[y] = top /\ y < k /\ top \in Int
      BY <1>1
    <3> QED BY <1>1, <3>1
  <2> HIDE DEF F
  <2> QED BY <2>1, <2>2, MinIs
<1>5. Min(W) = low
  <2>1. W \in SUBSET Int /\ low \in W /\ \A y \in W : low =< y
    BY <1>1, <1>2
  <2> HIDE DEF W
  <2> QED BY <2>1, MinIs
<1> QED BY <1>3, <1>4, <1>5

PricedSet == {s \in SnapSet : Priced(s)}
PriceOf(h) == [i \in 1..Len(h) |-> h[i].price]
DepthOf(h) == [i \in 1..Len(h) |-> h[i].liquidity]
Reported(h) == {i \in 1..Len(h) : h[i].liquidity # None}

WindowFields == {"first", "max", "afterMax", "last", "maxLiquidity", "afterMaxLiquidity", "ends",
              "qualified", "afterQualified"}

\* What a window says of what it was given.
PriceSaid(o, h) ==
    /\ o.first = h[1].price /\ o.last = h[Len(h)].price
    /\ PeakOf(1..Len(h), PriceOf(h), o.max, o.afterMax)

DepthSaid(o, h) ==
    IF Reported(h) = {} THEN o.maxLiquidity = None
    ELSE PeakOf(Reported(h), DepthOf(h), o.maxLiquidity, o.afterMaxLiquidity)

RiseSaid(o, h) ==
    o.qualified # None =>
        /\ o.qualified.price \in Int /\ o.qualified.heard \in 0..Len(h) /\ o.afterQualified \in Int
        /\ o.qualified.price =< o.afterQualified
        /\ \A i \in (o.qualified.heard + 1)..Len(h) : h[i].price =< o.afterQualified
        /\ \/ o.qualified.price = o.afterQualified
           \/ \E i \in (o.qualified.heard + 1)..Len(h) : h[i].price = o.afterQualified

Says(o, h) ==
    /\ DOMAIN o = WindowFields /\ h # <<>>
    /\ PriceSaid(o, h) /\ DepthSaid(o, h) /\ RiseSaid(o, h)

LEMMA PricedIs ==
  ASSUME NEW s \in PricedSet
  PROVE  s \in SnapSet /\ s.at \in Int /\ s.price \in Int /\ s.liquidity \in Number
BY SnapIs DEF PricedSet, Priced, Number

LEMMA OpenedSays ==
  ASSUME NEW s \in PricedSet
  PROVE  Append(<<>>, s) \in Seq(PricedSet) /\ Says(Opened(s), Append(<<>>, s))
<1> DEFINE h == Append(<<>>, s)
           o == Opened(s)
<1>1. h \in Seq(PricedSet) /\ Len(h) = 1 /\ h[1] = s /\ h # <<>>
  OBVIOUS
<1>2. /\ DOMAIN o = WindowFields /\ o.first = s.price /\ o.last = s.price /\ o.max = s.price
      /\ o.afterMax = s.price /\ o.maxLiquidity = s.liquidity
      /\ o.afterMaxLiquidity = s.liquidity /\ o.qualified = None
  BY DEF Opened, WindowFields
<1>3. s.price \in Int /\ s.liquidity \in Number
  BY PricedIs
<1> HIDE DEF h, o
<1>4. 1..Len(h) = {1}
  BY <1>1
<1>5. PriceSaid(o, h)
  <2>1. PriceOf(h)[1] = s.price
    BY <1>1, <1>4 DEF PriceOf
  <2>2. PeakOf({1}, PriceOf(h), s.price, s.price)
    <3> DEFINE E == PriceOf(h)
    <3> HIDE DEF E
    <3>1. E[1] = s.price /\ E[1] \in Int
      BY <1>3, <2>1 DEF E
    <3>2. PeakOf({1}, E, E[1], E[1])
      <4>1. 1 \in Int /\ E[1] \in Int
        BY <3>1
      <4> QED BY ONLY <4>1, PeakBegins, Zenon
    <3> QED BY <3>1, <3>2 DEF E
  <2> QED BY <1>1, <1>2, <1>4, <2>2 DEF PriceSaid
<1>6. DepthSaid(o, h)
  <2>1. CASE s.liquidity = None
    <3>1. Reported(h) = {}
      BY <1>1, <1>4, <2>1 DEF Reported
    <3> QED BY <1>2, <2>1, <3>1 DEF DepthSaid
  <2>2. CASE s.liquidity # None
    <3>1. Reported(h) = {1} /\ DepthOf(h)[1] = s.liquidity
      BY <1>1, <1>4, <2>2 DEF Reported, DepthOf
    <3>2. PeakOf({1}, DepthOf(h), s.liquidity, s.liquidity)
      <4> DEFINE E == DepthOf(h)
      <4> HIDE DEF E
      <4>1. E[1] = s.liquidity /\ E[1] \in Int
        BY <1>3, <2>2, <3>1 DEF E, Number
      <4>2. PeakOf({1}, E, E[1], E[1])
        <5>1. 1 \in Int /\ E[1] \in Int
          BY <4>1
        <5> QED BY ONLY <5>1, PeakBegins, Zenon
      <4> QED BY <4>1, <4>2 DEF E
    <3> QED BY <1>2, <3>1, <3>2 DEF DepthSaid
  <2> QED BY <2>1, <2>2
<1>7. RiseSaid(o, h)
  BY <1>2 DEF RiseSaid
<1>8. Says(o, h)
  BY <1>1, <1>2, <1>5, <1>6, <1>7 DEF Says
<1> QED BY <1>1, <1>8 DEF h, o

LEMMA ObservedSays ==
  ASSUME NEW h \in Seq(PricedSet), NEW s \in PricedSet, NEW o, Says(o, h)
  PROVE  Append(h, s) \in Seq(PricedSet) /\ Says(Observed(o, s), Append(h, s))
<1> DEFINE g == Append(h, s)
           w == Observed(o, s)
           l == Len(h)
           P == PriceOf(g)
           D == DepthOf(g)
           usd == s.liquidity
           deepest == usd # None /\ (o.maxLiquidity = None \/ usd > o.maxLiquidity)
<1>1. /\ g \in Seq(PricedSet) /\ Len(g) = l + 1 /\ g[l + 1] = s /\ g # <<>>
      /\ \A i \in 1..l : g[i] = h[i]
  BY AppendProperties
<1>2. l \in Nat /\ l >= 1
  BY LenProperties, EmptySeq DEF Says
<1>3. /\ DOMAIN w = WindowFields /\ w.first = o.first /\ w.last = s.price
      /\ w.max = Larger(o.max, s.price)
      /\ w.afterMax = (IF s.price > o.max THEN s.price ELSE Smaller(o.afterMax, s.price))
      /\ w.qualified = o.qualified
      /\ w.afterQualified = (IF o.qualified = None THEN o.afterQualified
                             ELSE Larger(o.afterQualified, s.price))
  BY DEF Observed, Says, WindowFields
<1>4. /\ w.maxLiquidity = (IF deepest THEN usd ELSE o.maxLiquidity)
      /\ w.afterMaxLiquidity = (IF deepest THEN usd
                                ELSE IF usd = None THEN o.afterMaxLiquidity
                                ELSE IF o.afterMaxLiquidity = None THEN usd
                                ELSE Smaller(o.afterMaxLiquidity, usd))
  BY DEF Observed, Says, WindowFields
<1>5. /\ s.price \in Int /\ usd \in Number
      /\ \A i \in 1..l : h[i].price \in Int /\ h[i].liquidity \in Number
  BY PricedIs, ElementOfSeq
<1>6. /\ 1..Len(g) = (1..l) \cup {l + 1} /\ l + 1 \in Int /\ \A i \in 1..l : i \in Int /\ i < l + 1
  BY <1>1, <1>2
<1> HIDE DEF g, w, l
<1>7. /\ P[l + 1] = s.price /\ \A i \in 1..l : P[i] = h[i].price
      /\ D[l + 1] = usd /\ \A i \in 1..l : D[i] = h[i].liquidity
  BY <1>1, <1>6 DEF PriceOf, DepthOf
<1>8. /\ \A i \in 1..l : PriceOf(h)[i] = h[i].price
      /\ \A i \in 1..l : DepthOf(h)[i] = h[i].liquidity
  BY DEF PriceOf, DepthOf, l
<1>9. PriceSaid(w, g)
  <2>1. PeakOf(1..l, PriceOf(h), o.max, o.afterMax)
    BY DEF Says, PriceSaid, l
  <2> HIDE DEF P
  <2>2. PeakOf(1..l, P, o.max, o.afterMax)
    <3> DEFINE K == 1..l
               E == PriceOf(h)
               top == o.max
               low == o.afterMax
    <3>1. \A i \in K : P[i] = E[i]
      BY <1>7, <1>8
    <3>2. PeakOf(K, E, top, low)
      BY <2>1
    <3> HIDE DEF K, E, top, low
    <3>3. PeakOf(K, P, top, low)
      BY <3>1, <3>2, PeakSame
    <3> QED BY <3>3 DEF K, top, low
  <2>3. \A i \in (1..l) \cup {l + 1} : P[i] \in Int
    BY <1>5, <1>7
  <2>4. /\ o.max \in Int /\ o.afterMax \in Int
        /\ PeakOf((1..l) \cup {l + 1}, P, IF P[l + 1] > o.max THEN P[l + 1] ELSE o.max,
                  IF P[l + 1] > o.max THEN P[l + 1] ELSE Smaller(o.afterMax, P[l + 1]))
    <3> DEFINE K == 1..l
               n == l + 1
    <3>1. K \in SUBSET Int /\ n \in Int /\ \A i \in K : i < n
      BY <1>6
    <3>2. (\A i \in K \cup {n} : P[i] \in Int) /\ PeakOf(K, P, o.max, o.afterMax)
      BY <2>2, <2>3
    <3> HIDE DEF K, n
    <3>3. /\ o.max \in Int /\ o.afterMax \in Int
          /\ PeakOf(K \cup {n}, P, IF P[n] > o.max THEN P[n] ELSE o.max,
                    IF P[n] > o.max THEN P[n] ELSE Smaller(o.afterMax, P[n]))
      BY <3>1, <3>2, PeakGrows
    <3> QED BY <3>3 DEF K, n
  <2>5. /\ (IF P[l + 1] > o.max THEN P[l + 1] ELSE o.max) = w.max
        /\ (IF P[l + 1] > o.max THEN P[l + 1] ELSE Smaller(o.afterMax, P[l + 1])) = w.afterMax
    BY <1>3, <1>5, <1>7, <2>4 DEF Larger
  <2>6. PeakOf(1..Len(g), P, w.max, w.afterMax)
    BY <1>6, <2>4, <2>5
  <2>7. w.first = g[1].price /\ w.last = g[Len(g)].price
    <3>1. 1 \in 1..l /\ o.first = h[1].price
      BY <1>2 DEF Says, PriceSaid
    <3> QED BY <1>1, <1>3, <3>1
  <2> QED BY <2>6, <2>7 DEF PriceSaid, P
<1>10. DepthSaid(w, g)
  <2>1. Reported(h) = {i \in 1..l : h[i].liquidity # None}
    BY DEF Reported, l
  <2> DEFINE K == Reported(h)
             n == l + 1
  <2>2. \A i \in K : D[i] = DepthOf(h)[i] /\ D[i] \in Int /\ i \in Int /\ i < n
    BY <1>5, <1>6, <1>7, <1>8, <2>1 DEF Number
  <2>3. Reported(g) = IF usd = None THEN K ELSE K \cup {n}
    <3>1. Reported(g) = {i \in (1..l) \cup {n} : g[i].liquidity # None}
      BY <1>6 DEF Reported
    <3>2. g[n].liquidity = usd /\ \A i \in 1..l : g[i].liquidity = h[i].liquidity
      BY <1>1
    <3>3. \A i : i \in Reported(g) <=> \/ i \in 1..l /\ h[i].liquidity # None
                                       \/ i = n /\ usd # None
      BY <3>1, <3>2
    <3> HIDE DEF n
    <3>4. \A i : i \in K <=> i \in 1..l /\ h[i].liquidity # None
      BY <2>1
    <3> HIDE DEF K
    <3>5. \A i : i \in Reported(g) <=> i \in K \/ (i = n /\ usd # None)
      BY <3>3, <3>4
    <3> QED BY <3>5
  <2> HIDE DEF K, D
  <2>4. K # {} => PeakOf(K, D, o.maxLiquidity, o.afterMaxLiquidity)
    <3> SUFFICES ASSUME K # {} PROVE PeakOf(K, D, o.maxLiquidity, o.afterMaxLiquidity)
      OBVIOUS
    <3>1. PeakOf(K, DepthOf(h), o.maxLiquidity, o.afterMaxLiquidity)
      BY DEF K, Says, DepthSaid
    <3> DEFINE E == DepthOf(h)
    <3> HIDE DEF E
    <3>2. PeakOf(K, E, o.maxLiquidity, o.afterMaxLiquidity) /\ \A i \in K : D[i] = E[i]
      BY <2>2, <3>1 DEF E
    <3> QED BY <3>2, PeakSame
  <2>5. K = {} => o.maxLiquidity = None
    BY DEF K, Says, DepthSaid
  <2>6. CASE usd = None
    <3>1. ~deepest
      BY <2>6
    <3> HIDE DEF deepest
    <3>2. w.maxLiquidity = o.maxLiquidity /\ w.afterMaxLiquidity = o.afterMaxLiquidity
      BY <1>4, <2>6, <3>1
    <3>3. Reported(g) = K
      BY <2>3, <2>6
    <3> QED BY <2>4, <2>5, <3>2, <3>3 DEF DepthSaid, D
  <2>7. CASE usd # None /\ K = {}
    <3>1. deepest
      BY <2>5, <2>7
    <3> HIDE DEF deepest
    <3>2. w.maxLiquidity = usd /\ w.afterMaxLiquidity = usd
      BY <1>4, <3>1
    <3>3. Reported(g) = {n}
      BY <2>3, <2>7
    <3>4. D[n] = usd /\ usd \in Int /\ n \in Int
      BY <1>5, <1>6, <1>7, <2>7 DEF Number
    <3> HIDE DEF n
    <3>5. PeakOf({n}, D, usd, usd)
      BY <3>4, PeakBegins
    <3> QED BY <3>2, <3>3, <3>5 DEF DepthSaid, D
  <2>8. CASE usd # None /\ K # {}
    <3>1. D[n] = usd /\ usd \in Int /\ n \in Int
      BY <1>5, <1>6, <1>7, <2>8 DEF Number
    <3> DEFINE top == o.maxLiquidity
               low == o.afterMaxLiquidity
    <3>2. PeakOf(K, D, top, low)
      BY <2>4, <2>8
    <3>3. Reported(g) = K \cup {n}
      BY <2>3, <2>8
    <3> HIDE DEF n, top, low
    <3>4. /\ top \in Int /\ low \in Int
          /\ PeakOf(K \cup {n}, D, IF D[n] > top THEN D[n] ELSE top,
                    IF D[n] > top THEN D[n] ELSE Smaller(low, D[n]))
      <4>1. K \in SUBSET Int /\ (\A i \in K : i < n) /\ \A i \in K \cup {n} : D[i] \in Int
        BY <2>2, <3>1 DEF n
      <4> QED BY <3>1, <3>2, <4>1, PeakGrows
    <3>5. top # None /\ low # None
      BY <3>4, PayloadAssumption
    <3>6. deepest <=> usd > top
      BY <2>8, <3>5 DEF top
    <3> HIDE DEF deepest
    <3>7. /\ w.maxLiquidity = (IF D[n] > top THEN D[n] ELSE top)
          /\ w.afterMaxLiquidity = (IF D[n] > top THEN D[n] ELSE Smaller(low, D[n]))
      BY <1>4, <2>8, <3>1, <3>5, <3>6 DEF top, low
    <3>8. PeakOf(Reported(g), D, w.maxLiquidity, w.afterMaxLiquidity)
      BY <3>3, <3>4, <3>7
    <3>9. Reported(g) # {}
      BY <3>3
    <3> QED BY <3>8, <3>9 DEF DepthSaid, D
  <2> QED BY <2>6, <2>7, <2>8
<1>11. RiseSaid(w, g)
  <2> SUFFICES ASSUME o.qualified # None PROVE RiseSaid(w, g)
    BY <1>3 DEF RiseSaid
  <2> DEFINE f == o.qualified.heard
             q == o.qualified.price
             a == o.afterQualified
  <2>1. /\ q \in Int /\ f \in 0..l /\ a \in Int /\ q =< a
        /\ \A i \in (f + 1)..l : h[i].price =< a
        /\ q = a \/ \E i \in (f + 1)..l : h[i].price = a
    BY DEF Says, RiseSaid, l
  <2>2. w.qualified = o.qualified /\ w.afterQualified = Larger(a, s.price)
    BY <1>3
  <2> HIDE DEF f, q, a
  <2> DEFINE b == Larger(a, s.price)
  <2>3. b \in Int /\ a =< b /\ s.price =< b /\ (b = a \/ b = s.price)
    BY <1>5, <2>1 DEF Larger
  <2> HIDE DEF b
  <2>4. \A i \in (f + 1)..(l + 1) : i = l + 1 \/ (i \in (f + 1)..l /\ i \in 1..l)
    BY <1>2, <2>1
  <2>5. \A i \in (f + 1)..l : i \in 1..l /\ i \in (f + 1)..(l + 1)
    BY <1>2, <2>1
  <2>6. l + 1 \in (f + 1)..(l + 1) /\ f \in 0..(l + 1)
    BY <1>2, <2>1
  <2>7. \A i \in (f + 1)..(l + 1) : g[i].price =< b
    <3> SUFFICES ASSUME NEW i \in (f + 1)..(l + 1) PROVE g[i].price =< b
      OBVIOUS
    <3>1. CASE i = l + 1
      BY <1>1, <2>3, <3>1
    <3>2. CASE i \in (f + 1)..l /\ i \in 1..l
      <4>1. g[i] = h[i] /\ h[i].price \in Int /\ h[i].price =< a
        BY <1>1, <1>5, <2>1, <3>2
      <4> QED BY <2>1, <2>3, <4>1
    <3> QED BY <2>4, <3>1, <3>2
  <2>8. q = b \/ \E i \in (f + 1)..(l + 1) : g[i].price = b
    <3>1. CASE b = s.price
      BY <1>1, <2>6, <3>1
    <3>2. CASE b = a /\ q # a
      <4>1. PICK i \in (f + 1)..l : h[i].price = a
        BY <2>1, <3>2
      <4> QED BY <1>1, <2>5, <3>2, <4>1
    <3> QED BY <2>3, <3>1, <3>2
  <2>9. q =< b
    BY <2>1, <2>3
  <2> QED BY <1>1, <2>1, <2>2, <2>3, <2>6, <2>7, <2>8, <2>9 DEF RiseSaid, b, f, q
<1>12. Says(w, g)
  BY <1>1, <1>3, <1>9, <1>10, <1>11 DEF Says
<1> QED BY <1>1, <1>12 DEF g, w

\* A window counts what it was given only while it is open.
Measured ==
    /\ heard \in Seq(PricedSet)
    /\ ~measured => heard = <<>> /\ outcome = None
    /\ outcome # None => Says(outcome, heard)

LEMMA DeliveredSays ==
  ASSUME Measured, NEW s \in SnapSet, Delivered(s)
  PROVE  Measured'
<1> DEFINE opens == ~measured /\ Accepts(track, s) /\ Priced(s)
<1>1. /\ measured' = (measured \/ opens)
      /\ heard' = IF opens \/ Measures(s) THEN Append(heard, s) ELSE heard
      /\ outcome' = IF opens THEN Opened(s)
                    ELSE IF Measures(s) THEN Observed(outcome, s) ELSE outcome
  BY DEF Delivered
<1>2. CASE opens
  <2>1. s \in PricedSet /\ heard = <<>>
    BY <1>2 DEF Measured, PricedSet
  <2>2. heard' = Append(<<>>, s) /\ outcome' = Opened(s) /\ measured'
    BY <1>1, <1>2, <2>1
  <2>3. Append(<<>>, s) \in Seq(PricedSet) /\ Says(Opened(s), Append(<<>>, s))
    BY <2>1, OpenedSays
  <2> QED BY <2>2, <2>3 DEF Measured
<1>3. CASE ~opens /\ Measures(s)
  <2>1. s \in PricedSet /\ outcome # None
    BY <1>3 DEF PricedSet, Measures
  <2>2. measured /\ heard \in Seq(PricedSet) /\ Says(outcome, heard)
    BY <2>1 DEF Measured
  <2> HIDE DEF opens
  <2>3. heard' = Append(heard, s) /\ outcome' = Observed(outcome, s) /\ measured'
    BY <1>1, <1>3, <2>2
  <2>4. Append(heard, s) \in Seq(PricedSet) /\ Says(Observed(outcome, s), Append(heard, s))
    BY <2>1, <2>2, ObservedSays
  <2> QED BY <2>3, <2>4 DEF Measured
<1>4. CASE ~opens /\ ~Measures(s)
  <2> HIDE DEF opens
  <2>1. heard' = heard /\ outcome' = outcome /\ (measured => measured')
    BY <1>1, <1>4
  <2>2. ~measured' => ~measured
    BY <2>1
  <2> QED BY <2>1, <2>2 DEF Measured
<1> QED BY <1>2, <1>3, <1>4

LEMMA QualifiedSays ==
  ASSUME Measured, NEW price \in Number
  PROVE  NoteQualified(price) # None => /\ outcome # None
                                        /\ Says(NoteQualified(price), heard)
<1> SUFFICES ASSUME NoteQualified(price) # None
             PROVE  outcome # None /\ Says(NoteQualified(price), heard)
  OBVIOUS
<1>1. outcome # None /\ Says(outcome, heard)
  BY DEF NoteQualified, Measured
<1>2. CASE outcome.qualified # None \/ price = None
  BY <1>1, <1>2 DEF NoteQualified
<1>3. CASE outcome.qualified = None /\ price # None
  <2> DEFINE q == [price |-> price, heard |-> Len(heard)]
             w == [outcome EXCEPT !.qualified = q, !.afterQualified = price]
  <2>1. NoteQualified(price) = outcome \/ NoteQualified(price) = w
    BY <1>1, <1>3 DEF NoteQualified
  <2>2. q.price = price /\ q.heard = Len(heard) /\ price \in Int
    BY <1>3 DEF Number
  <2>3. /\ DOMAIN w = WindowFields /\ w.qualified = q /\ w.afterQualified = price
        /\ w.first = outcome.first /\ w.last = outcome.last /\ w.max = outcome.max
        /\ w.afterMax = outcome.afterMax /\ w.maxLiquidity = outcome.maxLiquidity
        /\ w.afterMaxLiquidity = outcome.afterMaxLiquidity
    <3> HIDE DEF q
    <3> QED BY <1>1 DEF Says, WindowFields
  <2> HIDE DEF q, w
  <2>4. PriceSaid(w, heard) /\ DepthSaid(w, heard) /\ heard # <<>>
    BY <1>1, <2>3 DEF Says, PriceSaid, DepthSaid
  <2>5. RiseSaid(w, heard)
    <3>1. Len(heard) \in Nat
      BY LenProperties DEF Measured
    <3>2. (Len(heard) + 1)..Len(heard) = {} /\ Len(heard) \in 0..Len(heard)
      BY <3>1
    <3> QED BY <2>2, <2>3, <3>2 DEF RiseSaid
  <2>6. Says(w, heard)
    BY <2>3, <2>4, <2>5 DEF Says
  <2> QED BY <1>1, <2>1, <2>6
<1> QED BY <1>2, <1>3

LEMMA LatestPrice == ASSUME Remembered PROVE Latest(track, "price") \in Number
<1>1. track.snaps \in Seq(SnapSet)
  BY DEF Remembered, Memory, MemoryTypes
<1>2. CASE track.snaps = <<>>
  BY <1>2 DEF Latest, Number
<1>3. CASE track.snaps # <<>>
  <2>1. Len(track.snaps) \in Nat \ {0}
    BY <1>1, <1>3, EmptySeq
  <2>2. Last(track.snaps) \in SnapSet
    BY <1>1, <2>1, ElementOfSeq DEF Last
  <2> QED BY <1>3, <2>2, SnapIs DEF Latest
<1> QED BY <1>2, <1>3

LEMMA StepMeasures ==
  ASSUME Remembered, Measured, [TokenNext]_tokenVars
  PROVE  Measured'
<1> USE DEF market, feed, window, holding, world
<1>1. CASE \E report \in Reports : Snapshot(report)
  <2>1. PICK report \in Reports : Snapshot(report)
    BY <1>1
  <2> DEFINE snap == [report EXCEPT !.at = now]
  <2>2. Delivered(snap)
    BY <2>1 DEF Snapshot
  <2>3. snap \in SnapSet
    BY ReportArrives DEF Remembered
  <2> QED BY <2>2, <2>3, DeliveredSays
<1>2. CASE \E trade \in Trades : Traded(trade)
  <2>1. PICK trade \in Trades : Traded(trade)
    BY <1>2
  <2> DEFINE snap == Streamed([trade EXCEPT !.at = now])
  <2>2. UNCHANGED window \/ Delivered(snap)
    BY <2>1 DEF Traded
  <2>3. snap \in SnapSet
    BY TradeArrives DEF Remembered
  <2> HIDE DEF snap
  <2> QED BY <2>2, <2>3, DeliveredSays DEF Measured
<1>3. CASE Finalize
  <2>1. outcome' = None /\ heard' = <<>>
    BY <1>3 DEF Finalize
  <2> QED BY <2>1 DEF Measured
<1>4. CASE Evaluate
  <2> DEFINE price == Latest(track, "price")
  <2>1. /\ heard' = heard /\ measured' = measured
        /\ outcome' = outcome \/ outcome' = NoteQualified(price)
    BY <1>4 DEF Evaluate
  <2>2. price \in Number
    BY LatestPrice
  <2> HIDE DEF price
  <2>3. CASE outcome' = outcome
    BY <2>1, <2>3 DEF Measured
  <2>4. CASE outcome' = NoteQualified(price)
    <3>1. outcome' # None => outcome # None /\ Says(outcome', heard)
      BY <2>2, <2>4, QualifiedSays
    <3>2. ~measured' => outcome' = None
      BY <2>1, <3>1 DEF Measured
    <3> QED BY <2>1, <3>1, <3>2 DEF Measured
  <2> QED BY <2>1, <2>3, <2>4
<1>5. CASE Restart
  <2>1. outcome' = None /\ heard' = <<>>
    BY <1>5 DEF Restart
  <2> QED BY <2>1 DEF Measured
<1>6. CASE \/ ClockSetBack \/ AccountChanges \/ Monitor
           \/ (\E other \in Sightings : Rediscovered(other))
           \/ (\E authorities \in Authorities : MetadataArrives(authorities))
           \/ HoldersArrive
           \/ (\E error \in QuoteErrors : QuoteFails(error))
           \/ (\E pool \in Pools : QuoteArrives(pool))
           \/ (\E share \in ExitShares : ExitQuoteArrives(share))
           \/ ConfirmBuy \/ ConfirmSell \/ WithdrawBuy \/ WithdrawSell
           \/ UNCHANGED tokenVars
  <2>1. UNCHANGED window
    BY <1>6 DEF ClockSetBack, AccountChanges, Monitor, Rediscovered, MetadataArrives,
                HoldersArrive, QuoteFails, QuoteArrives, ExitQuoteArrives, ConfirmBuy,
                ConfirmSell, WithdrawBuy, WithdrawSell, tokenVars
  <2> QED BY <2>1 DEF Measured
<1> QED BY <1>1, <1>2, <1>3, <1>4, <1>5, <1>6 DEF TokenNext

\* The window's measures, in the words of the property.
LEMMA SaysHonestly == ASSUME Measured PROVE OutcomeIsHonest
<1> SUFFICES ASSUME outcome # None PROVE OutcomeIsHonest
  BY DEF OutcomeIsHonest
<1> DEFINE n == Len(heard)
           Prices(from) == {heard[i].price : i \in from .. n}
           peak == Min({i \in 1 .. n : heard[i].price = Max(Prices(1))})
           known == {i \in 1 .. n : heard[i].liquidity # None}
           Depths(from) == {heard[i].liquidity : i \in {k \in known : k >= from}}
           deepest == Min({i \in known : heard[i].liquidity = Max(Depths(1))})
           P == PriceOf(heard)
           D == DepthOf(heard)
           f == outcome.qualified.heard
           a == outcome.afterQualified
<1>1. Says(outcome, heard) /\ n \in Nat \ {0}
  BY LenProperties, EmptySeq DEF Measured, Says
<1>2. \A i \in 1..n : heard[i].price \in Int /\ heard[i].liquidity \in Number
  BY PricedIs, ElementOfSeq DEF Measured
<1>3. \A i \in 1..n : P[i] = heard[i].price /\ D[i] = heard[i].liquidity
  BY DEF PriceOf, DepthOf
<1>4. outcome.max = Max(Prices(1)) /\ outcome.afterMax = Min(Prices(peak))
  <2> DEFINE K == 1..n
             F == {i \in K : P[i] = outcome.max}
  <2>1. PeakOf(K, P, outcome.max, outcome.afterMax)
    BY <1>1 DEF Says, PriceSaid
  <2> HIDE DEF P, n
  <2>2. K \in SUBSET Int /\ \A i \in K : P[i] \in Int
    BY <1>1, <1>2, <1>3
  <2> HIDE DEF K
  <2>3. /\ Max({P[i] : i \in K}) = outcome.max
        /\ Min({P[i] : i \in {j \in K : j >= Min(F)}}) = outcome.afterMax
    <3>1. K \in SUBSET Int
      BY <2>2
    <3>2. \A i \in K : P[i] \in Int
      BY <2>2
    <3> DEFINE top == outcome.max
               low == outcome.afterMax
    <3>3. PeakOf(K, P, top, low)
      BY <2>1
    <3> HIDE DEF top, low
    <3>4. /\ Max({P[i] : i \in K}) = top
          /\ Min({P[i] : i \in {j \in K : j >= Min({i \in K : P[i] = top})}}) = low
      BY ONLY <3>1, <3>2, <3>3, PeakSaid, Zenon
    <3> QED BY <3>4 DEF top, low
  <2>4. {P[i] : i \in K} = Prices(1)
    BY <1>3 DEF K
  <2>5. F = {i \in 1 .. n : heard[i].price = Max(Prices(1))}
    BY <1>3, <2>3, <2>4 DEF K
  <2>6. Min(F) = peak
    BY <2>5
  <2>7. PICK k \in K : P[k] = outcome.max /\ \A i \in K : i < k => P[i] < outcome.max
    BY <2>1 DEF PeakOf
  <2>8. Min(F) = k /\ k \in Int
    <3>1. F \in SUBSET Int /\ k \in F
      BY <2>2, <2>7
    <3>2. \A y \in F : k =< y
      <4> SUFFICES ASSUME NEW y \in F, ~(k =< y) PROVE FALSE
        OBVIOUS
      <4>1. y < k /\ P[y] = outcome.max /\ P[y] \in Int
        BY <2>2, <2>7
      <4> QED BY <2>7, <4>1
    <3> HIDE DEF F
    <3> QED BY <3>1, <3>2, MinIs
  <2>9. {j \in K : j >= k} = k .. n
    BY <1>1, <2>7, <2>8 DEF K
  <2>10. {P[i] : i \in k .. n} = Prices(k)
    <3>1. \A i \in k .. n : P[i] = heard[i].price
      BY <1>3, <2>9 DEF K
    <3> QED BY <3>1
  <2>11. peak = k
    BY <2>6, <2>8
  <2> HIDE DEF peak, F
  <2>12. Min({P[i] : i \in {j \in K : j >= k}}) = outcome.afterMax
    BY <2>3, <2>8
  <2>13. Min(Prices(k)) = outcome.afterMax
    BY <2>9, <2>10, <2>12
  <2>14. Min(Prices(peak)) = outcome.afterMax
    BY <2>11, <2>13
  <2> QED BY <2>3, <2>4, <2>14
<1>5. outcome.first = heard[1].price /\ outcome.last = heard[n].price
  BY <1>1 DEF Says, PriceSaid
<1>6. IF known = {} THEN outcome.maxLiquidity = None
      ELSE /\ outcome.maxLiquidity = Max(Depths(1))
           /\ outcome.afterMaxLiquidity = Min(Depths(deepest))
  <2>1. known = Reported(heard)
    BY DEF Reported
  <2>2. CASE known = {}
    BY <1>1, <2>1, <2>2 DEF Says, DepthSaid
  <2>3. CASE known # {}
    <3> DEFINE top == outcome.maxLiquidity
               low == outcome.afterMaxLiquidity
               F == {i \in known : D[i] = top}
    <3>1. PeakOf(known, D, top, low)
      BY <1>1, <2>1, <2>3 DEF Says, DepthSaid
    <3> HIDE DEF D
    <3>2. /\ known \in SUBSET Int /\ \A i \in known : D[i] \in Int /\ D[i] = heard[i].liquidity
          /\ \A i \in known : i >= 1
      BY <1>1, <1>2, <1>3 DEF Number
    <3> HIDE DEF n, known, top, low
    <3>3. /\ Max({D[i] : i \in known}) = top
          /\ Min({D[i] : i \in {j \in known : j >= Min(F)}}) = low
      <4>1. known \in SUBSET Int
        BY <3>2
      <4>2. \A i \in known : D[i] \in Int
        BY <3>2
      <4> QED BY ONLY <3>1, <4>1, <4>2, PeakSaid, Zenon
    <3>4. {D[i] : i \in known} = Depths(1)
      <4>1. {k \in known : k >= 1} = known
        BY <3>2
      <4> QED BY <3>2, <4>1
    <3>5. F = {i \in known : heard[i].liquidity = Max(Depths(1))}
      BY <3>2, <3>3, <3>4
    <3>6. Min(F) = deepest
      BY <3>5
    <3> HIDE DEF deepest
    <3>7. {D[i] : i \in {j \in known : j >= deepest}} = Depths(deepest)
      BY <3>2
    <3> QED BY <2>3, <3>3, <3>4, <3>6, <3>7 DEF top, low
  <2> QED BY <2>2, <2>3
<1>7. outcome.qualified # None =>
          a = Max({outcome.qualified.price} \cup Prices(outcome.qualified.heard + 1))
  <2> SUFFICES ASSUME outcome.qualified # None
               PROVE  a = Max({outcome.qualified.price} \cup Prices(f + 1))
    OBVIOUS
  <2> DEFINE q == outcome.qualified.price
             V == {q} \cup Prices(f + 1)
  <2>1. /\ q \in Int /\ f \in 0..n /\ a \in Int /\ q =< a
        /\ \A i \in (f + 1)..n : heard[i].price =< a
        /\ q = a \/ \E i \in (f + 1)..n : heard[i].price = a
    BY <1>1 DEF Says, RiseSaid
  <2> HIDE DEF n, f, q, a
  <2>2. \A i \in (f + 1)..n : heard[i].price \in Int
    <3>1. \A i \in (f + 1)..n : i \in 1..n
      BY <1>1, <2>1
    <3> QED BY <1>2, <3>1
  <2>3. V \in SUBSET Int /\ a \in V /\ \A y \in V : y =< a
    BY <2>1, <2>2
  <2> HIDE DEF V
  <2>4. Max(V) = a
    BY <2>3, MaxIs
  <2> QED BY <2>4 DEF V, q
<1> HIDE DEF peak, known, deepest
<1> QED BY <1>4, <1>5, <1>6, <1>7 DEF OutcomeIsHonest, peak, known, deepest

\* The outcome window says what was observed, whatever was delivered, in whatever order and
\* however often, and whatever the clock did.
THEOREM HonestOutcomes == TokenSpec => []OutcomeIsHonest
<1>1. TokenInit => Remembered /\ Measured
  <2> SUFFICES ASSUME TokenInit PROVE Measured
    BY StartRemembers
  <2>1. heard = <<>> /\ outcome = None
    BY DEF TokenInit
  <2> QED BY <2>1 DEF Measured
<1>2. Remembered /\ Measured /\ [TokenNext]_tokenVars => (Remembered /\ Measured)'
  BY StepRemembers, StepMeasures
<1>3. Measured => OutcomeIsHonest
  BY SaysHonestly
<1> QED BY <1>1, <1>2, <1>3, PTL DEF TokenSpec

----------------------------------------------------------------------------
(* The size of a position *)

LEMMA ClampIs ==
  ASSUME NEW n, NEW low \in Int, NEW high \in Int
  PROVE  Clamp(n, low, high) \in Int
<1>1. n \in low .. high => n \in Int
  OBVIOUS
<1> QED BY <1>1 DEF Clamp

LEMMA ClampBetween ==
  ASSUME NEW n, NEW low \in Int, NEW high \in Int, low <= high
  PROVE  Clamp(n, low, high) \in low .. high
BY DEF Clamp

LEMMA PortionIs == ASSUME NEW a \in Int, NEW p \in Int PROVE Portion(a, p) \in Int
<1> DEFINE m == a * p
<1>1. m \in Int
  OBVIOUS
<1> HIDE DEF m
<1>2. m \div 100 \in Int
  BY <1>1
<1> QED BY <1>2 DEF m, Portion

LEMMA InterpolatedIs ==
  ASSUME NEW x, NEW x0 \in Int, NEW y0 \in Int, NEW x1 \in Int, NEW y1 \in Int, x0 <= x1
  PROVE  Interpolated(x, x0, y0, x1, y1) \in Int
<1>1. CASE x1 = x0
  BY <1>1 DEF Interpolated
<1>2. CASE x1 # x0
  <2> DEFINE t == Clamp(x, x0, x1)
             m == (y1 - y0) * (t - x0)
             d == x1 - x0
  <2>1. t \in Int
    BY ClampIs
  <2> HIDE DEF t
  <2>2. m \in Int /\ d \in Nat \ {0}
    BY <1>2, <2>1
  <2> HIDE DEF m, d
  <2>3. y0 + m \div d \in Int
    BY <2>2
  <2>4. Interpolated(x, x0, y0, x1, y1) = y0 + m \div d
    BY <1>2 DEF Interpolated, t, m, d
  <2> QED BY <2>3, <2>4
<1> QED BY <1>1, <1>2

LEMMA OrIs ==
  ASSUME NEW value, NEW default \in Int, NEW points
  PROVE  Or(value, default, points) \in Int
BY ClampIs DEF Or

LEMMA ComponentsAreFinite == IsFiniteSet(Components)
<1> DEFINE A == {"freshness", "liquidityGrowth", "velocity", "participation", "momentum"}
           B == {"acceleration", "balance", "concentration", "exitViability", "slippage"}
<1>1. ASSUME NEW a, NEW b, NEW c, NEW d, NEW e PROVE IsFiniteSet({a, b, c, d, e})
  <2>1. IsFiniteSet({a})
    BY FS_Singleton
  <2>2. IsFiniteSet({a} \cup {b})
    BY <2>1, FS_AddElement
  <2>3. IsFiniteSet(({a} \cup {b}) \cup {c})
    BY <2>2, FS_AddElement
  <2>4. IsFiniteSet((({a} \cup {b}) \cup {c}) \cup {d})
    BY <2>3, FS_AddElement
  <2>5. IsFiniteSet(((({a} \cup {b}) \cup {c}) \cup {d}) \cup {e})
    BY <2>4, FS_AddElement
  <2>6. ((({a} \cup {b}) \cup {c}) \cup {d}) \cup {e} = {a, b, c, d, e}
    OBVIOUS
  <2> QED BY <2>5, <2>6
<1>2. IsFiniteSet(A) /\ IsFiniteSet(B)
  BY <1>1
<1>3. Components = A \cup B
  BY DEF Components
<1> QED BY <1>2, <1>3, FS_Union

LEMMA EarnedIs ==
  ASSUME NEW k, NEW f, NEW rt
  PROVE  \A c \in Components : Earned(k, f, rt)[c] \in Int
<1> DEFINE e == Earned(k, f, rt)
<1>1. /\ e.freshness \in Int /\ e.liquidityGrowth \in Int /\ e.velocity \in Int
      /\ e.participation \in Int /\ e.momentum \in Int
  BY OrIs DEF Earned
<1>2. /\ e.acceleration \in Int /\ e.balance \in Int /\ e.concentration \in Int
      /\ e.exitViability \in Int /\ e.slippage \in Int
  BY OrIs DEF Earned
<1> HIDE DEF e
<1> QED BY <1>1, <1>2 DEF Components, e

\* A sum of integers is one, as the score takes it.
LEMMA SumIs ==
  ASSUME NEW D, IsFiniteSet(D), NEW g \in [D -> Int]
  PROVE  Sum(g) \in Int
<1>1. Sum(g) = SumOf(g, D)
  BY DEF Sum, SumOf
<1>2. SumOf(g, D) \in Int
  BY SumOfInt
<1> QED BY <1>1, <1>2

LEMMA ScoreIs ==
  ASSUME NEW k, NEW f, NEW checks, NEW rt
  PROVE  Score(k, f, checks, rt) \in Int
<1> DEFINE earned == Earned(k, f, rt)
           g == [c \in Components |-> Entry.weights[c] * earned[c]]
           total == Larger(1, Sum(Entry.weights))
           raw == Sum(g) \div total
<1>1. Entry.weights \in [Components -> Nat]
  BY DecisionAssumption DEF ValidEntry
<1>2. \A c \in Components : Entry.weights[c] \in Int /\ earned[c] \in Int
  BY <1>1, EarnedIs
<1> HIDE DEF earned
<1>3. g \in [Components -> Int]
  <2>1. \A c \in Components : Entry.weights[c] * earned[c] \in Int
    BY <1>2
  <2> QED BY <2>1
<1> HIDE DEF g
<1>4. Sum(g) \in Int
  BY <1>3, ComponentsAreFinite, SumIs
<1>5. Sum(Entry.weights) \in Int
  <2>1. Entry.weights \in [Components -> Int]
    BY <1>1
  <2> QED BY <2>1, ComponentsAreFinite, SumIs
<1>6. total \in Nat \ {0}
  BY <1>5 DEF Larger
<1> DEFINE sum == Sum(g)
<1>7. sum \in Int
  BY <1>4
<1> HIDE DEF total, sum
<1>8. sum \div total \in Int
  BY <1>6, <1>7
<1> DEFINE m == raw * 70
<1>9. raw \in Int
  BY <1>8 DEF sum
<1> HIDE DEF raw
<1>10. m \in Int
  BY <1>9
<1> HIDE DEF m
<1>11. m \div 100 \in Int
  BY <1>10
<1>12. \/ Score(k, f, checks, rt) = 0 \/ Score(k, f, checks, rt) = raw
       \/ Score(k, f, checks, rt) = m \div 100
  BY DEF Score, raw, total, g, earned, m
<1> QED BY <1>9, <1>11, <1>12

LEMMA RiskTypes ==
  /\ {Risk.profile.base, Risk.profile.most, Risk.profile.exposure} \subseteq Int
  /\ Risk.profile.maxOpen \in Nat \ {0}
  /\ {Risk.hard.single, Risk.hard.exposure, Risk.hard.pool, Risk.hard.min, Risk.hard.max,
      Risk.hard.impact} \subseteq Int
  /\ {Risk.confidenceMin, Risk.confidenceFull, Risk.confidenceMultiplier, Risk.drawdownStart,
      Risk.drawdownFull, Risk.drawdownFloor, Risk.streakMin, Risk.streakMax,
      Risk.slippageStart, Risk.slippageFull, Risk.slippageFloor} \subseteq Int
  /\ Risk.confidenceMin <= Risk.confidenceFull /\ Risk.drawdownStart <= Risk.drawdownFull
  /\ Risk.slippageStart <= Risk.slippageFull /\ Risk.hard.impact >= 0
<1>1. ValidRisk(Risk)
  BY DecisionAssumption
<1>2. /\ {Risk.profile.base, Risk.profile.most, Risk.profile.exposure} \subseteq Share
      /\ {Risk.hard.single, Risk.hard.exposure, Risk.hard.pool} \subseteq 1 .. 100
      /\ {Risk.hard.min, Risk.hard.max} \subseteq Nat \ {0} /\ Risk.hard.impact \in Share
      /\ Risk.profile.maxOpen \in Nat \ {0}
  BY <1>1 DEF ValidRisk
<1>3. /\ {Risk.profile.base, Risk.profile.most, Risk.profile.exposure} \subseteq Int
      /\ {Risk.hard.single, Risk.hard.exposure, Risk.hard.pool, Risk.hard.min, Risk.hard.max,
          Risk.hard.impact} \subseteq Int /\ Risk.hard.impact >= 0
  BY <1>2 DEF Share
<1>4. /\ {Risk.confidenceMin, Risk.confidenceFull, Risk.confidenceMultiplier,
          Risk.drawdownStart, Risk.drawdownFull, Risk.drawdownFloor, Risk.streakMin,
          Risk.streakMax, Risk.slippageStart, Risk.slippageFull, Risk.slippageFloor} \subseteq Nat
      /\ Risk.confidenceMin <= Risk.confidenceFull /\ Risk.drawdownStart <= Risk.drawdownFull
      /\ Risk.slippageStart <= Risk.slippageFull
  BY <1>1 DEF ValidRisk
<1> QED BY <1>2, <1>3, <1>4

LEMMA TierIs ==
  ASSUME NEW equity
  PROVE  Tier(equity).multiplier \in Int /\ Tier(equity).maxOpen \in {None} \cup (Nat \ {0})
<1> DEFINE tiers == Risk.tiers
           S == {1} \cup {i \in DOMAIN tiers : tiers[i].minEquity <= equity}
<1>1. /\ tiers \in Seq(ToSet(tiers)) /\ tiers # <<>>
      /\ \A i \in DOMAIN tiers : /\ tiers[i].multiplier \in Nat
                                 /\ tiers[i].maxOpen \in {None} \cup (Nat \ {0})
  BY DecisionAssumption DEF ValidRisk
<1> HIDE DEF tiers
<1>2. Len(tiers) \in Nat \ {0} /\ DOMAIN tiers = 1 .. Len(tiers)
  BY <1>1, EmptySeq, LenProperties
<1>3. S \in SUBSET (1 .. Len(tiers)) /\ 1 \in S
  BY <1>2
<1> HIDE DEF S
<1>4. IsFiniteSet(S)
  <2>1. IsFiniteSet(1 .. Len(tiers))
    BY <1>2, FS_Interval
  <2> QED BY <1>3, <2>1, FS_Subset
<1> DEFINE d == [i \in S |-> i]
<1>5. d \in [S -> Int]
  BY <1>3
<1>6. PICK i \in S : \A j \in S : d[j] =< d[i]
  BY <1>3, <1>4, <1>5, DeepestExists
<1>7. Max(S) = i
  <2>1. \A j \in S : j =< i
    BY <1>6
  <2>2. S \in SUBSET Int
    BY <1>3
  <2> QED BY <2>1, <2>2, MaxIs
<1>8. Tier(equity) = tiers[i]
  BY <1>7 DEF Tier, S, tiers
<1>9. i \in DOMAIN tiers
  BY <1>2, <1>3
<1> QED BY <1>1, <1>8, <1>9

LEMMA MaxOpenIs == ASSUME NEW equity PROVE MaxOpen(equity) \in Int
BY TierIs, RiskTypes DEF MaxOpen

\* A set of numbers that has a least one still has it with one number more.
HasLeast(S) == S \in SUBSET Int /\ \E x \in S : \A y \in S : x =< y

LEMMA OneHasLeast == ASSUME NEW a \in Int PROVE HasLeast({a})
BY DEF HasLeast

LEMMA LeastAdds ==
  ASSUME NEW S, HasLeast(S), NEW a \in Int
  PROVE  HasLeast(S \cup {a})
<1>1. PICK x \in S : \A y \in S : x =< y
  BY DEF HasLeast
<1>2. S \in SUBSET Int
  BY DEF HasLeast
<1>3. CASE x =< a
  BY <1>1, <1>2, <1>3 DEF HasLeast
<1>4. CASE ~(x =< a)
  <2>1. \A y \in S : a =< y
    BY <1>1, <1>2, <1>4
  <2> QED BY <1>2, <2>1 DEF HasLeast
<1> QED BY <1>3, <1>4

LEMMA LeastIs ==
  ASSUME NEW S, HasLeast(S)
  PROVE  Min(S) \in Int /\ \A y \in S : Min(S) =< y
<1>1. PICK x \in S : \A y \in S : x =< y
  BY DEF HasLeast
<1>2. Min(S) = x
  BY <1>1, MinIs DEF HasLeast
<1> QED BY <1>1, <1>2 DEF HasLeast

LEMMA CapsAre ==
  ASSUME NEW a, {a.equity, a.cash, a.exposure, a.open} \subseteq Int, NEW liquidity \in Number,
         NEW w \in Int
  PROVE  HasLeast({w} \cup Caps(a, liquidity))
<1> DEFINE e == Smaller(Risk.profile.exposure, Risk.hard.exposure)
           c1 == Portion(a.equity, Risk.profile.most)
           c2 == Portion(a.equity, Risk.hard.single)
           c3 == Portion(a.equity, e) - a.exposure
           c4 == Risk.hard.max
           c5 == a.cash
           c6 == Portion(liquidity, Risk.hard.pool)
           S == (((({w} \cup {c1}) \cup {c2}) \cup {c3}) \cup {c4}) \cup {c5}
<1>1. e \in Int
  BY RiskTypes DEF Smaller
<1> HIDE DEF e
<1>2. c1 \in Int /\ c2 \in Int /\ c3 \in Int /\ c4 \in Int /\ c5 \in Int
  <2>1. c1 \in Int
    BY RiskTypes, PortionIs
  <2>2. c2 \in Int
    BY RiskTypes, PortionIs
  <2>3. Portion(a.equity, e) \in Int
    BY <1>1, PortionIs
  <2> QED BY <2>1, <2>2, <2>3, RiskTypes
<1>3. Caps(a, liquidity) = {c1, c2, c3, c4, c5} \cup IF liquidity = None THEN {} ELSE {c6}
  BY DEF Caps, e
<1> HIDE DEF c1, c2, c3, c4, c5, c6
<1>4. HasLeast(S)
  <2>1. HasLeast({w} \cup {c1})
    BY <1>2, OneHasLeast, LeastAdds
  <2>2. HasLeast(({w} \cup {c1}) \cup {c2})
    BY <1>2, <2>1, LeastAdds
  <2>3. HasLeast((({w} \cup {c1}) \cup {c2}) \cup {c3})
    BY <1>2, <2>2, LeastAdds
  <2>4. HasLeast(((({w} \cup {c1}) \cup {c2}) \cup {c3}) \cup {c4})
    BY <1>2, <2>3, LeastAdds
  <2> QED BY <1>2, <2>4, LeastAdds
<1>5. CASE liquidity = None
  <2>1. {w} \cup Caps(a, liquidity) = S
    BY <1>3, <1>5
  <2> QED BY <1>4, <2>1
<1>6. CASE liquidity \in Int
  <2>1. c6 \in Int
    BY <1>6, RiskTypes, PortionIs DEF c6
  <2>2. HasLeast(S \cup {c6})
    BY <1>4, <2>1, LeastAdds
  <2>3. liquidity # None
    BY <1>6, PayloadAssumption
  <2>4. {w} \cup Caps(a, liquidity) = S \cup {c6}
    BY <1>3, <2>3
  <2> QED BY <2>2, <2>4
<1> QED BY <1>5, <1>6 DEF Number

\* A size is a number, and no cap is below one that is not zero.
LEMMA SizeIs ==
  ASSUME NEW a, {a.equity, a.cash, a.exposure, a.open} \subseteq Int, NEW open \in Int,
         NEW score \in Int, NEW liquidity \in Number, NEW rt
  PROVE  /\ Size(a, open, score, liquidity, rt) \in Int
         /\ Size(a, open, score, liquidity, rt) # 0 =>
                /\ \A cap \in Caps(a, liquidity) :
                       cap \in Int /\ Size(a, open, score, liquidity, rt) =< cap
                /\ open < MaxOpen(a.equity)
<1> DEFINE base == Portion(Portion(a.equity, Risk.profile.base), Tier(a.equity).multiplier)
           judged == Portion(Portion(base, Confidence(score)), Setback(a.drawdown))
           wanted == Portion(Portion(judged, Streak(a)), Slippage(rt))
           amount == Min({wanted} \cup Caps(a, liquidity))
           size == Size(a, open, score, liquidity, rt)
<1>1. Confidence(score) \in Int /\ Setback(a.drawdown) \in Int /\ Slippage(rt) \in Int
  BY RiskTypes, InterpolatedIs DEF Confidence, Setback, Slippage
<1>2. Streak(a) \in Int
  BY RiskTypes, ClampIs DEF Streak
<1>3. base \in Int
  <2>1. Portion(a.equity, Risk.profile.base) \in Int
    BY RiskTypes, PortionIs
  <2> QED BY <2>1, TierIs, PortionIs
<1> HIDE DEF base
<1>4. judged \in Int
  <2>1. Portion(base, Confidence(score)) \in Int
    BY <1>1, <1>3, PortionIs
  <2> QED BY <1>1, <2>1, PortionIs
<1> HIDE DEF judged
<1>5. wanted \in Int
  <2>1. Portion(judged, Streak(a)) \in Int
    BY <1>2, <1>4, PortionIs
  <2> QED BY <1>1, <2>1, PortionIs
<1> HIDE DEF wanted
<1>6. HasLeast({wanted} \cup Caps(a, liquidity))
  BY <1>5, CapsAre
<1>7. amount \in Int /\ \A cap \in Caps(a, liquidity) : cap \in Int /\ amount =< cap
  <2>1. \A cap \in {wanted} \cup Caps(a, liquidity) : cap \in Int
    BY <1>6 DEF HasLeast
  <2> QED BY <1>6, <2>1, LeastIs
<1>8. size = IF a.equity <= 0 THEN 0
             ELSE IF open >= MaxOpen(a.equity) \/ amount < Risk.hard.min THEN 0
             ELSE amount
  BY DEF Size, wanted, judged, base
<1> HIDE DEF amount, size
<1>9. MaxOpen(a.equity) \in Int
  BY MaxOpenIs
<1> QED BY <1>7, <1>8, <1>9 DEF size

\* What the sizing reads of the moment.
Sizable == Remembered /\ account \in Portfolios

LEMMA LatestLiquidity == ASSUME Remembered PROVE Latest(track, "liquidity") \in Number
<1>1. track.snaps \in Seq(SnapSet)
  BY DEF Remembered, Memory, MemoryTypes
<1>2. CASE track.snaps = <<>>
  BY <1>2 DEF Latest, Number
<1>3. CASE track.snaps # <<>>
  <2>1. Len(track.snaps) \in Nat \ {0}
    BY <1>1, <1>3, EmptySeq
  <2>2. Last(track.snaps) \in SnapSet
    BY <1>1, <2>1, ElementOfSeq DEF Last
  <2> QED BY <1>3, <2>2, SnapIs DEF Latest
<1> QED BY <1>2, <1>3

LEMMA ViewIs ==
  ASSUME NEW c
  PROVE  /\ View(c).liquidity = Latest(track, "liquidity")
         /\ View(c).observations = Len(track.snaps)
BY DEF View, Features

LEMMA SizedIs ==
  ASSUME Sizable, NEW c, NEW f, f.liquidity = Latest(track, "liquidity"), NEW score \in Int
  PROVE  /\ Sized(c, f, score) \in Int
         /\ Sized(c, f, score) # 0 /\ cand.signal = None =>
                /\ \A cap \in Caps(account, Latest(track, "liquidity")) :
                       cap \in Int /\ Sized(c, f, score) =< cap
                /\ account.open < MaxOpen(account.equity)
<1> DEFINE open == account.open + (IF cand.signal = None THEN 0 ELSE 1)
           liquidity == f.liquidity
<1>1. {account.equity, account.cash, account.exposure, account.open} \subseteq Int
  BY AccountAssumption DEF Sizable
<1>2. liquidity \in Number
  BY LatestLiquidity DEF Sizable
<1>3. open \in Int /\ (cand.signal = None => open = account.open)
  BY <1>1
<1>4. Sized(c, f, score) = Size(account, open, score, liquidity, c.roundTrip)
  BY DEF Sized
<1> HIDE DEF open, liquidity
<1>5. /\ Size(account, open, score, liquidity, c.roundTrip) \in Int
      /\ Size(account, open, score, liquidity, c.roundTrip) # 0 =>
             /\ \A cap \in Caps(account, liquidity) :
                    cap \in Int /\ Size(account, open, score, liquidity, c.roundTrip) =< cap
             /\ open < MaxOpen(account.equity)
  BY <1>1, <1>2, <1>3, SizeIs
<1> QED BY <1>3, <1>4, <1>5 DEF liquidity

----------------------------------------------------------------------------
(* The candidate: what its handlers leave alone *)

CandFields == {"phase", "staleSince", "cooldownUntil", "nextQuoteAt", "latchUntil", "attempts",
               "quoting", "failures", "roundTrip", "signal", "sell"}

\* What a quote is asked for is a number.
Asks(c, d) == d.quoting # None => d.quoting = c.quoting \/ d.quoting.spend \in Int
Keeps(c, d) ==
    DOMAIN d = CandFields /\ d.signal = c.signal /\ d.sell = c.sell /\ Asks(c, d)

LEMMA RetireKeeps ==
  ASSUME NEW c, DOMAIN c = CandFields, NEW phase
  PROVE  Keeps(c, Retire(c, phase)) /\ Retire(c, phase).phase = phase
BY DEF Retire, Keeps, Asks, CandFields

LEMMA AbandonKeeps ==
  ASSUME NEW c, DOMAIN c = CandFields
  PROVE  /\ Keeps(c, Abandon(c))
         /\ Abandon(c).phase = IF c.phase = "QUALIFIED" THEN "MONITORING" ELSE c.phase
BY DEF Abandon, Keeps, Asks, CandFields

LEMMA OpenKeeps ==
  ASSUME NEW c, DOMAIN c = CandFields
  PROVE  Keeps(c, OpenAttempt(c)) /\ OpenAttempt(c).phase = "QUALIFIED"
BY DEF OpenAttempt, Keeps, Asks, CandFields

LEMMA DoneKeeps ==
  ASSUME NEW c, DOMAIN c = CandFields
  PROVE  /\ Keeps(c, Done(c)) /\ Done(c).phase = c.phase /\ Done(c).roundTrip = c.roundTrip
         /\ Done(c).quoting = None
BY DEF Done, Keeps, Asks, CandFields

LEMMA AskKeeps ==
  ASSUME Sizable, NEW c, DOMAIN c = CandFields, NEW f, NEW score \in Int,
         f.liquidity = Latest(track, "liquidity")
  PROVE  Keeps(c, Ask(c, f, score))
<1>1. Keeps(c, c)
  BY DEF Keeps, Asks
<1>2. Keeps(c, [c EXCEPT !.nextQuoteAt = now + 1])
  BY DEF Keeps, Asks, CandFields
<1>3. Keeps(c, Abandon(c))
  BY AbandonKeeps
<1>4. Keeps(c, [c EXCEPT !.quoting = Asked(Sized(c, f, score))])
  <2> DEFINE size == Sized(c, f, score)
  <2>1. size \in Int
    BY SizedIs
  <2> HIDE DEF size
  <2>2. Asked(size).spend \in Int
    BY <2>1 DEF Asked
  <2>3. Keeps(c, [c EXCEPT !.quoting = Asked(size)])
    BY <2>2 DEF Keeps, Asks, CandFields
  <2> QED BY <2>3 DEF size
<1> QED BY <1>1, <1>2, <1>3, <1>4 DEF Ask

LEMMA KeepsOn ==
  ASSUME NEW c, NEW d, NEW e, Keeps(c, d), Keeps(d, e)
  PROVE  Keeps(c, e)
BY DEF Keeps, Asks

LEMMA JudgeKeeps ==
  ASSUME Sizable, NEW c, DOMAIN c = CandFields
  PROVE  Keeps(c, Judge(c))
<1> DEFINE f == View(c)
           rt == IF IsFresh(c.roundTrip, now) THEN c.roundTrip ELSE None
           checks == Checks(track, f, now, rt)
           score == Score(track, f, checks, rt)
<1>1. \/ Judge(c) = Retire(c, "REJECTED")
      \/ Judge(c) = c
      \/ Judge(c) = Ask(OpenAttempt(c), f, score)
      \/ Judge(c) = Abandon(c)
      \/ Judge(c) = Ask(c, f, score)
  BY DEF Judge
<1>2. score \in Int /\ f.liquidity = Latest(track, "liquidity")
  BY ScoreIs, ViewIs
<1> HIDE DEF f, score
<1>3. Keeps(c, Retire(c, "REJECTED")) /\ Keeps(c, Abandon(c)) /\ Keeps(c, Ask(c, f, score))
  BY <1>2, RetireKeeps, AbandonKeeps, AskKeeps
<1>4. Keeps(c, c)
  BY DEF Keeps, Asks
<1>5. Keeps(c, Ask(OpenAttempt(c), f, score))
  <2> DEFINE d == OpenAttempt(c)
  <2>1. Keeps(c, d)
    BY OpenKeeps
  <2> HIDE DEF d
  <2>2. Keeps(d, Ask(d, f, score))
    BY <1>2, <2>1, AskKeeps DEF Keeps, Asks
  <2>3. Keeps(c, Ask(d, f, score))
    BY <2>1, <2>2, KeepsOn
  <2> QED BY <2>3 DEF d
<1> QED BY <1>1, <1>3, <1>4, <1>5

LEMMA PursueKeeps ==
  ASSUME Sizable, NEW c, DOMAIN c = CandFields
  PROVE  Keeps(c, Pursue(c))
<1>1. Keeps(c, c)
  BY DEF Keeps, Asks
<1>2. Keeps(c, Retire(c, "EXPIRED")) /\ Keeps(c, Judge(c))
  BY RetireKeeps, JudgeKeeps
<1>3. Keeps(c, [c EXCEPT !.phase = "DATA_STALE", !.staleSince = now, !.latchUntil = None])
  BY DEF Keeps, Asks, CandFields
<1> QED BY <1>1, <1>2, <1>3 DEF Pursue

\* A look leaves the orders alone, but for the BUY whose data went stale.
LEMMA LookKeeps ==
  ASSUME Sizable, NEW c, DOMAIN c = CandFields
  PROVE  /\ DOMAIN Evaluated(Resumed(c)) = CandFields
         /\ Evaluated(Resumed(c)).sell = c.sell /\ Asks(c, Evaluated(Resumed(c)))
         /\ \/ Evaluated(Resumed(c)).signal = c.signal
            \/ Evaluated(Resumed(c)).signal = None
         /\ c.phase = "AWAITING_CONFIRMATION" =>
                \/ Evaluated(Resumed(c)).signal = None
                \/ Evaluated(Resumed(c)) = c /\ ~IsStale(track, now)
<1> DEFINE r == Resumed(c)
<1>1. Keeps(c, r) /\ (c.phase = "AWAITING_CONFIRMATION" => r = c)
  BY DEF Resumed, Keeps, Asks, CandFields
<1> HIDE DEF r
<1>2. DOMAIN r = CandFields
  BY <1>1 DEF Keeps, Asks
<1>3. CASE r.phase = "AWAITING_CONFIRMATION"
  <2>1. Evaluated(r) = IF IsStale(track, now) THEN Cancelled(r) ELSE r
    BY <1>3 DEF Evaluated, Pursued
  <2>2. /\ DOMAIN Cancelled(r) = CandFields /\ Cancelled(r).sell = r.sell
        /\ Cancelled(r).signal = None /\ Cancelled(r).quoting = r.quoting
    BY <1>2 DEF Cancelled, CandFields
  <2> QED BY <1>1, <2>1, <2>2 DEF Keeps, Asks, r
<1>4. CASE r.phase # "AWAITING_CONFIRMATION"
  <2>1. \/ Evaluated(r) = Pursue(r) \/ Evaluated(r) = Retire(r, "EXPIRED") \/ Evaluated(r) = r
    BY <1>4 DEF Evaluated
  <2>2. Keeps(r, Pursue(r)) /\ Keeps(r, Retire(r, "EXPIRED")) /\ Keeps(r, r)
    BY <1>2, PursueKeeps, RetireKeeps DEF Keeps, Asks
  <2>3. Keeps(c, Evaluated(r))
    BY <1>1, <2>1, <2>2, KeepsOn
  <2>4. c.phase # "AWAITING_CONFIRMATION"
    BY <1>1, <1>4
  <2> QED BY <2>3, <2>4 DEF Keeps, Asks, r
<1> QED BY <1>3, <1>4

\* A BUY is ordered only here: on fresh data that passed the gate, by a round trip that can be
\* sold again, for what it was quoted for.
Ordering(c, d, rt) ==
    LET f == View(c)
        checks == Checks(track, f, now, rt)
        score == Score(track, f, checks, rt)
    IN  /\ c.phase = "QUALIFIED" /\ rt.viable /\ ~IsStale(track, now)
        /\ Latched(f, checks, score) # "fatal" /\ Latched(f, checks, score) # "abandon"
        /\ Sized(c, f, score) # 0 /\ ~(Sized(c, f, score) * 100 < rt.spend * 98)
        /\ DOMAIN d = CandFields /\ d.sell = c.sell /\ d.roundTrip = c.roundTrip
        /\ d.phase = "AWAITING_CONFIRMATION" /\ d.signal.size = rt.spend /\ d.quoting = None

LEMMA AnsweredIs ==
  ASSUME Sizable, NEW c, DOMAIN c = CandFields, NEW rt
  PROVE  \/ /\ Keeps(c, Answered(c, rt))
            /\ IF c.phase # "QUALIFIED" THEN Answered(c, rt).phase = c.phase
               ELSE Answered(c, rt).phase \in {"REJECTED", "MONITORING", "QUALIFIED"}
         \/ Ordering(c, Answered(c, rt), rt)
<1> DEFINE f == View(c)
           checks == Checks(track, f, now, rt)
           score == Score(track, f, checks, rt)
           size == Sized(c, f, score)
           verdict == Latched(f, checks, score)
           e == Done(c)
           d == Answered(c, rt)
           signal == [size |-> rt.spend, price |-> f.price, expires |-> now + Entry.ttl]
           again == [c EXCEPT !.quoting = Asked(size), !.nextQuoteAt = now]
           order == [e EXCEPT !.phase = "AWAITING_CONFIRMATION", !.latchUntil = None,
                              !.signal = signal]
<1>1. /\ Keeps(c, e) /\ e.phase = c.phase /\ e.roundTrip = c.roundTrip /\ e.quoting = None
      /\ DOMAIN e = CandFields
  BY DoneKeeps DEF Keeps, Asks
<1>2. size \in Int
  BY ScoreIs, ViewIs, SizedIs
<1>3. /\ Keeps(e, Abandon(e))
      /\ Abandon(e).phase = IF e.phase = "QUALIFIED" THEN "MONITORING" ELSE e.phase
      /\ Keeps(e, Retire(e, "REJECTED")) /\ Retire(e, "REJECTED").phase = "REJECTED"
  <2> HIDE DEF e
  <2> QED BY <1>1, AbandonKeeps, RetireKeeps
<1>4. Keeps(c, Abandon(e)) /\ Keeps(c, Retire(e, "REJECTED"))
  <2> HIDE DEF e
  <2> QED BY <1>1, <1>3, KeepsOn
<1>5. d = IF c.phase # "QUALIFIED" THEN e
          ELSE IF ~rt.viable \/ IsStale(track, now) THEN Abandon(e)
          ELSE IF verdict = "fatal" THEN Retire(e, "REJECTED")
          ELSE IF verdict = "abandon" THEN Abandon(e)
          ELSE IF size = 0 THEN Abandon(e)
          ELSE IF size * 100 < rt.spend * 98 THEN again
          ELSE order
  BY DEF Answered, Signalled
<1> HIDE DEF d, e, verdict, size, signal
<1>6. Keeps(c, again) /\ again.phase = c.phase
  <2>1. Asked(size).spend \in Int
    BY <1>2 DEF Asked
  <2> QED BY <2>1 DEF Keeps, Asks, CandFields
<1>7. /\ DOMAIN order = CandFields /\ order.sell = c.sell /\ order.roundTrip = c.roundTrip
      /\ order.phase = "AWAITING_CONFIRMATION" /\ order.signal = signal
      /\ order.quoting = None
  BY <1>1 DEF Keeps, Asks, CandFields
<1>8. signal.size = rt.spend
  BY DEF signal
<1> HIDE DEF again, order, f, checks, score
<1>9. CASE c.phase # "QUALIFIED"
  BY <1>1, <1>5, <1>9 DEF d
<1>10. CASE /\ c.phase = "QUALIFIED"
            /\ d = Abandon(e) \/ d = Retire(e, "REJECTED") \/ d = again
  BY <1>1, <1>3, <1>4, <1>6, <1>10 DEF d
<1>11. CASE /\ c.phase = "QUALIFIED" /\ rt.viable /\ ~IsStale(track, now)
            /\ verdict # "fatal" /\ verdict # "abandon" /\ size # 0 /\ ~(size * 100 < rt.spend * 98)
            /\ d = order
  <2>1. Ordering(c, d, rt)
    BY <1>7, <1>8, <1>11 DEF Ordering, verdict, size, f, checks, score
  <2> QED BY <2>1 DEF d
<1> QED BY <1>5, <1>9, <1>10, <1>11

----------------------------------------------------------------------------
(* What quotes are asked for *)

Quoted ==
    /\ DOMAIN cand = CandFields /\ account \in Portfolios
    /\ cand.quoting # None => cand.quoting.spend \in Int

\* An answer about a pool gives its price impact as a number.
LEMMA PoolIs == ASSUME NEW pool \in Pools PROVE pool.impact \in Int
<1>1. PICK answer \in RoundTrips : pool = ParseRoundTrip(answer) /\ pool # None
  BY DEF Pools, Known
<1> DEFINE in == ParseQuote(answer.buy)
           share == OrZero(answer.buy.impact)
<1>2. share \in Int
  BY <1>1, PayloadAssumption DEF OrZero, Number
<1>3. in # None /\ pool.impact = in.impact
  BY <1>1 DEF ParseRoundTrip
<1>4. in.impact = IF share < 100 THEN share ELSE share \div 100
  BY <1>3 DEF ParseQuote
<1> HIDE DEF in, share
<1>5. share \div 100 \in Int
  BY <1>2
<1> QED BY <1>2, <1>3, <1>4, <1>5

LEMMA ShrunkIs ==
  ASSUME NEW rt, rt.spend \in Int, rt.impact \in Int
  PROVE  Shrunk(rt) \in Int
<1> DEFINE h == Risk.hard.impact
           m == h * 100
           d == rt.impact
           p == Smaller(90, m \div d)
           n == rt.spend * p
<1>1. h \in Int /\ h >= 0
  BY RiskTypes
<1>2. CASE d <= h
  BY <1>2 DEF Shrunk
<1>3. CASE ~(d <= h)
  <2>1. m \in Int /\ d \in Nat \ {0}
    BY <1>1, <1>3
  <2> HIDE DEF h, m, d
  <2>2. m \div d \in Int
    BY <2>1
  <2>3. p \in Int
    BY <2>2 DEF Smaller
  <2> HIDE DEF p
  <2>4. n \in Int
    BY <2>3
  <2> HIDE DEF n
  <2>5. n \div 100 \in Int
    BY <2>4
  <2>6. Shrunk(rt) = n \div 100
    BY <1>3 DEF Shrunk, Percent, n, p, m, d, h
  <2> QED BY <2>5, <2>6
<1> QED BY <1>2, <1>3

\* An answer that orders nothing may only end the attempt to buy.
Stays(c, d) ==
    /\ Keeps(c, d)
    /\ IF c.phase # "QUALIFIED" THEN d.phase = c.phase
       ELSE d.phase \in {"REJECTED", "MONITORING", "QUALIFIED"}

LEMMA FailedQuoteIs ==
  ASSUME Quoted, NEW error, QuoteFails(error)
  PROVE  Stays(cand, cand')
<1> DEFINE e == Done(cand)
           c == [e EXCEPT !.failures = Smaller(3, @ + 1)]
           d == [c EXCEPT !.nextQuoteAt = now + 3]
<1>1. cand' = e \/ cand' = d \/ cand' = Abandon(c)
  BY DEF QuoteFails
<1>2. DOMAIN cand = CandFields
  BY DEF Quoted
<1>3. Keeps(cand, e) /\ e.phase = cand.phase
  BY <1>2, DoneKeeps
<1> HIDE DEF e
<1>4. Keeps(cand, c) /\ c.phase = cand.phase
  BY <1>3 DEF Keeps, Asks, CandFields
<1> HIDE DEF c
<1>5. Keeps(cand, d) /\ d.phase = cand.phase
  BY <1>4 DEF Keeps, Asks, CandFields
<1> HIDE DEF d
<1>6. /\ Keeps(c, Abandon(c))
      /\ Abandon(c).phase = IF c.phase = "QUALIFIED" THEN "MONITORING" ELSE c.phase
  BY <1>4, AbandonKeeps DEF Keeps, Asks
<1>7. Keeps(cand, Abandon(c))
  BY <1>4, <1>6, KeepsOn
<1> QED BY <1>1, <1>3, <1>4, <1>5, <1>6, <1>7 DEF Stays

LEMMA QuoteIs ==
  ASSUME Remembered, Quoted, NEW pool \in Pools, QuoteArrives(pool)
  PROVE  \/ Stays(cand, cand')
         \/ \E c, rt : /\ Keeps(cand, c) /\ c.phase = cand.phase /\ c.roundTrip = rt
                       /\ rt.spend \in Int /\ Ordering(c, cand', rt)
<1> DEFINE rt == RoundTrip(cand.quoting.spend, pool, cand.quoting.at)
           c == [cand EXCEPT !.roundTrip = rt, !.failures = 0]
           d == [c EXCEPT !.quoting = Asked(Shrunk(rt))]
<1>1. cand' = d \/ cand' = Answered(c, rt)
  BY DEF QuoteArrives
<1>2. DOMAIN cand = CandFields
  BY DEF Quoted
<1>3. rt.spend \in Int /\ Shrunk(rt) \in Int
  <2>1. rt.spend = cand.quoting.spend /\ rt.impact = pool.impact
    BY DEF RoundTrip
  <2>2. rt.spend \in Int
    BY <2>1 DEF QuoteArrives, Quoted
  <2>3. rt.impact \in Int
    BY <2>1, PoolIs
  <2> HIDE DEF rt
  <2> QED BY <2>2, <2>3, ShrunkIs
<1> HIDE DEF rt
<1>4. Keeps(cand, c) /\ c.phase = cand.phase /\ c.roundTrip = rt
  BY <1>2 DEF Keeps, Asks, CandFields
<1> HIDE DEF c
<1>5. Keeps(cand, d) /\ d.phase = cand.phase
  <2>1. Asked(Shrunk(rt)).spend \in Int
    BY <1>3 DEF Asked
  <2> QED BY <1>4, <2>1 DEF Keeps, Asks, CandFields
<1> HIDE DEF d
<1>6. CASE cand' = d
  BY <1>5, <1>6 DEF Stays
<1>7. CASE cand' = Answered(c, rt)
  <2> DEFINE a == Answered(c, rt)
  <2>1. \/ /\ Keeps(c, a)
           /\ IF c.phase # "QUALIFIED" THEN a.phase = c.phase
              ELSE a.phase \in {"REJECTED", "MONITORING", "QUALIFIED"}
        \/ Ordering(c, a, rt)
    BY <1>4, AnsweredIs DEF Keeps, Asks, Quoted, Sizable
  <2> HIDE DEF a
  <2>2. CASE Ordering(c, a, rt)
    BY <1>3, <1>4, <1>7, <2>2 DEF a
  <2>3. CASE /\ Keeps(c, a)
             /\ IF c.phase # "QUALIFIED" THEN a.phase = c.phase
                ELSE a.phase \in {"REJECTED", "MONITORING", "QUALIFIED"}
    <3>1. Keeps(cand, a)
      BY <1>4, <2>3, KeepsOn
    <3>2. cand' = a
      BY <1>7 DEF a
    <3> QED BY <1>4, <2>3, <3>1, <3>2 DEF Stays
  <2> QED BY <2>1, <2>2, <2>3
<1> QED BY <1>1, <1>6, <1>7

LEMMA StepKinds ==
  ASSUME [TokenNext]_tokenVars
  PROVE  \/ UNCHANGED <<now, cand, position, mon, startedAt>> /\ ~Restart
         \/ ClockSetBack \/ Evaluate \/ Monitor \/ ConfirmBuy \/ ConfirmSell
         \/ WithdrawBuy \/ WithdrawSell \/ Restart
         \/ \E error \in QuoteErrors : QuoteFails(error)
         \/ \E pool \in Pools : QuoteArrives(pool)
<1>1. CASE \/ (\E report \in Reports : Snapshot(report))
           \/ (\E trade \in Trades : Traded(trade))
           \/ (\E other \in Sightings : Rediscovered(other))
           \/ (\E authorities \in Authorities : MetadataArrives(authorities))
           \/ HoldersArrive \/ AccountChanges \/ Finalize
           \/ (\E share \in ExitShares : ExitQuoteArrives(share))
           \/ UNCHANGED tokenVars
  BY <1>1 DEF Snapshot, Traded, Rediscovered, MetadataArrives, HoldersArrive, AccountChanges,
              Finalize, ExitQuoteArrives, tokenVars, market, holding, world
<1> QED BY <1>1 DEF TokenNext

LEMMA AccountStays ==
  ASSUME [TokenNext]_tokenVars, account \in Portfolios
  PROVE  account' \in Portfolios
<1>1. CASE AccountChanges
  BY <1>1 DEF AccountChanges, Portfolios
<1>2. CASE \/ (\E report \in Reports : Snapshot(report))
           \/ (\E trade \in Trades : Traded(trade))
           \/ (\E other \in Sightings : Rediscovered(other))
           \/ (\E authorities \in Authorities : MetadataArrives(authorities))
           \/ HoldersArrive \/ Finalize
           \/ (\E share \in ExitShares : ExitQuoteArrives(share))
           \/ UNCHANGED tokenVars
  BY <1>2 DEF Snapshot, Traded, Rediscovered, MetadataArrives, HoldersArrive, Finalize,
              ExitQuoteArrives, tokenVars, world
<1>3. CASE \/ ClockSetBack \/ Evaluate \/ Monitor \/ ConfirmBuy \/ ConfirmSell
           \/ WithdrawBuy \/ WithdrawSell \/ Restart
           \/ (\E error \in QuoteErrors : QuoteFails(error))
           \/ (\E pool \in Pools : QuoteArrives(pool))
  BY <1>3 DEF ClockSetBack, Evaluate, Monitor, ConfirmBuy, ConfirmSell, WithdrawBuy,
              WithdrawSell, Restart, QuoteFails, QuoteArrives, world
<1> QED BY <1>1, <1>2, <1>3 DEF TokenNext

\* What an order or a look at the position changes of the candidate.
LEMMA OrdersKeep ==
  ASSUME Quoted,
         Monitor \/ ConfirmBuy \/ ConfirmSell \/ WithdrawBuy \/ WithdrawSell \/ Restart
  PROVE  /\ DOMAIN cand' = CandFields
         /\ cand'.quoting = cand.quoting \/ cand'.quoting = None
         /\ cand'.signal = cand.signal \/ cand'.signal = None
<1>1. DOMAIN cand = CandFields
  BY DEF Quoted
<1>2. CASE Monitor
  <2> DEFINE c == [cand EXCEPT !.phase = "AWAITING_EXIT_CONFIRMATION", !.sell = now + Exit.ttl]
  <2>1. cand' = cand \/ cand' = c
    BY <1>2 DEF Monitor
  <2> QED BY <1>1, <2>1 DEF CandFields
<1>3. CASE ConfirmBuy \/ ConfirmSell
  BY <1>1, <1>3 DEF ConfirmBuy, ConfirmSell, CandFields
<1>4. CASE WithdrawBuy \/ WithdrawSell
  BY <1>1, <1>4 DEF WithdrawBuy, WithdrawSell, Cancelled, CandFields
<1>5. CASE Restart
  BY <1>5 DEF Restart, NewCandidate, CandFields
<1> QED BY <1>2, <1>3, <1>4, <1>5

LEMMA StepQuotes ==
  ASSUME Remembered, Quoted, [TokenNext]_tokenVars
  PROVE  Quoted'
<1>1. account \in Portfolios /\ account' \in Portfolios
  BY AccountStays DEF Quoted
<1>2. CASE UNCHANGED <<now, cand, position, mon, startedAt>> /\ ~Restart
  BY <1>1, <1>2 DEF Quoted
<1>3. CASE ClockSetBack
  BY <1>1, <1>3 DEF Quoted, ClockSetBack
<1>4. CASE Evaluate
  <2>1. cand' = Evaluated(Resumed(cand))
    BY <1>4 DEF Evaluate
  <2> DEFINE c == cand
             d == Evaluated(Resumed(c))
  <2>2. DOMAIN d = CandFields /\ Asks(c, d)
    BY LookKeeps DEF Quoted, Sizable
  <2> HIDE DEF d
  <2> QED BY <1>1, <2>1, <2>2 DEF Quoted, Asks, d
<1>5. CASE Monitor \/ ConfirmBuy \/ ConfirmSell \/ WithdrawBuy \/ WithdrawSell \/ Restart
  BY <1>1, <1>5, OrdersKeep DEF Quoted
<1>6. CASE \E error \in QuoteErrors : QuoteFails(error)
  BY <1>1, <1>6, FailedQuoteIs DEF Quoted, Stays, Keeps, Asks
<1>7. CASE \E pool \in Pools : QuoteArrives(pool)
  <2>1. PICK pool \in Pools : QuoteArrives(pool)
    BY <1>7
  <2>2. CASE Stays(cand, cand')
    BY <1>1, <2>2 DEF Quoted, Stays, Keeps, Asks
  <2>3. CASE \E c, rt : /\ Keeps(cand, c) /\ c.phase = cand.phase /\ c.roundTrip = rt
                        /\ rt.spend \in Int /\ Ordering(c, cand', rt)
    BY <1>1, <2>3 DEF Quoted, Ordering
  <2> QED BY <2>1, <2>2, <2>3, QuoteIs
<1> QED BY <1>2, <1>3, <1>4, <1>5, <1>6, <1>7, StepKinds

LEMMA StartQuotes == TokenInit => Quoted
BY DEF TokenInit, NewCandidate, CandFields, Quoted, Portfolios

\* Only an answered quote orders a BUY.
LEMMA OnlyQuotesOrder ==
  ASSUME Remembered, Quoted, [TokenNext]_tokenVars, cand.signal = None, cand'.signal # None
  PROVE  \E pool \in Pools : QuoteArrives(pool)
<1>1. CASE UNCHANGED <<now, cand, position, mon, startedAt>> /\ ~Restart
  BY <1>1
<1>2. CASE ClockSetBack
  BY <1>2 DEF ClockSetBack
<1>3. CASE Evaluate
  <2>1. cand' = Evaluated(Resumed(cand)) /\ DOMAIN cand = CandFields
    BY <1>3 DEF Evaluate, Quoted
  <2> QED BY <2>1, LookKeeps DEF Quoted, Sizable
<1>4. CASE Monitor \/ ConfirmBuy \/ ConfirmSell \/ WithdrawBuy \/ WithdrawSell \/ Restart
  BY <1>4, OrdersKeep
<1>5. CASE \E error \in QuoteErrors : QuoteFails(error)
  BY <1>5, FailedQuoteIs DEF Stays, Keeps, Asks
<1> QED BY <1>1, <1>2, <1>3, <1>4, <1>5, StepKinds

LEMMA OrderIs ==
  ASSUME Remembered, Quoted, [TokenNext]_tokenVars, cand.signal = None, cand'.signal # None
  PROVE  \E c, rt : rt.spend \in Int /\ c.roundTrip = rt /\ Ordering(c, cand', rt)
<1>1. PICK pool \in Pools : QuoteArrives(pool)
  BY OnlyQuotesOrder
<1>2. ~Stays(cand, cand')
  BY DEF Stays, Keeps, Asks
<1> QED BY <1>1, <1>2, QuoteIs

\* What SpendsWithinCaps says of a step.
SpendsWithin ==
    cand.signal = None /\ cand'.signal # None =>
        /\ \A cap \in Caps(account, Latest(track, "liquidity")) :
               cand'.signal.size * 98 <= cap * 100
        /\ account.open < MaxOpen(account.equity)

LEMMA StepSpends ==
  ASSUME Remembered, Quoted, [TokenNext]_tokenVars
  PROVE  SpendsWithin
<1> SUFFICES ASSUME cand.signal = None, cand'.signal # None
             PROVE  /\ \A cap \in Caps(account, Latest(track, "liquidity")) :
                           cand'.signal.size * 98 <= cap * 100
                    /\ account.open < MaxOpen(account.equity)
  BY DEF SpendsWithin
<1>1. PICK c, rt : rt.spend \in Int /\ c.roundTrip = rt /\ Ordering(c, cand', rt)
  BY OrderIs
<1> DEFINE f == View(c)
           checks == Checks(track, f, now, rt)
           score == Score(track, f, checks, rt)
           size == Sized(c, f, score)
           spend == rt.spend
<1>2. score \in Int /\ f.liquidity = Latest(track, "liquidity")
  BY ScoreIs, ViewIs
<1>3. /\ size # 0 /\ ~(size * 100 < spend * 98)
      /\ cand'.signal.size = spend /\ spend \in Int
  BY <1>1 DEF Ordering
<1> HIDE DEF f, score, spend
<1>4. /\ size \in Int
      /\ size # 0 =>
             /\ \A cap \in Caps(account, Latest(track, "liquidity")) : cap \in Int /\ size =< cap
             /\ account.open < MaxOpen(account.equity)
  BY <1>2, SizedIs DEF Quoted, Sizable
<1> HIDE DEF size
<1>5. ASSUME NEW cap \in Caps(account, Latest(track, "liquidity"))
      PROVE  spend * 98 <= cap * 100
  BY <1>3, <1>4
<1> QED BY <1>3, <1>4, <1>5

\* Whatever the portfolio, the pool, the settings and the answers are, a signal spends no more
\* than the risk engine's caps as they are when it is made, but for the 2 % for which no new
\* quote is asked.
THEOREM BuysWithinCaps == TokenSpec => SpendsWithinCaps
<1>1. TokenInit => Remembered /\ Quoted
  BY StartRemembers, StartQuotes
<1>2. Remembered /\ Quoted /\ [TokenNext]_tokenVars => (Remembered /\ Quoted)'
  BY StepRemembers, StepQuotes
<1>3. Remembered /\ Quoted /\ [TokenNext]_tokenVars => [SpendsWithin]_tokenVars
  BY StepSpends
<1> QED BY <1>1, <1>2, <1>3, PTL DEF TokenSpec, SpendsWithinCaps, SpendsWithin

----------------------------------------------------------------------------
(* A token whose data stopped coming *)

\* What stands for a value that is not known is none of the records the engine works with.
NoneIsNoRecord == {"stale", "opened"} \cap DOMAIN None = {}

MonitorFields == {"staleSince", "window", "peakVelocity", "lastSignal"}

\* A BUY that waits for its confirmation is withdrawn before its data are much older than stale.
BuyWaits ==
    cand.signal # None =>
        /\ cand.phase = "AWAITING_CONFIRMATION" /\ position = None
        /\ DataAge(track, now) <= StaleAfter + Step

\* What the monitor notes, it notes of the position that is open.
PositionHeld ==
    /\ position = None => mon = NoMonitor
    /\ position # None => /\ cand.phase \in {"OPEN", "AWAITING_EXIT_CONFIRMATION"}
                          /\ "opened" \in DOMAIN position /\ position.opened \in Int

MonitorTypes ==
    /\ DOMAIN mon = MonitorFields /\ mon.staleSince \in Number /\ mon.lastSignal \in Number
    /\ mon.staleSince # None => mon.staleSince <= now

\* A SELL expires a fixed time after it was noted, and no look is taken once it has.
SellWaits ==
    cand.sell # None =>
        /\ mon.lastSignal \in Int /\ cand.sell = mon.lastSignal + Exit.ttl
        /\ now < cand.sell + Step

\* Until then a look may find nothing to note: the data are young enough, or a SELL waits.
Patience(started, opened, lastData, lastSignal) ==
    Larger(Larger(Larger(started, opened), OrZero(lastData)) + StaleAfter,
           IF lastSignal = None THEN 0 ELSE lastSignal + Larger(Exit.ttl, Exit.cooldown))

Patient == Patience(startedAt, position.opened, track.lastData, mon.lastSignal)

\* From the look after that on, the monitor knows that the position is blind, and since when.
BlindIsNoted ==
    position # None /\ cand.phase = "OPEN" /\ HasData(track) /\ now > Patient + Step =>
        mon.staleSince \in Int /\ mon.staleSince <= Patient + Step

Watchful ==
    /\ DOMAIN cand = CandFields /\ startedAt \in Int
    /\ BuyWaits /\ PositionHeld /\ MonitorTypes /\ SellWaits /\ BlindIsNoted

LEMMA Times ==
  /\ None \notin Int /\ Step \in Nat \ {0} /\ StaleAfter \in Nat
  /\ Exit.ttl \in Nat \ {0} /\ Exit.staleAfter \in Nat \ {0} /\ Exit.cooldown \in Nat
BY PayloadAssumption, TokenAssumption, TrackerAssumption, DecisionAssumption DEF ValidExit

LEMMA PatienceIs ==
  ASSUME NEW s \in Int, NEW o \in Int, NEW d \in Number, NEW l \in Number
  PROVE  /\ Patience(s, o, d, l) \in Int
         /\ Patience(s, o, d, l) >= s + StaleAfter /\ Patience(s, o, d, l) >= o + StaleAfter
         /\ d # None => Patience(s, o, d, l) >= d + StaleAfter
         /\ l # None => /\ Patience(s, o, d, l) >= l + Exit.ttl
                        /\ Patience(s, o, d, l) >= l + Exit.cooldown
<1> DEFINE a == Larger(s, o)
           b == OrZero(d)
           c == Larger(a, b) + StaleAfter
           e == Larger(Exit.ttl, Exit.cooldown)
           w == IF l = None THEN 0 ELSE l + e
<1>1. a \in Int /\ a >= s /\ a >= o
  BY DEF Larger
<1>2. b \in Int /\ (d # None => b = d)
  BY DEF OrZero, Number
<1> HIDE DEF a, b
<1>3. c \in Int /\ c >= a + StaleAfter /\ c >= b + StaleAfter
  BY <1>1, <1>2, Times DEF Larger
<1>4. e \in Int /\ e >= Exit.ttl /\ e >= Exit.cooldown
  BY Times DEF Larger
<1> HIDE DEF c, e
<1>5. w \in Int /\ (l # None => w = l + e)
  BY <1>4 DEF Number
<1> HIDE DEF w
<1>6. Larger(c, w) \in Int /\ Larger(c, w) >= c /\ Larger(c, w) >= w
  BY <1>3, <1>5 DEF Larger
<1>7. Patience(s, o, d, l) = Larger(c, w)
  BY DEF Patience, a, b, c, e, w
<1> DEFINE p == Larger(c, w)
<1> HIDE DEF p
<1>8. /\ p \in Int /\ p >= s + StaleAfter /\ p >= o + StaleAfter
      /\ d # None => p >= d + StaleAfter
      /\ l # None => p >= l + Exit.ttl /\ p >= l + Exit.cooldown
  BY <1>1, <1>2, <1>3, <1>4, <1>5, <1>6, Times DEF Number, p
<1> QED BY <1>7, <1>8 DEF p

LEMMA PatientIs ==
  ASSUME Remembered, Watchful, position # None
  PROVE  /\ Patient \in Int
         /\ Patient >= startedAt + StaleAfter /\ Patient >= position.opened + StaleAfter
         /\ track.lastData # None => Patient >= track.lastData + StaleAfter
         /\ mon.lastSignal # None => /\ Patient >= mon.lastSignal + Exit.ttl
                                     /\ Patient >= mon.lastSignal + Exit.cooldown
<1>1. /\ startedAt \in Int /\ position.opened \in Int /\ track.lastData \in Number
      /\ mon.lastSignal \in Number
  BY DEF Remembered, Memory, MemoryTypes, Watchful, PositionHeld, MonitorTypes
<1> QED BY <1>1, PatienceIs DEF Patient

LEMMA FreshAge ==
  ASSUME NEW m, NEW at \in Int, m.lastData \in Int, m.lastData >= at
  PROVE  DataAge(m, at) <= StaleAfter + Step
BY Times DEF DataAge, Larger, Number

\* Nothing but the data changes.
LEMMA DataArrive ==
  ASSUME Remembered, Remembered', Watchful, Untouched \/ Refreshed,
         UNCHANGED <<now, cand, position, mon, startedAt>>
  PROVE  Watchful'
<1>1. CASE Untouched
  <2>1. DataAge(track, now)' = DataAge(track, now)
    BY <1>1 DEF DataAge, Untouched
  <2>2. Patient' = Patient
    BY <1>1 DEF Patient, Untouched
  <2> QED BY <1>1, <2>1, <2>2 DEF Watchful, BuyWaits, PositionHeld, MonitorTypes, SellWaits,
                                  BlindIsNoted, Untouched
<1>2. CASE Refreshed
  <2>1. BuyWaits'
    BY <1>2, FreshAge DEF Watchful, BuyWaits, Refreshed, Remembered
  <2>2. BlindIsNoted'
    <3> SUFFICES ASSUME position # None PROVE ~(now' > Patient' + Step)
      BY DEF BlindIsNoted
    <3>1. /\ startedAt \in Int /\ position.opened \in Int /\ track'.lastData \in Int
          /\ mon.lastSignal \in Number /\ track'.lastData >= now /\ now \in Int
      BY <1>2 DEF Refreshed, Remembered, Watchful, PositionHeld, MonitorTypes
    <3> DEFINE p == Patience(startedAt, position.opened, track'.lastData, mon.lastSignal)
    <3>2. p \in Int /\ p >= track'.lastData + StaleAfter
      BY <3>1, Times, PatienceIs DEF Number
    <3>3. Patient' = p
      BY DEF Patient
    <3> HIDE DEF p
    <3> QED BY <3>1, <3>2, <3>3, Times
  <2> QED BY <2>1, <2>2 DEF Watchful, PositionHeld, MonitorTypes, SellWaits
<1> QED BY <1>1, <1>2

LEMMA StartIsWatchful ==
  ASSUME TokenInit
  PROVE  Watchful
<1>1. cand = NewCandidate("DISCOVERED") /\ position = None /\ mon = NoMonitor /\ startedAt = 0
  BY DEF TokenInit
<1>2. DOMAIN cand = CandFields /\ cand.signal = None /\ cand.sell = None
  BY <1>1 DEF NewCandidate, CandFields
<1>3. DOMAIN mon = MonitorFields /\ mon.staleSince = None /\ mon.lastSignal = None
  BY <1>1 DEF NoMonitor, MonitorFields
<1> QED BY <1>1, <1>2, <1>3 DEF Watchful, BuyWaits, PositionHeld, MonitorTypes, SellWaits,
                                BlindIsNoted, Number

LEMMA SetBackKeepsWatch ==
  ASSUME Remembered, Watchful, ClockSetBack
  PROVE  Watchful'
<1>1. /\ now \in Int /\ now' = now - Step /\ position = None
      /\ UNCHANGED <<track, cand, position, mon, startedAt>>
  BY DEF Remembered, ClockSetBack, market, holding
<1>2. mon.staleSince = None
  BY <1>1 DEF Watchful, PositionHeld, NoMonitor
<1>3. BuyWaits'
  <2>1. track.lastData \in Number
    BY DEF Remembered, Memory, MemoryTypes
  <2>2. DataAge(track, now) <= StaleAfter + Step => DataAge(track, now)' <= StaleAfter + Step
    <3>1. CASE track.lastData = None
      BY <1>1, <3>1 DEF DataAge
    <3>2. CASE track.lastData \in Int
      BY <1>1, <3>2, Times DEF DataAge, Larger
    <3> QED BY <2>1, <3>1, <3>2 DEF Number
  <2> QED BY <1>1, <2>2 DEF Watchful, BuyWaits
<1>4. SellWaits'
  BY <1>1, Times DEF Watchful, SellWaits
<1> QED BY <1>1, <1>2, <1>3, <1>4 DEF Watchful, PositionHeld, MonitorTypes, BlindIsNoted

\* A look that finds the data fresh finds them at most a step older next time.
LEMMA OneStepOlder ==
  ASSUME Remembered, now' = now + Step, track' = track, ~IsStale(track, now)
  PROVE  DataAge(track', now') <= StaleAfter + Step
<1>1. now \in Int /\ track.lastData \in Number
  BY DEF Remembered, Memory, MemoryTypes
<1>2. DataAge(track, now) \in Int
  BY <1>1 DEF DataAge, Larger, Never, Number
<1>3. DataAge(track, now) <= StaleAfter
  BY <1>2, Times DEF IsStale
<1>4. CASE track.lastData = None
  BY <1>3, <1>4, Times DEF DataAge, Never
<1>5. CASE track.lastData \in Int
  BY <1>1, <1>3, <1>5, Times DEF DataAge, Larger
<1> QED BY <1>1, <1>4, <1>5 DEF Number

\* No look is taken once a SELL is overdue.
LEMMA LookBeforeExpiry ==
  ASSUME Remembered, Watchful, NextLook, cand.sell # None
  PROVE  now' < cand.sell + Step
<1>1. now \in Int /\ now' = now + Step /\ ~(now >= cand.sell)
  BY DEF Remembered, NextLook, Overdue
<1>2. cand.sell \in Int
  BY Times DEF Watchful, SellWaits
<1> QED BY <1>1, <1>2, Times

LEMMA LookKeepsWatch ==
  ASSUME Remembered, Quoted, Watchful, Evaluate
  PROVE  Watchful'
<1>1. /\ now \in Int /\ now' = now + Step /\ position = None /\ NextLook
      /\ cand' = Evaluated(Resumed(cand)) /\ UNCHANGED <<track, position, mon, startedAt>>
  BY DEF Remembered, Evaluate, NextLook, holding, world
<1>2. DOMAIN cand = CandFields
  BY DEF Watchful
<1> DEFINE c == cand
           d == Evaluated(Resumed(c))
<1>3. /\ DOMAIN d = CandFields /\ d.sell = c.sell
      /\ d.signal = c.signal \/ d.signal = None
      /\ c.phase = "AWAITING_CONFIRMATION" =>
             \/ d.signal = None
             \/ d = c /\ ~IsStale(track, now)
  BY <1>2, LookKeeps DEF Quoted, Sizable
<1>4. mon.staleSince = None
  BY <1>1 DEF Watchful, PositionHeld, NoMonitor
<1>5. BuyWaits'
  <2> SUFFICES ASSUME cand'.signal # None PROVE BuyWaits'
    BY DEF BuyWaits
  <2>1. cand' = cand /\ cand.phase = "AWAITING_CONFIRMATION" /\ ~IsStale(track, now)
    BY <1>1, <1>3 DEF Watchful, BuyWaits
  <2>2. DataAge(track', now') <= StaleAfter + Step
    BY <1>1, <2>1, OneStepOlder
  <2> QED BY <1>1, <2>1, <2>2 DEF BuyWaits
<1>6. SellWaits'
  BY <1>1, <1>3, LookBeforeExpiry DEF Watchful, SellWaits
<1> QED BY <1>1, <1>3, <1>4, <1>5, <1>6 DEF Watchful, PositionHeld, MonitorTypes, BlindIsNoted

LEMMA StaysWatchful ==
  ASSUME Remembered, Watchful, Stays(cand, cand'),
         UNCHANGED <<now, track, position, mon, startedAt>>
  PROVE  Watchful'
<1>1. Patient' = Patient /\ DataAge(track, now)' = DataAge(track, now)
  BY DEF Patient
<1> QED BY <1>1 DEF Watchful, BuyWaits, PositionHeld, MonitorTypes, SellWaits, BlindIsNoted,
                    Stays, Keeps

LEMMA OrderingWatchful ==
  ASSUME Remembered, Watchful, NEW c, NEW rt, Keeps(cand, c), c.phase = cand.phase,
         Ordering(c, cand', rt), UNCHANGED <<now, track, position, mon, startedAt>>
  PROVE  Watchful'
<1>1. /\ cand.phase = "QUALIFIED" /\ ~IsStale(track, now) /\ DOMAIN cand' = CandFields
      /\ cand'.sell = cand.sell /\ cand'.phase = "AWAITING_CONFIRMATION"
  BY DEF Ordering, Keeps, Asks
<1>2. position = None
  BY <1>1 DEF Watchful, PositionHeld
<1>3. DataAge(track, now) <= StaleAfter + Step
  <2>1. now \in Int /\ track.lastData \in Number
    BY DEF Remembered, Memory, MemoryTypes
  <2>2. DataAge(track, now) \in Int
    BY <2>1 DEF DataAge, Larger, Never, Number
  <2> QED BY <1>1, <2>2, Times DEF IsStale
<1> QED BY <1>1, <1>2, <1>3 DEF Watchful, BuyWaits, PositionHeld, MonitorTypes, SellWaits,
                                BlindIsNoted

LEMMA ConfirmedBuyWatchful ==
  ASSUME Remembered, Watchful, ConfirmBuy
  PROVE  Watchful'
<1>1. /\ now \in Int /\ UNCHANGED <<now, track, mon, startedAt>> /\ cand.signal # None
      /\ cand' = [cand EXCEPT !.phase = "OPEN", !.signal = None]
      /\ position' = [opened |-> now, cost |-> cand.signal.size, price |-> cand.signal.price,
                      value |-> cand.signal.size, peak |-> cand.signal.size]
  BY DEF Remembered, ConfirmBuy, market, world
<1>2. /\ DOMAIN cand' = CandFields /\ cand'.phase = "OPEN" /\ cand'.signal = None
      /\ cand'.sell = cand.sell
  BY <1>1 DEF Watchful, CandFields
<1>3. position'.opened = now /\ "opened" \in DOMAIN position'
  BY <1>1
<1>4. position = None /\ mon = NoMonitor
  BY <1>1 DEF Watchful, BuyWaits, PositionHeld
<1>5. ~(now' > Patient' + Step)
  <2>1. /\ startedAt \in Int /\ track.lastData \in Number /\ mon.lastSignal \in Number
    BY DEF Remembered, Memory, MemoryTypes, Watchful, MonitorTypes
  <2> DEFINE p == Patience(startedAt, now, track.lastData, mon.lastSignal)
  <2>2. p \in Int /\ p >= now + StaleAfter
    BY <1>1, <2>1, PatienceIs
  <2>3. Patient' = p
    BY <1>1, <1>3 DEF Patient
  <2> HIDE DEF p
  <2> QED BY <1>1, <2>2, <2>3, Times
<1> QED BY <1>1, <1>2, <1>3, <1>4, <1>5 DEF Watchful, BuyWaits, PositionHeld, MonitorTypes,
                                            SellWaits, BlindIsNoted

LEMMA ConfirmedSellWatchful ==
  ASSUME Remembered, Watchful, ConfirmSell
  PROVE  Watchful'
<1>1. /\ UNCHANGED <<now, track, startedAt>> /\ position' = None /\ mon' = NoMonitor
      /\ cand' = [cand EXCEPT !.phase = "CLOSED", !.sell = None] /\ cand.sell # None
  BY DEF ConfirmSell, market, world
<1>2. DOMAIN cand' = CandFields /\ cand'.signal = cand.signal /\ cand'.sell = None
  BY <1>1 DEF Watchful, CandFields
<1>3. position # None
  BY <1>1, Times DEF Watchful, SellWaits, PositionHeld, NoMonitor
<1>4. cand'.signal = None
  BY <1>2, <1>3 DEF Watchful, BuyWaits
<1>5. DOMAIN mon' = MonitorFields /\ mon'.staleSince = None /\ mon'.lastSignal = None
  BY <1>1 DEF NoMonitor, MonitorFields
<1> QED BY <1>1, <1>2, <1>4, <1>5 DEF Watchful, BuyWaits, PositionHeld, MonitorTypes, SellWaits,
                                      BlindIsNoted, Number

LEMMA WithdrawnWatchful ==
  ASSUME Remembered, Watchful, WithdrawBuy \/ WithdrawSell
  PROVE  Watchful'
<1>1. UNCHANGED <<now, track, position, mon, startedAt>>
  BY DEF WithdrawBuy, WithdrawSell, market, holding, world
<1>2. CASE WithdrawBuy
  <2>1. cand' = Cancelled(cand) /\ cand.signal # None
    BY <1>2 DEF WithdrawBuy
  <2>2. /\ DOMAIN cand' = CandFields /\ cand'.signal = None /\ cand'.sell = cand.sell
    BY <2>1 DEF Cancelled, Watchful, CandFields
  <2>3. position = None
    BY <2>1 DEF Watchful, BuyWaits
  <2> QED BY <1>1, <2>2, <2>3 DEF Watchful, BuyWaits, PositionHeld, MonitorTypes, SellWaits,
                                  BlindIsNoted
<1>3. CASE WithdrawSell
  <2>1. cand' = [cand EXCEPT !.phase = "OPEN", !.sell = None] /\ cand.sell # None
    BY <1>3 DEF WithdrawSell
  <2>2. /\ DOMAIN cand' = CandFields /\ cand'.signal = cand.signal /\ cand'.sell = None
        /\ cand'.phase = "OPEN"
    BY <2>1 DEF Watchful, CandFields
  <2>3. /\ mon.lastSignal \in Int /\ cand.sell = mon.lastSignal + Exit.ttl
        /\ now < cand.sell + Step /\ now \in Int
    BY <2>1 DEF Watchful, SellWaits, Remembered
  <2>4. position # None
    BY <2>3, Times DEF Watchful, PositionHeld, NoMonitor
  <2>5. cand'.signal = None
    BY <2>2, <2>4 DEF Watchful, BuyWaits
  <2>6. Patient \in Int /\ Patient >= mon.lastSignal + Exit.ttl
    BY <2>3, <2>4, PatientIs, Times
  <2>7. ~(now > Patient + Step)
    BY <2>3, <2>6, Times
  <2>8. Patient' = Patient
    BY <1>1 DEF Patient
  <2> QED BY <1>1, <2>2, <2>5, <2>7, <2>8 DEF Watchful, BuyWaits, PositionHeld, MonitorTypes,
                                              SellWaits, BlindIsNoted
<1> QED BY <1>2, <1>3

LEMMA RestartWatchful ==
  ASSUME Remembered, Watchful, Restart
  PROVE  Watchful'
<1>1. /\ now' = now /\ startedAt' = now /\ position' = position /\ position # None
      /\ track' = NewTrack(track.token) /\ cand' = NewCandidate("OPEN") /\ mon' = NoMonitor
  BY DEF Restart
<1>2. /\ DOMAIN cand' = CandFields /\ cand'.signal = None /\ cand'.sell = None
      /\ cand'.phase = "OPEN"
  BY <1>1 DEF NewCandidate, CandFields
<1>3. DOMAIN mon' = MonitorFields /\ mon'.staleSince = None /\ mon'.lastSignal = None
  BY <1>1 DEF NoMonitor, MonitorFields
<1>4. ~HasData(track')
  BY <1>1, MemoryBegins
<1> QED BY <1>1, <1>2, <1>3, <1>4 DEF Watchful, BuyWaits, PositionHeld, MonitorTypes, SellWaits,
                                      BlindIsNoted, Number, Remembered

\* The exit engine tries the rule about blind positions first.
BlindTooLong(m, f, at) ==
    StaleSince(m, f, at) # None /\ at - StaleSince(m, f, at) >= Exit.staleAfter

LEMMA JudgedIs ==
  ASSUME NEW p, NEW m, DOMAIN m = MonitorFields, NEW k, NEW f, NEW at, NEW widen
  PROVE  /\ DOMAIN Judged(p, m, k, f, at, widen).mon = MonitorFields
         /\ Judged(p, m, k, f, at, widen).mon.staleSince = StaleSince(m, f, at)
         /\ Judged(p, m, k, f, at, widen).mon.lastSignal = m.lastSignal
         /\ BlindTooLong(m, f, at) => Judged(p, m, k, f, at, widen).reason # None
<1> DEFINE j == Judged(p, m, k, f, at, widen)
           rules == Rules(p, m, k, f, at, widen)
           first == Min({Len(rules) + 1} \cup {i \in DOMAIN rules : rules[i]})
<1>1. /\ DOMAIN j.mon = MonitorFields /\ j.mon.staleSince = StaleSince(m, f, at)
      /\ j.mon.lastSignal = m.lastSignal
  BY DEF Judged, MonitorFields
<1>2. j.reason = IF first > Len(rules) THEN None ELSE Reasons[first]
  BY DEF Judged
<1>3. Len(rules) = 9 /\ DOMAIN rules = 1..9
  BY DEF Rules
<1>4. BlindTooLong(m, f, at) => rules[1]
  BY DEF Rules, BlindTooLong
<1> HIDE DEF j, rules
<1>5. ASSUME BlindTooLong(m, f, at) PROVE j.reason # None
  <2> DEFINE S == {Len(rules) + 1} \cup {i \in DOMAIN rules : rules[i]}
  <2>1. S \in SUBSET Int /\ 1 \in S /\ \A y \in S : 1 =< y
    BY <1>3, <1>4, <1>5
  <2> HIDE DEF S
  <2>2. Min(S) = 1
    BY <2>1, MinIs
  <2>3. first = 1
    BY <2>2 DEF S
  <2> HIDE DEF first
  <2>4. j.reason = Reasons[1]
    BY <1>2, <1>3, <2>3
  <2>5. 1 \in DOMAIN Reasons
    BY DEF Reasons
  <2> QED BY <2>4, <2>5, ReasonAssumption
<1> QED BY <1>1, <1>5 DEF j

LEMMA WatchedIs ==
  ASSUME NEW p, NEW m, DOMAIN m = MonitorFields, NEW k, NEW f, NEW at, NEW widen
  PROVE  /\ DOMAIN Watched(p, m, k, f, at, widen).mon = MonitorFields
         /\ Watched(p, m, k, f, at, widen).mon.staleSince = StaleSince(m, f, at)
         /\ Watched(p, m, k, f, at, widen).mon.lastSignal =
                IF Watched(p, m, k, f, at, widen).reason = None THEN m.lastSignal ELSE at
         /\ BlindTooLong(m, f, at) /\ ~Cooling(m, at)
                => Watched(p, m, k, f, at, widen).reason # None
<1> DEFINE j == Judged(p, m, k, f, at, widen)
           w == Watched(p, m, k, f, at, widen)
<1>1. w = IF j.reason = None \/ Cooling(m, at) THEN [reason |-> None, mon |-> j.mon]
          ELSE [reason |-> j.reason, mon |-> [j.mon EXCEPT !.lastSignal = at]]
  BY DEF Watched
<1>2. /\ DOMAIN j.mon = MonitorFields /\ j.mon.staleSince = StaleSince(m, f, at)
      /\ j.mon.lastSignal = m.lastSignal /\ (BlindTooLong(m, f, at) => j.reason # None)
  BY JudgedIs
<1> HIDE DEF j, w
<1>3. CASE j.reason = None \/ Cooling(m, at)
  BY <1>1, <1>2, <1>3 DEF w
<1>4. CASE ~(j.reason = None \/ Cooling(m, at))
  BY <1>1, <1>2, <1>4 DEF w, MonitorFields
<1> QED BY <1>3, <1>4

\* What a look at an open position does.
LEMMA MonitorIs ==
  ASSUME Remembered, Watchful, Monitor, NoneIsNoRecord
  PROVE  /\ NextLook /\ now' = now + Step /\ UNCHANGED <<track, startedAt>>
         /\ position # None /\ position' # None
         /\ "opened" \in DOMAIN position' /\ position'.opened = position.opened
         /\ cand.signal = None
<1>1. /\ NextLook /\ now' = now + Step /\ UNCHANGED <<track, startedAt>>
      /\ position # None /\ position' = Valued
  BY DEF Monitor, NextLook, world
<1>2. "opened" \in DOMAIN position /\ cand.signal = None
  BY <1>1 DEF Watchful, PositionHeld, BuyWaits
<1>3. DOMAIN Valued = DOMAIN position /\ Valued.opened = position.opened
  BY <1>2 DEF Valued
<1>4. position' # None
  BY <1>1, <1>2, <1>3 DEF NoneIsNoRecord
<1> QED BY <1>1, <1>2, <1>3, <1>4

\* Data of which nothing came for long enough are stale to the exit engine too.
LEMMA BlindLook ==
  ASSUME Remembered, Watchful, NoneIsNoRecord, position # None, HasData(track), now > Patient
  PROVE  Blind(IF HasData(track) THEN Features(track, now, None) ELSE None)
<1>1. track.lastData \in Int /\ now \in Int
  BY DEF Remembered, Memory, MemoryTypes
<1>2. Patient \in Int /\ Patient >= track.lastData + StaleAfter
  BY <1>1, PatientIs, Times
<1>3. IsStale(track, now)
  BY <1>1, <1>2, Times DEF IsStale, DataAge, Larger
<1> DEFINE f == Features(track, now, None)
<1>4. f.stale = IsStale(track, now) /\ "stale" \in DOMAIN f
  BY DEF Features
<1> HIDE DEF f
<1>5. f # None /\ f.stale
  BY <1>3, <1>4 DEF NoneIsNoRecord
<1> QED BY <1>5 DEF Blind, f

LEMMA MonitorKeepsWatch ==
  ASSUME Remembered, Watchful, Monitor, NoneIsNoRecord
  PROVE  Watchful'
<1>1. /\ NextLook /\ now' = now + Step /\ UNCHANGED <<track, startedAt>>
      /\ position # None /\ position' # None
      /\ "opened" \in DOMAIN position' /\ position'.opened = position.opened
      /\ cand.signal = None
  BY MonitorIs
<1>2. now \in Int /\ DOMAIN cand = CandFields /\ position.opened \in Int /\ startedAt \in Int
  BY <1>1 DEF Remembered, Watchful, PositionHeld
<1>3. now <= now'
  BY <1>1, <1>2, Times
<1>4. CASE cand.phase # "OPEN"
  <2>1. mon' = mon /\ cand' = cand
    BY <1>4 DEF Monitor
  <2>2. mon.staleSince # None => mon.staleSince <= now'
    <3>1. mon.staleSince \in Number /\ (mon.staleSince # None => mon.staleSince <= now)
      BY DEF Watchful, MonitorTypes
    <3>2. now' \in Int
      BY <1>1, <1>2, Times
    <3> QED BY <1>2, <1>3, <3>1, <3>2 DEF Number
  <2>3. SellWaits'
    BY <1>1, <2>1, LookBeforeExpiry DEF Watchful, SellWaits
  <2> QED BY <1>1, <1>2, <1>4, <2>1, <2>2, <2>3 DEF Watchful, BuyWaits, PositionHeld,
                                                    MonitorTypes, BlindIsNoted
<1>5. CASE cand.phase = "OPEN"
  <2> DEFINE f == IF HasData(track) THEN Features(track, now, None) ELSE None
  <2>1. PICK widen \in Widenings(f) :
            LET w == Watched(position', mon, track, f, now, widen)
            IN  /\ mon' = w.mon
                /\ cand' = IF w.reason = None THEN cand
                           ELSE [cand EXCEPT !.phase = "AWAITING_EXIT_CONFIRMATION",
                                             !.sell = now + Exit.ttl]
    BY <1>5 DEF Monitor
  <2> DEFINE w == Watched(position', mon, track, f, now, widen)
             since == StaleSince(mon, f, now)
  <2>2. /\ DOMAIN w.mon = MonitorFields /\ w.mon.staleSince = since
        /\ w.mon.lastSignal = IF w.reason = None THEN mon.lastSignal ELSE now
    BY WatchedIs DEF Watchful, MonitorTypes
  <2> DEFINE reason == w.reason
             order == [cand EXCEPT !.phase = "AWAITING_EXIT_CONFIRMATION",
                                   !.sell = now + Exit.ttl]
  <2>3. /\ DOMAIN mon' = MonitorFields /\ mon'.staleSince = since
        /\ mon'.lastSignal = IF reason = None THEN mon.lastSignal ELSE now
        /\ cand' = IF reason = None THEN cand ELSE order
    BY <2>1, <2>2
  <2> HIDE DEF reason, w, f
  <2>4. /\ DOMAIN order = CandFields /\ order.phase = "AWAITING_EXIT_CONFIRMATION"
        /\ order.signal = cand.signal /\ order.sell = now + Exit.ttl
    BY <1>2 DEF CandFields
  <2> HIDE DEF order
  <2>5. since \in Number /\ (since # None => since <= now')
    <3>1. mon.staleSince \in Number /\ (mon.staleSince # None => mon.staleSince <= now)
      BY DEF Watchful, MonitorTypes
    <3>2. since = None \/ since = now \/ since = mon.staleSince
      BY DEF StaleSince
    <3> HIDE DEF since
    <3> QED BY <1>2, <1>3, <3>1, <3>2, <1>1, Times DEF Number
  <2>6. MonitorTypes'
    BY <1>2, <2>3, <2>5 DEF Watchful, MonitorTypes, Number
  <2>7. SellWaits'
    <3>1. CASE reason = None
      BY <1>1, <2>3, <3>1, LookBeforeExpiry DEF Watchful, SellWaits
    <3>2. CASE reason # None
      <4>1. mon'.lastSignal = now /\ cand'.sell = now + Exit.ttl
        BY <2>3, <2>4, <3>2
      <4> QED BY <1>1, <1>2, <4>1, Times DEF SellWaits
    <3> QED BY <3>1, <3>2
  <2>8. BlindIsNoted'
    <3> SUFFICES ASSUME cand'.phase = "OPEN", HasData(track), now' > Patient' + Step
                 PROVE  mon'.staleSince \in Int /\ mon'.staleSince <= Patient' + Step
      BY <1>1 DEF BlindIsNoted
    <3>1. reason = None
      BY <2>3, <2>4
    <3>2. Patient' = Patient /\ Patient \in Int
      BY <1>1, <2>3, <3>1, PatientIs DEF Patient
    <3>3. now > Patient
      BY <1>1, <1>2, <3>2, Times
    <3>4. Blind(f)
      BY <1>1, <3>3, BlindLook DEF f
    <3>5. since = IF mon.staleSince = None THEN now ELSE mon.staleSince
      BY <3>4 DEF StaleSince
    <3> HIDE DEF since
    <3>6. mon.staleSince \in Number /\ (mon.staleSince # None => mon.staleSince <= now)
      BY DEF Watchful, MonitorTypes
    <3>7. CASE now > Patient + Step
      <4>1. mon.staleSince \in Int /\ mon.staleSince <= Patient + Step
        BY <1>1, <1>5, <3>7 DEF Watchful, BlindIsNoted
      <4> QED BY <2>3, <3>2, <3>5, <4>1, Times
    <3>8. CASE ~(now > Patient + Step)
      <4>1. since \in Int /\ since <= now
        BY <1>2, <3>5, <3>6 DEF Number
      <4> QED BY <1>2, <2>3, <3>2, <3>8, <4>1, Times
    <3> QED BY <3>7, <3>8
  <2>9. /\ DOMAIN cand' = CandFields /\ cand'.signal = None
        /\ cand'.phase \in {"OPEN", "AWAITING_EXIT_CONFIRMATION"}
    BY <1>1, <1>2, <1>5, <2>3, <2>4
  <2> QED BY <1>1, <1>2, <2>6, <2>7, <2>8, <2>9 DEF Watchful, BuyWaits, PositionHeld
<1> QED BY <1>4, <1>5

LEMMA StepWatches ==
  ASSUME Remembered, Quoted, Watchful, [TokenNext]_tokenVars, NoneIsNoRecord
  PROVE  Watchful'
<1>1. Remembered' /\ (Untouched \/ Refreshed \/ Forgotten)
  BY StepRemembers
<1>2. CASE UNCHANGED <<now, cand, position, mon, startedAt>> /\ ~Restart
  <2>1. CASE Untouched \/ Refreshed
    BY <1>1, <1>2, <2>1, DataArrive
  <2>2. CASE Forgotten
    BY <1>2, <2>2 DEF Watchful, BuyWaits, PositionHeld, MonitorTypes, SellWaits, BlindIsNoted,
                      Forgotten
  <2> QED BY <1>1, <2>1, <2>2
<1>3. CASE \E error \in QuoteErrors : QuoteFails(error)
  <2>1. PICK error \in QuoteErrors : QuoteFails(error)
    BY <1>3
  <2>2. UNCHANGED <<now, track, position, mon, startedAt>>
    BY <2>1 DEF QuoteFails, market, holding, world
  <2> QED BY <2>1, <2>2, FailedQuoteIs, StaysWatchful
<1>4. CASE \E pool \in Pools : QuoteArrives(pool)
  <2>1. PICK pool \in Pools : QuoteArrives(pool)
    BY <1>4
  <2>2. UNCHANGED <<now, track, position, mon, startedAt>>
    BY <2>1 DEF QuoteArrives, market, holding, world
  <2>3. CASE Stays(cand, cand')
    BY <2>2, <2>3, StaysWatchful
  <2>4. CASE \E c, rt : /\ Keeps(cand, c) /\ c.phase = cand.phase /\ c.roundTrip = rt
                        /\ rt.spend \in Int /\ Ordering(c, cand', rt)
    BY <2>2, <2>4, OrderingWatchful
  <2> QED BY <2>1, <2>3, <2>4, QuoteIs
<1> QED BY <1>2, <1>3, <1>4, StepKinds, SetBackKeepsWatch, LookKeepsWatch, MonitorKeepsWatch,
           ConfirmedBuyWatchful, ConfirmedSellWatchful, WithdrawnWatchful, RestartWatchful

\* What NeverEntersBlind and BlindIsSignalled say of a step.
EntersSighted ==
    /\ cand.signal = None /\ cand'.signal # None =>
           LET f == View(cand')
           IN  /\ ~IsStale(track, now) /\ cand'.roundTrip.viable
               /\ With(Checks(track, f, now, cand'.roundTrip), "REJECT") = {}
               /\ f.observations >= Entry.minObservations
    /\ position = None /\ position' # None => DataAge(track, now) <= StaleAfter + Step

SignalsBlind ==
    (/\ position # None /\ HasData(track) /\ now' > now
     /\ now >= Larger(LastSeen + StaleAfter, Unwatched) + Exit.staleAfter + Step)
        => cand'.phase # "OPEN"

\* Only a confirmed BUY opens a position.
LEMMA OnlyBuysOpen ==
  ASSUME [TokenNext]_tokenVars, position = None, position' # None
  PROVE  ConfirmBuy
<1>1. CASE \/ ClockSetBack \/ Evaluate \/ WithdrawBuy \/ WithdrawSell
           \/ (\E error \in QuoteErrors : QuoteFails(error))
           \/ (\E pool \in Pools : QuoteArrives(pool))
  BY <1>1 DEF ClockSetBack, Evaluate, WithdrawBuy, WithdrawSell, QuoteFails, QuoteArrives, holding
<1>2. CASE Monitor \/ Restart \/ ConfirmSell
  BY <1>2 DEF Monitor, Restart, ConfirmSell
<1> QED BY <1>1, <1>2, StepKinds

LEMMA StepIsSighted ==
  ASSUME Remembered, Quoted, Watchful, [TokenNext]_tokenVars
  PROVE  EntersSighted
<1>1. ASSUME cand.signal = None, cand'.signal # None
      PROVE  LET f == View(cand')
             IN  /\ ~IsStale(track, now) /\ cand'.roundTrip.viable
                 /\ With(Checks(track, f, now, cand'.roundTrip), "REJECT") = {}
                 /\ f.observations >= Entry.minObservations
  <2>1. PICK c, rt : rt.spend \in Int /\ c.roundTrip = rt /\ Ordering(c, cand', rt)
    BY <1>1, OrderIs
  <2> DEFINE f == View(c)
             checks == Checks(track, f, now, rt)
             score == Score(track, f, checks, rt)
  <2>2. /\ rt.viable /\ ~IsStale(track, now) /\ cand'.roundTrip = rt
        /\ Latched(f, checks, score) # "fatal" /\ Latched(f, checks, score) # "abandon"
    BY <2>1 DEF Ordering
  <2>3. View(cand') = f
    BY <2>1, <2>2 DEF View
  <2>4. f.observations = Len(track.snaps)
    BY DEF View, Features
  <2> HIDE DEF f, checks, score
  <2>5. ~HardReason(f, checks)
    BY <2>2 DEF Latched
  <2>6. With(checks, "REJECT") = {} /\ ~(f.observations < Entry.minObservations)
    BY <2>5 DEF HardReason, Qualifies
  <2>7. f.observations \in Nat /\ Entry.minObservations \in Nat
    BY <2>4, LenProperties, DecisionAssumption
       DEF ValidEntry, Remembered, Memory, MemoryTypes
  <2>8. f.observations >= Entry.minObservations
    BY <2>6, <2>7
  <2> QED BY <2>2, <2>3, <2>6, <2>8 DEF checks
<1>2. ASSUME position = None, position' # None
      PROVE  DataAge(track, now) <= StaleAfter + Step
  <2>1. ConfirmBuy
    BY <1>2, OnlyBuysOpen
  <2> QED BY <2>1 DEF ConfirmBuy, Watchful, BuyWaits
<1> QED BY <1>1, <1>2 DEF EntersSighted

LEMMA StepSignals ==
  ASSUME Remembered, Watchful, [TokenNext]_tokenVars, NoneIsNoRecord
  PROVE  SignalsBlind
<1> SUFFICES ASSUME position # None, HasData(track), now' > now,
                    now >= Larger(LastSeen + StaleAfter, Unwatched) + Exit.staleAfter + Step
             PROVE  cand'.phase # "OPEN"
  BY DEF SignalsBlind
<1>1. now \in Int
  BY DEF Remembered
<1>2. Monitor
  <2>1. ~(now' = now) /\ ~(now' = now - Step)
    BY <1>1, Times
  <2>2. ~ClockSetBack /\ ~Evaluate
    BY <2>1 DEF ClockSetBack, Evaluate
  <2>3. /\ ~ConfirmBuy /\ ~ConfirmSell /\ ~WithdrawBuy /\ ~WithdrawSell /\ ~Restart
        /\ ~(\E error \in QuoteErrors : QuoteFails(error))
        /\ ~(\E pool \in Pools : QuoteArrives(pool))
    BY <2>1 DEF ConfirmBuy, ConfirmSell, WithdrawBuy, WithdrawSell, Restart, QuoteFails,
                QuoteArrives
  <2> QED BY <2>1, <2>2, <2>3, StepKinds
<1>3. CASE cand.phase # "OPEN"
  BY <1>2, <1>3 DEF Monitor
<1>4. CASE cand.phase = "OPEN"
  <2> DEFINE f == IF HasData(track) THEN Features(track, now, None) ELSE None
  <2>1. PICK widen \in Widenings(f) :
            LET w == Watched(position', mon, track, f, now, widen)
            IN  /\ mon' = w.mon
                /\ cand' = IF w.reason = None THEN cand
                           ELSE [cand EXCEPT !.phase = "AWAITING_EXIT_CONFIRMATION",
                                             !.sell = now + Exit.ttl]
    BY <1>2, <1>4 DEF Monitor
  <2>2. Larger(LastSeen + StaleAfter, Unwatched) = Patient
    BY DEF Patient, Patience, LastSeen, Unwatched
  <2>3. /\ Patient \in Int /\ now >= Patient + Exit.staleAfter + Step
        /\ mon.lastSignal # None => Patient >= mon.lastSignal + Exit.cooldown
    BY <2>2, PatientIs
  <2>4. now > Patient + Step /\ now > Patient
    BY <1>1, <2>3, Times
  <2>5. mon.staleSince \in Int /\ mon.staleSince <= Patient + Step
    BY <1>4, <2>4 DEF Watchful, BlindIsNoted
  <2>6. Blind(f)
    BY <2>4, BlindLook
  <2> HIDE DEF f
  <2>7. StaleSince(mon, f, now) = mon.staleSince /\ mon.staleSince # None
    BY <2>5, <2>6, Times DEF StaleSince
  <2>8. now - mon.staleSince >= Exit.staleAfter
    BY <1>1, <2>3, <2>5, Times
  <2>9. BlindTooLong(mon, f, now)
    BY <2>7, <2>8 DEF BlindTooLong
  <2>10. ~Cooling(mon, now)
    <3>1. mon.lastSignal \in Number
      BY DEF Watchful, MonitorTypes
    <3> QED BY <1>1, <2>3, <3>1, Times DEF Cooling, Number
  <2>11. Watched(position', mon, track, f, now, widen).reason # None
    BY <2>9, <2>10, WatchedIs DEF Watchful, MonitorTypes
  <2>12. cand' = [cand EXCEPT !.phase = "AWAITING_EXIT_CONFIRMATION", !.sell = now + Exit.ttl]
    BY <2>1, <2>11
  <2> QED BY <2>12 DEF Watchful, CandFields
<1> QED BY <1>3, <1>4

\* Whatever the data, the settings and the answers are, a BUY is signalled only on fresh data
\* that passed every check, filled only while they are hardly older, and a position whose data
\* stopped coming is signalled for sale.
THEOREM NeverActsBlind == ASSUME NoneIsNoRecord PROVE TokenSpec => NeverBlind
<1>1. TokenInit => Remembered /\ Quoted /\ Watchful
  BY StartRemembers, StartQuotes, StartIsWatchful
<1>2. Remembered /\ Quoted /\ Watchful /\ [TokenNext]_tokenVars
          => (Remembered /\ Quoted /\ Watchful)'
  BY StepRemembers, StepQuotes, StepWatches
<1>3. Remembered /\ Quoted /\ Watchful /\ [TokenNext]_tokenVars => [EntersSighted]_tokenVars
  BY StepIsSighted
<1>4. Remembered /\ Quoted /\ Watchful /\ [TokenNext]_tokenVars => [SignalsBlind]_tokenVars
  BY StepSignals
<1>5. TokenSpec => [][EntersSighted]_tokenVars /\ [][SignalsBlind]_tokenVars
  BY <1>1, <1>2, <1>3, <1>4, PTL DEF TokenSpec
<1>6. NeverBlind <=> [][EntersSighted]_tokenVars /\ [][SignalsBlind]_tokenVars
  BY PTL DEF NeverBlind, NeverEntersBlind, BlindIsSignalled, EntersSighted, SignalsBlind
<1> QED BY <1>5, <1>6, PTL

=============================================================================
