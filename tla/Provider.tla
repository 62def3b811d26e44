------------------------------ MODULE Provider ------------------------------
(***************************************************************************)
(* One provider host behind the rate governor (infra/governor.py) and the  *)
(* HTTP client that retries through it (infra/http.py): pacing, the        *)
(* concurrency permits, rate-limit cooldowns, the circuit breaker and its  *)
(* half-open probe.                                                        *)
(*                                                                         *)
(* A deadline is the ticks left to it.  A token is worth one tick.  The    *)
(* three streak counters saturate where the code stops telling their       *)
(* values apart.  Requests are cancelled at shutdown only; that is left    *)
(* out.                                                                    *)
(***************************************************************************)
EXTENDS Integers, Sequences, FiniteSetsExt, SequencesExt

CONSTANTS
    Callers,
    MaxCalls,           \* bound on the requests made
    Retries,            \* retries a request may ask for
    BackoffDelays,      \* Backoff.next_delay
    RetryAfters,        \* Retry-After headers, in ticks; NoHeader for none
    NoHeader,
    \* HostPolicy
    Burst, MaxConcurrent, MaxWaiting, FastFailWait, CooldownMin, CooldownMax,
    TripAfter, OpenFor, OpenMax,
    \* counts from which the two backoffs have reached their maximum
    MaxTrips, MaxLimited

ASSUME ProviderAssumption ==
    /\ {MaxCalls, MaxWaiting, FastFailWait, CooldownMax} \subseteq Nat
    /\ {Burst, MaxConcurrent, CooldownMin, TripAfter, OpenFor, OpenMax, MaxTrips,
          MaxLimited} \subseteq Nat \ {0}
    /\ Retries \subseteq Nat /\ BackoffDelays \subseteq Nat
    /\ RetryAfters \ {NoHeader} \subseteq Nat
    /\ OpenFor * 2^(MaxTrips - 1) >= OpenMax
    /\ CooldownMin * 2^(MaxLimited - 1) >= CooldownMax

\* Plain arithmetic, which TLC evaluates and the provers do not know.
ASSUME PowersOfTwo == \A n \in 0..(MaxTrips + MaxLimited) : 2^n \in Nat \ {0}

VARIABLES
    host,       \* _Host: health, failure streaks, cooldown and circuit
    gate,       \* its semaphore (free permits, FIFO of waiters) and `waiting`
    tokens,     \* token bucket
    caller,     \* caller -> where its request is, its timer, its retries left
    calls,      \* requests made
    \* history
    overtaken,  \* waiting callers a new cooldown or an open circuit came after
    admitted    \* callers admitted to a DOWN host since it went down

vars == <<host, gate, tokens, caller, calls, overtaken, admitted>>

Idle == [at |-> "idle", wake |-> 0, left |-> 0]
Stages == {"idle", "cooling", "queued", "pacing", "sent", "backoff"}
Waiting == {c \in Callers : caller[c].at \in {"cooling", "queued", "pacing"}}
Sent == {c \in Callers : caller[c].at = "sent"}

Capped(n, cap) == Min({n, cap})

Init ==
    /\ host = [state |-> "HEALTHY", probe |-> FALSE, cooldown |-> 0, open |-> 0,
               failures |-> 0, limited |-> 0, trips |-> 0]
    /\ gate = [free |-> MaxConcurrent, queue |-> <<>>, waiting |-> 0]
    /\ tokens = Burst
    /\ caller = [c \in Callers |-> Idle]
    /\ calls = 0
    /\ overtaken = {}
    /\ admitted = 0

----------------------------------------------------------------------------
(* Outcomes of a request, as the governor records them. *)

OnSuccess(h) ==
    [h EXCEPT !.failures = 0, !.limited = 0, !.probe = FALSE, !.open = 0,
              !.state = "HEALTHY",
              !.cooldown = IF h.state = "HEALTHY" THEN @ ELSE 0]

OnRateLimited(h, cooldown) ==
    [h EXCEPT !.limited = Capped(@ + 1, MaxLimited),
              !.cooldown = Max({@, cooldown}),
              !.state = IF @ = "DOWN" THEN @ ELSE "RATE_LIMITED"]

\* The cooldowns a 429 may earn: the header's, or the backoff with its jitter.
Cooldowns(h, header) ==
    IF header # NoHeader
    THEN {Capped(header, CooldownMax)}
    ELSE LET base == Capped(CooldownMin * 2^h.limited, CooldownMax)
         IN base..Capped(base + base \div 4, CooldownMax)

OnFailure(h) ==
    LET failures == Capped(h.failures + 1, TripAfter)
        trips == Capped(h.trips + 1, MaxTrips)
    IN IF h.probe \/ failures = TripAfter
       THEN [h EXCEPT !.failures = failures, !.trips = trips, !.probe = FALSE,
                      !.open = Capped(OpenFor * 2^(trips - 1), OpenMax),
                      !.state = "DOWN"]
       ELSE [h EXCEPT !.failures = failures,
                      !.state = IF @ = "HEALTHY" /\ failures >= 2 THEN "DEGRADED" ELSE @]

----------------------------------------------------------------------------
(* slot(): admission, the permit, pacing. *)

HalfOpen(h) == h.state = "DOWN" /\ h.open = 0

\* Whoever comes first to a half-open host takes the probe, even to be refused below.
Probing(h) == IF HalfOpen(h) THEN [h EXCEPT !.probe = TRUE] ELSE h

\* Mutant: any number of probes.
RefusedOnlyOpen(h, g) ==
    h.open > 0 \/ h.cooldown > FastFailWait \/ g.waiting >= MaxWaiting

Refused(h, g) ==
    \/ h.open > 0
    \/ h.state = "DOWN" /\ h.probe
    \/ h.cooldown > FastFailWait
    \/ g.waiting >= MaxWaiting

Moves(c, at, wake, left) ==
    caller' = [caller EXCEPT ![c] = [at |-> at, wake |-> wake, left |-> left]]
Ends(c) == caller' = [caller EXCEPT ![c] = Idle]

\* _pace, then out of _admit with the request on the wire.
Pace(c, g, left) ==
    IF tokens > 0
    THEN /\ Moves(c, "sent", 0, left)
         /\ gate' = [g EXCEPT !.waiting = @ - 1]
         /\ tokens' = tokens - 1
    ELSE /\ Moves(c, "pacing", 0, left)
         /\ gate' = g
         /\ UNCHANGED tokens

Acquire(c, g, left) ==
    IF g.free > 0 /\ g.queue = <<>>
    THEN Pace(c, [g EXCEPT !.free = @ - 1], left)
    ELSE /\ Moves(c, "queued", 0, left)
         /\ gate' = [g EXCEPT !.queue = Append(@, c)]
         /\ UNCHANGED tokens

Admit(c, h, g, left) ==
    /\ host' = Probing(h)
    /\ IF Refused(h, g)
       THEN Ends(c) /\ gate' = g /\ UNCHANGED <<tokens, admitted>>
       ELSE LET in == [g EXCEPT !.waiting = @ + 1] IN
            /\ admitted' = Capped(admitted + (IF HalfOpen(h) THEN 1 ELSE 0), 2)
            /\ IF h.cooldown > 0
               THEN Moves(c, "cooling", h.cooldown, left) /\ gate' = in /\ UNCHANGED tokens
               ELSE Acquire(c, in, left)

\* Mutant: the permit is returned and nobody is woken.
ReleaseUnheard(g) == [g EXCEPT !.free = @ + 1]

\* Semaphore.release: the permit goes to the head of the queue.
Release(g) ==
    IF g.queue = <<>> THEN [g EXCEPT !.free = @ + 1] ELSE [g EXCEPT !.queue = Tail(@)]

Granted(c) == caller[c].at = "queued" /\ c \notin Range(gate.queue)

----------------------------------------------------------------------------
(* History: who waits when the host shuts, and admissions since the trip. *)

Overtakes ==
    LET shut == host'.cooldown > host.cooldown \/ host'.open > host.open
    IN overtaken' = {c \in (IF shut THEN overtaken \cup Waiting ELSE overtaken) :
                         caller'[c].at \in {"cooling", "queued", "pacing"}}

Counts == admitted' = IF host'.open > host.open THEN 0 ELSE admitted

----------------------------------------------------------------------------
(* HttpClient._request *)

Call(c) ==
    /\ caller[c].at = "idle" /\ calls < MaxCalls
    /\ calls' = calls + 1
    /\ \E r \in Retries : Admit(c, host, gate, r)
    /\ Overtakes

Cooled(c) ==
    /\ caller[c].at = "cooling" /\ caller[c].wake = 0
    /\ Acquire(c, gate, caller[c].left)
    /\ UNCHANGED <<host, calls, admitted>>
    /\ Overtakes

GetPermit(c) ==
    /\ Granted(c)
    /\ Pace(c, gate, caller[c].left)
    /\ UNCHANGED <<host, calls, admitted>>
    /\ Overtakes

GetToken(c) ==
    /\ caller[c].at = "pacing" /\ tokens > 0
    /\ Pace(c, gate, caller[c].left)
    /\ UNCHANGED <<host, calls, admitted>>
    /\ Overtakes

Succeed(c) ==
    /\ c \in Sent
    /\ host' = OnSuccess(host) /\ gate' = Release(gate) /\ Ends(c)
    /\ UNCHANGED <<tokens, calls>>
    /\ Overtakes /\ Counts

\* Mutant: the permit is not given back.
ClientErrorLeaks(c) ==
    /\ c \in Sent
    /\ Ends(c)
    /\ UNCHANGED <<host, gate, tokens, calls, admitted>>
    /\ Overtakes

\* A 4xx is the client's fault: the governor hears nothing of it.
ClientError(c) ==
    /\ c \in Sent
    /\ gate' = Release(gate) /\ Ends(c)
    /\ UNCHANGED <<host, tokens, calls, admitted>>
    /\ Overtakes

\* A body that is no JSON is not retried.
Malformed(c) ==
    /\ c \in Sent
    /\ host' = OnFailure(host) /\ gate' = Release(gate) /\ Ends(c)
    /\ UNCHANGED <<tokens, calls>>
    /\ Overtakes /\ Counts

\* A transport error, a timeout, or a 5xx.
Fail(c) ==
    /\ c \in Sent
    /\ host' = OnFailure(host) /\ gate' = Release(gate)
    /\ IF caller[c].left > 0
       THEN \E d \in BackoffDelays : Moves(c, "backoff", d, caller[c].left - 1)
       ELSE Ends(c)
    /\ UNCHANGED <<tokens, calls>>
    /\ Overtakes /\ Counts

RateLimit(c, header) ==
    /\ c \in Sent
    /\ \E cooldown \in Cooldowns(host, header) :
         LET h == OnRateLimited(host, cooldown) IN
         IF caller[c].left > 0 /\ cooldown <= FastFailWait
         THEN Admit(c, h, Release(gate), caller[c].left - 1)
         ELSE host' = h /\ gate' = Release(gate) /\ Ends(c) /\ UNCHANGED <<tokens, admitted>>
    /\ UNCHANGED calls
    /\ Overtakes

Retry(c) ==
    /\ caller[c].at = "backoff" /\ caller[c].wake = 0
    /\ Admit(c, host, gate, caller[c].left)
    /\ UNCHANGED calls
    /\ Overtakes

Tick ==
    /\ host' = [host EXCEPT !.cooldown = Max({@ - 1, 0}), !.open = Max({@ - 1, 0})]
    /\ tokens' = Capped(tokens + 1, Burst)
    /\ caller' = [c \in Callers |-> [caller[c] EXCEPT !.wake = Max({@ - 1, 0})]]
    /\ UNCHANGED <<gate, calls, overtaken, admitted>>

Answer(c) ==
    \/ Succeed(c) \/ ClientError(c) \/ Malformed(c) \/ Fail(c)
    \/ \E header \in RetryAfters : RateLimit(c, header)

Proceed(c) == Cooled(c) \/ GetPermit(c) \/ GetToken(c) \/ Retry(c) \/ Answer(c)

Next == Tick \/ \E c \in Callers : Call(c) \/ Proceed(c)

Spec == Init /\ [][Next]_vars

\* Timers fire, tasks that can run do run, and a request is answered or times out.
FairSpec == Spec /\ WF_vars(Tick) /\ \A c \in Callers : WF_vars(Proceed(c))

----------------------------------------------------------------------------
(* Properties *)

TypeOK ==
    /\ host \in [state : {"HEALTHY", "DEGRADED", "RATE_LIMITED", "DOWN"}, probe : BOOLEAN,
                 cooldown : 0..CooldownMax, open : 0..OpenMax, failures : 0..TripAfter,
                 limited : 0..MaxLimited, trips : 0..MaxTrips]
    /\ gate \in [free : 0..MaxConcurrent, queue : Seq(Callers), waiting : 0..MaxWaiting]
    /\ tokens \in 0..Burst
    /\ caller \in [Callers -> [at : Stages, wake : Nat, left : Nat]]
    /\ calls \in 0..MaxCalls
    /\ overtaken \subseteq Waiting
    /\ admitted \in 0..2

\* Every permit of the host's semaphore is free or in the hands of one request, through
\* queueing, hand-over, pacing and every way a request ends; `waiting` counts exactly the
\* requests between admission and the wire (slot() and _admit()).
PermitsConserved ==
    /\ gate.free + Cardinality({c \in Callers : Granted(c) \/ caller[c].at \in {"pacing", "sent"}})
         = MaxConcurrent
    /\ gate.waiting = Cardinality(Waiting)
    /\ IsInjective(gate.queue)
    /\ gate.queue # <<>> => gate.free = 0

\* A host that is shut is left alone.  Between two trips of its circuit a host that is down
\* lets at most one request through, the half-open probe; and a request goes out into a cooldown
\* or an open circuit only if it was already waiting when the host shut: _admit checks once,
\* and sleeps out a short cooldown, before it queues.
ShutHostIsSpared ==
    [][/\ host'.state = "DOWN" => admitted' <= 1
       /\ \A c \in Callers :
            c \notin Sent /\ caller'[c].at = "sent" /\ (host'.cooldown > 0 \/ host'.open > 0)
              => c \in overtaken]_vars

\* Every request ends, with an answer or an error, whatever the host does (_request).
RequestsEnd == \A c \in Callers : caller[c].at # "idle" ~> caller[c].at = "idle"
=============================================================================
