---------------------------- MODULE MarketProofs ----------------------------
(* Theorems about Market, for every value of its constants. *)
EXTENDS Market, TLAPS

\* The frames of the actions, down to the variables.
USE DEF discovery, engine, polls, socket

----------------------------------------------------------------------------
(* Types of what the theorems are about *)

Operation == [op : {"subscribe", "unsubscribe"}, mints : SUBSET Streamed]

Typed ==
    /\ seen \subseteq Mints /\ buffer \in Seq(Mints)
    /\ cand \in [Mints -> {"none", "idle", "busy", "ended"}]
    /\ follow \in [Mints -> {"none", "open", "saving", "done"}]
    /\ unwatching \subseteq Mints /\ tracked \subseteq Mints /\ subscribed \subseteq Streamed
    /\ link \in {"down", "opening", "up", "broken"} /\ server \subseteq Streamed
    /\ wire \in Seq(Operation)

\* Queues keep their element type when they grow or lose their head.
LEMMA QueueTypes ==
  ASSUME NEW S, NEW q \in Seq(S)
  PROVE  /\ <<>> \in Seq(S)
         /\ \A e \in S : Append(q, e) \in Seq(S) /\ q \o <<e>> \in Seq(S)
         /\ q # <<>> => Head(q) \in S /\ Tail(q) \in Seq(S)
OBVIOUS

\* What is sent of a set of streamed mints leaves a well-formed queue.
LEMMA SentType ==
  ASSUME wire \in Seq(Operation), NEW op \in {"subscribe", "unsubscribe"},
         NEW S \in SUBSET Streamed
  PROVE  Sent(op, S) \in Seq(Operation)
<1>1. [op |-> op, mints |-> S] \in Operation
  BY DEF Operation
<1>2. Append(wire, [op |-> op, mints |-> S]) \in Seq(Operation)
  BY <1>1, QueueTypes
<1> QED BY <1>2 DEF Sent

\* Watching a mint changes what is tracked, subscribed and sent, and nothing else.
LEMMA WatchType ==
  ASSUME Typed, NEW m \in Mints, Watch(m)
  PROVE  /\ tracked' = tracked \cup {m}
         /\ tracked' \subseteq Mints /\ subscribed' \subseteq Streamed
         /\ wire' \in Seq(Operation)
<1> USE MarketAssumption DEF Typed
<1>1. CASE m \in tracked
  BY <1>1 DEF Watch
<1>2. CASE m \notin tracked
  <2> DEFINE new == ({m} \cap Streamed) \ subscribed
  <2>1. new \in SUBSET Streamed
    OBVIOUS
  <2>2. Sent("subscribe", new) \in Seq(Operation)
    BY <2>1, SentType
  <2>3. /\ tracked' = tracked \cup {m} /\ subscribed' = subscribed \cup new
        /\ wire' = Sent("subscribe", new)
    BY <1>2 DEF Watch
  <2> QED BY <2>1, <2>2, <2>3
<1> QED BY <1>1, <1>2

\* A token the discovery sink is given: refused, or watched under a new candidate, which is
\* marked when an unwatch of the mint is under way.
LEMMA HandleMoves ==
  ASSUME Typed, NEW m \in Mints, Handle(m)
  PROVE  /\ seen' \subseteq Mints
         /\ \/ UNCHANGED <<cand, raced, tracked, subscribed, wire>>
            \/ /\ Watch(m) /\ Race(m) /\ m \notin Held
               /\ cand' \in [Mints -> {"none", "idle", "busy", "ended"}]
               /\ \A p \in Mints : p # m => (cand'[p] = "none" <=> cand[p] = "none")
<1>1. PICK old \in SUBSET seen :
         \/ /\ m \in seen \ old /\ seen' = seen \ old
            /\ UNCHANGED <<cand, raced, tracked, subscribed, wire>>
         \/ /\ m \notin seen \ old /\ seen' = (seen \ old) \cup {m}
            /\ \/ UNCHANGED <<cand, raced, tracked, subscribed, wire>>
               \/ OnToken(m)
  BY DEF Handle
<1>2. ASSUME OnToken(m), ~UNCHANGED <<cand, raced, tracked, subscribed, wire>>
      PROVE  /\ Watch(m) /\ Race(m) /\ m \notin Held
             /\ cand' \in [Mints -> {"none", "idle", "busy", "ended"}]
             /\ \A p \in Mints : p # m => (cand'[p] = "none" <=> cand[p] = "none")
  <2>1. Watch(m) /\ Race(m) /\ m \notin Held
    BY <1>2 DEF OnToken
  <2>2. \/ cand' = [cand EXCEPT ![m] = "idle"]
        \/ \E v \in Victims : cand' = [cand EXCEPT ![v] = "ended", ![m] = "idle"]
    BY <1>2 DEF OnToken
  <2>3. \A v \in Victims : v \in Mints /\ cand[v] = "idle"
    BY DEF Victims
  <2> QED BY <2>1, <2>2, <2>3 DEF Typed
<1>3. seen' \subseteq Mints
  BY <1>1 DEF Typed
<1> QED BY <1>1, <1>2, <1>3

\* The mint a message on the socket, a poll or the buffer hands to the sink.
LEMMA DiscoveryMoves ==
  ASSUME Typed, NEW m \in Mints, Created(m) \/ Found(m) \/ Flush
  PROVE  /\ buffer' \in Seq(Mints)
         /\ UNCHANGED <<follow, unwatching, link, server>>
         /\ \/ UNCHANGED <<seen, cand, raced, tracked, subscribed, wire>>
            \/ \E p \in Mints : Handle(p)
<1>1. CASE Created(m)
  <2>1. /\ UNCHANGED <<follow, unwatching, link, server>>
        /\ \/ UNCHANGED buffer /\ Handle(m)
           \/ /\ buffer' = (IF Len(buffer) = BufferSize THEN Tail(buffer) ELSE buffer) \o <<m>>
              /\ NotHandled
    BY <1>1 DEF Created
  <2>2. Len(buffer) = BufferSize /\ buffer = <<>> => Tail(buffer) \o <<m>> \in Seq(Mints)
    BY DEF Typed
  <2>3. buffer # <<>> => Tail(buffer) \o <<m>> \in Seq(Mints)
    <3>1. buffer # <<>> => Tail(buffer) \in Seq(Mints)
      BY QueueTypes DEF Typed
    <3> QED BY <3>1, QueueTypes
  <2>4. buffer \o <<m>> \in Seq(Mints)
    BY QueueTypes DEF Typed
  <2> QED BY <2>1, <2>2, <2>3, <2>4 DEF Typed, NotHandled
<1>2. CASE Found(m)
  BY <1>2 DEF Found, Typed
<1>3. CASE Flush
  <2>1. /\ UNCHANGED <<follow, unwatching, link, server>>
        /\ \/ UNCHANGED buffer /\ NotHandled
           \/ buffer # <<>> /\ Handle(Head(buffer)) /\ buffer' = Tail(buffer)
    BY <1>3 DEF Flush
  <2>2. buffer # <<>> => Head(buffer) \in Mints /\ Tail(buffer) \in Seq(Mints)
    BY QueueTypes DEF Typed
  <2> QED BY <2>1, <2>2 DEF Typed, NotHandled
<1> QED BY <1>1, <1>2, <1>3

\* Snapshots open windows of candidates that have had none, and do nothing else to windows.
LEMMA OpensMoves ==
  ASSUME Typed, NEW S, Opens(S)
  PROVE  /\ follow' \in [Mints -> {"none", "open", "saving", "done"}]
         /\ \A m \in Mints : follow'[m] = follow[m]
                             \/ (m \in Held /\ follow[m] = "none" /\ follow'[m] = "open")
BY DEF Typed, Opens

LEMMA TypedStep == ASSUME Typed, [Next]_vars PROVE Typed'
<1>1. CASE \E m \in Mints : Created(m) \/ Found(m)
  <2>1. PICK m \in Mints : Created(m) \/ Found(m)
    BY <1>1
  <2>2. \/ UNCHANGED <<seen, cand, raced, tracked, subscribed, wire>>
        \/ \E p \in Mints : Handle(p)
    BY <2>1, DiscoveryMoves
  <2>3. CASE UNCHANGED <<seen, cand, raced, tracked, subscribed, wire>>
    BY <2>1, <2>3, DiscoveryMoves DEF Typed
  <2>4. CASE \E p \in Mints : Handle(p)
    <3>1. PICK p \in Mints : Handle(p)
      BY <2>4
    <3>2. \/ UNCHANGED <<cand, raced, tracked, subscribed, wire>>
          \/ Watch(p) /\ cand' \in [Mints -> {"none", "idle", "busy", "ended"}]
      BY <3>1, HandleMoves
    <3>3. seen' \subseteq Mints
      BY <3>1, HandleMoves DEF Typed
    <3>4. /\ cand' \in [Mints -> {"none", "idle", "busy", "ended"}]
          /\ tracked' \subseteq Mints /\ subscribed' \subseteq Streamed
          /\ wire' \in Seq(Operation)
      BY <3>2, WatchType DEF Typed
    <3> QED BY <2>1, <3>3, <3>4, DiscoveryMoves DEF Typed
  <2> QED BY <2>2, <2>3, <2>4
<1>2. CASE Flush
  <2>1. /\ buffer' \in Seq(Mints)
        /\ UNCHANGED <<follow, unwatching, link, server>>
        /\ \/ UNCHANGED <<seen, cand, raced, tracked, subscribed, wire>>
           \/ \E p \in Mints : Handle(p)
    <3>1. CASE Mints = {}
      <4>1. buffer = <<>>
        BY <3>1 DEF Typed
      <4> QED BY <1>2, <4>1 DEF Flush, NotHandled, Typed
    <3>2. CASE Mints # {}
      BY <1>2, <3>2, DiscoveryMoves
    <3> QED BY <3>1, <3>2
  <2>2. CASE UNCHANGED <<seen, cand, raced, tracked, subscribed, wire>>
    BY <2>1, <2>2 DEF Typed
  <2>3. CASE \E p \in Mints : Handle(p)
    <3>1. PICK p \in Mints : Handle(p)
      BY <2>3
    <3>2. \/ UNCHANGED <<cand, raced, tracked, subscribed, wire>>
          \/ Watch(p) /\ cand' \in [Mints -> {"none", "idle", "busy", "ended"}]
      BY <3>1, HandleMoves
    <3>3. seen' \subseteq Mints
      BY <3>1, HandleMoves DEF Typed
    <3>4. /\ cand' \in [Mints -> {"none", "idle", "busy", "ended"}]
          /\ tracked' \subseteq Mints /\ subscribed' \subseteq Streamed
          /\ wire' \in Seq(Operation)
      BY <3>2, WatchType DEF Typed
    <3> QED BY <2>1, <3>3, <3>4 DEF Typed
  <2> QED BY <2>1, <2>2, <2>3
<1>3. CASE Connect \/ Resubscribe \/ Deliver \/ Break \/ Disconnect
  <2>1. UNCHANGED <<seen, buffer, cand, follow, unwatching, tracked, subscribed>>
    BY <1>3 DEF Connect, Resubscribe, Deliver, Break, Disconnect
  <2>2. link' \in {"down", "opening", "up", "broken"}
    BY <1>3 DEF Connect, Resubscribe, Deliver, Break, Disconnect, Typed
  <2>3. server' \subseteq Streamed
    <3>1. wire # <<>> => Head(wire).mints \subseteq Streamed
      <4>1. wire # <<>> => Head(wire) \in Operation
        BY QueueTypes DEF Typed
      <4> QED BY <4>1 DEF Operation
    <3> QED BY <1>3, <3>1 DEF Connect, Resubscribe, Deliver, Break, Disconnect, Typed
  <2>4. wire' \in Seq(Operation)
    <3>1. Sent("subscribe", subscribed) \in Seq(Operation)
      BY SentType DEF Typed
    <3>2. wire # <<>> => Tail(wire) \in Seq(Operation)
      BY QueueTypes DEF Typed
    <3>3. <<>> \in Seq(Operation)
      OBVIOUS
    <3> QED BY <1>3, <3>1, <3>2, <3>3
            DEF Connect, Resubscribe, Deliver, Break, Disconnect, Typed
  <2> QED BY <2>1, <2>2, <2>3, <2>4 DEF Typed
<1>4. CASE \E m \in Mints : Unwatch(m)
  <2>1. PICK m \in Mints : Unwatch(m)
    BY <1>4
  <2> DEFINE gone == IF m \in tracked THEN {m} \cap Streamed \cap subscribed ELSE {}
  <2>2. gone \in SUBSET Streamed
    OBVIOUS
  <2>3. Sent("unsubscribe", gone) \in Seq(Operation)
    BY <2>2, SentType DEF Typed
  <2>4. /\ wire' = Sent("unsubscribe", gone) /\ subscribed' = subscribed \ gone
        /\ tracked' = tracked \ {m} /\ unwatching' = unwatching \ {m}
        /\ UNCHANGED <<seen, buffer, cand, follow, link, server>>
    BY <2>1 DEF Unwatch
  <2> QED BY <2>3, <2>4 DEF Typed
<1>5. CASE \/ \E m \in Mints : Evaluate(m) \/ Housekeep(m)
           \/ OutcomesSaved
  BY <1>5 DEF Evaluate, Housekeep, OutcomesSaved, Typed, Live
<1>6. CASE FinalizeDue
  BY <1>6 DEF FinalizeDue, Typed
<1>7. CASE (\E m \in Mints : Traded(m)) \/ (\E r \in onWay : Respond(r))
  <2>1. UNCHANGED <<seen, buffer, cand, unwatching, tracked, link, wire, server, subscribed>>
    BY <1>7 DEF Traded, Respond
  <2>2. \E S : Opens(S)
    BY <1>7 DEF Traded, Respond
  <2> QED BY <2>1, <2>2, OpensMoves DEF Typed
<1>8. CASE Request \/ (\E l \in Lanes : Poll(l)) \/ UNCHANGED vars
  BY <1>8 DEF Request, Poll, vars, Typed
<1> QED BY <1>1, <1>2, <1>3, <1>4, <1>5, <1>6, <1>7, <1>8 DEF Next

LEMMA TypedInit == Init => Typed
<1> SUFFICES ASSUME Init PROVE Typed
  OBVIOUS
<1>1. <<>> \in Seq(Mints) /\ <<>> \in Seq(Operation)
  OBVIOUS
<1> QED BY <1>1 DEF Init, Typed

----------------------------------------------------------------------------
(* Nobody who is needed loses the market data *)

\* Beyond the windows that are open: the ones a tick is saving, of mints still candidates or not.
Needed == {m \in Mints : m \in Held \/ follow[m] \in {"open", "saving"}}

\* A mint whose window a tick is saving counts as needed until its rows are committed: a
\* rediscovery in that time makes it a candidate, which the end of the window then sees.
Watched == \A m \in Needed \ raced : m \in tracked /\ m \notin unwatching

LEMMA WatchedHandle ==
  ASSUME Typed, Watched, NEW p \in Mints, Handle(p), UNCHANGED <<follow, unwatching>>
  PROVE  Watched'
<1>1. CASE UNCHANGED <<cand, raced, tracked>>
  BY <1>1 DEF Watched, Needed, Held
<1>2. CASE /\ Watch(p) /\ Race(p)
           /\ \A q \in Mints : q # p => (cand'[q] = "none" <=> cand[q] = "none")
  <2>1. tracked' = tracked \cup {p}
    BY <1>2, WatchType
  <2>2. Needed' \subseteq Needed \cup {p}
    BY <1>2 DEF Held, Needed
  <2>3. /\ \A m \in Mints : m # p => (m \in raced' <=> m \in raced)
        /\ p \notin raced' => p \notin unwatching
    BY <1>2 DEF Race
  <2>4. \A m \in Needed' \ raced' : m \in tracked' /\ m \notin unwatching
    BY <2>1, <2>2, <2>3 DEF Watched, Needed
  <2> QED BY <2>4 DEF Watched
<1> QED BY <1>1, <1>2, HandleMoves

LEMMA WatchedStep == ASSUME Typed, Watched, [Next]_vars PROVE Watched'
<1>1. CASE (\E m \in Mints : Created(m) \/ Found(m)) \/ Flush
  <2>1. /\ UNCHANGED <<follow, unwatching>>
        /\ UNCHANGED <<cand, raced, tracked>> \/ \E p \in Mints : Handle(p)
    <3>1. CASE \E m \in Mints : Created(m) \/ Found(m)
      BY <3>1, DiscoveryMoves
    <3>2. CASE Flush /\ Mints # {}
      BY <3>2, DiscoveryMoves
    <3>3. CASE Flush /\ Mints = {}
      <4>1. buffer = <<>>
        BY <3>3 DEF Typed
      <4> QED BY <3>3, <4>1 DEF Flush, NotHandled
    <3> QED BY <1>1, <3>1, <3>2, <3>3
  <2> QED BY <2>1, WatchedHandle DEF Watched, Needed, Held
<1>2. CASE \/ Connect \/ Resubscribe \/ Deliver \/ Break \/ Disconnect
           \/ Request \/ (\E l \in Lanes : Poll(l)) \/ UNCHANGED vars
  <2>1. UNCHANGED <<raced, cand, follow, unwatching, tracked>>
    BY <1>2 DEF Connect, Resubscribe, Deliver, Break, Disconnect, Request, Poll, vars
  <2> QED BY <2>1 DEF Watched, Needed, Held
<1>3. CASE \E m \in Mints : Evaluate(m)
  <2>1. UNCHANGED <<raced, follow, unwatching, tracked>> /\ Held' \subseteq Held
    BY <1>3 DEF Evaluate, Held, Live, Typed
  <2> QED BY <2>1 DEF Watched, Needed
<1>4. CASE \E m \in Mints : Housekeep(m)
  <2>1. PICK m \in Mints : Housekeep(m)
    BY <1>4
  <2>2. /\ cand' = [cand EXCEPT ![m] = "none"] /\ m \in Held
        /\ unwatching' = IF m \in Followed THEN unwatching ELSE unwatching \cup {m}
        /\ UNCHANGED <<raced, follow, tracked>>
    BY <2>1 DEF Housekeep, Held
  <2>3. follow[m] # "saving"
    BY <2>1 DEF Housekeep, TickAwaits
  <2>4. Held' = Held \ {m}
    BY <2>2 DEF Held, Typed
  <2>5. \A p \in Needed' : p \in Needed /\ (p = m => m \in Followed)
    BY <2>2, <2>3, <2>4 DEF Needed, Followed, Typed
  <2> QED BY <2>2, <2>5 DEF Watched
<1>5. CASE FinalizeDue
  <2>1. UNCHANGED <<raced, cand, unwatching, tracked>> /\ Needed' \subseteq Needed
    BY <1>5 DEF FinalizeDue, Needed, Held, Followed
  <2> QED BY <2>1 DEF Watched
<1>6. CASE OutcomesSaved
  <2> DEFINE saved == {m \in Mints : follow[m] = "saving"}
  <2>1. /\ follow' = [m \in Mints |-> IF m \in saved THEN "done" ELSE follow[m]]
        /\ unwatching' = unwatching \cup (saved \ Held)
        /\ UNCHANGED <<raced, cand, tracked>>
    BY <1>6 DEF OutcomesSaved
  <2>2. \A m \in Needed' : m \in Needed /\ (m \in saved => m \in Held)
    BY <2>1 DEF Needed, Held
  <2> QED BY <2>1, <2>2 DEF Watched
<1>7. CASE (\E m \in Mints : Traded(m)) \/ (\E r \in onWay : Respond(r))
  <2>1. UNCHANGED <<raced, cand, unwatching, tracked>> /\ \E S : Opens(S)
    BY <1>7 DEF Traded, Respond
  <2>2. Needed' \subseteq Needed
    BY <2>1, OpensMoves DEF Needed, Held
  <2> QED BY <2>1, <2>2 DEF Watched
<1>8. CASE \E m \in Mints : Unwatch(m)
  <2>1. PICK m \in Mints : Unwatch(m)
    BY <1>8
  <2>2. /\ m \in unwatching /\ unwatching' = unwatching \ {m} /\ tracked' = tracked \ {m}
        /\ UNCHANGED <<raced, cand, follow>>
    BY <2>1 DEF Unwatch
  <2>3. Needed' = Needed
    BY <2>2 DEF Needed, Held
  <2> QED BY <2>2, <2>3 DEF Watched
<1> QED BY <1>1, <1>2, <1>3, <1>4, <1>5, <1>6, <1>7, <1>8 DEF Next

\* A mint the engine evaluates, or whose outcome is being measured, is watched and no unwatch
\* of it is under way, unless its last candidate came between the spawning of an unwatch and
\* its running: whatever discovery forgets and finds again, however windows outlive their
\* candidates (UnwatchedOnlyByRace: on_token, the housekeeping and the end of the outcome
\* windows, which spawn the unwatch).
THEOREM WatchedWhileNeeded == Spec => []UnwatchedOnlyByRace
<1>1. Init => Typed /\ Watched
  BY TypedInit DEF Init, Watched, Needed, Held
<1>2. Typed /\ Watched /\ [Next]_vars => Typed' /\ Watched'
  BY TypedStep, WatchedStep
<1>3. Watched => UnwatchedOnlyByRace
  BY DEF Watched, UnwatchedOnlyByRace, Needed, Held, Live, Followed
<1> QED BY <1>1, <1>2, <1>3, PTL DEF Spec

----------------------------------------------------------------------------
(* The server streams what is subscribed *)

\* Whether mint m is streamed once the server, streaming the mints s, has taken every operation
\* of the queue q: the last operation about m decides.
StreamsIn(s, q, m) ==
    \/ \E i \in 1..Len(q) : /\ m \in q[i].mints /\ q[i].op = "subscribe"
                            /\ \A j \in 1..Len(q) : j > i => m \notin q[j].mints
    \/ m \in s /\ \A i \in 1..Len(q) : m \notin q[i].mints

\* The last operation sent is the last one taken.
LEMMA StreamsAfterSend ==
  ASSUME NEW q \in Seq(Operation), NEW s, NEW m, NEW S \in SUBSET Streamed,
         NEW op \in {"subscribe", "unsubscribe"}
  PROVE  StreamsIn(s, Append(q, [op |-> op, mints |-> S]), m)
           <=> IF m \in S THEN op = "subscribe" ELSE StreamsIn(s, q, m)
<1> DEFINE e == [op |-> op, mints |-> S]
           r == Append(q, e)
<1>1. e \in Operation /\ e.op = op /\ e.mints = S
  BY DEF Operation
<1>2. /\ Len(q) \in Nat /\ Len(r) = Len(q) + 1 /\ r[Len(q) + 1] = e
      /\ \A i \in 1..Len(q) : r[i] = q[i]
  BY <1>1
<1> HIDE DEF e, r
<1>3. CASE m \in S
  BY <1>1, <1>2, <1>3 DEF StreamsIn
<1>4. CASE m \notin S
  <2>1. (\A i \in 1..Len(r) : m \notin r[i].mints) <=> (\A i \in 1..Len(q) : m \notin q[i].mints)
    BY <1>1, <1>2, <1>4
  <2>2. ASSUME NEW i \in 1..Len(r), m \in r[i].mints, r[i].op = "subscribe",
               \A j \in 1..Len(r) : j > i => m \notin r[j].mints
        PROVE  /\ i \in 1..Len(q) /\ m \in q[i].mints /\ q[i].op = "subscribe"
               /\ \A j \in 1..Len(q) : j > i => m \notin q[j].mints
    <3>1. i # Len(q) + 1
      BY <1>1, <1>2, <1>4, <2>2
    <3>2. i \in 1..Len(q)
      BY <1>2, <3>1
    <3>3. r[i] = q[i]
      BY <1>2, <3>2
    <3>4. \A j \in 1..Len(q) : j > i => m \notin q[j].mints
      BY <1>2, <2>2
    <3> QED BY <2>2, <3>2, <3>3, <3>4
  <2>3. ASSUME NEW i \in 1..Len(q), m \in q[i].mints, q[i].op = "subscribe",
               \A j \in 1..Len(q) : j > i => m \notin q[j].mints
        PROVE  /\ i \in 1..Len(r) /\ m \in r[i].mints /\ r[i].op = "subscribe"
               /\ \A j \in 1..Len(r) : j > i => m \notin r[j].mints
    <3>1. i \in 1..Len(r) /\ r[i] = q[i]
      BY <1>2
    <3>2. ASSUME NEW j \in 1..Len(r), j > i PROVE m \notin r[j].mints
      <4>1. CASE j = Len(q) + 1
        BY <1>1, <1>2, <1>4, <4>1
      <4>2. CASE j # Len(q) + 1
        <5>1. j \in 1..Len(q)
          BY <1>2, <4>2
        <5> QED BY <1>2, <2>3, <3>2, <5>1
      <4> QED BY <4>1, <4>2
    <3> QED BY <2>3, <3>1, <3>2
  <2>4. StreamsIn(s, r, m) <=> StreamsIn(s, q, m)
    BY <2>1, <2>2, <2>3 DEF StreamsIn
  <2> QED BY <1>4, <2>4 DEF r, e
<1> QED BY <1>3, <1>4 DEF r, e

\* Taking the next operation changes nothing about what will be streamed.
LEMMA StreamsAfterDeliver ==
  ASSUME NEW q \in Seq(Operation), q # <<>>, NEW s, NEW m
  PROVE  StreamsIn(IF Head(q).op = "subscribe" THEN s \cup Head(q).mints
                                               ELSE s \ Head(q).mints, Tail(q), m)
           <=> StreamsIn(s, q, m)
<1> DEFINE t == IF Head(q).op = "subscribe" THEN s \cup Head(q).mints ELSE s \ Head(q).mints
           r == Tail(q)
           n == Len(r)
<1>1. /\ n \in Nat /\ Len(q) = n + 1 /\ Head(q) = q[1]
      /\ \A i \in 1..n : r[i] = q[i + 1]
  OBVIOUS
<1>2. m \in t <=> IF m \in q[1].mints THEN q[1].op = "subscribe" ELSE m \in s
  BY <1>1
<1> HIDE DEF t, r, n
<1>3. (\A i \in 1..n : m \notin r[i].mints)
        <=> (\A i \in 1..(n + 1) : i > 1 => m \notin q[i].mints)
  <2>1. \A i \in 1..(n + 1) : i > 1 => i - 1 \in 1..n /\ q[i] = r[i - 1]
    BY <1>1
  <2>2. \A i \in 1..n : i + 1 \in 1..(n + 1) /\ i + 1 > 1 /\ q[i + 1] = r[i]
    BY <1>1
  <2> QED BY <2>1, <2>2
<1>4. ASSUME NEW i \in 1..n, m \in r[i].mints, r[i].op = "subscribe",
             \A j \in 1..n : j > i => m \notin r[j].mints
      PROVE  StreamsIn(s, q, m)
  <2>1. i + 1 \in 1..Len(q) /\ m \in q[i + 1].mints /\ q[i + 1].op = "subscribe"
    BY <1>1, <1>4
  <2>2. ASSUME NEW j \in 1..Len(q), j > i + 1 PROVE m \notin q[j].mints
    <3>1. j - 1 \in 1..n /\ j - 1 > i /\ r[j - 1] = q[j]
      BY <1>1, <2>2
    <3> QED BY <1>4, <3>1
  <2> QED BY <2>1, <2>2 DEF StreamsIn
<1>5. ASSUME NEW i \in 1..(n + 1), m \in q[i].mints, q[i].op = "subscribe",
             \A j \in 1..(n + 1) : j > i => m \notin q[j].mints
      PROVE  StreamsIn(t, r, m)
  <2>1. CASE i = 1
    BY <1>2, <1>3, <1>5, <2>1 DEF StreamsIn, n
  <2>2. CASE i # 1
    <3>1. i - 1 \in 1..n /\ r[i - 1] = q[i]
      BY <1>1, <2>2
    <3>2. ASSUME NEW j \in 1..n, j > i - 1 PROVE m \notin r[j].mints
      <4>1. j + 1 \in 1..(n + 1) /\ j + 1 > i /\ r[j] = q[j + 1]
        BY <1>1, <3>2
      <4> QED BY <1>5, <4>1
    <3> QED BY <1>5, <3>1, <3>2 DEF StreamsIn, n
  <2> QED BY <2>1, <2>2
<1>6. ASSUME m \in t, \A i \in 1..n : m \notin r[i].mints PROVE StreamsIn(s, q, m)
  <2>1. \A i \in 1..(n + 1) : i > 1 => m \notin q[i].mints
    BY <1>3, <1>6
  <2>2. CASE m \in q[1].mints
    BY <1>1, <1>2, <1>6, <2>1, <2>2 DEF StreamsIn
  <2>3. CASE m \notin q[1].mints
    <3>1. \A i \in 1..(n + 1) : m \notin q[i].mints
      BY <1>1, <2>1, <2>3
    <3> QED BY <1>1, <1>2, <1>6, <2>3, <3>1 DEF StreamsIn
  <2> QED BY <2>2, <2>3
<1>7. ASSUME m \in s, \A i \in 1..(n + 1) : m \notin q[i].mints PROVE StreamsIn(t, r, m)
  <2>1. m \in t
    BY <1>1, <1>2, <1>7
  <2> QED BY <1>3, <1>7, <2>1 DEF StreamsIn, n
<1>8. StreamsIn(t, r, m) => StreamsIn(s, q, m)
  BY <1>4, <1>6 DEF StreamsIn, n
<1>9. StreamsIn(s, q, m) => StreamsIn(t, r, m)
  BY <1>1, <1>5, <1>7 DEF StreamsIn
<1> QED BY <1>8, <1>9 DEF t, r

LEMMA StreamsAfterSent ==
  ASSUME Typed, link \in {"opening", "up"}, NEW op \in {"subscribe", "unsubscribe"},
         NEW S \in SUBSET Streamed, NEW m
  PROVE  StreamsIn(server, Sent(op, S), m)
           <=> IF m \in S THEN op = "subscribe" ELSE StreamsIn(server, wire, m)
<1>1. CASE S = {}
  BY <1>1 DEF Sent
<1>2. CASE S # {}
  <2>1. Sent(op, S) = Append(wire, [op |-> op, mints |-> S])
    BY <1>2 DEF Sent
  <2>2. wire \in Seq(Operation)
    BY DEF Typed
  <2>3. StreamsIn(server, Append(wire, [op |-> op, mints |-> S]), m)
          <=> IF m \in S THEN op = "subscribe" ELSE StreamsIn(server, wire, m)
    BY <2>2, StreamsAfterSend
  <2> QED BY <2>1, <2>3
<1> QED BY <1>1, <1>2

\* The subscriptions are the supported mints that are watched; what is on its way brings the
\* server to exactly them, and to nothing else while a connection is still being opened.
Agreed ==
    /\ subscribed = tracked \cap Streamed
    /\ link = "up" => \A m \in Streamed : StreamsIn(server, wire, m) <=> m \in subscribed
    /\ link = "opening" => \A m \in Streamed : StreamsIn(server, wire, m) => m \in subscribed

LEMMA AgreedWatch ==
  ASSUME Typed, Agreed, NEW p \in Mints, Watch(p), UNCHANGED <<link, server>>
  PROVE  Agreed'
<1>1. CASE p \in tracked
  BY <1>1 DEF Watch, Agreed
<1>2. CASE p \notin tracked
  <2> DEFINE new == ({p} \cap Streamed) \ subscribed
  <2>1. /\ tracked' = tracked \cup {p} /\ subscribed' = subscribed \cup new
        /\ wire' = Sent("subscribe", new) /\ new \in SUBSET Streamed
    BY <1>2 DEF Watch
  <2>2. subscribed' = tracked' \cap Streamed
    BY <2>1 DEF Agreed
  <2>3. ASSUME link \in {"opening", "up"}, NEW m
        PROVE  StreamsIn(server, wire', m) <=> m \in new \/ StreamsIn(server, wire, m)
    BY <2>1, <2>3, StreamsAfterSent
  <2> HIDE DEF new
  <2>4. link' = "up" => \A m \in Streamed : StreamsIn(server, wire', m) <=> m \in subscribed'
    BY <2>1, <2>3 DEF Agreed
  <2>5. link' = "opening"
          => \A m \in Streamed : StreamsIn(server, wire', m) => m \in subscribed'
    BY <2>1, <2>3 DEF Agreed
  <2> QED BY <2>2, <2>4, <2>5 DEF Agreed
<1> QED BY <1>1, <1>2

LEMMA AgreedUnwatch == ASSUME Typed, Agreed, NEW p \in Mints, Unwatch(p) PROVE Agreed'
<1> DEFINE gone == IF p \in tracked THEN {p} \cap Streamed \cap subscribed ELSE {}
<1>1. /\ tracked' = tracked \ {p} /\ subscribed' = subscribed \ gone
      /\ wire' = Sent("unsubscribe", gone) /\ gone \in SUBSET Streamed
      /\ UNCHANGED <<link, server>>
  BY DEF Unwatch
<1>2. subscribed' = tracked' \cap Streamed
  BY <1>1 DEF Agreed
<1>3. ASSUME link \in {"opening", "up"}, NEW m
      PROVE  StreamsIn(server, wire', m) <=> m \notin gone /\ StreamsIn(server, wire, m)
  BY <1>1, <1>3, StreamsAfterSent
<1> HIDE DEF gone
<1>4. link' = "up" => \A m \in Streamed : StreamsIn(server, wire', m) <=> m \in subscribed'
  BY <1>1, <1>3 DEF Agreed
<1>5. link' = "opening"
        => \A m \in Streamed : StreamsIn(server, wire', m) => m \in subscribed'
  BY <1>1, <1>3 DEF Agreed
<1> QED BY <1>1, <1>2, <1>4, <1>5 DEF Agreed

LEMMA AgreedStep == ASSUME Typed, Agreed, [Next]_vars PROVE Agreed'
<1>1. CASE (\E m \in Mints : Created(m) \/ Found(m)) \/ Flush
  <2>1. /\ UNCHANGED <<link, server>>
        /\ UNCHANGED <<tracked, subscribed, wire>> \/ \E p \in Mints : Watch(p)
    <3>1. /\ UNCHANGED <<link, server>>
          /\ UNCHANGED <<tracked, subscribed, wire>> \/ \E p \in Mints : Handle(p)
      <4>1. CASE \E m \in Mints : Created(m) \/ Found(m)
        BY <4>1, DiscoveryMoves
      <4>2. CASE Flush /\ Mints # {}
        BY <4>2, DiscoveryMoves
      <4>3. CASE Flush /\ Mints = {}
        <5>1. buffer = <<>>
          BY <4>3 DEF Typed
        <5> QED BY <4>3, <5>1 DEF Flush, NotHandled
      <4> QED BY <1>1, <4>1, <4>2, <4>3
    <3> QED BY <3>1, HandleMoves
  <2>2. CASE UNCHANGED <<tracked, subscribed, wire>>
    BY <2>1, <2>2 DEF Agreed
  <2>3. CASE \E p \in Mints : Watch(p)
    BY <2>1, <2>3, AgreedWatch
  <2> QED BY <2>1, <2>2, <2>3
<1>2. CASE Connect
  <2>1. /\ link' = "opening" /\ wire' = <<>> /\ server' = {}
        /\ UNCHANGED <<tracked, subscribed>>
    BY <1>2 DEF Connect
  <2>2. \A m : ~StreamsIn({}, <<>>, m)
    BY DEF StreamsIn
  <2> QED BY <2>1, <2>2 DEF Agreed
<1>3. CASE Resubscribe
  <2>1. /\ link = "opening" /\ link' = "up" /\ wire' = Sent("subscribe", subscribed)
        /\ UNCHANGED <<server, tracked, subscribed>>
    BY <1>3 DEF Resubscribe
  <2>2. \A m : StreamsIn(server, wire', m)
                 <=> m \in subscribed \/ StreamsIn(server, wire, m)
    BY <2>1, StreamsAfterSent DEF Typed
  <2> QED BY <2>1, <2>2 DEF Agreed
<1>4. CASE Deliver
  <2>1. /\ wire # <<>> /\ wire' = Tail(wire) /\ UNCHANGED <<tracked, link, subscribed>>
        /\ server' = IF Head(wire).op = "subscribe" THEN server \cup Head(wire).mints
                                                    ELSE server \ Head(wire).mints
    BY <1>4 DEF Deliver
  <2>2. \A m : StreamsIn(server', wire', m) <=> StreamsIn(server, wire, m)
    BY <2>1, StreamsAfterDeliver DEF Typed
  <2> QED BY <2>1, <2>2 DEF Agreed
<1>5. CASE Break \/ Disconnect
  BY <1>5 DEF Break, Disconnect, Agreed
<1>6. CASE \E m \in Mints : Unwatch(m)
  BY <1>6, AgreedUnwatch
<1>7. CASE \/ FinalizeDue \/ OutcomesSaved \/ Request \/ UNCHANGED vars
           \/ \E m \in Mints : Traded(m) \/ Evaluate(m) \/ Housekeep(m)
           \/ \E l \in Lanes : Poll(l)
           \/ \E r \in onWay : Respond(r)
  <2>1. UNCHANGED <<tracked, socket, subscribed>>
    BY <1>7 DEF FinalizeDue, OutcomesSaved, Request, vars, Traded, Evaluate, Housekeep, Poll,
                Respond
  <2> QED BY <2>1 DEF Agreed
<1> QED BY <1>1, <1>2, <1>3, <1>4, <1>5, <1>6, <1>7 DEF Next

\* With nothing on its way to it, the server of a live connection streams exactly the supported
\* mints that are watched, after any number of lost connections and whatever is subscribed or
\* unsubscribed while one is being opened (StreamMatches: PumpPortalClient over
\* ReconnectingWebSocket).
THEOREM StreamAgrees == Spec => []StreamMatches
<1>1. Init => Typed /\ Agreed
  BY TypedInit DEF Init, Agreed
<1>2. Typed /\ Agreed /\ [Next]_vars => Typed' /\ Agreed'
  BY TypedStep, AgreedStep
<1>3. Typed /\ Agreed => StreamMatches
  BY DEF Typed, Agreed, StreamMatches, StreamsIn
<1> QED BY <1>1, <1>2, <1>3, PTL DEF Spec
=============================================================================
