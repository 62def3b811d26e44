------------------------------- MODULE Storage -------------------------------
(***************************************************************************)
(* From an event to its row: the storage subscriber's bus queue            *)
(* (app/bus.py, app/persistence.py), and the repository's background       *)
(* writer, flush(), persist_now() and close() (storage/repository.py),     *)
(* with commits that may fail and the shutdown that must lose nothing      *)
(* (Runtime.stop in app/bootstrap.py).                                     *)
(*                                                                         *)
(* An op stands for one row written: its number, in the order the engine   *)
(* made them, and its kind.  Coroutines interleave where they suspend; the *)
(* subscriber's handler never does, so one wake-up empties its queue.      *)
(***************************************************************************)
EXTENDS Integers, Sequences, FiniteSetsExt, SequencesExt

CONSTANTS
    MaxOps,         \* bound on the ops made
    QueueSize,      \* of a bus subscriber
    Batch,          \* batch_size
    MaxTelemetry    \* max_queued_telemetry

ASSUME StorageAssumption ==
    /\ MaxOps \in Nat /\ MaxTelemetry \in Nat
    /\ QueueSize \in Nat \ {0} /\ Batch \in Nat \ {0}

\* "signal" is IMPORTANT, "snapshot" TELEMETRY (and droppable on the bus), "fill" CRITICAL.
\* "status", the kind update_signal_status leaves at its default, is in none of the classes.
\* "complete" and "holes" are the session's integrity row, by what it says; "ended" its last.
Kinds == {"signal", "snapshot", "status", "fill", "complete", "holes", "ended"}
Summaries == {"complete", "holes"}
Ids == 1..MaxOps
Op == [id : 0..MaxOps, kind : Kinds]

VARIABLES
    made,       \* ops made so far
    bus,        \* queue of the storage subscriber
    queue,      \* Repository._queue
    budget,     \* _telemetry_queued
    pending,    \* _pending: what the writer holds while it collects
    writer,     \* the writer task
    job,        \* _run_batch calls: the writer's _inflight, flush()'s, persist_now()'s
    lock,       \* _write_lock: its holder, then those waiting
    taken,      \* what flush() took and has not handed to a commit
    phase,      \* the engine runs, then the steps of the shutdown
    db,         \* ids of committed rows
    failed,     \* ids counted as dropped because their write failed
    over,       \* ids counted as dropped because telemetry was over budget
    evicted,    \* ids the bus threw away
    cancelled,  \* ids whose persist_now() was cancelled
    failures,   \* some commit failed (failures > 0)
    row,        \* what the session's own rows say: "none", "complete" or "holes"
    ended,      \* the session row has its end
    arrived     \* history: the ops in the order they were put in the queue

session == <<failures, row, ended>>
rows == <<db, failed, over, evicted, cancelled>>
vars == <<made, bus, queue, budget, pending, writer, job, lock, taken, phase, rows, session,
          arrived>>

Jobs == {"writer", "stop", "engine"}
NoJob == [ops |-> <<>>, stage |-> "none"]

IdsOf(ops) == {o.id : o \in Range(ops)} \ {0}
Count(ops, kinds) == Cardinality({i \in DOMAIN ops : ops[i].kind \in kinds})
Telemetry(ops) == Count(ops, {"snapshot"})

\* The members of s at these places, in their order.
Subsequence(s, places) ==
    LET Rank(i) == Cardinality({k \in places : k =< i})
    IN  [n \in 1..Cardinality(places) |-> s[CHOOSE i \in places : Rank(i) = n]]

Init ==
    /\ made = 0 /\ bus = <<>> /\ queue = <<>> /\ budget = 0 /\ pending = <<>>
    /\ writer = "getting" /\ job = [j \in Jobs |-> NoJob] /\ lock = <<>> /\ taken = <<>>
    /\ phase = "running"
    /\ db = {} /\ failed = {} /\ over = {} /\ evicted = {} /\ cancelled = {}
    /\ failures = FALSE /\ row = "none" /\ ended = FALSE /\ arrived = <<>>

----------------------------------------------------------------------------
(* Commits: _run_batch *)

Begin(j, ops) ==
    /\ job' = [job EXCEPT ![j] = [ops |-> ops, stage |-> "first"]]
    /\ lock' = Append(lock, j)

\* When the writer's commit is over a flush() waiting for it goes for the lock at once.
Finish(j) ==
    IF j = "writer" /\ taken # <<>>
    THEN /\ job' = [job EXCEPT ![j] = NoJob, !["stop"] = [ops |-> taken, stage |-> "first"]]
         /\ lock' = Append(Tail(lock), "stop")
         /\ taken' = <<>>
    ELSE /\ job' = [job EXCEPT ![j] = NoJob]
         /\ lock' = Tail(lock)
         /\ UNCHANGED taken

Holds(j) == lock # <<>> /\ Head(lock) = j

Kind(ops, kind) == \E o \in Range(ops) : o.kind = kind

Written(ops) ==
    /\ db' = db \cup IdsOf(ops)
    /\ row' = IF \E kind \in Summaries : Kind(ops, kind)
              THEN CHOOSE kind \in Summaries : Kind(ops, kind) ELSE row
    /\ ended' = (ended \/ Kind(ops, "ended"))

CommitBatch(j) ==
    /\ Holds(j) /\ job[j].stage \in {"first", "second"}
    /\ Written(job[j].ops)
    /\ Finish(j)
    /\ UNCHANGED <<made, bus, queue, budget, pending, writer, phase, failed, over, evicted,
                   cancelled, failures, arrived>>

\* A failed batch is tried again, then op by op.
BatchFails(j) ==
    /\ Holds(j) /\ job[j].stage \in {"first", "second"}
    /\ job' = [job EXCEPT ![j].stage = IF @ = "first" THEN "second" ELSE "single"]
    /\ failures' = TRUE
    /\ UNCHANGED <<made, bus, queue, budget, pending, writer, lock, taken, phase, rows, row, ended,
                   arrived>>

CommitOne(j) ==
    /\ Holds(j) /\ job[j].stage = "single"
    /\ LET o == Head(job[j].ops) IN
         \/ Written(<<o>>) /\ UNCHANGED failed
         \/ failed' = failed \cup IdsOf(<<o>>) /\ UNCHANGED <<db, row, ended>>
    /\ IF Len(job[j].ops) = 1
       THEN Finish(j)
       ELSE job' = [job EXCEPT ![j].ops = Tail(@)] /\ UNCHANGED <<lock, taken>>
    /\ UNCHANGED <<made, bus, queue, budget, pending, writer, phase, over, evicted, cancelled,
                   failures, arrived>>

----------------------------------------------------------------------------
(* The engine: publish(), persist(), persist_now() *)

\* The coroutine that stops the program is not in a commit of its own.
Idle == taken = <<>> /\ job["stop"] = NoJob

\* EventBus.publish to the storage subscriber.  A full queue drops a droppable event; for
\* any other it discards the oldest droppable one, and loses the event if there is none.
Droppable == {i \in DOMAIN bus : bus[i].kind = "snapshot"}

Publish(kind) ==
    LET o == [id |-> made + 1, kind |-> kind] IN
    /\ phase = "running" /\ made < MaxOps
    /\ made' = made + 1
    /\ IF Len(bus) < QueueSize
       THEN bus' = Append(bus, o) /\ UNCHANGED evicted
       ELSE IF kind = "snapshot" \/ Droppable = {}
       THEN evicted' = evicted \cup {o.id} /\ UNCHANGED bus
       ELSE LET oldest == Min(Droppable) IN
            /\ bus' = Append(RemoveAt(bus, oldest), o)
            /\ evicted' = evicted \cup {bus[oldest].id}
    /\ UNCHANGED <<queue, budget, pending, writer, job, lock, taken, phase, db, failed, over,
                   cancelled, session, arrived>>

\* Repository.persist, op by op: whatever is not IMPORTANT or CRITICAL is counted against the
\* budget, and dropped once the budget is used up.
Persisted(ops) ==
    LET counted == Kinds \ {"signal"}
        kept == {i \in DOMAIN ops :
                    ops[i].kind = "signal"
                    \/ budget + Count(SubSeq(ops, 1, i), counted) =< MaxTelemetry}
        more == Subsequence(ops, kept)
    IN  [queue |-> queue \o more, in |-> arrived \o more,
         budget |-> budget + Count(more, counted),
         over |-> over \cup {ops[i].id : i \in DOMAIN ops \ kept}]

Enqueued(p) == queue' = p.queue /\ budget' = p.budget /\ over' = p.over /\ arrived' = p.in

\* PersistenceSubscriber.handle, for all that waits on the bus.
Consume ==
    /\ bus # <<>> /\ phase = "running"
    /\ Enqueued(Persisted(bus))
    /\ bus' = <<>>
    /\ UNCHANGED <<made, pending, writer, job, lock, taken, phase, db, failed, evicted,
                   cancelled, session>>

\* What the engine queues itself: save_signal, update_signal_status, and while it stops the
\* windows it closes (finalize_entry_attempts); close() provides for more (its last flush).
Persist(kind) ==
    /\ \/ phase = "running"
       \/ phase = "stopping" /\ kind = "signal" /\ Idle
       \/ phase = "closing" /\ kind = "signal"
    /\ made < MaxOps
    /\ made' = made + 1
    /\ Enqueued(Persisted(<<[id |-> made + 1, kind |-> kind]>>))
    /\ UNCHANGED <<bus, pending, writer, job, lock, taken, phase, db, failed, evicted,
                   cancelled, session>>

\* A CRITICAL row is committed while its maker waits: the engine, or stop() for the account,
\* the open positions and the outcomes.
PersistNow(j) ==
    /\ \/ j = "engine" /\ phase = "running"
       \/ j = "stop" /\ phase = "stopping" /\ Idle
    /\ made < MaxOps /\ job[j] = NoJob
    /\ made' = made + 1
    /\ Begin(j, <<[id |-> made + 1, kind |-> "fill"]>>)
    /\ UNCHANGED <<bus, queue, budget, pending, writer, taken, phase, rows, session, arrived>>

----------------------------------------------------------------------------
(* Repository._writer *)

\* _dequeue, n times
Dequeued(n) ==
    /\ queue' = SubSeq(queue, n + 1, Len(queue))
    /\ budget' = budget - Telemetry(SubSeq(queue, 1, n))

Collect ==
    LET room == Batch - Len(pending)
        n == Min({room, Len(queue)})
    IN /\ writer \in {"getting", "collecting"} /\ n > 0
       /\ pending' = pending \o SubSeq(queue, 1, n)
       /\ Dequeued(n)
       /\ writer' = "collecting"
       /\ UNCHANGED <<made, bus, job, lock, taken, phase, rows, session, arrived>>

\* Mutant: commits _pending without taking it.
HandOffKept ==
    /\ writer = "collecting"
    /\ IF pending = <<>>
       THEN writer' = "getting" /\ UNCHANGED <<job, lock>>
       ELSE writer' = "committing" /\ Begin("writer", pending)
    /\ UNCHANGED <<made, bus, queue, budget, pending, taken, phase, rows, session, arrived>>

\* The batch is full or its time is up; flush() may have taken what was collected.
HandOff ==
    /\ writer = "collecting"
    /\ IF pending = <<>>
       THEN writer' = "getting" /\ UNCHANGED <<job, lock>>
       ELSE writer' = "committing" /\ Begin("writer", pending)
    /\ pending' = <<>>
    /\ UNCHANGED <<made, bus, queue, budget, taken, phase, rows, session, arrived>>

\* Mutant: the loop does not raise the cancellation it caught.
CommittedUncancelled ==
    /\ writer \in {"committing", "last"} /\ job["writer"] = NoJob
    /\ writer' = "getting"
    /\ UNCHANGED <<made, bus, queue, budget, pending, job, lock, taken, phase, rows, session,
                   arrived>>

Committed ==
    /\ writer \in {"committing", "last"} /\ job["writer"] = NoJob
    /\ writer' = IF writer = "last" THEN "ended" ELSE "getting"
    /\ UNCHANGED <<made, bus, queue, budget, pending, job, lock, taken, phase, rows, session,
                   arrived>>

----------------------------------------------------------------------------
(* Shutdown: Runtime.stop, end_session, close *)

\* The engine is cancelled, with any persist_now() it awaits; the bus is drained.
\* A commit under way may have reached the database or not.
Stop ==
    /\ phase = "running"
    /\ phase' = "stopping"
    /\ Enqueued(Persisted(bus)) /\ bus' = <<>>
    /\ job' = [job EXCEPT !["engine"] = NoJob]
    /\ lock' = Subsequence(lock, {i \in DOMAIN lock : lock[i] # "engine"})
    /\ \/ /\ Holds("engine") /\ db' = db \cup IdsOf(job["engine"].ops)
          /\ UNCHANGED cancelled
       \/ /\ cancelled' = cancelled \cup IdsOf(job["engine"].ops)
          /\ UNCHANGED db
    /\ UNCHANGED <<made, pending, writer, taken, failed, evicted, session>>

\* Mutant: takes the queue before what the writer holds.
FlushingQueueFirst(next) ==
    LET ops == queue \o pending IN
    /\ pending' = <<>> /\ Dequeued(Len(queue))
    /\ IF ops = <<>>
       THEN UNCHANGED <<job, lock, taken>>
       ELSE IF job["writer"] # NoJob
       THEN taken' = ops /\ UNCHANGED <<job, lock>>
       ELSE Begin("stop", ops) /\ UNCHANGED taken
    /\ phase' = next
    /\ UNCHANGED <<made, bus, writer, rows, session, arrived>>

Flushing(next) ==
    LET ops == pending \o queue IN
    /\ pending' = <<>> /\ Dequeued(Len(queue))
    /\ IF ops = <<>>
       THEN UNCHANGED <<job, lock, taken>>
       ELSE IF job["writer"] # NoJob
       THEN taken' = ops /\ UNCHANGED <<job, lock>>
       ELSE Begin("stop", ops) /\ UNCHANGED taken
    /\ phase' = next
    /\ UNCHANGED <<made, bus, writer, rows, session, arrived>>

\* flush() returns when the writer's commit and its own are over.
Flushed == Idle /\ job["writer"] = NoJob

\* finalize_entry_attempts flushes what it queued.
FinalizeEntryAttempts ==
    phase = "stopping" /\ Idle /\ pending \o queue # <<>> /\ Flushing("stopping")

EndSession == phase = "stopping" /\ Idle /\ Flushing("ending")

SaveSession(kind, next) ==
    /\ phase' = next
    /\ Begin("stop", <<[id |-> 0, kind |-> kind]>>)
    /\ UNCHANGED <<made, bus, queue, budget, pending, writer, taken, rows, session, arrived>>

\* Mutant: failed writes only.
SummaryOfFailures == IF failed = {} /\ ~failures THEN "complete" ELSE "holes"

\* The integrity row carries the counters of the moment it is made.
Summary == IF failed \cup over = {} /\ ~failures THEN "complete" ELSE "holes"

RecordIntegrity == phase = "ending" /\ Flushed /\ SaveSession(Summary, "recording")

SaveEnd == phase = "recording" /\ job["stop"] = NoJob /\ SaveSession("ended", "signing")

Close == phase = "signing" /\ job["stop"] = NoJob /\ Flushing("closing")

\* Cancelled while it collects, the writer still commits what it holds.
CancelWriter ==
    /\ phase = "closing" /\ Flushed
    /\ phase' = "cancelling"
    /\ IF writer = "collecting" /\ pending # <<>>
       THEN writer' = "last" /\ Begin("writer", pending)
       ELSE writer' = "ended" /\ UNCHANGED <<job, lock>>
    /\ pending' = <<>>
    /\ UNCHANGED <<made, bus, queue, budget, taken, rows, session, arrived>>

LastFlush ==
    /\ phase = "cancelling" /\ writer = "ended" /\ job["writer"] = NoJob
    /\ Flushing("draining")

Closed ==
    /\ phase = "draining" /\ Flushed
    /\ phase' = "closed"
    /\ UNCHANGED <<made, bus, queue, budget, pending, writer, job, lock, taken, rows, session,
                   arrived>>

Shutdown == EndSession \/ RecordIntegrity \/ SaveEnd \/ Close \/ CancelWriter \/ LastFlush \/ Closed

Batches == \E j \in Jobs : CommitBatch(j) \/ BatchFails(j) \/ CommitOne(j)

Engine ==
    \/ \E kind \in {"signal", "snapshot"} : Publish(kind)
    \/ \E kind \in {"signal", "status"} : Persist(kind)
    \/ \E j \in {"engine", "stop"} : PersistNow(j)
    \/ FinalizeEntryAttempts

Next == Engine \/ Consume \/ Collect \/ HandOff \/ Committed \/ Batches \/ Stop \/ Shutdown

Spec == Init /\ [][Next]_vars

\* Ready tasks run, and a commit ends, well or badly.
Fairness ==
    /\ WF_vars(Consume) /\ WF_vars(Collect) /\ WF_vars(HandOff) /\ WF_vars(Committed)
    /\ WF_vars(Batches) /\ WF_vars(Shutdown)

----------------------------------------------------------------------------
(* Properties *)

TypeOK ==
    /\ made \in 0..MaxOps /\ budget \in 0..MaxTelemetry
    /\ bus \in Seq(Op) /\ Len(bus) <= QueueSize
    /\ queue \in Seq(Op) /\ taken \in Seq(Op)
    /\ pending \in Seq(Op) /\ Len(pending) <= Batch
    /\ writer \in {"getting", "collecting", "committing", "last", "ended"}
    /\ DOMAIN job = Jobs
    /\ \A j \in Jobs : /\ job[j].ops \in Seq(Op)
                      /\ job[j].stage \in {"none", "first", "second", "single"}
    /\ lock \in Seq(Jobs)
    /\ phase \in {"running", "stopping", "ending", "recording", "signing", "closing",
                  "cancelling", "draining", "closed"}
    /\ UNION {db, failed, over, evicted, cancelled} \subseteq Ids
    /\ failures \in BOOLEAN /\ row \in Summaries \cup {"none"} /\ ended \in BOOLEAN
    /\ arrived \in Seq(Op)

Held == bus \o queue \o pending \o taken
            \o job["writer"].ops \o job["stop"].ops \o job["engine"].ops
Settled == UNION {db, failed, over, evicted, cancelled}

\* Every op made is in one place: waiting in exactly one queue or batch, committed once, or
\* counted, evicted or cancelled.  flush() taking over what the writer collects, a commit that
\* falls back to single ops and the cancelling of the writer neither lose nor double any
\* (the comment in Repository._writer).  The telemetry budget is taken by the telemetry that
\* waits, and for good by every status update ever queued: persist() counts its kind,
\* _dequeue() never gives it back.
NothingVanishes ==
    /\ IdsOf(Held) \cup Settled = 1..made
    /\ Cardinality(Settled) + Cardinality({i \in DOMAIN Held : Held[i].id # 0}) = made
    /\ budget = Telemetry(queue) + Count(arrived, {"status"})

\* A queued row is never committed before one queued earlier is settled, so a later status or
\* upsert of a row is never overwritten by the older one (Repository._write_lock, flush()).
RowsInOrder ==
    [][\A k \in DOMAIN arrived : arrived[k].id \in db' \ db =>
         \A i \in 1..(k - 1) : arrived[i].id \in db' \cup failed']_vars

\* When the integrity row is made, and when the repository is closed, all the rows made before
\* are settled; the row calls them complete only if no write failed and none was dropped for the
\* budget (end_session, record_integrity, close).  Rows the bus evicted or a cancelled commit
\* lost are not in its counters.
EndIsHonest ==
    [][/\ phase' # phase /\ phase' \in {"recording", "closed"} => IdsOf(Held)' = {}
       /\ row' # row /\ row' = "complete" => failed' = {} /\ over' = {}]_vars

\* close() returns: no wait of the shutdown is for something that never comes.
StopEnds == phase = "stopping" ~> phase = "closed"
=============================================================================
