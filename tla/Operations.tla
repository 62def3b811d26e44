----------------------------- MODULE Operations -----------------------------
(***************************************************************************)
(* Engine processes and their operators around one runtime home: start-up  *)
(* and shutdown (cli/main.py, app/bootstrap.py), the boot record           *)
(* (app/bootrecord.py), the heartbeat (app/health.py) and the dashboard    *)
(* that reads it (web/session_discovery.py), the commands file             *)
(* (app/command_file.py, cli/commands.py), and the arming markers written  *)
(* by the command line and by running processes (app/arming.py,            *)
(* cli/autonomy.py).                                                       *)
(*                                                                         *)
(* No lock keeps a second process out of a home, and a paper session may   *)
(* run beside the service, so each step that reads or writes one file is   *)
(* an action.  os.replace makes a write atomic for its readers; the final  *)
(* heartbeat is written in place and can be seen torn.                     *)
(***************************************************************************)
EXTENDS Integers, SequencesExt

CONSTANTS
    Procs, None,    \* runs of the program, each with a session of its own
    Autonomous,     \* those started with run --autonomous; the others are paper sessions
    Words,          \* commands an operator may write
    Troubles,       \* what the state of its parts may make of a heartbeat
    Interval,       \* HealthReporter interval_s, in ticks of the clock
    MaxLag,         \* bound: ticks a heartbeat may come late
    FreshFor,       \* HEARTBEAT_FRESH_S, in ticks
    MaxAlive,       \* bound: processes in the home at the same time
    MaxActs         \* bound: acts of operators and failures of processes

\* boot.json: `stopped` is its stop marker, `previous` its previous_exit.
BootRecord == [owner : Procs, previous : {"none", "clean", "unclean"}, stopped : BOOLEAN]

ASSUME OperationsAssumption ==
    /\ None \notin Procs \cup BootRecord /\ Autonomous \subseteq Procs
    /\ Words \subseteq {"kill", "resume", "disarm", "quit", "engine"}
    /\ Troubles \subseteq {"DEGRADED", "UNHEALTHY"}
    /\ {Interval, MaxLag, FreshFor, MaxAlive, MaxActs} \subseteq Nat
    /\ 0 < Interval /\ Interval + MaxLag <= FreshFor

Cli == "cli"

VARIABLES
    \* processes
    phase,      \* process -> how far its life has come
    asked,      \* processes whose stop event is set
    since,      \* process -> ticks since its last heartbeat, Past without one
    seen,       \* process -> the boot record it has read
    \* the commands file and its readers
    file,       \* pieces of lines
    written,    \* lines begun so far
    offset,     \* process -> pieces it has consumed
    first,      \* process -> lines begun before its reader started
    batch,      \* process -> lines consumed and not yet handled
    done,       \* process -> lines handled
    cut,        \* processes that have not noticed a truncation
    confused,   \* processes that read on in a file that grew again
    \* other files of the home
    boot,       \* boot.json
    status,     \* status.json
    began,      \* session rows, oldest first
    wallet, enabled,            \* the key file; what arm writes to sniper.env
    armed, disarmed, kill,      \* the markers
    \* the command line
    arming,     \* how far an `arm` has come
    disarming,  \* who is, or died, between the two writes of a disarm
    \* history and bounds
    rearmed,    \* armed.json was written after the last disarmed.json
    quiet,      \* ticks since buys were stopped
    acts

procs == <<phase, asked, since, seen>>
commands == <<file, written, offset, first, batch, done, cut, confused>>
markers == <<wallet, enabled, armed, disarmed, kill, arming, disarming, rearmed, quiet>>
records == <<boot, status, began>>
vars == <<procs, commands, markers, records, acts>>

Act == acts < MaxActs /\ acts' = acts + 1

Alive == {p \in Procs :
    phase[p] \notin {"new", "refused", "dead", "exited"}}
Running == {p \in Procs : phase[p] = "running"}
Goes(p, to) == phase' = [phase EXCEPT ![p] = to]

\* ArmingState.armed.  The files are read one after the other, armed.json
\* first; disarm writes them in the other order, so that a read that overlaps
\* it finds the state before or after it.
Armed == armed /\ ~disarmed /\ ~kill

Past == FreshFor + 1    \* ages are counted up to here
Older(n) == IF n < Past THEN n + 1 ELSE Past

Init ==
    /\ phase = [p \in Procs |-> "new"] /\ asked = {}
    /\ since = [p \in Procs |-> Past]
    /\ seen = [p \in Procs |-> None]
    /\ file = <<>> /\ written = 0
    /\ offset = [p \in Procs |-> 0] /\ first = [p \in Procs |-> 0]
    /\ batch = [p \in Procs |-> <<>>] /\ done = [p \in Procs |-> <<>>]
    /\ cut = {} /\ confused = {}
    /\ boot = None /\ status = None /\ began = <<>>
    /\ wallet \in BOOLEAN /\ armed \in BOOLEAN /\ disarmed \in BOOLEAN
    /\ armed => wallet /\ ~disarmed
    /\ enabled = armed
    /\ kill = FALSE
    /\ arming = "idle" /\ disarming = {}
    /\ rearmed = armed /\ quiet = Past /\ acts = 0

----------------------------------------------------------------------------
(* Arming markers *)

\* Buys may just have been stopped: quiet counts from here.
Quiet(now) == quiet' = IF Armed /\ ~now THEN 0 ELSE quiet

\* wallet create and import refuse to overwrite a key file.
CreateWallet ==
    /\ ~wallet /\ wallet' = TRUE /\ Act
    /\ UNCHANGED <<procs, commands, records, enabled, armed, disarmed, kill, arming,
                   disarming, rearmed, quiet>>

\* arm loads the key and reads the balance, asks its question, writes
\* sniper.env, then armed.json, and removes disarmed.json last.  It can be
\* declined, or die, before any of these.
ArmBegin == arming = "idle" /\ wallet /\ Act /\ arming' = "asking"
            /\ UNCHANGED <<enabled, armed, disarmed, rearmed, quiet>>
ArmConfirm == arming = "asking" /\ arming' = "confirmed" /\ enabled' = TRUE
              /\ UNCHANGED <<acts, armed, disarmed, rearmed, quiet>>
ArmMark == arming = "confirmed" /\ arming' = "marked" /\ armed' = TRUE /\ rearmed' = TRUE
           /\ UNCHANGED <<acts, enabled, disarmed, quiet>>
ArmClear == arming = "marked" /\ arming' = "idle" /\ disarmed' = FALSE
            /\ UNCHANGED <<acts, enabled, armed, rearmed, quiet>>
ArmAbort == arming # "idle" /\ arming' = "idle" /\ Act
            /\ UNCHANGED <<enabled, armed, disarmed, rearmed, quiet>>
Arm ==
    /\ ArmBegin \/ ArmConfirm \/ ArmMark \/ ArmClear \/ ArmAbort
    /\ UNCHANGED <<procs, commands, records, wallet, kill, disarming>>

\* disarm writes disarmed.json, then removes armed.json, unless it dies first.
DisarmMark(who) ==
    /\ disarmed' = TRUE /\ disarming' = disarming \cup {who} /\ rearmed' = FALSE
    /\ Quiet(FALSE)

\* Mutant: disarmed.json alone stops the buys.
DisarmClearKept(who) ==
    /\ who \in disarming \cap (Running \cup {Cli})
    /\ disarming' = disarming \ {who}
    /\ UNCHANGED <<procs, commands, records, acts, wallet, enabled, armed, disarmed, kill, arming,
                   rearmed, quiet>>

DisarmClear(who) ==
    /\ who \in disarming \cap (Running \cup {Cli})
    /\ armed' = FALSE /\ disarming' = disarming \ {who} /\ Quiet(FALSE)
    /\ UNCHANGED <<procs, commands, records, acts, wallet, enabled, disarmed, kill, arming,
                   rearmed>>

\* The command line, or the rails of a process that has met its loss limit.
Disarm(who) ==
    /\ who \notin disarming /\ Act
    /\ who = Cli \/ who \in Running \cap Autonomous
    /\ DisarmMark(who)
    /\ UNCHANGED <<procs, commands, records, wallet, enabled, armed, kill, arming>>

SetKill(on) == kill' = on /\ Quiet(Armed /\ ~on)
Kill ==
    /\ Act /\ (\E on \in BOOLEAN : on # kill /\ SetKill(on))
    /\ UNCHANGED <<procs, commands, records, wallet, enabled, armed, disarmed, arming,
                   disarming, rearmed>>

----------------------------------------------------------------------------
(* The life of a process *)

\* start_blockers: what keeps run --autonomous from starting at all.
Blocked == ~wallet \/ ~enabled \/ (~armed /\ ~disarmed)

\* preflight, then record_start reads the record of the previous run.
Start(p) ==
    /\ phase[p] = "new" /\ Cardinality(Alive) < MaxAlive /\ Act
    /\ Goes(p, IF p \in Autonomous /\ Blocked THEN "refused" ELSE "booting")
    /\ seen' = [seen EXCEPT ![p] = boot]
    /\ UNCHANGED <<commands, markers, records, asked, since>>

\* previous_exit
Previous(record) ==
    IF record = None THEN "none" ELSE IF record.stopped THEN "clean" ELSE "unclean"

RecordStart(p) ==
    /\ phase[p] = "booting" /\ Goes(p, "starting")
    /\ boot' = [owner |-> p, previous |-> Previous(seen[p]), stopped |-> FALSE]
    /\ seen' = [seen EXCEPT ![p] = None]
    /\ UNCHANGED <<commands, markers, status, began, acts, asked, since>>

\* The session row, the restored account and the tasks; the reader of the
\* commands file skips what was written before.
Open(p) ==
    /\ phase[p] = "starting" /\ Goes(p, "running")
    /\ began' = Append(began, p)
    /\ offset' = [offset EXCEPT ![p] = Len(file)]
    /\ first' = [first EXCEPT ![p] = written]
    /\ UNCHANGED <<markers, boot, status, acts, asked, since, seen, file, written, batch,
                   done, cut, confused>>

\* A signal; `quit` is the other way to set the stop event.
AskToStop(p) ==
    /\ p \in Running \ asked /\ Act /\ asked' = asked \cup {p}
    /\ UNCHANGED <<commands, markers, records, phase, since, seen>>

\* What a running process is waiting for when another of its tasks runs: the
\* next poll, or an engine command.  Other commands are handled without a
\* suspension.
Suspended(p) == p \notin disarming /\ (batch[p] # <<>> => Head(batch[p]).word = "engine")

\* The reader of the commands file is gone, with what it had still to handle,
\* and so is the heartbeat.
Forget(p) ==
    /\ since' = [since EXCEPT ![p] = Past]
    /\ offset' = [offset EXCEPT ![p] = 0] /\ first' = [first EXCEPT ![p] = 0]
    /\ batch' = [batch EXCEPT ![p] = <<>>] /\ done' = [done EXCEPT ![p] = <<>>]
    /\ cut' = cut \ {p} /\ confused' = confused \ {p}

\* The stop event, --duration, or a task that raised ends the wait of _run,
\* which cancels the command tasks.
Leave(p) ==
    /\ p \in Running /\ Suspended(p) /\ Goes(p, "stopping")
    /\ IF p \in asked THEN UNCHANGED acts ELSE Act
    /\ asked' = asked \ {p} /\ Forget(p)
    /\ UNCHANGED <<markers, records, seen, file, written>>

\* Mutant: whatever record is there is marked.
RecordAny(p) ==
    /\ phase[p] = "stopping" /\ Goes(p, "recording")
    /\ seen' = [seen EXCEPT ![p] = boot]
    /\ UNCHANGED <<commands, markers, records, acts, asked, since>>

\* Runtime.stop: record_stop leaves alone the record of another process.
Record(p) ==
    /\ phase[p] = "stopping"
    /\ Goes(p, IF boot # None /\ boot.owner # p THEN "recorded" ELSE "recording")
    /\ seen' = [seen EXCEPT ![p] = IF boot # None /\ boot.owner # p THEN None ELSE boot]
    /\ UNCHANGED <<commands, markers, records, acts, asked, since>>

RecordStop(p) ==
    /\ phase[p] = "recording" /\ Goes(p, "recorded")
    /\ boot' = [seen[p] EXCEPT !.stopped = TRUE] /\ seen' = [seen EXCEPT ![p] = None]
    /\ UNCHANGED <<commands, markers, status, began, acts, asked, since>>

\* Any exception that leaves start or stop ends the process like a crash,
\* without a stop marker.
Crash(p) ==
    /\ p \in Alive /\ Act /\ Goes(p, "dead")
    /\ seen' = [seen EXCEPT ![p] = None]
    /\ asked' = asked \ {p} /\ Forget(p)
    /\ UNCHANGED <<records, markers, file, written>>

----------------------------------------------------------------------------
(* The commands file *)

Piece(n, word, end) == [n |-> n, word |-> word, end |-> end]
Unfinished == file # <<>> /\ ~Last(file).end

\* An operator appends a line, at once or a part first, ...
Write ==
    /\ ~Unfinished /\ Act /\ written' = written + 1
    /\ \E word \in Words, whole \in BOOLEAN :
         file' = file \o IF whole
                         THEN <<Piece(written', word, FALSE), Piece(written', word, TRUE)>>
                         ELSE <<Piece(written', word, FALSE)>>
    /\ UNCHANGED <<procs, markers, records, offset, first, batch, done, cut, confused>>
FinishLine ==
    /\ Unfinished
    /\ file' = Append(file, Piece(Last(file).n, Last(file).word, TRUE))
    /\ UNCHANGED <<procs, markers, records, acts, written, offset, first, batch, done, cut,
                   confused>>
\* ... or empties the file.
Truncate ==
    /\ file # <<>> /\ Act /\ file' = <<>>
    /\ cut' = cut \cup {p \in Running : offset[p] > 0}
    /\ UNCHANGED <<procs, markers, records, written, offset, first, batch, done, confused>>

\* The lines that end in a run of pieces, without what precedes them in it.
LinesOf(pieces) ==
    LET ends == {k \in DOMAIN pieces : pieces[k].end}
        At(i) == CHOOSE k \in ends : Cardinality({l \in ends : l =< k}) = i
        Line(k) == [n |-> pieces[k].n, word |-> pieces[k].word,
                    whole |-> k > 1 /\ ~pieces[k - 1].end]
    IN  [i \in 1..Cardinality(ends) |-> Line(At(i))]

\* read_new_lines: where reading starts again, and how much of it is complete.
From(p) == IF Len(file) < offset[p] THEN 0 ELSE offset[p]
Chunk(p) == SubSeq(file, From(p) + 1, Len(file))

\* Mutant: a partial last line is consumed with the others.
CompleteOrNot(chunk) == Len(chunk)

Complete(chunk) ==
    LET ends == {k \in DOMAIN chunk : chunk[k].end} IN IF ends = {} THEN 0 ELSE Max(ends)

Poll(p) ==
    /\ p \in Running /\ batch[p] = <<>> /\ p \notin disarming
    /\ LET end == From(p) + Complete(Chunk(p))
       IN  /\ end # offset[p]
           /\ offset' = [offset EXCEPT ![p] = end]
           /\ batch' = [batch EXCEPT ![p] = LinesOf(SubSeq(file, From(p) + 1, end))]
    /\ cut' = cut \ {p}
    /\ confused' = IF p \in cut /\ From(p) > 0 THEN confused \cup {p} ELSE confused
    /\ UNCHANGED <<procs, markers, records, acts, file, written, first, done>>

\* CommandHandler.handle.  What engine commands do to the engine is not
\* modelled here; what is left of a broken line is not a command.
Carry(p, word) ==
    /\ asked' = IF word = "quit" THEN asked \cup {p} ELSE asked
    /\ IF word \in {"kill", "resume"}
       THEN SetKill(word = "kill") /\ UNCHANGED <<disarmed, disarming, rearmed>>
       ELSE IF word = "disarm" THEN DisarmMark(p) /\ UNCHANGED kill
       ELSE UNCHANGED <<kill, disarmed, disarming, rearmed, quiet>>

Handle(p) ==
    /\ p \in Running /\ batch[p] # <<>> /\ p \notin disarming
    /\ LET line == Head(batch[p])
       IN  /\ done' = [done EXCEPT ![p] = Append(@, line)]
           /\ Carry(p, IF line.whole THEN line.word ELSE "unknown")
    /\ batch' = [batch EXCEPT ![p] = Tail(@)]
    /\ UNCHANGED <<records, acts, phase, since, seen, file, written, offset, first, cut,
                   confused, wallet, enabled, armed, arming>>

\* The other reader, of the terminal, has a queue and a task of its own.
Typed(p) ==
    /\ p \in Running /\ p \notin disarming /\ Act
    /\ \E word \in Words : Carry(p, word)
    /\ UNCHANGED <<records, commands, phase, since, seen, wallet, enabled, armed, arming>>

----------------------------------------------------------------------------
(* The heartbeat and who reads it *)

\* snapshot(): the engine not ticking, no connection or failed writes make it
\* UNHEALTHY; lost rows, a limited provider or stopped buys DEGRADED.
Verdict(p, others) ==
    IF others = "HEALTHY" /\ p \in Autonomous /\ ~Armed THEN "DEGRADED" ELSE others

Heartbeat(p, health, stopped) ==
    [session |-> p, age |-> 0, health |-> health, stopped |-> stopped]

WriteOnce(p) ==
    /\ p \in Running /\ since[p] >= Interval
    /\ \E others \in {"HEALTHY"} \cup Troubles :
         status' = Heartbeat(p, Verdict(p, others), FALSE)
    /\ since' = [since EXCEPT ![p] = 0]
    /\ UNCHANGED <<commands, markers, boot, began, acts, phase, asked, seen>>

\* write_final, in place: what is read meanwhile does not parse.
FinalBegin(p) ==
    /\ phase[p] = "recorded" /\ Goes(p, "final")
    /\ status' = None
    /\ UNCHANGED <<commands, markers, boot, began, acts, asked, since, seen>>

\* Mutant: the last heartbeat says STOPPED and not that it is the last.
FinalEndSilent(p) ==
    /\ phase[p] = "final" /\ Goes(p, "exited")
    /\ status' = Heartbeat(p, "STOPPED", FALSE)
    /\ UNCHANGED <<commands, markers, boot, began, acts, asked, since, seen>>

FinalEnd(p) ==
    /\ phase[p] = "final" /\ Goes(p, "exited")
    /\ status' = Heartbeat(p, "STOPPED", TRUE)
    /\ UNCHANGED <<commands, markers, boot, began, acts, asked, since, seen>>

\* The clock; no heartbeat is later than MaxLag.
Tick ==
    /\ \A p \in Running : since[p] < Interval + MaxLag
    /\ since' = [p \in Procs |-> IF p \in Running THEN since[p] + 1 ELSE since[p]]
    /\ status' = IF status = None THEN None ELSE [status EXCEPT !.age = Older(@)]
    /\ quiet' = Older(quiet)
    /\ UNCHANGED <<commands, boot, began, acts, phase, asked, seen, wallet, enabled, armed,
                   disarmed, kill, arming, disarming, rearmed>>

Fresh == status # None /\ status.age <= FreshFor /\ ~status.stopped
RunningSession == IF Fresh THEN status.session ELSE None

\* discover_sessions: paper sessions first, each kind newest first; then the
\* session shown when none is asked for.
NewestFirst(S) ==
    LET rows == {i \in DOMAIN began : began[i] \in S}
        Row(n) == CHOOSE i \in rows : Cardinality({j \in rows : i =< j}) = n
    IN  [n \in 1..Cardinality(rows) |-> began[Row(n)]]
Refs == NewestFirst(Procs \ Autonomous) \o NewestFirst(Autonomous)
Selected ==
    IF RunningSession \in Range(Refs) THEN RunningSession
    ELSE IF Refs = <<>> THEN None ELSE Head(Refs)

----------------------------------------------------------------------------
Life(p) ==
    \/ Start(p) \/ RecordStart(p) \/ Open(p) \/ AskToStop(p) \/ Leave(p) \/ Record(p)
    \/ RecordStop(p) \/ FinalBegin(p) \/ FinalEnd(p) \/ Crash(p)
Next ==
    \/ \E p \in Procs : Life(p) \/ Poll(p) \/ Handle(p) \/ Typed(p) \/ WriteOnce(p)
    \/ \E who \in Procs \cup {Cli} : Disarm(who) \/ DisarmClear(who)
    \/ CreateWallet \/ Arm \/ Kill \/ Write \/ FinishLine \/ Truncate \/ Tick

Spec == Init /\ [][Next]_vars

----------------------------------------------------------------------------
(* Properties *)

\* Whatever is written to the commands file while a process polls it (whole
\* lines, parts of lines, nothing for a while, a truncation), the process
\* handles the lines as they were written, in that order and each once, and
\* passes none over.  Only a file that was emptied and has grown past the old
\* offset between two polls can mislead it, and a line begun before the process
\* started, whose end is all it sees.
Taken(p) == done[p] \o batch[p]
HandledAsWritten ==
    \A p \in Running \ confused :
        /\ \A i \in DOMAIN Taken(p) : Taken(p)[i].whole \/ Taken(p)[i].n <= first[p]
        /\ \A i, j \in DOMAIN Taken(p) : i < j => Taken(p)[i].n < Taken(p)[j].n
        /\ p \notin cut =>
             \A k \in 1..offset[p] : file[k].n > first[p] =>
                 \E i \in DOMAIN Taken(p) : Taken(p)[i].n = file[k].n

\* What the dashboard and the health check show is so.  The session shown as
\* running is not that of a process that ended by the book or never ran; a
\* running process that has reported is the session the dashboard opens, unless
\* another process has written the heartbeat since, also while others stop and
\* write their last one; and a heartbeat that calls an autonomous process
\* HEALTHY was written before its buys were stopped.
StatusIsHonest ==
    /\ RunningSession # None => phase[RunningSession] \notin {"new", "refused", "exited"}
    /\ \A p \in Running :
          since[p] < Past =>
              Selected = p \/ status = None \/ (status.session # p /\ status.age <= since[p])
    /\ status # None /\ status.health = "HEALTHY" /\ status.session \in Autonomous =>
          Armed \/ quiet <= status.age

\* No stop marker in the boot record unless the process it names has left it:
\* a process that stops late does not vouch for the one that runs now.
StopMarkIsOwn ==
    boot # None /\ boot.stopped =>
        phase[boot.owner] \in {"recorded", "final", "exited", "dead"}

\* Once a disarm has done both its writes, buys resume only by a later arm,
\* even one that overlapped it.
DisarmStands == disarming = {} /\ Armed => rearmed
=============================================================================
