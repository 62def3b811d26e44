----------------------------- MODULE Migrations -----------------------------
(***************************************************************************)
(* How an older database becomes one this program can use: the numbered    *)
(* steps of storage/migrations.py, which every start applies before the    *)
(* rows are loaded (Repository.init), and which `migrate` applies too.     *)
(*                                                                         *)
(* A run of the migrations is one transaction for SQLite from its first    *)
(* row written on; a column added before that stays, whatever becomes of   *)
(* the rest.  A process may die between any two statements, and another    *)
(* may migrate the same file.                                              *)
(***************************************************************************)
EXTENDS Integers, FiniteSetsExt

CONSTANTS
    Migrators,      \* processes that open the database
    Records,        \* rows of fills and positions
    MaxCrashes,     \* bound
    None

ASSUME MigrationsAssumption == MaxCrashes \in Nat

VARIABLES
    file,       \* what is committed
    work,       \* process -> the database as its transaction sees it, or None
    pc,         \* process -> "closed", "columns", "alter", "rows", "commit" or "ready"
    step,       \* process -> the step it applies
    missing,    \* process -> the columns it is going to add
    crashes

schemaVars == <<file, work, pc, step, missing, crashes>>

Latest == 5
Labels == {"SIMULATED", "ESTIMATED", "USER_REPORTED", "VERIFIED_ONCHAIN", "UNKNOWN_LEGACY"}

----------------------------------------------------------------------------
(* Payloads.  `amount` tells which field has the amount of tokens, `tx` and *)
(* `reported` where a signature is, `kept` whether there is legacy_simulated. *)

Payload == [simulated : BOOLEAN, provenance : Labels \cup {None}, units : {"UI", "LEGACY", None},
            amount : {"old", "ui"}, tx : BOOLEAN, reported : BOOLEAN, kept : BOOLEAN]

\* Before there was a provenance.  A human could give a signature.
Legacy == [simulated : BOOLEAN, provenance : {None}, units : {None}, amount : {"old"},
           tx : BOOLEAN, reported : {FALSE}, kept : {FALSE}]

\* What this program writes.
Current ==
    {r \in [simulated : BOOLEAN, provenance : Labels \ {"UNKNOWN_LEGACY"}, units : {"UI"},
            amount : {"ui"}, tx : BOOLEAN, reported : BOOLEAN, kept : {FALSE}] :
        /\ r.simulated <=> r.provenance = "SIMULATED"
        /\ r.tx <=> r.provenance = "VERIFIED_ONCHAIN"
        /\ r.reported => r.provenance = "USER_REPORTED"}

\* dataclass_from_dict and Fill.__post_init__ accept it.
Readable(r) ==
    /\ r.amount = "ui" /\ r.provenance # None
    /\ r.simulated <=> r.provenance = "SIMULATED"
    /\ r.provenance = "VERIFIED_ONCHAIN" => r.tx

\* Mutant: the signature a human gave is dropped.
ProvenanceAndUnitsBare(r) ==
    [simulated |-> r.simulated,
     provenance |-> IF r.provenance # None THEN r.provenance
                    ELSE IF r.simulated THEN "SIMULATED" ELSE "UNKNOWN_LEGACY",
     units |-> IF r.units # None THEN r.units ELSE "LEGACY",
     amount |-> "ui", tx |-> FALSE, reported |-> r.reported,
     kept |-> r.kept \/ r.provenance = None]

\* _v2_provenance_and_units
ProvenanceAndUnits(r) ==
    [simulated |-> r.simulated,
     provenance |-> IF r.provenance # None THEN r.provenance
                    ELSE IF r.simulated THEN "SIMULATED" ELSE "UNKNOWN_LEGACY",
     units |-> IF r.units # None THEN r.units ELSE "LEGACY",
     amount |-> "ui", tx |-> FALSE, reported |-> r.reported \/ r.tx,
     kept |-> r.kept \/ r.provenance = None]

\* What the first version of it made of a legacy record: a label that forgets the simulation.
FirstProvenanceAndUnits(r) ==
    [ProvenanceAndUnits(r) EXCEPT !.provenance = "UNKNOWN_LEGACY", !.kept = FALSE]

\* Mutant: the records are marked, but their label is left.
RepairLegacySimulatedMarked(r) == [r EXCEPT !.kept = TRUE]

\* _v3_repair_legacy_simulated
RepairLegacySimulated(r) ==
    [r EXCEPT !.kept = @ \/ r.provenance # None,
              !.provenance = IF @ = "UNKNOWN_LEGACY" /\ r.simulated THEN "SIMULATED" ELSE @]

\* A row of outcomes: the columns v4 adds, and whether its payload says the same.
Outcome == [simulated : BOOLEAN, market : {"LIVE", "SYNTHETIC", "UNKNOWN_LEGACY", None},
            execution : {"SIMULATED", "MANUAL_SIGNAL", "AUTONOMOUS", None}, said : BOOLEAN]

Executed(o) == IF o.simulated THEN "SIMULATED" ELSE "MANUAL_SIGNAL"

OldOutcome == [simulated : BOOLEAN, market : {None}, execution : {None}, said : {FALSE}]
CurrentOutcome ==
    {o \in [simulated : BOOLEAN, market : {"LIVE", "SYNTHETIC"},
            execution : {"SIMULATED", "MANUAL_SIGNAL", "AUTONOMOUS"}, said : {TRUE}] :
        o.simulated <=> o.execution = "SIMULATED"}

\* _v4_outcome_provenance: what is not known is not guessed.
OutcomeProvenance(o) ==
    [o EXCEPT !.market = IF @ = None THEN "UNKNOWN_LEGACY" ELSE @,
              !.execution = IF @ = None THEN Executed(o) ELSE @,
              !.said = TRUE]

----------------------------------------------------------------------------
(* The steps *)

\* Mutant: v4 does not ask which columns there are.
ColumnsUnasked(n, columns) ==
    CASE n = 2 -> {"ledger.provenance"} \ columns
      [] n = 4 -> {"outcomes.market_provenance", "outcomes.execution_provenance"}
      [] OTHER -> {}

\* The columns a step finds missing.  create_all makes tables, never columns of a table that is
\* there.
Columns(n, columns) ==
    CASE n = 2 -> {"ledger.provenance"} \ columns
      [] n = 4 -> {"outcomes.market_provenance", "outcomes.execution_provenance"} \ columns
      [] OTHER -> {}

AllColumns == Columns(2, {}) \cup Columns(4, {})

Database ==
    [version : 0..Latest, columns : SUBSET AllColumns, rows : [Records -> Payload \cup {None}],
     outcome : Outcome \cup {None}]

ASSUME NoneAssumption ==
    /\ None \notin Labels \cup {"LIVE", "SYNTHETIC", "MANUAL_SIGNAL", "AUTONOMOUS"}
    /\ None \notin Payload \cup Outcome \cup Database

\* What a step does to the rows of fills and positions, and to those of outcomes.
MigrateRow(n, r) ==
    IF n = 2 THEN ProvenanceAndUnits(r) ELSE IF n = 3 THEN RepairLegacySimulated(r) ELSE r

Migrate(n, rows) ==
    [i \in Records |-> IF rows[i] = None THEN None ELSE MigrateRow(n, rows[i])]

MigrateOutcome(n, outcome) ==
    IF n = 4 /\ outcome # None THEN OutcomeProvenance(outcome) ELSE outcome

\* Rows as they may be in a database of some version, written by the program of that time.
WrittenRecords(version) ==
    CASE version \in {0, 1} -> Legacy
      [] version = 2 -> Current \cup {FirstProvenanceAndUnits(r) : r \in Legacy}
                                \cup {ProvenanceAndUnits(r) : r \in Legacy}
      [] OTHER -> {RepairLegacySimulated(r) : r \in
                       Current \cup {ProvenanceAndUnits(l) : l \in Legacy}} \cup Current

WrittenOutcomes(version) ==
    IF version < 4 THEN OldOutcome
    ELSE CurrentOutcome \cup {OutcomeProvenance(o) : o \in OldOutcome}

SchemaInit ==
    /\ \E version \in 0..Latest :
         \/ \E rows \in [Records -> WrittenRecords(version) \cup {None}],
               outcome \in WrittenOutcomes(version) :
              file = [version |-> version, rows |-> rows, outcome |-> outcome,
                    columns |-> UNION {Columns(n, {}) : n \in 0..version}]
         \* A new file: Repository.init has made all tables with all their columns.
         \/ /\ version = 0
            /\ file = [version |-> 0, rows |-> [i \in Records |-> None], outcome |-> None,
                     columns |-> AllColumns]
    /\ work = [p \in Migrators |-> None]
    /\ pc = [p \in Migrators |-> "closed"]
    /\ step = [p \in Migrators |-> 0] /\ missing = [p \in Migrators |-> {}]
    /\ crashes = 0

View(p) == IF work[p] = None THEN file ELSE work[p]

\* SQLite has one writer at a time.
MayWrite(p) == \A q \in Migrators \ {p} : work[q] = None

Goes(p, where) == pc' = [pc EXCEPT ![p] = where]

\* An error ends the run as a crash does: what is not committed is gone.
Gone(p) ==
    /\ Goes(p, "closed") /\ work' = [work EXCEPT ![p] = None]
    /\ step' = [step EXCEPT ![p] = 0] /\ missing' = [missing EXCEPT ![p] = {}]

----------------------------------------------------------------------------

\* current_version
Connect(p) ==
    /\ pc[p] = "closed"
    /\ Goes(p, IF file.version = Latest THEN "ready" ELSE "columns")
    /\ step' = [step EXCEPT ![p] = file.version + 1]
    /\ UNCHANGED <<file, work, missing, crashes>>

FindMissing(p) ==
    /\ pc[p] = "columns"
    /\ missing' = [missing EXCEPT ![p] = Columns(step[p], View(p).columns)]
    /\ Goes(p, IF Columns(step[p], View(p).columns) = {} THEN "rows" ELSE "alter")
    /\ UNCHANGED <<file, work, step, crashes>>

\* ALTER TABLE.  Outside of a transaction it takes effect at once; a column that is already
\* there is an error.
AddColumn(p) ==
    /\ pc[p] = "alter" /\ MayWrite(p)
    /\ \E c \in missing[p] :
         IF c \in View(p).columns THEN Gone(p) /\ UNCHANGED file
         ELSE /\ missing' = [missing EXCEPT ![p] = @ \ {c}]
              /\ Goes(p, IF missing[p] = {c} THEN "rows" ELSE "alter")
              /\ IF work[p] = None
                 THEN file' = [file EXCEPT !.columns = @ \cup {c}] /\ UNCHANGED work
                 ELSE work' = [work EXCEPT ![p].columns = @ \cup {c}] /\ UNCHANGED file
              /\ UNCHANGED step
    /\ UNCHANGED crashes

\* The step's rows, and its own in schema_version, whose number is the primary key.
ApplyStep(p) ==
    /\ pc[p] = "rows" /\ MayWrite(p)
    /\ IF step[p] <= View(p).version THEN Gone(p)
       ELSE /\ work' = [work EXCEPT ![p] = [version |-> step[p], columns |-> View(p).columns,
                                            rows |-> Migrate(step[p], View(p).rows),
                                            outcome |-> MigrateOutcome(step[p], View(p).outcome)]]
            /\ Goes(p, IF step[p] = Latest THEN "commit" ELSE "columns")
            /\ step' = [step EXCEPT ![p] = @ + 1]
            /\ UNCHANGED missing
    /\ UNCHANGED <<file, crashes>>

Commit(p) ==
    /\ pc[p] = "commit"
    /\ file' = work[p] /\ work' = [work EXCEPT ![p] = None]
    /\ Goes(p, "ready")
    /\ UNCHANGED <<step, missing, crashes>>

Crash(p) ==
    /\ pc[p] # "closed" /\ crashes < MaxCrashes /\ crashes' = crashes + 1
    /\ Gone(p)
    /\ UNCHANGED file

\* The program that has opened the database writes a row.
Save(p) ==
    /\ pc[p] = "ready" /\ MayWrite(p)
    /\ \/ \E i \in Records, r \in Current :
            file.rows[i] = None /\ file' = [file EXCEPT !.rows[i] = r]
       \/ \E o \in CurrentOutcome : file.outcome = None /\ file' = [file EXCEPT !.outcome = o]
    /\ UNCHANGED <<work, pc, step, missing, crashes>>

Proceed(p) == Connect(p) \/ FindMissing(p) \/ AddColumn(p) \/ ApplyStep(p) \/ Commit(p)

SchemaNext == \E p \in Migrators : Proceed(p) \/ Crash(p) \/ Save(p)

SchemaSpec == SchemaInit /\ [][SchemaNext]_schemaVars

\* A process that runs goes on until it is done, and one that died is started again: launchd
\* does so for the service, update.sh's `migrate` is run again.
SchemaFairness == \A p \in Migrators : WF_schemaVars(Proceed(p))

----------------------------------------------------------------------------
(* Properties *)

\* Every variable has its type.
SchemaTypeOK ==
    /\ file \in Database /\ work \in [Migrators -> Database \cup {None}]
    /\ pc \in [Migrators -> {"closed", "columns", "alter", "rows", "commit", "ready"}]
    /\ step \in [Migrators -> 0..(Latest + 1)] /\ missing \in [Migrators -> SUBSET AllColumns]
    /\ crashes \in 0..MaxCrashes

\* A program that got through its start finds every column, and can read every record, also of
\* a database that an older version of a step had migrated, or that was left half migrated.
ReadyIsReadable ==
    \A p \in Migrators : pc[p] = "ready" =>
        /\ file.version = Latest /\ file.columns = AllColumns
        /\ \A i \in Records : file.rows[i] # None => Readable(file.rows[i])
        /\ file.outcome # None => file.outcome.said /\ None \notin {file.outcome.market,
                                                              file.outcome.execution}

Verified(r) == r # None /\ r.provenance = "VERIFIED_ONCHAIN"

\* No step makes a record verified or simulated that was not, nor forgets that it was, or that
\* there was a signature; and none makes live what is not known to be.
EvidenceIsKept ==
    [][\A i \in Records : file.rows[i] # None =>
          /\ Verified(file'.rows[i]) <=> Verified(file.rows[i])
          /\ file'.rows[i].simulated = file.rows[i].simulated
          /\ (file'.rows[i].tx \/ file'.rows[i].reported) =
               (file.rows[i].tx \/ file.rows[i].reported)
          /\ file.outcome # None => (file'.outcome.market = "LIVE") = (file.outcome.market = "LIVE")
      ]_schemaVars

\* Every database is migrated in the end, wherever a process died, and whoever else migrates it.
AllGetReady == \A p \in Migrators : <>(pc[p] = "ready")
=============================================================================
