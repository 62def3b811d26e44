----------------------------- MODULE Repository -----------------------------
(***************************************************************************)
(* The life of the repository (storage/repository.py): init() applies the  *)
(* migrations, which another process may be applying too, and only then    *)
(* start() starts the writer, which ends with close().                     *)
(***************************************************************************)
EXTENDS Storage, Migrations

VARIABLE started    \* start() was called

repositoryVars == <<schemaVars, vars, started>>

RepositoryInit == SchemaInit /\ Init /\ started = FALSE

\* A bound: what the writer does with rows does not depend on how the schema
\* came about, so it is followed on a database that was new, undisturbed.
NewAndUndisturbed ==
    /\ crashes = 0
    /\ file.outcome = None /\ \A i \in Records : file.rows[i] = None

\* Repository.start, after init() of this process and, here, of every other.
Start ==
    /\ ~started /\ started' = TRUE
    /\ \A p \in Migrators : pc[p] = "ready"
    /\ NewAndUndisturbed
    /\ UNCHANGED <<schemaVars, vars>>

RepositoryNext ==
    \/ ~started /\ SchemaNext /\ UNCHANGED <<vars, started>>
    \/ Start
    \/ started /\ Next /\ UNCHANGED <<schemaVars, started>>

\* Before start() the writer has nothing to do and after it the migrations have not, so that
\* neither half's fairness asks anything of the other's time.
RepositorySpec ==
    RepositoryInit /\ [][RepositoryNext]_repositoryVars /\ SchemaFairness /\ Fairness
=============================================================================
