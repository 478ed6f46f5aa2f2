------------------------------ MODULE Startup ------------------------------
(***************************************************************************)
(* How the process comes up and goes down: server.ts loads its             *)
(* configuration, opens the SQLite file, applies the missing migrations,   *)
(* starts the workers and listens; SIGTERM stops the workers, waits for    *)
(* the open connections, closes the database and exits.  `npm run          *)
(* db:migrate` runs the same migration loop from a process of its own, on  *)
(* the same file, at any time.                                             *)
(*                                                                         *)
(* A runner reads which files are applied once, when it starts, and        *)
(* applies the others one transaction each.  What it finds created by the  *)
(* other runner meanwhile makes CREATE TABLE throw, and its process ends.  *)
(***************************************************************************)
EXTENDS Config, FiniteSets

CONSTANTS
    Environments, \* what the environment variables can be
    NumFiles,     \* length of MIGRATION_FILES
    MaxStops      \* bound on crashes, failed statements and shutdowns

ASSUME StartupAssumption ==
    /\ \A env \in Environments : DOMAIN env = Keys
    /\ NumFiles \in Nat \ {0}
    /\ MaxStops \in Nat

VARIABLES
    environment,  \* process.env of the server
    applied,      \* rows of schema_migrations
    tables,       \* files whose CREATE TABLE is committed
    phase,        \* of each process
    missing,      \* of each process: files it has still to apply
    stops

startupVars == <<environment, applied, tables, phase, missing, stops>>

MIGRATION_FILES == 1..NumFiles

Runners == {"server", "cli"}

Phases == {"down", "migrating", "up", "stopping", "closed"}

\* The volume of an earlier release, or none.
StartupInit ==
    /\ environment \in Environments
    /\ \E n \in 0..NumFiles : applied = 1..n
    /\ tables = applied
    /\ phase = [r \in Runners |-> "down"]
    /\ missing = [r \in Runners |-> {}]
    /\ stops = 0

\* The server's process runs at all; its database is open.
Running == phase["server"] \in {"up", "stopping", "closed"}
DatabaseOpen == phase["server"] \in {"up", "stopping"}

-----------------------------------------------------------------------------
SetPhase(r, to) == phase' = [phase EXCEPT ![r] = to]

\* The command-line runner loads no configuration module.
CanLoad(r) == r = "server" => Loads(environment)

\* The modules load, the database opens, the applied files are read.
Start(r) ==
    /\ phase[r] = "down"
    /\ CanLoad(r)
    /\ SetPhase(r, "migrating")
    /\ missing' = [missing EXCEPT ![r] = MIGRATION_FILES \ applied]
    /\ UNCHANGED <<environment, applied, tables, stops>>

\* The file that is next in MIGRATION_FILES.
NextFile(r, f) == f \in missing[r] /\ \A g \in missing[r] : f <= g

\* Variant: CREATE TABLE and the row of schema_migrations are not one transaction.
CommitInTwo(f) ==
    /\ tables' = tables \cup {f}
    /\ \/ applied' = applied \cup {f}
       \/ UNCHANGED applied

Commit(f) ==
    /\ tables' = tables \cup {f}
    /\ applied' = applied \cup {f}

\* db.transaction: the file and its row are committed together.
Apply(r) ==
    /\ phase[r] = "migrating"
    /\ \E f \in MIGRATION_FILES :
         /\ NextFile(r, f)
         /\ f \notin tables
         /\ Commit(f)
         /\ missing' = [missing EXCEPT ![r] = @ \ {f}]
    /\ UNCHANGED <<environment, phase, stops>>

\* Variant: the error is caught, and the runner goes on as if it had finished.
GiveUpQuietly(r) ==
    /\ missing' = [missing EXCEPT ![r] = {}]
    /\ UNCHANGED phase

GiveUp(r) ==
    /\ missing' = [missing EXCEPT ![r] = {}]
    /\ SetPhase(r, "down")

\* The table exists: CREATE TABLE throws, nothing catches it, the process ends.
Clash(r) ==
    /\ phase[r] = "migrating"
    /\ \E f \in tables : NextFile(r, f)
    /\ GiveUp(r)
    /\ UNCHANGED <<environment, applied, tables, stops>>

\* The file is locked by the other runner, the disk is full, the process dies.
BreakOff(r) ==
    /\ stops < MaxStops
    /\ phase[r] = "migrating"
    /\ GiveUp(r)
    /\ stops' = stops + 1
    /\ UNCHANGED <<environment, applied, tables>>

\* Nothing is left to apply: the workers start and the server listens.
Listen ==
    /\ phase["server"] = "migrating"
    /\ missing["server"] = {}
    /\ SetPhase("server", "up")
    /\ UNCHANGED <<environment, applied, tables, missing, stops>>

\* The command-line runner has finished.
Finish ==
    /\ phase["cli"] = "migrating"
    /\ missing["cli"] = {}
    /\ SetPhase("cli", "down")
    /\ UNCHANGED <<environment, applied, tables, missing, stops>>

Migrate(r) == Start(r) \/ Apply(r) \/ Clash(r) \/ BreakOff(r)

-----------------------------------------------------------------------------
\* The process dies while it serves.
Kill ==
    /\ phase["server"] = "up"
    /\ stops < MaxStops
    /\ SetPhase("server", "down")
    /\ stops' = stops + 1
    /\ UNCHANGED <<environment, applied, tables, missing>>

\* SIGINT or SIGTERM: the intervals are cleared and the server stops listening.
Shutdown ==
    /\ phase["server"] = "up"
    /\ stops < MaxStops
    /\ SetPhase("server", "stopping")
    /\ stops' = stops + 1
    /\ UNCHANGED <<environment, applied, tables, missing>>

\* The last connection is closed: db.close(), then the Redis client quits.
Close ==
    /\ phase["server"] = "stopping"
    /\ SetPhase("server", "closed")
    /\ UNCHANGED <<environment, applied, tables, missing, stops>>

\* process.exit, or the process is killed while it shuts down.
Exit ==
    /\ phase["server"] \in {"stopping", "closed"}
    /\ SetPhase("server", "down")
    /\ UNCHANGED <<environment, applied, tables, missing, stops>>

StartupNext ==
    \/ \E r \in Runners : Migrate(r)
    \/ Listen
    \/ Finish

StartupOK ==
    /\ environment \in Environments
    /\ applied \subseteq MIGRATION_FILES
    /\ tables \subseteq MIGRATION_FILES
    /\ phase \in [Runners -> Phases]
    /\ missing \in [Runners -> SUBSET MIGRATION_FILES]
    /\ stops \in 0..MaxStops
=============================================================================
