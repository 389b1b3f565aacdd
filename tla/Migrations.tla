----------------------------- MODULE Migrations -----------------------------
(***************************************************************************)
(* The start of API instances: each brings the journal of migrations and   *)
(* the table that records them in line with the database, lets the         *)
(* migrator run what is missing, and listens                               *)
(* (services/api/infrastructure/db/bootstrap-migrations.ts, server.ts).    *)
(*                                                                         *)
(* A migration is its place in the journal.  The migrator is drizzle-orm's *)
(* and external: it reads the newest record, then runs all entries newer   *)
(* than that and records them in one transaction.                          *)
(***************************************************************************)
EXTENDS Integers, FiniteSetsExt

CONSTANTS
    Instances,
    Newest,         \* entries of the journal
    Unprobeable,    \* entries that create no table, column or index
    Databases,      \* levels a database may be at: how it came to be
    MaxDeaths       \* bound: deaths of an instance between two statements

Journal == 1..Newest
StartSteps == {"down", "tracking", "schema", "create", "seed", "records", "probe",
               "newest", "run", "up"}

(* A database that is fresh, one that drizzle-kit push has brought to the  *)
(* newest entry without a record or past its records, and one that earlier *)
(* releases migrated.                                                      *)
FreshDatabase == [applied |-> {}, recorded |-> {}, tracked |-> FALSE]
PushedDatabase == [applied |-> Journal, recorded |-> {}, tracked |-> FALSE]
PushedPast(level) == [applied |-> Journal, recorded |-> 1..level, tracked |-> TRUE]
MigratedDatabase(level) == [applied |-> 1..level, recorded |-> 1..level, tracked |-> TRUE]

(* What has no record of migrations is fresh, or was pushed at the newest  *)
(* entry: one pushed earlier would have the later entries recorded too.    *)
ASSUME MigrationConstants ==
    /\ Newest \in Nat \ {0} /\ MaxDeaths \in Nat
    /\ \A d \in Databases :
        /\ \E level \in 0..Newest : d.applied = 1..level
        /\ d.recorded \subseteq d.applied
        /\ d.tracked \in BOOLEAN
        /\ ~d.tracked => d.applied \in {{}, Journal}

VARIABLES
    applied,    \* entries whose DDL the database has
    recorded,   \* entries in __drizzle_migrations
    tracked,    \* that table exists
    start,      \* next step of each instance
    todo,       \* entries it has yet to probe or to seed
    toSeed,     \* entries its probes have found
    last,       \* the newest record its migrator has read
    deaths

ownState == <<todo, toSeed, last>>
database == <<applied, recorded, tracked>>
migrationVars == <<applied, recorded, tracked, start, todo, toSeed, last, deaths>>

MigrationTypeOK ==
    /\ applied \subseteq Journal /\ recorded \subseteq Journal /\ tracked \in BOOLEAN
    /\ start \in [Instances -> StartSteps]
    /\ todo \in [Instances -> SUBSET Journal] /\ toSeed \in [Instances -> SUBSET Journal]
    /\ last \in [Instances -> 0..Newest]
    /\ deaths \in 0..MaxDeaths

MigrationInit ==
    /\ \E d \in Databases :
           applied = d.applied /\ recorded = d.recorded /\ tracked = d.tracked
    /\ start = [i \in Instances |-> "down"]
    /\ todo = [i \in Instances |-> {}] /\ toSeed = [i \in Instances |-> {}]
    /\ last = [i \in Instances |-> 0]
    /\ deaths = 0

From(i, step, next) == start[i] = step /\ start' = [start EXCEPT ![i] = next]

Begin(i) ==
    /\ From(i, "down", "tracking")
    /\ UNCHANGED <<database, ownState, deaths>>

-----------------------------------------------------------------------------
(* bootstrapMigrations                                                     *)

FindTracking(i) ==
    /\ From(i, "tracking", IF tracked THEN "records" ELSE "schema")
    /\ UNCHANGED <<database, ownState, deaths>>

(* The first entry makes the table it looks for.                           *)
FindSchema(i) ==
    /\ From(i, "schema", IF 1 \in applied THEN "create" ELSE "newest")
    /\ UNCHANGED <<database, ownState, deaths>>

CreateTracking(i) ==
    /\ From(i, "create", "seed")
    /\ tracked' = TRUE
    /\ toSeed' = [toSeed EXCEPT ![i] = Journal]
    /\ UNCHANGED <<applied, recorded, todo, last, deaths>>

SeedEntry(i) ==
    /\ start[i] = "seed"
    /\ IF toSeed[i] = {}
       THEN From(i, "seed", "newest") /\ UNCHANGED <<recorded, toSeed>>
       ELSE LET e == Min(toSeed[i]) IN
                /\ recorded' = recorded \cup {e}
                /\ toSeed' = [toSeed EXCEPT ![i] = @ \ {e}]
                /\ UNCHANGED start
    /\ UNCHANGED <<applied, tracked, todo, last, deaths>>

ReadRecords(i) ==
    /\ From(i, "records", "probe")
    /\ todo' = [todo EXCEPT ![i] = Journal \ recorded]
    /\ toSeed' = [toSeed EXCEPT ![i] = {}]
    /\ UNCHANGED <<database, last, deaths>>

BugAlreadyApplied(e) == TRUE
AlreadyApplied(e) == e \in applied \ Unprobeable

(* Entry by entry; what cannot be told is left to the migrator.            *)
Probe(i) ==
    /\ start[i] = "probe"
    /\ IF todo[i] = {}
       THEN From(i, "probe", "seed") /\ UNCHANGED <<todo, toSeed>>
       ELSE LET e == Min(todo[i]) IN
                /\ todo' = [todo EXCEPT ![i] = @ \ {e}]
                /\ toSeed' = [toSeed EXCEPT ![i] = IF AlreadyApplied(e) THEN @ \cup {e} ELSE @]
                /\ UNCHANGED start
    /\ UNCHANGED <<database, last, deaths>>

-----------------------------------------------------------------------------
(* migrate()                                                               *)

ReadNewest(i) ==
    /\ From(i, "newest", "run")
    /\ tracked' = TRUE
    /\ last' = [last EXCEPT ![i] = Max(recorded \cup {0})]
    /\ UNCHANGED <<applied, recorded, todo, toSeed, deaths>>

(* What is there already makes the transaction fail, and the process exit. *)
RunMissing(i) ==
    LET missing == {e \in Journal : e > last[i]} IN
        /\ IF missing \cap applied = {}
           THEN /\ From(i, "run", "up")
                /\ applied' = applied \cup missing
                /\ recorded' = recorded \cup missing
           ELSE From(i, "run", "down") /\ UNCHANGED <<applied, recorded>>
        /\ UNCHANGED <<tracked, ownState, deaths>>

Die(i) ==
    /\ deaths < MaxDeaths
    /\ start[i] # "down"
    /\ deaths' = deaths + 1
    /\ start' = [start EXCEPT ![i] = "down"]
    /\ UNCHANGED <<database, ownState>>

-----------------------------------------------------------------------------
StartUp(i) ==
    \/ Begin(i) \/ FindTracking(i) \/ FindSchema(i) \/ CreateTracking(i)
    \/ SeedEntry(i) \/ ReadRecords(i) \/ Probe(i) \/ ReadNewest(i) \/ RunMissing(i)

MigrationNext == \E i \in Instances : StartUp(i) \/ Die(i)

MigrationSpec == MigrationInit /\ [][MigrationNext]_migrationVars

-----------------------------------------------------------------------------
(* "Seed for any migrations already applied ... so that migrate() doesn't  *)
(* re-run them": nothing is recorded that has not been applied, so that no *)
(* instance serves requests on tables that lack a migration; instances     *)
(* that start at once, and deaths in the middle, included.                 *)
ListensMigrated ==
    /\ recorded \subseteq applied
    /\ \A i \in Instances : start[i] = "up" => applied = Journal
=============================================================================
