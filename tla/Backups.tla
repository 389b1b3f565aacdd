-------------------------------- MODULE Backups --------------------------------
(***************************************************************************)
(* The dumps of the database that all services share: the loop that stores *)
(* one in MinIO every so often and prunes those that are older than a day  *)
(* (scripts/db-backup/entrypoint.sh, backup.sh), and the restore of the    *)
(* newest, by hand in the loop's container (restore.sh) or by the script   *)
(* that stops the services around it (restore-stack.sh).                   *)
(*                                                                         *)
(* Of the data it only matters whether the service's is there.  A day is   *)
(* some ticks; a cycle of the loop takes less than one.                    *)
(***************************************************************************)
EXTENDS Naturals, Sequences

CONSTANTS
    RetentionTicks, \* BACKUP_RETENTION_HOURS
    MaxTicks,       \* bound: time
    MaxLosses,      \* bound: losses of the database's volume
    MaxDumps        \* bound: dumps stored at once

ASSUME BackupConstants ==
    RetentionTicks \in Nat /\ MaxTicks \in Nat /\ MaxLosses \in Nat /\ MaxDumps \in Nat \ {0}

(* The database: all there; without tables; tables without rows; loaded in *)
(* part; new rows in tables set up afresh.                                 *)
Contents == {"whole", "bare", "tables", "half", "other"}
HasRows == {"whole", "half", "other"}

(* Of a dump: what was in the database, or cut short by pg_dump's end.     *)
Kinds == {"whole", "tables", "half", "other", "cut"}
LoopSteps == {"grace", "check", "dump", "put", "prune", "sleep"}
RestoreSteps == {"idle", "fetch", "drop", "create", "load"}

VARIABLES
    contents,   \* the database
    services,   \* api and console run
    loop,       \* next step of db-backup's loop
    dumped,      \* the dump it has taken, while it has one
    dumps,      \* stored dumps, in the order of their names
    now,
    restore,    \* next step of a restore
    stack,      \* restore-stack.sh runs it
    hand,       \* the dump it has fetched
    losses

loopVars == <<loop, dumped, dumps>>
restoreVars == <<restore, stack, hand>>
backupVars == <<contents, services, loopVars, now, restoreVars, losses>>

Dump == [kind : Kinds, at : Nat]

BackupTypeOK ==
    /\ contents \in Contents /\ services \in BOOLEAN
    /\ loop \in LoopSteps /\ dumped \in Kinds
    /\ dumps \in Seq(Dump) /\ now \in Nat
    /\ restore \in RestoreSteps /\ stack \in BOOLEAN /\ hand \in Kinds
    /\ losses \in Nat

(* After the first cycle.                                                  *)
BackupInit ==
    /\ contents = "whole" /\ services = TRUE
    /\ loop = "sleep" /\ dumped = "whole"
    /\ dumps = <<[kind |-> "whole", at |-> 0]>> /\ now = 0
    /\ restore = "idle" /\ stack = FALSE /\ hand = "whole"
    /\ losses = 0

-----------------------------------------------------------------------------
(* The loop: entrypoint.sh and backup.sh.                                  *)

Loop(from, to) == loop = from /\ loop' = to

(* After the grace of a start, and after each interval.                    *)
BeginCycle ==
    /\ loop \in {"grace", "sleep"} /\ loop' = "check"
    /\ UNCHANGED <<contents, services, dumped, dumps, now, restoreVars, losses>>

(* No tables, no rows, and a psql that fails are told apart by the log     *)
(* only: the stored dumps stay as they are.                                *)
BugWorthADump == contents # "bare"
WorthADump == contents \in HasRows

CheckRows ==
    /\ \/ WorthADump /\ Loop("check", "dump")
       \/ Loop("check", "sleep")
    /\ UNCHANGED <<contents, services, dumped, dumps, now, restoreVars, losses>>

(* pg_dump | gzip ends well whatever pg_dump does; what is too small is    *)
(* not stored.                                                             *)
TakeDump ==
    /\ \/ /\ contents # "bare" /\ Loop("dump", "put")
          /\ dumped' \in {contents, "cut"}
       \/ Loop("dump", "sleep") /\ UNCHANGED dumped
    /\ UNCHANGED <<contents, services, dumps, now, restoreVars, losses>>

PutDump ==
    /\ \/ /\ Loop("put", "prune")
          /\ Len(dumps) < MaxDumps
          /\ dumps' = Append(dumps, [kind |-> dumped, at |-> now])
       \/ Loop("put", "sleep") /\ UNCHANGED dumps
    /\ dumped' = "whole"
    /\ UNCHANGED <<contents, services, now, restoreVars, losses>>

Kept(dump) == now - dump.at <= RetentionTicks

(* Those that are older go, the oldest first, until one cannot be removed. *)
PruneDumps ==
    /\ Loop("prune", "sleep")
    /\ \E n \in 0..Len(dumps) :
          /\ \A i \in 1..n : ~Kept(dumps[i])
          /\ dumps' = SubSeq(dumps, n + 1, Len(dumps))
    /\ UNCHANGED <<contents, services, dumped, now, restoreVars, losses>>

-----------------------------------------------------------------------------
(* restore.sh: each command that fails ends it.                            *)

RestoreTo(from, to) == restore = from /\ restore' = to /\ UNCHANGED stack
EndRestore == restore' = "idle" /\ stack' = FALSE /\ hand' = "whole"

(* "Stop api + console first": the loop goes on beside it.                 *)
RestoreByHand ==
    /\ restore = "idle" /\ ~services
    /\ restore' = "fetch" /\ stack' = FALSE
    /\ UNCHANGED <<contents, services, loopVars, now, hand, losses>>

(* restore-stack.sh: the loop's container is started anew to run in.       *)
RestoreStack ==
    /\ restore = "idle"
    /\ restore' = "fetch" /\ stack' = TRUE
    /\ services' = FALSE /\ loop' = "grace" /\ dumped' = "whole"
    /\ UNCHANGED <<contents, dumps, now, hand, losses>>

FetchLatest ==
    /\ RestoreTo("fetch", "drop")
    /\ dumps # <<>> /\ hand' = dumps[Len(dumps)].kind
    /\ UNCHANGED <<contents, services, loopVars, now, losses>>

DropDatabase ==
    /\ RestoreTo("drop", "create") /\ contents' = "bare"
    /\ UNCHANGED <<services, loopVars, now, hand, losses>>

(* Statement by statement, each committed.                                 *)
BeginLoad ==
    /\ RestoreTo("create", "load") /\ contents' = "half"
    /\ UNCHANGED <<services, loopVars, now, hand, losses>>

(* What psql has loaded when a dump that was cut ends is the result, and   *)
(* the restore is complete.                                                *)
Loaded == IF hand = "cut" THEN "half" ELSE hand

EndLoad ==
    /\ restore = "load" /\ EndRestore
    /\ contents' = Loaded
    /\ services' = (services \/ stack)
    /\ UNCHANGED <<loopVars, now, losses>>

FailRestore ==
    /\ restore # "idle" /\ EndRestore
    /\ UNCHANGED <<contents, services, loopVars, now, losses>>

-----------------------------------------------------------------------------
(* The services, and what may befall.                                      *)

SwitchServices ==
    /\ restore = "idle"
    /\ services' = ~services
    /\ UNCHANGED <<contents, loopVars, now, restoreVars, losses>>

(* The services migrate what they find bare; not within the moment between *)
(* the loop's check and its dump.                                          *)
SetUp ==
    /\ services /\ contents = "bare" /\ loop # "dump"
    /\ contents' = "tables"
    /\ UNCHANGED <<services, loopVars, now, restoreVars, losses>>

SignUp ==
    /\ services /\ contents = "tables"
    /\ contents' = "other"
    /\ UNCHANGED <<services, loopVars, now, restoreVars, losses>>

LoseVolume ==
    /\ losses < MaxLosses /\ losses' = losses + 1
    /\ contents' = "bare"
    /\ UNCHANGED <<services, loopVars, now, restoreVars>>

(* The container dies, and a restore with it; it is started again.         *)
LoopDies ==
    /\ loop' = "grace" /\ dumped' = "whole" /\ EndRestore
    /\ UNCHANGED <<contents, services, dumps, now, losses>>

Tick ==
    /\ now < MaxTicks /\ loop \in {"grace", "sleep"}
    /\ now' = now + 1
    /\ UNCHANGED <<contents, services, loopVars, restoreVars, losses>>

BackupNext ==
    \/ BeginCycle \/ CheckRows \/ TakeDump \/ PutDump \/ PruneDumps
    \/ RestoreByHand \/ RestoreStack \/ FetchLatest \/ DropDatabase
    \/ BeginLoad \/ EndLoad \/ FailRestore
    \/ SwitchServices \/ SetUp \/ SignUp \/ LoseVolume \/ LoopDies \/ Tick

BackupSpec == BackupInit /\ [][BackupNext]_backupVars

-----------------------------------------------------------------------------
(* "Keeping existing MinIO backups untouched": the dump that a restore     *)
(* would fetch is one of the whole database, however often the database is *)
(* lost, the loop or a restore dies, and commands fail; as long as no dump *)
(* has been stored of a half-loaded database, of a new one that users have *)
(* begun to fill, or cut short.                                            *)
Unspoilt == \A i \in 1..Len(dumps) : dumps[i].kind \notin {"half", "other", "cut"}

LatestIsWhole == Unspoilt => Len(dumps) > 0 /\ dumps[Len(dumps)].kind = "whole"
================================================================================
