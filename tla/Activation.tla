----------------------------- MODULE Activation -----------------------------
(***************************************************************************)
(* One page: the CLI requests and build jobs that create deployments of    *)
(* it, the rollbacks between them, and what they share: the Redis lock,    *)
(* the deployments table and the Redis key active_deployment:{siteId}.     *)
(*                                                                         *)
(* An element of Ops is one request or one job attempt; pc[o] names the    *)
(* next statement of it that reads or writes shared state.  Kinds of Ops:  *)
(*   "prepare"   prepareDeploy, the lock and the token of a CLI deploy     *)
(*   "upload"    commitDeploy with that token                              *)
(*   "build"     a build job from deployFromLocalDirectory to its catch    *)
(*   "rollback"  rollbackToDeployment                                      *)
(* The blobs, the idempotency keys, GC and the blob server's own caches    *)
(* are left to other modules.                                              *)
(***************************************************************************)
EXTENDS Naturals, DeploymentLock

CONSTANTS
    Ops,            \* requests and job attempts
    Kind,           \* [Ops -> Kinds]
    Refs,           \* idempotency keys (deploy tokens) and build ids
    Ref,            \* the one each of Ops carries (rollbacks: unused)
    None,           \* SQL NULL, and an absent Redis key
    MaxVersion,     \* bound: deployments of the page are numbered 1..MaxVersion
    Seed,           \* versions 1..Seed were deployed before; Seed is live
    LeaseLapses,    \* the TTL may run out under a stalled holder
    DoubleSubmits,  \* two live Ops may share a lock holder id
    FaultAt         \* where an exception or a crash may strike

Kinds == {"prepare", "upload", "build", "rollback"}
Versions == 1..MaxVersion
MaybeVersion == 0..MaxVersion       \* 0 is "no version"

(* Lock holder ids: the deploy token, build:{buildId}, rollback:{id}.      *)
Holders == ({"token", "build"} \X Refs) \cup ({"rollback"} \X Versions)

(* Where the lock protects an op: the body and the finally of withLock.    *)
Guarded == {"store", "check", "number", "insert", "tree", "manifest",
            "newer", "assert", "txRead", "txWrite", "setActive", "publish",
            "complete", "errSelect", "errMark", "release"}

(* The part of commitBlobTreeDeploy inside deployFromLocalDirectory's try. *)
InTry == Guarded \ {"store", "errSelect", "errMark", "release"}

(* Statements outside the lock.                                            *)
Outside == {"prepGet", "prepLock", "prepToken", "prepUndo", "acquire",
            "jobSelect", "jobMark"}

Running == Guarded \cup Outside
Steps == Running \cup {"idle", "done", "dead"}

Statuses == {"absent", "pending", "active", "failed", "superseded"}

ASSUME ConstantsAssumption ==
    /\ Kind \in [Ops -> Kinds]
    /\ Ref \in [Ops -> Refs]
    /\ None \notin Refs
    /\ Free \notin Holders
    /\ MaxVersion \in Nat
    /\ Seed \in MaybeVersion
    /\ None \notin MaybeVersion
    /\ LeaseLapses \in BOOLEAN
    /\ DoubleSubmits \in BOOLEAN
    /\ FaultAt \subseteq Running

VARIABLES
    dep,            \* deployments rows, by version
    redis,          \* active_deployment:{siteId}: a version, or 0
    siteVersion,    \* site_version:{siteId}
    token,          \* baseVersion in deploy:token:{t}, or None
    pc,             \* next step of each of Ops
    ver,            \* version the op deploys or rolls back to
    base,           \* newest version when the op (its prepare) started
    cur,            \* row id a SELECT of the op returned, or 0
    failed          \* the op has thrown

page == <<dep, redis, siteVersion>>
local == <<ver, base, cur, failed>>
vars == <<lock, page, token, pc, local>>

Row == [status: Statuses, active: BOOLEAN, tree: BOOLEAN,
        manifest: BOOLEAN, build: Refs \cup {None}]

NoRow == [status |-> "absent", active |-> FALSE, tree |-> FALSE,
          manifest |-> FALSE, build |-> None]

SeedRow(v) ==
    IF v > Seed THEN NoRow
    ELSE [status |-> IF v = Seed THEN "active" ELSE "superseded",
          active |-> v = Seed, tree |-> TRUE, manifest |-> TRUE,
          build |-> None]

Present(v) == dep[v].status # "absent"

(* currentMaxVersion: the highest version of the page, 0 if it has none.   *)
IsLatest(n) ==
    /\ n \in Versions => Present(n)
    /\ \A v \in Versions : Present(v) => v <= n

(* The row with is_active = true, 0 if there is none.                      *)
IsLive(n) ==
    IF n \in Versions THEN dep[n].active
    ELSE \A v \in Versions : ~dep[v].active

BugHolder(o) == <<"token", Ref[o]>>
Holder(o) ==
    IF Kind[o] = "rollback" THEN <<"rollback", ver[o]>>
    ELSE <<IF Kind[o] = "build" THEN "build" ELSE "token", Ref[o]>>

Live(o) == pc[o] \in Running
InLock(o) == pc[o] \in Guarded

(* No other live op uses holder id h, unless callers may double-submit.    *)
Alone(o, h) ==
    DoubleSubmits \/ \A p \in Ops \ {o} : Live(p) => Holder(p) # h

Init ==
    /\ dep = [v \in Versions |-> SeedRow(v)]
    /\ redis = Seed
    /\ siteVersion = Seed
    /\ lock = Free
    /\ token = [r \in Refs |-> None]
    /\ pc = [o \in Ops |-> "idle"]
    /\ ver = [o \in Ops |-> 0]
    /\ base = [o \in Ops |-> 0]
    /\ cur = [o \in Ops |-> 0]
    /\ failed = [o \in Ops |-> FALSE]

Goto(o, step) == pc' = [pc EXCEPT ![o] = step]
Move(o, from, to) == pc[o] = from /\ Goto(o, to)

-----------------------------------------------------------------------------
(* Failure.                                                                *)

(* Where control goes when withLock has thrown or returned: a failed build *)
(* job goes on to the catch of the worker, outside the lock.               *)
AfterLock(o, thrown) ==
    IF Kind[o] = "build" /\ thrown THEN "jobSelect" ELSE "done"

(* Where an exception at the current step leads.                           *)
Handler(o) ==
    IF pc[o] = "prepToken" THEN "prepUndo"
    ELSE IF pc[o] = "acquire" THEN AfterLock(o, TRUE)
    ELSE IF pc[o] = "release" THEN AfterLock(o, failed[o])
    ELSE IF pc[o] \in InTry /\ Kind[o] = "build" THEN "errSelect"
    ELSE IF InLock(o) THEN "release"
    ELSE "done"

(* throw: nothing but the control point of the op changes.                 *)
Fail(o) ==
    /\ Goto(o, Handler(o))
    /\ failed' = [failed EXCEPT ![o] = TRUE]
    /\ UNCHANGED <<page, token, ver, base, cur>>

(* A database, Redis or MinIO call throws.  An exception of the release    *)
(* itself is caught and logged: the op ends as it would have.              *)
Throw(o) ==
    /\ pc[o] \in FaultAt
    /\ IF pc[o] = "release"
       THEN Goto(o, Handler(o)) /\ UNCHANGED <<page, token, local>>
       ELSE Fail(o)
    /\ UNCHANGED lock

(* The process dies: no handler runs, no heartbeat beats any more.         *)
Crash(o) ==
    /\ pc[o] \in FaultAt
    /\ Goto(o, "dead")
    /\ UNCHANGED <<lock, page, token, local>>

-----------------------------------------------------------------------------
(* prepareDeploy, once its idempotency key is reserved.                    *)

PrepareBegin(o) ==
    /\ Kind[o] = "prepare"
    /\ Move(o, "idle", "prepGet")
    /\ Alone(o, Holder(o))
    /\ \E n \in MaybeVersion :
        /\ IsLatest(n)
        /\ base' = [base EXCEPT ![o] = n]
    /\ UNCHANGED <<lock, page, token, ver, cur, failed>>

(* A live token is handed out again; otherwise the lock is needed.         *)
PrepareGet(o) ==
    /\ Move(o, "prepGet", IF token[Ref[o]] = None THEN "prepLock" ELSE "done")
    /\ UNCHANGED <<lock, page, token, local>>

PrepareLock(o) ==
    /\ pc[o] = "prepLock"
    /\ \/ /\ Acquire(Holder(o))
          /\ Goto(o, "prepToken")
          /\ UNCHANGED <<page, token, local>>
       \/ Refused(Holder(o)) /\ Fail(o)

(* The token is stored; the lock stays with it until its commit.           *)
PrepareToken(o) ==
    /\ Move(o, "prepToken", "done")
    /\ token' = [token EXCEPT ![Ref[o]] = base[o]]
    /\ UNCHANGED <<lock, page, local>>

PrepareUndo(o) ==
    /\ Move(o, "prepUndo", "done")
    /\ ReleaseLock(Holder(o))
    /\ UNCHANGED <<page, token, local>>

-----------------------------------------------------------------------------
(* How the three kinds of locked operation begin.                          *)

(* commitDeploy: loadDeployToken.                                          *)
BeginUpload(o) ==
    /\ Kind[o] = "upload"
    /\ Move(o, "idle", "acquire")
    /\ Alone(o, Holder(o))
    /\ token[Ref[o]] # None
    /\ base' = [base EXCEPT ![o] = token[Ref[o]]]
    /\ UNCHANGED <<lock, page, token, ver, cur, failed>>

(* The worker takes the job.  base is recorded for the properties only:    *)
(* the code passes no baseVersion for builds.                              *)
BeginBuild(o) ==
    /\ Kind[o] = "build"
    /\ Move(o, "idle", "acquire")
    /\ Alone(o, Holder(o))
    /\ \E n \in MaybeVersion :
        /\ IsLatest(n)
        /\ base' = [base EXCEPT ![o] = n]
    /\ UNCHANGED <<lock, page, token, ver, cur, failed>>

(* rollbackToDeployment: the target is read and judged before the lock.    *)
Eligible(v) == dep[v].tree /\ dep[v].status # "failed"

BeginRollback(o, v) ==
    /\ Kind[o] = "rollback"
    /\ Move(o, "idle", "acquire")
    /\ Eligible(v)
    /\ Alone(o, <<"rollback", v>>)
    /\ ver' = [ver EXCEPT ![o] = v]
    /\ UNCHANGED <<lock, page, token, base, cur, failed>>

-----------------------------------------------------------------------------
(* withLock.                                                               *)

AcquireLock(o) ==
    /\ pc[o] = "acquire"
    /\ \/ /\ Acquire(Holder(o))
          /\ Goto(o, IF Kind[o] = "rollback" THEN "manifest" ELSE "store")
          /\ UNCHANGED <<page, token, local>>
       \/ Refused(Holder(o)) /\ Fail(o)

(* The heartbeat calls acquire, so it also takes back a key that lapsed.   *)
(* While the key is there it only renews the TTL: see TtlLapse.            *)
Heartbeat(o) ==
    /\ InLock(o)
    /\ lock = Free
    /\ Acquire(Holder(o))
    /\ UNCHANGED <<page, token, pc, local>>

(* A holder whose heartbeat beats keeps the key; a token between prepare   *)
(* and commit, a dead process and, if LeaseLapses, a stalled one lose it.  *)
BugLapseGuard == TRUE
BugNoTtl == FALSE
LapseGuard == LeaseLapses \/ \A o \in Ops : InLock(o) => ~IsHeldBy(Holder(o))

TtlLapse ==
    /\ LapseGuard
    /\ Lapse
    /\ UNCHANGED <<page, token, pc, local>>

Release(o) ==
    /\ Move(o, "release", AfterLock(o, failed[o]))
    /\ ReleaseLock(Holder(o))
    /\ UNCHANGED <<page, token, local>>

-----------------------------------------------------------------------------
(* The body of commitBlobTreeDeploy (uploads and builds); rollbacks join   *)
(* at "manifest" and skip "newer".                                         *)

(* storeExpandedVariants.                                                  *)
StoreBlobs(o) ==
    /\ Move(o, "store", IF Kind[o] = "upload" THEN "check" ELSE "number")
    /\ UNCHANGED <<lock, page, token, local>>

(* Only uploads carry a baseVersion.                                       *)
BugStale(o, n) == FALSE
Stale(o, n) == n > base[o]

CheckBase(o) ==
    /\ pc[o] = "check"
    /\ \E n \in MaybeVersion :
        /\ IsLatest(n)
        /\ IF Stale(o, n) THEN Fail(o)
           ELSE Goto(o, "number") /\ UNCHANGED <<page, token, local>>
    /\ UNCHANGED lock

(* nextVersion: read now, used by the INSERT after it.                     *)
PickNumber(o) ==
    /\ Move(o, "number", "insert")
    /\ \E n \in MaybeVersion :
        /\ IsLatest(n)
        /\ n < MaxVersion
        /\ ver' = [ver EXCEPT ![o] = n + 1]
    /\ UNCHANGED <<lock, page, token, base, cur, failed>>

NewRow(o) ==
    [status |-> "pending", active |-> FALSE, tree |-> FALSE, manifest |-> FALSE,
     build |-> IF Kind[o] = "build" THEN Ref[o] ELSE None]

(* UNIQUE(page_id, version) and UNIQUE(build_id) WHERE build_id NOT NULL.  *)
InsertAllowed(o) ==
    /\ ~Present(ver[o])
    /\ Kind[o] = "build" => \A v \in Versions : dep[v].build # Ref[o]

BugInsertRow(o) ==
    /\ pc[o] = "insert"
    /\ InsertAllowed(o)
    /\ dep' = [dep EXCEPT ![ver[o]] = NewRow(o)]
    /\ Goto(o, "tree")
    /\ UNCHANGED <<lock, redis, siteVersion, token, local>>

InsertRow(o) ==
    /\ pc[o] = "insert"
    /\ \/ /\ InsertAllowed(o)
          /\ dep' = [dep EXCEPT ![ver[o]] = NewRow(o)]
          /\ Goto(o, "tree")
          /\ UNCHANGED <<redis, siteVersion, token, local>>
       \/ ~InsertAllowed(o) /\ Fail(o)
    /\ UNCHANGED lock

InsertTree(o) ==
    /\ Move(o, "tree", "manifest")
    /\ dep' = [dep EXCEPT ![ver[o]].tree = TRUE]
    /\ UNCHANGED <<lock, redis, siteVersion, token, local>>

(* generateAndPersistManifest: a stored manifest is reused.                *)
PersistManifest(o) ==
    /\ Move(o, "manifest", IF Kind[o] = "rollback" THEN "assert" ELSE "newer")
    /\ dep' = [dep EXCEPT ![ver[o]].manifest = TRUE]
    /\ UNCHANGED <<lock, redis, siteVersion, token, local>>

(* A newer row exists: this one is superseded before it was ever live.     *)
CheckNewer(o) ==
    /\ pc[o] = "newer"
    /\ IF \E w \in Versions : Present(w) /\ w > ver[o]
       THEN /\ dep' = [dep EXCEPT ![ver[o]].status = "superseded"]
            /\ Goto(o, Handler(o))
            /\ failed' = [failed EXCEPT ![o] = TRUE]
            /\ UNCHANGED <<redis, siteVersion, token, ver, base, cur>>
       ELSE /\ Goto(o, "assert")
            /\ UNCHANGED <<page, token, local>>
    /\ UNCHANGED lock

(* assertHeld, the last look at the lock.                                  *)
AssertHeld(o) ==
    /\ pc[o] = "assert"
    /\ IF IsHeldBy(Holder(o))
       THEN Goto(o, "txRead") /\ UNCHANGED <<page, token, local>>
       ELSE Fail(o)
    /\ UNCHANGED lock

(* The transaction (READ COMMITTED): the SELECT of the active row ...      *)
TxRead(o) ==
    /\ Move(o, "txRead", "txWrite")
    /\ \E n \in MaybeVersion :
        /\ IsLive(n)
        /\ cur' = [cur EXCEPT ![o] = n]
    /\ UNCHANGED <<lock, page, token, ver, base, failed>>

(* ... and the two UPDATEs by id, committed together.                      *)
WentLive(row) == [row EXCEPT !.active = TRUE, !.status = "active"]
Superseded(row) == [row EXCEPT !.active = FALSE, !.status = "superseded"]

BugActivated(o) ==
    [v \in Versions |-> IF v = cur[o] THEN Superseded(dep[v])
                        ELSE IF v = ver[o] THEN WentLive(dep[v])
                        ELSE dep[v]]

Activated(o) ==
    [v \in Versions |-> IF v = ver[o] THEN WentLive(dep[v])
                        ELSE IF v = cur[o] THEN Superseded(dep[v])
                        ELSE dep[v]]

(* The partial unique index and the CHECK of the deployments table.        *)
BugTableAccepts(rows) == TRUE
TableAccepts(rows) ==
    /\ \A v, w \in Versions : rows[v].active /\ rows[w].active => v = w
    /\ \A v \in Versions : rows[v].active => rows[v].manifest

TxWrite(o) ==
    /\ pc[o] = "txWrite"
    /\ \/ /\ TableAccepts(Activated(o))
          /\ dep' = Activated(o)
          /\ Goto(o, "setActive")
          /\ UNCHANGED <<redis, siteVersion, token, local>>
       \/ ~TableAccepts(Activated(o)) /\ Fail(o)
    /\ UNCHANGED lock

SetActive(o) ==
    /\ Move(o, "setActive", "publish")
    /\ redis' = ver[o]
    /\ UNCHANGED <<lock, dep, siteVersion, token, local>>

(* cacheManifestInRedis, incrementSiteVersion, invalidateSiteCache.        *)
Publish(o) ==
    /\ Move(o, "publish", IF Kind[o] = "upload" THEN "complete" ELSE "release")
    /\ siteVersion' = siteVersion + 1
    /\ UNCHANGED <<lock, dep, redis, token, local>>

(* completeIdempotencyKey and the DEL of the token.                        *)
CompleteUpload(o) ==
    /\ Move(o, "complete", "release")
    /\ token' = [token EXCEPT ![Ref[o]] = None]
    /\ UNCHANGED <<lock, page, local>>

-----------------------------------------------------------------------------
(* The two catch blocks of a build: SELECT its pending row, UPDATE by id.  *)

IsPendingOf(o, n) ==
    IF n \in Versions THEN dep[n].build = Ref[o] /\ dep[n].status = "pending"
    ELSE \A v \in Versions : ~(dep[v].build = Ref[o] /\ dep[v].status = "pending")

SelectPending(o, from, to, next) ==
    \E n \in MaybeVersion :
        /\ IsPendingOf(o, n)
        /\ cur' = [cur EXCEPT ![o] = n]
        /\ Move(o, from, IF n = 0 THEN next ELSE to)
        /\ UNCHANGED <<lock, page, token, ver, base, failed>>

MarkFailed(o, from, to) ==
    /\ Move(o, from, to)
    /\ dep' = [dep EXCEPT ![cur[o]].status = "failed"]
    /\ UNCHANGED <<lock, redis, siteVersion, token, local>>

(* in deployFromLocalDirectory, under the lock                             *)
ErrSelect(o) == SelectPending(o, "errSelect", "errMark", "release")
ErrMark(o) == MarkFailed(o, "errMark", "release")

(* in the worker, after the lock                                           *)
JobSelect(o) == SelectPending(o, "jobSelect", "jobMark", "done")
JobMark(o) == MarkFailed(o, "jobMark", "done")

-----------------------------------------------------------------------------
Begin(o) ==
    \/ PrepareBegin(o) \/ BeginUpload(o) \/ BeginBuild(o)
    \/ \E v \in Versions : BeginRollback(o, v)

(* What the program does once an op has begun.                             *)
Advance(o) ==
    \/ PrepareGet(o) \/ PrepareLock(o) \/ PrepareToken(o) \/ PrepareUndo(o)
    \/ AcquireLock(o) \/ StoreBlobs(o) \/ CheckBase(o) \/ PickNumber(o)
    \/ InsertRow(o) \/ InsertTree(o) \/ PersistManifest(o) \/ CheckNewer(o)
    \/ AssertHeld(o) \/ TxRead(o) \/ TxWrite(o) \/ SetActive(o) \/ Publish(o)
    \/ CompleteUpload(o) \/ Release(o) \/ ErrSelect(o) \/ ErrMark(o)
    \/ JobSelect(o) \/ JobMark(o)

(* Nothing is left to do: the only state in which the model may stop.      *)
Quiescent ==
    /\ lock = Free
    /\ \A o \in Ops : ~Live(o)
    /\ UNCHANGED vars

Next ==
    \/ \E o \in Ops :
        Begin(o) \/ Advance(o) \/ Heartbeat(o) \/ Throw(o) \/ Crash(o)
    \/ TtlLapse
    \/ Quiescent

Spec == Init /\ [][Next]_vars

(* The event loop runs every started op on, and TTLs run out.              *)
Fairness ==
    /\ \A o \in Ops : WF_vars(Advance(o))
    /\ WF_vars(TtlLapse)

FairSpec == Spec /\ Fairness

-----------------------------------------------------------------------------
(* Properties.                                                             *)

LiveVersion == CHOOSE n \in MaybeVersion : IsLive(n)
ReadyVersions == {v \in Versions : dep[v].manifest}

Commits(o) == Kind[o] \in {"upload", "build"}
Activates(o) == pc[o] = "txWrite" /\ pc'[o] = "setActive"

(* The type of every variable.                                             *)
TypeOK ==
    /\ dep \in [Versions -> Row]
    /\ redis \in MaybeVersion
    /\ siteVersion \in Nat
    /\ lock \in Holders \cup {Free}
    /\ token \in [Refs -> MaybeVersion \cup {None}]
    /\ pc \in [Ops -> Steps]
    /\ ver \in [Ops -> MaybeVersion]
    /\ base \in [Ops -> MaybeVersion]
    /\ cur \in [Ops -> MaybeVersion]
    /\ failed \in [Ops -> BOOLEAN]

(* The page is locked exclusively: two requests or jobs are never both     *)
(* inside withLock.  Needs heartbeats on time and distinct holder ids.     *)
MutualExclusion ==
    \A o, p \in Ops : InLock(o) /\ InLock(p) => o = p

(* The constraints of the deployments table are a backstop only: while the *)
(* lock works, no INSERT meets a version already taken and no activation   *)
(* is refused, although version and active row were read some steps before.*)
ConstraintsNeverFire ==
    \A o \in Ops :
        /\ pc[o] = "insert" => ~Present(ver[o])
        /\ pc[o] = "txWrite" => TableAccepts(Activated(o))

(* active_deployment:{siteId} follows the table: between operations it     *)
(* names the live deployment, and while it does not, one operation is      *)
(* about to write exactly that.                                            *)
RedisFollowsTable ==
    ~IsLive(redis) =>
        \E o \in Ops : pc[o] = "setActive" /\ IsLive(ver[o])

(* At most one deployment is live and it has a manifest: the constraints   *)
(* of the table hold the line when the lock is lost or shared and two      *)
(* operations go through the activation transaction side by side.          *)
OneLiveDeployment ==
    /\ \A v, w \in Versions : dep[v].active /\ dep[w].active => v = w
    /\ \A v \in Versions : dep[v].active => dep[v].manifest

(* A commit puts live only the newest deployment of the page, straight     *)
(* from pending: it never overwrites a newer one, and never revives one    *)
(* that was superseded or marked failed.                                   *)
NoStaleOverwrite ==
    [][\A o \in Ops : Commits(o) /\ Activates(o) =>
          IsLatest(ver[o]) /\ dep[ver[o]].status = "pending"]_vars

(* What an upload puts live is newer than everything it had not seen: no   *)
(* deployment was created between its prepare and its activation.  Cloud   *)
(* builds carry no baseVersion and are not held to this.                   *)
UploadNotStale ==
    [][\A o \in Ops : Kind[o] = "upload" /\ Activates(o) =>
          \A v \in Versions : Present(v) => v <= base[o] \/ v = ver[o]]_vars

(* A deployment marked failed stays out of service for good.               *)
FailedNeverActive ==
    [][\A v \in Versions : dep[v].status = "failed" => ~dep'[v].active]_vars

(* Whatever the lock does, the page keeps its promise to visitors.         *)
Page == INSTANCE LivePage WITH live <- LiveVersion, ready <- ReadyVersions
PagePromise == Page!Spec

(* No wedge: everything that starts ends ...                               *)
EveryOpEnds == []<>(\A o \in Ops : ~Live(o))

(* ... and however operations fail or die, the lock becomes free again.    *)
LockComesFree == []<>(lock = Free)
=============================================================================
