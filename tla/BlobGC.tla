------------------------------- MODULE BlobGC -------------------------------
(***************************************************************************)
(* The content-addressed store that all pages share: blob objects and      *)
(* manifests in MinIO, the rows of blobs, deployments and                  *)
(* blob_tree_entries in PostgreSQL, the deploys that fill it, the          *)
(* rollbacks that rely on it, and the garbage collector every activation   *)
(* starts and nobody waits for.                                            *)
(*                                                                         *)
(* A deployment is named by the op that makes it.  What Activation says of *)
(* locks, versions and Redis is abstracted: ops of one page run one by     *)
(* one, those of different pages and all collectors in any order.          *)
(***************************************************************************)
EXTENDS Naturals, FiniteSets

CONSTANTS
    Hashes,         \* blob contents
    Variants,       \* the ones only the server makes (.br, .gz, .webp)
    Pages,
    Uploads,        \* CLI deploys, each creating the deployment of its name
    Builds,         \* cloud builds, likewise
    Rollbacks,      \* rollback requests
    Seeds,          \* deployments made before
    SeedBorn,       \* [Seeds -> 1..Cardinality(Seeds)], their creation order
    PageOf,         \* the page of every op and deployment
    Content,        \* the hashes of every deployment, variants included
    Retention,      \* DEPLOYMENT_RETENTION: inactive deployments kept
    Regimes         \* what may happen in one behaviour

Deploys == Uploads \cup Builds
Ops == Deploys \cup Rollbacks
Deps == Deploys \cup Seeds

InLock == {"store", "insert", "tree", "manifest", "record", "activate"}
Steps == InLock \cup {"upload", "read", "adrift"}
GcSteps == {"select", "candidates", "judge", "blobs", "manifests", "rows"}
Stages == {"select", "put", "row", "stored"}

(* The ops that may begin, whether collectors run alone (no op is under    *)
(* way while one is), the steps of ops and of collectors that may throw or *)
(* die.                                                                    *)
Regime == [ops : SUBSET Ops, alone : BOOLEAN,
           faults : SUBSET (Steps \ {"adrift"}), gcFaults : SUBSET GcSteps]

ASSUME GcAssumption ==
    /\ Variants \subseteq Hashes
    /\ Uploads \cap Builds = {} /\ Deploys \cap Rollbacks = {}
    /\ Ops \cap Seeds = {}
    /\ IsFiniteSet(Deps)
    /\ SeedBorn \in [Seeds -> 1..Cardinality(Seeds)]
    /\ \A s, t \in Seeds : SeedBorn[s] = SeedBorn[t] => s = t
    /\ PageOf \in [Ops \cup Seeds -> Pages]
    /\ Content \in [Deps -> SUBSET Hashes]
    /\ Retention \in Nat
    /\ Regimes \subseteq Regime

VARIABLES
    regime,         \* of Regimes
    objects,        \* blobs/{hash} in MinIO
    manifests,      \* manifests/{deploymentId}.json in MinIO
    blobRows,       \* rows of blobs
    depRow,         \* rows of deployments: "none", "inactive" or "active"
    final,          \* those with manifest_key set
    tree,           \* blob_tree_entries: the hashes of a deployment
    born,           \* created_at, as a rank; 0 before
    opPc,           \* next step of each op
    target,         \* the deployment an op activates
    need,           \* hashes the client of an upload was asked to PUT
    stage,          \* storeBlobFromBuffer, per op and hash
    gc,             \* next step of the collector each op started, or "off"
    expired,        \* deployments that collector removes
    doomed          \* hashes it judged orphaned, then those it deleted

minio == <<objects, manifests>>
rows == <<blobRows, depRow, final, tree, born>>
ops == <<opPc, target, need, stage>>
gcs == <<gc, expired, doomed>>
gcVars == <<regime, minio, rows, ops, gcs>>

Exists(d) == depRow[d] # "none"
Inactive(p) == {d \in Deps : PageOf[d] = p /\ depRow[d] = "inactive"}

(* Beyond the Retention most recent inactive deployments of the page.      *)
BugExpired(p) ==
    {d \in Inactive(p) :
        Cardinality({e \in Inactive(p) : born[e] > born[d]}) > Retention}

Expired(p) ==
    {d \in Inactive(p) :
        Cardinality({e \in Inactive(p) : born[e] > born[d]}) >= Retention}

InUse(deps) == UNION {tree[d] : d \in deps}
Sources(d) == Content[d] \ Variants

Busy(o) == opPc[o] \in Steps
Collecting(o) == gc[o] \in GcSteps \ {"select"}

IsNewest(s) == \A t \in Seeds : PageOf[t] = PageOf[s] => SeedBorn[t] <= SeedBorn[s]

GcInit ==
    /\ regime \in Regimes
    /\ objects = UNION {Content[s] : s \in Seeds}
    /\ manifests = Seeds
    /\ blobRows = UNION {Content[s] : s \in Seeds}
    /\ depRow = [d \in Deps |-> IF d \notin Seeds THEN "none"
                             ELSE IF IsNewest(d) THEN "active" ELSE "inactive"]
    /\ final = Seeds
    /\ tree = [d \in Deps |-> IF d \in Seeds THEN Content[d] ELSE {}]
    /\ born = [d \in Deps |-> IF d \in Seeds THEN SeedBorn[d] ELSE 0]
    /\ opPc = [o \in Ops |-> "idle"]
    /\ target = [o \in Ops |-> o]
    /\ need = [o \in Ops |-> {}]
    /\ stage = [o \in Ops |-> [h \in Hashes |-> "select"]]
    /\ gc = [o \in Ops |-> "off"]
    /\ expired = [o \in Ops |-> {}]
    /\ doomed = [o \in Ops |-> {}]

OpGoto(o, step) == opPc' = [opPc EXCEPT ![o] = step]
OpMove(o, from, to) == opPc[o] = from /\ OpGoto(o, to)
Fail(o) == OpGoto(o, "done") /\ UNCHANGED <<minio, rows, target, need, stage, gcs>>

-----------------------------------------------------------------------------
(* Deploys and rollbacks.                                                  *)

MayBegin(o) ==
    /\ o \in regime.ops /\ opPc[o] = "idle"
    /\ regime.alone => \A p \in Ops : ~Collecting(p)

(* The deployment lock of the page, held to the end.                       *)
LockFree(o) == \A p \in Ops : opPc[p] \in InLock => PageOf[p] # PageOf[o]

(* prepareDeploy and presignDeploy: only hashes without a row are asked    *)
(* for.                                                                    *)
BeginUpload(o) ==
    /\ o \in Uploads
    /\ MayBegin(o)
    /\ need' = [need EXCEPT ![o] = Sources(o) \ blobRows]
    /\ OpGoto(o, "upload")
    /\ UNCHANGED <<minio, rows, target, stage, gcs>>

(* The client PUTs them.                                                   *)
UploadBlobs(o) ==
    /\ OpMove(o, "upload", "read")
    /\ objects' = objects \cup need[o]
    /\ UNCHANGED <<manifests, rows, target, need, stage, gcs>>

(* commitDeploy: in the lock, readBlobBuffer of every source.              *)
ReadSources(o) ==
    /\ opPc[o] = "read" /\ LockFree(o)
    /\ \/ /\ Sources(o) \subseteq objects
          /\ OpGoto(o, "store")
          /\ UNCHANGED <<minio, rows, target, need, stage, gcs>>
       \/ ~(Sources(o) \subseteq objects) /\ Fail(o)

(* A cloud build reads its sources from the local output directory.        *)
BeginBuild(o) ==
    /\ o \in Builds
    /\ MayBegin(o) /\ LockFree(o)
    /\ OpGoto(o, "store")
    /\ UNCHANGED <<minio, rows, target, need, stage, gcs>>

Storing(o) == opPc[o] \in {"store", "adrift"}

StageTo(o, h, next) == stage' = [stage EXCEPT ![o][h] = next]

(* storeBlobFromBuffer, for all hashes in parallel: reused if it has a row *)
StoreSelect(o, h) ==
    /\ Storing(o) /\ stage[o][h] = "select"
    /\ StageTo(o, h, IF h \in blobRows THEN "stored" ELSE "put")
    /\ UNCHANGED <<minio, rows, opPc, target, need, gcs>>

(* ... else PUT unless the object is there already ...                     *)
StorePut(o, h) ==
    /\ Storing(o) /\ stage[o][h] = "put"
    /\ objects' = objects \cup {h}
    /\ StageTo(o, h, "row")
    /\ UNCHANGED <<manifests, rows, opPc, target, need, gcs>>

(* ... and only then INSERT ... ON CONFLICT DO NOTHING.                    *)
StoreRow(o, h) ==
    /\ Storing(o) /\ stage[o][h] = "row"
    /\ blobRows' = blobRows \cup {h}
    /\ StageTo(o, h, "stored")
    /\ UNCHANGED <<minio, depRow, final, tree, born, opPc, target, need, gcs>>

StoreDone(o) ==
    /\ \A h \in Content[o] : stage[o][h] = "stored"
    /\ OpMove(o, "store", "insert")
    /\ UNCHANGED <<minio, rows, target, need, stage, gcs>>

InsertRow(o) ==
    /\ OpMove(o, "insert", "tree")
    /\ depRow' = [depRow EXCEPT ![o] = "inactive"]
    /\ born' = [born EXCEPT ![o] = Cardinality({d \in Deps : born[d] # 0}) + 1]
    /\ UNCHANGED <<minio, blobRows, final, tree, target, need, stage, gcs>>

(* The foreign keys to deployments and to blobs.                           *)
TreeAllowed(o) == Exists(o) /\ Content[o] \subseteq blobRows

InsertTree(o) ==
    /\ opPc[o] = "tree"
    /\ \/ /\ TreeAllowed(o)
          /\ tree' = [tree EXCEPT ![o] = Content[o]]
          /\ OpGoto(o, "manifest")
          /\ UNCHANGED <<minio, blobRows, depRow, final, born, target, need, stage, gcs>>
       \/ ~TreeAllowed(o) /\ Fail(o)

(* rollbackToDeployment: an existing deployment of the page with a tree.   *)
BeginRollback(o, d) ==
    /\ o \in Rollbacks
    /\ MayBegin(o) /\ LockFree(o)
    /\ PageOf[d] = PageOf[o] /\ Exists(d) /\ tree[d] # {}
    /\ target' = [target EXCEPT ![o] = d]
    /\ OpGoto(o, "manifest")
    /\ UNCHANGED <<minio, rows, need, stage, gcs>>

(* generateAndPersistManifest: a recorded manifest must be readable; a new *)
(* one is put if absent, and one put before but not recorded must be the   *)
(* same, which rows selected in no order do not promise ...                *)
PutManifest(o) ==
    /\ opPc[o] = "manifest"
    /\ LET d == target[o] IN
       \/ /\ Exists(d)
          /\ d \in final => d \in manifests
          /\ manifests' = manifests \cup {d}
          /\ OpGoto(o, IF d \in final THEN "activate" ELSE "record")
          /\ UNCHANGED <<objects, rows, target, need, stage, gcs>>
       \/ /\ ~Exists(d) \/ (d \in final) # (d \in manifests)
          /\ Fail(o)

(* ... and then recorded in the row, if there still is one.                *)
RecordManifest(o) ==
    /\ OpMove(o, "record", "activate")
    /\ final' = IF Exists(target[o]) THEN final \cup {target[o]} ELSE final
    /\ UNCHANGED <<minio, blobRows, depRow, tree, born, target, need, stage, gcs>>

(* The activation transaction; its collector starts and is not awaited.    *)
Activate(o) ==
    /\ opPc[o] = "activate"
    /\ \/ /\ Exists(target[o])
          /\ depRow' = [d \in Deps |->
                IF d = target[o] THEN "active"
                ELSE IF PageOf[d] = PageOf[o] /\ depRow[d] = "active" THEN "inactive"
                ELSE depRow[d]]
          /\ OpGoto(o, "done")
          /\ gc' = [gc EXCEPT ![o] = "select"]
          /\ UNCHANGED <<minio, blobRows, final, tree, born, target, need, stage,
                         expired, doomed>>
       \/ ~Exists(target[o]) /\ Fail(o)

(* A call throws or the process dies: whatever was stored stays, and the   *)
(* calls of Promise.all that are under way go on.                          *)
ThrowOp(o) ==
    /\ opPc[o] \in regime.faults
    /\ OpGoto(o, IF opPc[o] = "store" THEN "adrift" ELSE "done")
    /\ UNCHANGED <<minio, rows, target, need, stage, gcs>>

Settle(o) == opPc[o] = "adrift" /\ Fail(o)

-----------------------------------------------------------------------------
(* runDeploymentGC.                                                        *)

GcGoto(o, step) == gc' = [gc EXCEPT ![o] = step]
GcMove(o, from, to) == gc[o] = from /\ GcGoto(o, to)

(* Step 1; if alone, it waits for every op and every other collector.    *)
GcSelect(o) ==
    /\ regime.alone => \A p \in Ops : ~Busy(p) /\ ~Collecting(p)
    /\ GcMove(o, "select", IF Expired(PageOf[o]) = {} THEN "off" ELSE "candidates")
    /\ expired' = [expired EXCEPT ![o] = Expired(PageOf[o])]
    /\ UNCHANGED <<minio, rows, ops, doomed>>

(* Step 2.                                                                 *)
GcCandidates(o) ==
    /\ GcMove(o, "candidates", "judge")
    /\ doomed' = [doomed EXCEPT ![o] = InUse(expired[o])]
    /\ UNCHANGED <<minio, rows, ops, expired>>

(* Step 3: what no other deployment uses.                                  *)
BugOrphans(o) == doomed[o]
Orphans(o) == doomed[o] \ InUse(Deps \ expired[o])

GcJudge(o) ==
    /\ GcMove(o, "judge", "blobs")
    /\ doomed' = [doomed EXCEPT ![o] = Orphans(o)]
    /\ UNCHANGED <<minio, rows, ops, expired>>

(* Step 4: MinIO deletes some of them and says which, unless its answer is *)
(* lost.                                                                   *)
GcBlobs(o) ==
    /\ GcMove(o, "blobs", "manifests")
    /\ \E removed \in SUBSET doomed[o] :
       \E told \in IF "blobs" \in regime.gcFaults THEN SUBSET removed ELSE {removed} :
        /\ objects' = objects \ removed
        /\ doomed' = [doomed EXCEPT ![o] = told]
    /\ UNCHANGED <<manifests, rows, ops, expired>>

(* Step 4b: which manifests went is not looked at.                         *)
GcManifests(o) ==
    /\ GcMove(o, "manifests", "rows")
    /\ \E removed \in SUBSET expired[o] : manifests' = manifests \ removed
    /\ UNCHANGED <<objects, rows, ops, expired, doomed>>

(* Step 5: one transaction, void if a surviving tree uses a deleted blob.  *)
DeletedHashes(o) == doomed[o]

BugRowsMayGo(o) == TRUE
RowsMayGo(o) == DeletedHashes(o) \cap InUse(Deps \ expired[o]) = {}

GcRows(o) ==
    /\ GcMove(o, "rows", "off")
    /\ \/ /\ RowsMayGo(o)
          /\ tree' = [d \in Deps |-> IF d \in expired[o] THEN {} ELSE tree[d]]
          /\ depRow' = [d \in Deps |-> IF d \in expired[o] THEN "none" ELSE depRow[d]]
          /\ final' = final \ expired[o]
          /\ blobRows' = blobRows \ DeletedHashes(o)
          /\ UNCHANGED born
       \/ ~RowsMayGo(o) /\ UNCHANGED rows
    /\ UNCHANGED <<minio, ops, expired, doomed>>

(* The collector throws (caught and logged) or its process dies.           *)
GcThrow(o) ==
    /\ gc[o] \in regime.gcFaults
    /\ GcGoto(o, "off")
    /\ UNCHANGED <<minio, rows, ops, expired, doomed>>

-----------------------------------------------------------------------------
OpStep(o) ==
    \/ BeginUpload(o) \/ UploadBlobs(o) \/ ReadSources(o) \/ BeginBuild(o)
    \/ \E h \in Content[o] : StoreSelect(o, h) \/ StorePut(o, h) \/ StoreRow(o, h)
    \/ StoreDone(o) \/ InsertRow(o) \/ InsertTree(o)

TargetStep(o) ==
    \/ \E d \in Deps : BeginRollback(o, d)
    \/ PutManifest(o) \/ RecordManifest(o) \/ Activate(o) \/ ThrowOp(o) \/ Settle(o)

GcStep(o) ==
    GcSelect(o) \/ GcCandidates(o) \/ GcJudge(o) \/ GcBlobs(o) \/ GcManifests(o) \/ GcRows(o) \/ GcThrow(o)

(* Every op has ended or cannot begin, and no collector is at work.        *)
Quiescent ==
    /\ \A o \in Ops : ~Busy(o) /\ gc[o] = "off"
    /\ UNCHANGED gcVars

GcNext ==
    /\ UNCHANGED regime
    /\ \/ \E o \in Deploys : OpStep(o)
       \/ \E o \in Ops : TargetStep(o) \/ GcStep(o)
       \/ Quiescent

GcSpec == GcInit /\ [][GcNext]_gcVars

-----------------------------------------------------------------------------
(* Properties.                                                             *)

(* The type of every variable.                                             *)
GcTypeOK ==
    /\ regime \in Regimes
    /\ objects \subseteq Hashes
    /\ manifests \subseteq Deps
    /\ blobRows \subseteq Hashes
    /\ depRow \in [Deps -> {"none", "inactive", "active"}]
    /\ final \subseteq Deps
    /\ tree \in [Deps -> SUBSET Hashes]
    /\ born \in [Deps -> Nat]
    /\ opPc \in [Ops -> Steps \cup {"idle", "done"}]
    /\ target \in [Ops -> Deps \cup Ops]
    /\ need \in [Ops -> SUBSET Hashes]
    /\ stage \in [Ops -> [Hashes -> Stages]]
    /\ gc \in [Ops -> GcSteps \cup {"off"}]
    /\ expired \in [Ops -> SUBSET Deps]
    /\ doomed \in [Ops -> SUBSET Hashes]

Intact(d) == d \in manifests /\ tree[d] = Content[d] /\ Content[d] \subseteq objects

(* Where collectors run alone: visitors of every page get the whole of its *)
(* live deployment: manifest, complete tree, and every blob object, those  *)
(* other pages share included.                                             *)
LiveIntact == regime.alone => \A d \in Deps : depRow[d] = "active" => Intact(d)

(* There, too, the rollback window: the Retention most recent inactive     *)
(* deployments of a page that were ever finalised are still whole.         *)
WindowIntact ==
    regime.alone =>
        \A d \in final : depRow[d] = "inactive" /\ d \notin Expired(PageOf[d]) => Intact(d)

(* storeBlobFromBuffer takes a row of blobs as proof of the object: where  *)
(* collectors run alone the proof is right, unless one of them is between  *)
(* MinIO and its transaction.                                              *)
RowsBacked ==
    regime.alone =>
        \A h \in blobRows \ objects :
            \E o \in Ops : gc[o] \in {"manifests", "rows"} /\ h \in doomed[o]

(* Where collectors run alone, whatever deploys fail in between: nothing   *)
(* that is live or can be rolled back to loses a file.                     *)
StoreIntact == LiveIntact /\ WindowIntact /\ RowsBacked

(* Whatever the collector does to MinIO, the tables stay consistent: a     *)
(* live deployment keeps its manifest columns and its complete tree, every *)
(* entry of a tree has its deployment and its blob.                        *)
TablesAgree ==
    \A d \in Deps :
        /\ depRow[d] = "active" => d \in final /\ tree[d] = Content[d]
        /\ depRow[d] = "none" => tree[d] = {} /\ d \notin final
        /\ tree[d] \subseteq blobRows

(* An active deployment is never a target of the collector.                *)
ActiveNeverCollected ==
    [][\A d \in Deps : depRow[d] = "active" => depRow'[d] # "none"]_gcVars

(* A collector that runs alone ends its transaction with at most Retention *)
(* inactive deployments of its page left, whatever failed before.          *)
PrunedToRetention ==
    [][regime.alone => \A o \in Ops : gc[o] = "rows" /\ gc'[o] = "off" /\ depRow' # depRow =>
          Cardinality({d \in Deps : PageOf[d] = PageOf[o] /\ depRow'[d] = "inactive"})
              <= Retention]_gcVars
=============================================================================
