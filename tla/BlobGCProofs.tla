----------------------------- MODULE BlobGCProofs -----------------------------
(***************************************************************************)
(* Theorems about BlobGC, for every set of deploys, rollbacks and pages,   *)
(* every content, every retention and every placement of faults.           *)
(***************************************************************************)
EXTENDS BlobGC, FiniteSetTheorems, WellFoundedInduction, TLAPS

-----------------------------------------------------------------------------
(* Types.                                                                  *)

LEMMA SetsOfSteps ==
    /\ InLock \subseteq Steps /\ "adrift" \notin InLock
    /\ \A r \in Regimes : r \in Regime
BY GcAssumption DEF InLock, Steps

LEMMA BornCount ==
    LET made == {d \in Deps : born[d] # 0}
    IN  IsFiniteSet(made) /\ Cardinality(made) \in Nat
<1>1. IsFiniteSet({d \in Deps : born[d] # 0})
  BY GcAssumption, FS_Subset
<1> QED BY <1>1, FS_CardinalityType

LEMMA GcTypeInit == GcInit => GcTypeOK
<1> SUFFICES ASSUME GcInit PROVE GcTypeOK
  OBVIOUS
<1> USE GcAssumption DEF GcInit, Deps, Deploys, Ops
<1>1. /\ regime \in Regimes /\ objects \subseteq Hashes /\ blobRows \subseteq Hashes
      /\ manifests \subseteq Deps /\ final \subseteq Deps
  OBVIOUS
<1>2. depRow \in [Deps -> {"none", "inactive", "active"}]
  OBVIOUS
<1>3. tree \in [Deps -> SUBSET Hashes] /\ born \in [Deps -> Nat]
  OBVIOUS
<1>4. /\ opPc \in [Ops -> Steps \cup {"idle", "done"}]
      /\ target \in [Ops -> Deps \cup Ops]
      /\ need \in [Ops -> SUBSET Hashes]
  OBVIOUS
<1>5. /\ stage \in [Ops -> [Hashes -> Stages]]
      /\ gc \in [Ops -> GcSteps \cup {"off"}]
      /\ expired \in [Ops -> SUBSET Deps]
      /\ doomed \in [Ops -> SUBSET Hashes]
  BY DEF Stages
<1> QED BY <1>1, <1>2, <1>3, <1>4, <1>5 DEF GcTypeOK

(* Where an op goes from where it is.                                      *)
LEMMA OpGotoType ==
    ASSUME GcTypeOK, NEW o \in Ops, NEW s \in Steps \cup {"idle", "done"}, OpGoto(o, s)
    PROVE  opPc' \in [Ops -> Steps \cup {"idle", "done"}]
BY DEF GcTypeOK, OpGoto

LEMMA GcGotoType ==
    ASSUME GcTypeOK, NEW o \in Ops, NEW s \in GcSteps \cup {"off"}, GcGoto(o, s)
    PROVE  gc' \in [Ops -> GcSteps \cup {"off"}]
BY DEF GcTypeOK, GcGoto

LEMMA FailType ==
    ASSUME GcTypeOK, UNCHANGED regime, NEW o \in Ops, Fail(o)
    PROVE  GcTypeOK'
BY DEF GcTypeOK, Fail, OpGoto, minio, rows, gcs

LEMMA DeployType ==
    ASSUME GcTypeOK, UNCHANGED regime, NEW o \in Deploys,
           BeginUpload(o) \/ UploadBlobs(o) \/ ReadSources(o) \/ BeginBuild(o) \/ StoreDone(o)
    PROVE  GcTypeOK'
<1> USE DEF minio, rows, gcs, Steps, InLock
<1>1. o \in Ops /\ Sources(o) \subseteq Hashes
  BY GcAssumption DEF Ops, Sources, Deps
<1>2. CASE BeginUpload(o)
  BY <1>1, <1>2 DEF BeginUpload, OpGoto, GcTypeOK
<1>3. CASE UploadBlobs(o)
  BY <1>1, <1>3 DEF UploadBlobs, OpMove, OpGoto, GcTypeOK
<1>4. CASE ReadSources(o)
  <2>1. CASE Fail(o)
    BY <1>1, <2>1, FailType
  <2>2. CASE OpGoto(o, "store") /\ UNCHANGED <<minio, rows, target, need, stage, gcs>>
    BY <1>1, <2>2 DEF OpGoto, GcTypeOK
  <2> QED BY <1>4, <2>1, <2>2 DEF ReadSources
<1>5. CASE BeginBuild(o)
  BY <1>1, <1>5 DEF BeginBuild, OpGoto, GcTypeOK
<1>6. CASE StoreDone(o)
  BY <1>1, <1>6 DEF StoreDone, OpMove, OpGoto, GcTypeOK
<1> QED BY <1>2, <1>3, <1>4, <1>5, <1>6

LEMMA StoreType ==
    ASSUME GcTypeOK, UNCHANGED regime, NEW o \in Deploys, NEW h \in Content[o],
           StoreSelect(o, h) \/ StorePut(o, h) \/ StoreRow(o, h)
    PROVE  GcTypeOK'
<1> USE DEF minio, rows, gcs, Stages
<1>1. o \in Ops /\ h \in Hashes
  BY GcAssumption DEF Ops, Deps
<1>2. ASSUME NEW s \in Stages, StageTo(o, h, s)
      PROVE  stage' \in [Ops -> [Hashes -> Stages]]
  BY <1>1, <1>2 DEF StageTo, GcTypeOK
<1>3. CASE StoreSelect(o, h)
  <2>1. stage' \in [Ops -> [Hashes -> Stages]]
    BY <1>2, <1>3 DEF StoreSelect
  <2> QED BY <1>1, <1>3, <2>1 DEF StoreSelect, GcTypeOK
<1>4. CASE StorePut(o, h)
  <2>1. stage' \in [Ops -> [Hashes -> Stages]]
    BY <1>2, <1>4 DEF StorePut
  <2> QED BY <1>1, <1>4, <2>1 DEF StorePut, GcTypeOK
<1>5. CASE StoreRow(o, h)
  <2>1. stage' \in [Ops -> [Hashes -> Stages]]
    BY <1>2, <1>5 DEF StoreRow
  <2> QED BY <1>1, <1>5, <2>1 DEF StoreRow, GcTypeOK
<1> QED BY <1>3, <1>4, <1>5

LEMMA RowsType ==
    ASSUME GcTypeOK, UNCHANGED regime, NEW o \in Deploys, InsertRow(o) \/ InsertTree(o)
    PROVE  GcTypeOK'
<1> USE DEF minio, rows, gcs, Steps, InLock
<1>1. o \in Ops /\ o \in Deps /\ Content[o] \subseteq Hashes
  BY GcAssumption DEF Ops, Deps
<1>2. CASE InsertRow(o)
  <2>1. Cardinality({d \in Deps : born[d] # 0}) + 1 \in Nat
    BY BornCount
  <2> DEFINE n == Cardinality({d \in Deps : born[d] # 0}) + 1
  <2>2. born' = [born EXCEPT ![o] = n]
    BY <1>2 DEF InsertRow
  <2> HIDE DEF n
  <2>3. born' \in [Deps -> Nat]
    BY <1>1, <2>1, <2>2 DEF GcTypeOK, n
  <2> QED BY <1>1, <1>2, <2>3 DEF InsertRow, OpMove, OpGoto, GcTypeOK
<1>3. CASE InsertTree(o)
  <2>1. CASE Fail(o)
    BY <1>1, <2>1, FailType
  <2>2. CASE ~Fail(o)
    BY <1>1, <1>3, <2>2 DEF InsertTree, OpGoto, GcTypeOK
  <2> QED BY <2>1, <2>2
<1> QED BY <1>2, <1>3

LEMMA TargetType ==
    ASSUME GcTypeOK, UNCHANGED regime, NEW o \in Ops, TargetStep(o),
           opPc[o] \in {"manifest", "record", "activate"} => target[o] \in Deps
    PROVE  GcTypeOK'
<1> USE DEF minio, rows, gcs, Steps, InLock
<1>1. ASSUME NEW d \in Deps, BeginRollback(o, d) PROVE GcTypeOK'
  BY <1>1 DEF BeginRollback, OpGoto, GcTypeOK
<1>2. CASE PutManifest(o)
  <2>1. CASE Fail(o)
    BY <2>1, FailType
  <2>2. CASE ~Fail(o)
    BY <1>2, <2>2 DEF PutManifest, OpGoto, GcTypeOK
  <2> QED BY <2>1, <2>2
<1>3. CASE RecordManifest(o)
  <2>1. final' \subseteq Deps
    BY <1>3 DEF RecordManifest, OpMove, GcTypeOK
  <2> QED BY <1>3, <2>1 DEF RecordManifest, OpMove, OpGoto, GcTypeOK
<1>4. CASE Activate(o)
  <2>1. CASE Fail(o)
    BY <2>1, FailType
  <2>2. CASE ~Fail(o)
    <3>1. depRow' \in [Deps -> {"none", "inactive", "active"}]
      BY <1>4, <2>2 DEF Activate, GcTypeOK
    <3>2. gc' \in [Ops -> GcSteps \cup {"off"}]
      BY <1>4, <2>2 DEF Activate, GcTypeOK, GcSteps
    <3> QED BY <1>4, <2>2, <3>1, <3>2 DEF Activate, OpGoto, GcTypeOK
  <2> QED BY <2>1, <2>2
<1>5. CASE ThrowOp(o)
  BY <1>5 DEF ThrowOp, OpGoto, GcTypeOK
<1>6. CASE Settle(o)
  BY <1>6, FailType DEF Settle
<1> QED BY <1>1, <1>2, <1>3, <1>4, <1>5, <1>6 DEF TargetStep

LEMMA InUseType ==
    ASSUME GcTypeOK, NEW S \in SUBSET Deps
    PROVE  InUse(S) \subseteq Hashes
BY DEF InUse, GcTypeOK

LEMMA CollectorType ==
    ASSUME GcTypeOK, UNCHANGED regime, NEW o \in Ops, GcStep(o)
    PROVE  GcTypeOK'
<1> USE DEF minio, rows, ops, GcSteps
<1>1. CASE GcSelect(o)
  <2>1. Expired(PageOf[o]) \subseteq Deps
    BY DEF Expired, Inactive
  <2>2. gc' \in [Ops -> GcSteps \cup {"off"}]
    BY <1>1 DEF GcSelect, GcMove, GcGoto, GcTypeOK
  <2>3. expired' \in [Ops -> SUBSET Deps]
    BY <1>1, <2>1 DEF GcSelect, GcTypeOK
  <2> QED BY <1>1, <2>2, <2>3 DEF GcSelect, GcTypeOK
<1>2. CASE GcCandidates(o)
  <2>1. InUse(expired[o]) \subseteq Hashes
    BY InUseType DEF GcTypeOK
  <2> QED BY <1>2, <2>1 DEF GcCandidates, GcMove, GcGoto, GcTypeOK
<1>3. CASE GcJudge(o)
  <2>1. Orphans(o) \subseteq Hashes
    BY DEF Orphans, GcTypeOK
  <2> QED BY <1>3, <2>1 DEF GcJudge, GcMove, GcGoto, GcTypeOK
<1>4. CASE GcBlobs(o)
  <2>1. PICK removed \in SUBSET doomed[o], told \in SUBSET doomed[o] :
            /\ objects' = objects \ removed
            /\ doomed' = [doomed EXCEPT ![o] = told]
    BY <1>4 DEF GcBlobs
  <2> QED BY <1>4, <2>1 DEF GcBlobs, GcMove, GcGoto, GcTypeOK
<1>5. CASE GcManifests(o)
  BY <1>5 DEF GcManifests, GcMove, GcGoto, GcTypeOK
<1>6. CASE GcRows(o)
  BY <1>6 DEF GcRows, GcMove, GcGoto, GcTypeOK
<1>7. CASE GcThrow(o)
  BY <1>7 DEF GcThrow, GcGoto, GcTypeOK
<1> QED BY <1>1, <1>2, <1>3, <1>4, <1>5, <1>6, <1>7 DEF GcStep

-----------------------------------------------------------------------------
(* The tables, whatever fails and however ops and collectors interleave.   *)

Early == {"idle", "upload", "read", "store", "insert"}
Late == {"manifest", "record", "activate"}

(* A tree is written as a whole, and before the manifest is recorded.      *)
Trees ==
    \A d \in Deps :
        /\ tree[d] = {} \/ tree[d] = Content[d]
        /\ d \in final => tree[d] = Content[d]

(* A deployment has no row before its op inserts it, and never two.        *)
Unmade ==
    \A o \in Deploys : target[o] = o /\ (opPc[o] \in Early => depRow[o] = "none")

(* What an op is about to activate was inserted with its tree; if a        *)
(* collector has not removed it since, it still has that and, once past    *)
(* the recording, its manifest columns.                                    *)
Targets ==
    \A o \in Ops : opPc[o] \in Late =>
        /\ target[o] \in Deps
        /\ target[o] \in Deploys => opPc[target[o]] \notin Early
        /\ Exists(target[o]) => tree[target[o]] = Content[target[o]]
        /\ Exists(target[o]) /\ opPc[o] = "activate" => target[o] \in final

Consistent == TablesAgree /\ Trees /\ Unmade /\ Targets

LEMMA ConsistentInit == GcInit => Consistent
<1> SUFFICES ASSUME GcInit PROVE Consistent
  OBVIOUS
<1> USE GcAssumption DEF GcInit
<1>1. \A d \in Deps : d \in Seeds \/ d \in Deploys
  BY DEF Deps
<1>2. TablesAgree
  BY <1>1 DEF TablesAgree
<1>3. Trees
  BY <1>1 DEF Trees
<1>4. Unmade
  BY DEF Unmade, Deps, Ops, Deploys
<1>5. Targets
  BY DEF Targets, Late
<1> QED BY <1>2, <1>3, <1>4, <1>5 DEF Consistent

(* A step that leaves the tables alone, or adds to the blobs.              *)
LEMMA ConsistentMove ==
    ASSUME GcTypeOK, Consistent, NEW o \in Ops, NEW s, OpGoto(o, s),
           UNCHANGED <<depRow, final, tree, target>>, blobRows \subseteq blobRows',
           s \in Early => opPc[o] \in Early,
           s \in Late => /\ opPc[o] \in Late
                         /\ s = "activate" /\ Exists(target[o]) => target[o] \in final
    PROVE  Consistent'
<1>1. \A p \in Ops : opPc'[p] = IF p = o THEN s ELSE opPc[p]
  BY DEF OpGoto, GcTypeOK
<1>2. TablesAgree'
  BY DEF Consistent, TablesAgree
<1>3. Trees'
  BY DEF Consistent, Trees
<1>4. Unmade'
  BY <1>1 DEF Consistent, Unmade, Ops
<1>5. Targets'
  <2> SUFFICES ASSUME NEW p \in Ops, opPc'[p] \in Late
               PROVE  /\ target[p] \in Deps
                      /\ target[p] \in Deploys => opPc'[target[p]] \notin Early
                      /\ Exists(target[p]) => tree[target[p]] = Content[target[p]]
                      /\ Exists(target[p]) /\ opPc'[p] = "activate" => target[p] \in final
    BY DEF Targets, Exists
  <2>1. opPc[p] \in Late
    BY <1>1
  <2>2. target[p] \in Deploys => opPc'[target[p]] \notin Early
    BY <1>1, <2>1 DEF Consistent, Targets, Ops
  <2>3. Exists(target[p]) /\ opPc'[p] = "activate" => target[p] \in final
    BY <1>1, <2>1 DEF Consistent, Targets
  <2> QED BY <2>1, <2>2, <2>3 DEF Consistent, Targets
<1> QED BY <1>2, <1>3, <1>4, <1>5 DEF Consistent

LEMMA ConsistentFail ==
    ASSUME GcTypeOK, Consistent, NEW o \in Ops, Fail(o)
    PROVE  Consistent'
BY ConsistentMove DEF Fail, rows, Early, Late

(* A step that leaves the ops alone and the tables too.                    *)
LEMMA ConsistentStay ==
    ASSUME Consistent, UNCHANGED <<depRow, final, tree, target, opPc>>,
           blobRows \subseteq blobRows'
    PROVE  Consistent'
<1>1. TablesAgree'
  BY DEF Consistent, TablesAgree
<1>2. Trees' /\ Unmade' /\ Targets'
  BY DEF Consistent, Trees, Unmade, Targets, Exists
<1> QED BY <1>1, <1>2 DEF Consistent

LEMMA ConsistentDeploy ==
    ASSUME GcTypeOK, Consistent, NEW o \in Deploys,
           BeginUpload(o) \/ UploadBlobs(o) \/ ReadSources(o) \/ BeginBuild(o) \/ StoreDone(o)
    PROVE  Consistent'
<1> USE DEF rows, Early, Late
<1>1. o \in Ops
  BY DEF Ops
<1>2. CASE BeginUpload(o)
  <2>1. opPc[o] = "idle"
    BY <1>2 DEF BeginUpload, MayBegin
  <2> QED BY <1>1, <1>2, <2>1, ConsistentMove DEF BeginUpload
<1>3. CASE UploadBlobs(o)
  BY <1>1, <1>3, ConsistentMove DEF UploadBlobs, OpMove
<1>4. CASE ReadSources(o)
  <2>1. CASE Fail(o)
    BY <1>1, <2>1, ConsistentFail
  <2>2. CASE OpGoto(o, "store") /\ UNCHANGED <<minio, rows, target, need, stage, gcs>>
    BY <1>1, <1>4, <2>2, ConsistentMove DEF ReadSources
  <2> QED BY <1>4, <2>1, <2>2 DEF ReadSources
<1>5. CASE BeginBuild(o)
  <2>1. opPc[o] = "idle"
    BY <1>5 DEF BeginBuild, MayBegin
  <2> QED BY <1>1, <1>5, <2>1, ConsistentMove DEF BeginBuild
<1>6. CASE StoreDone(o)
  BY <1>1, <1>6, ConsistentMove DEF StoreDone, OpMove
<1> QED BY <1>2, <1>3, <1>4, <1>5, <1>6

LEMMA ConsistentStore ==
    ASSUME Consistent, NEW o \in Deploys, NEW h \in Content[o],
           StoreSelect(o, h) \/ StorePut(o, h) \/ StoreRow(o, h)
    PROVE  Consistent'
BY ConsistentStay DEF StoreSelect, StorePut, StoreRow, rows

LEMMA ConsistentRows ==
    ASSUME GcTypeOK, Consistent, NEW o \in Deploys, InsertRow(o) \/ InsertTree(o)
    PROVE  Consistent'
<1> USE DEF minio, rows, gcs
<1>1. o \in Ops /\ o \in Deps
  BY DEF Ops, Deps
<1>2. CASE InsertRow(o)
  <2>1. /\ opPc[o] = "insert" /\ depRow[o] = "none"
        /\ \A p \in Ops : opPc'[p] = IF p = o THEN "tree" ELSE opPc[p]
        /\ \A d \in Deps : depRow'[d] = IF d = o THEN "inactive" ELSE depRow[d]
        /\ UNCHANGED <<blobRows, final, tree, target>>
    BY <1>1, <1>2 DEF InsertRow, OpMove, OpGoto, GcTypeOK, Consistent, Unmade, Early
  <2>2. TablesAgree'
    BY <2>1 DEF Consistent, TablesAgree
  <2>3. Trees'
    BY <2>1 DEF Consistent, Trees
  <2>4. Unmade'
    BY <2>1 DEF Consistent, Unmade, Early, Ops, Deps
  <2>5. \A p \in Ops : opPc[p] \in Late => target[p] # o
    BY <2>1 DEF Consistent, Targets, Early
  <2>6. Targets'
    BY <2>1, <2>5 DEF Consistent, Targets, Early, Late, Exists, Ops
  <2> QED BY <2>2, <2>3, <2>4, <2>6 DEF Consistent
<1>3. CASE InsertTree(o)
  <2>1. CASE Fail(o)
    BY <1>1, <2>1, ConsistentFail
  <2>2. CASE ~Fail(o)
    <3>1. /\ opPc[o] = "tree" /\ TreeAllowed(o)
          /\ \A p \in Ops : opPc'[p] = IF p = o THEN "manifest" ELSE opPc[p]
          /\ \A d \in Deps : tree'[d] = IF d = o THEN Content[o] ELSE tree[d]
          /\ UNCHANGED <<blobRows, depRow, final, target>>
      BY <1>1, <1>3, <2>2 DEF InsertTree, OpGoto, GcTypeOK
    <3>2. TablesAgree'
      BY <3>1 DEF Consistent, TablesAgree, TreeAllowed, Exists
    <3>3. Trees'
      BY <3>1 DEF Consistent, Trees
    <3>4. Unmade'
      BY <3>1 DEF Consistent, Unmade, Early, Ops
    <3>5. target[o] = o
      BY DEF Consistent, Unmade
    <3>6. Targets'
      BY <1>1, <3>1, <3>5 DEF Consistent, Targets, Early, Late, Exists, Ops
    <3> QED BY <3>2, <3>3, <3>4, <3>6 DEF Consistent
  <2> QED BY <2>1, <2>2
<1> QED BY <1>2, <1>3

LEMMA ConsistentRollback ==
    ASSUME GcTypeOK, Consistent, NEW o \in Ops, NEW d \in Deps, BeginRollback(o, d)
    PROVE  Consistent'
<1>1. /\ Exists(d) /\ tree[d] # {} /\ opPc[o] = "idle" /\ o \in Rollbacks
      /\ \A p \in Ops : opPc'[p] = IF p = o THEN "manifest" ELSE opPc[p]
      /\ \A p \in Ops : target'[p] = IF p = o THEN d ELSE target[p]
      /\ UNCHANGED <<blobRows, depRow, final, tree>>
  BY DEF BeginRollback, MayBegin, OpGoto, GcTypeOK, rows
<1>2. TablesAgree' /\ Trees'
  BY <1>1 DEF Consistent, TablesAgree, Trees
<1>3. Unmade'
  BY <1>1, GcAssumption DEF Consistent, Unmade, Early, Ops
<1>4. d \in Deploys => opPc[d] \notin Early
  BY <1>1 DEF Consistent, Unmade, Exists
<1>5. tree[d] = Content[d]
  BY <1>1 DEF Consistent, Trees
<1>6. Targets'
  BY <1>1, <1>4, <1>5 DEF Consistent, Targets, Early, Late, Exists, Ops
<1> QED BY <1>2, <1>3, <1>6 DEF Consistent

LEMMA ConsistentTarget ==
    ASSUME GcTypeOK, Consistent, NEW o \in Ops, TargetStep(o)
    PROVE  Consistent'
<1> USE DEF rows, Early, Late
<1>1. ASSUME NEW d \in Deps, BeginRollback(o, d) PROVE Consistent'
  BY <1>1, ConsistentRollback
<1>2. CASE PutManifest(o)
  <2>1. CASE Fail(o)
    BY <2>1, ConsistentFail
  <2>2. CASE ~Fail(o)
    BY <1>2, <2>2, ConsistentMove DEF PutManifest
  <2> QED BY <2>1, <2>2
<1>3. CASE RecordManifest(o)
  <2> DEFINE t == target[o]
  <2>1. /\ opPc[o] = "record" /\ t \in Deps
        /\ \A p \in Ops : opPc'[p] = IF p = o THEN "activate" ELSE opPc[p]
        /\ final' = IF Exists(t) THEN final \cup {t} ELSE final
        /\ UNCHANGED <<blobRows, depRow, tree, target>>
    BY <1>3 DEF RecordManifest, OpMove, OpGoto, GcTypeOK, Consistent, Targets
  <2>2. Exists(t) => tree[t] = Content[t]
    BY <2>1 DEF Consistent, Targets
  <2> HIDE DEF t
  <2>3. TablesAgree'
    BY <2>1 DEF Consistent, TablesAgree, Exists
  <2>4. Trees'
    BY <2>1, <2>2 DEF Consistent, Trees
  <2>5. Unmade'
    BY <2>1 DEF Consistent, Unmade, Ops
  <2>6. Targets'
    BY <2>1 DEF t, Consistent, Targets, Exists, Ops
  <2> QED BY <2>3, <2>4, <2>5, <2>6 DEF Consistent
<1>4. CASE Activate(o)
  <2>1. CASE Fail(o)
    BY <2>1, ConsistentFail
  <2>2. CASE ~Fail(o)
    <3> DEFINE t == target[o]
    <3>1. /\ opPc[o] = "activate" /\ t \in Deps /\ Exists(t)
          /\ tree[t] = Content[t] /\ t \in final
      BY <1>4, <2>2 DEF Activate, Consistent, Targets
    <3>2. /\ \A p \in Ops : opPc'[p] = IF p = o THEN "done" ELSE opPc[p]
          /\ \A d \in Deps : depRow'[d] = IF d = t THEN "active"
                ELSE IF PageOf[d] = PageOf[o] /\ depRow[d] = "active" THEN "inactive"
                ELSE depRow[d]
          /\ UNCHANGED <<blobRows, final, tree, target>>
      BY <1>4, <2>2 DEF Activate, OpGoto, GcTypeOK
    <3> HIDE DEF t
    <3>3. \A d \in Deps : depRow'[d] = "none" <=> depRow[d] = "none"
      BY <3>1, <3>2 DEF Exists
    <3>4. TablesAgree'
      BY <3>1, <3>2, <3>3 DEF Consistent, TablesAgree
    <3>5. Trees'
      BY <3>2 DEF Consistent, Trees
    <3>6. Unmade'
      BY <3>2, <3>3 DEF Consistent, Unmade, Ops, Deps
    <3>7. Targets'
      BY <3>2, <3>3 DEF Consistent, Targets, Exists, Ops
    <3> QED BY <3>4, <3>5, <3>6, <3>7 DEF Consistent
  <2> QED BY <2>1, <2>2
<1>5. CASE ThrowOp(o)
  BY <1>5, ConsistentMove DEF ThrowOp
<1>6. CASE Settle(o)
  BY <1>6, ConsistentFail DEF Settle
<1> QED BY <1>1, <1>2, <1>3, <1>4, <1>5, <1>6 DEF TargetStep

LEMMA ConsistentCollector ==
    ASSUME GcTypeOK, Consistent, NEW o \in Ops, GcStep(o)
    PROVE  Consistent'
<1> USE DEF rows, ops
<1>1. CASE GcRows(o)
  <2>1. CASE ~RowsMayGo(o)
    BY <1>1, <2>1, ConsistentStay DEF GcRows
  <2>2. CASE RowsMayGo(o)
    <3>1. /\ \A d \in Deps : tree'[d] = IF d \in expired[o] THEN {} ELSE tree[d]
          /\ \A d \in Deps : depRow'[d] = IF d \in expired[o] THEN "none" ELSE depRow[d]
          /\ final' = final \ expired[o]
          /\ blobRows' = blobRows \ doomed[o]
          /\ UNCHANGED <<target, opPc>>
      BY <1>1, <2>2 DEF GcRows, DeletedHashes
    <3>2. \A d \in Deps \ expired[o] : tree[d] \cap doomed[o] = {}
      BY <2>2 DEF RowsMayGo, DeletedHashes, InUse
    <3>3. TablesAgree'
      BY <3>1, <3>2 DEF Consistent, TablesAgree
    <3>4. Trees'
      BY <3>1 DEF Consistent, Trees
    <3>5. Unmade'
      BY <3>1 DEF Consistent, Unmade, Deps
    <3>6. Targets'
      BY <3>1 DEF Consistent, Targets, Exists, Late
    <3> QED BY <3>3, <3>4, <3>5, <3>6 DEF Consistent
  <2> QED BY <2>1, <2>2
<1>2. CASE ~GcRows(o)
  BY <1>2, ConsistentStay
  DEF GcStep, GcSelect, GcCandidates, GcJudge, GcBlobs, GcManifests, GcThrow
<1> QED BY <1>1, <1>2

LEMMA GcStepTyped ==
    ASSUME GcTypeOK, Consistent, [GcNext]_gcVars
    PROVE  GcTypeOK'
<1>1. CASE UNCHANGED gcVars
  BY <1>1 DEF gcVars, minio, rows, ops, gcs, GcTypeOK
<1>2. ASSUME UNCHANGED regime, NEW o \in Deploys, OpStep(o) PROVE GcTypeOK'
  BY <1>2, DeployType, StoreType, RowsType DEF OpStep
<1>3. ASSUME UNCHANGED regime, NEW o \in Ops, TargetStep(o) PROVE GcTypeOK'
  BY <1>3, TargetType DEF Consistent, Targets, Late
<1>4. ASSUME UNCHANGED regime, NEW o \in Ops, GcStep(o) PROVE GcTypeOK'
  BY <1>4, CollectorType
<1> QED BY <1>1, <1>2, <1>3, <1>4 DEF GcNext, Quiescent

LEMMA ConsistentStep ==
    ASSUME GcTypeOK, Consistent, [GcNext]_gcVars
    PROVE  Consistent'
<1>1. CASE UNCHANGED gcVars
  BY <1>1, ConsistentStay DEF gcVars, rows, ops
<1>2. ASSUME NEW o \in Deploys, OpStep(o) PROVE Consistent'
  BY <1>2, ConsistentDeploy, ConsistentStore, ConsistentRows DEF OpStep
<1>3. ASSUME NEW o \in Ops, TargetStep(o) PROVE Consistent'
  BY <1>3, ConsistentTarget
<1>4. ASSUME NEW o \in Ops, GcStep(o) PROVE Consistent'
  BY <1>4, ConsistentCollector
<1> QED BY <1>1, <1>2, <1>3, <1>4 DEF GcNext, Quiescent

(* Types: every variable of the store keeps its type.                      *)
THEOREM GcTypeCorrect == GcSpec => []GcTypeOK
<1>1. GcInit => GcTypeOK /\ Consistent
  BY GcTypeInit, ConsistentInit
<1>2. GcTypeOK /\ Consistent /\ [GcNext]_gcVars => GcTypeOK' /\ Consistent'
  BY GcStepTyped, ConsistentStep
<1> QED BY <1>1, <1>2, PTL DEF GcSpec

(* The tables always agree, with any collectors at any time and any call   *)
(* failing: a live deployment has its manifest columns and its complete    *)
(* tree, no removed one has either, and no tree names a blob without row   *)
(* (createDeployment, runDeploymentGC).                                    *)
THEOREM TablesAlwaysAgree == GcSpec => []TablesAgree
<1>1. GcInit => GcTypeOK /\ Consistent
  BY GcTypeInit, ConsistentInit
<1>2. GcTypeOK /\ Consistent /\ [GcNext]_gcVars => GcTypeOK' /\ Consistent'
  BY GcStepTyped, ConsistentStep
<1>3. Consistent => TablesAgree
  BY DEF Consistent
<1> QED BY <1>1, <1>2, <1>3, PTL DEF GcSpec

-----------------------------------------------------------------------------
(* The store, where collectors run alone.                                  *)

(* A collector whose MinIO answer is lost, or that ends between MinIO and  *)
(* its transaction, leaves rows without objects: where collectors run      *)
(* alone they fail before that or not at all.                              *)
FailsBeforeDeleting ==
    \A r \in Regimes : r.alone => r.gcFaults \subseteq {"select", "candidates", "judge"}

Deleting == {"blobs", "manifests", "rows"}

(* What a collector read stays true to its end: nothing else is under way, *)
(* what it removes is beyond the window still, and what it deletes no      *)
(* other deployment uses.                                                  *)
Solo ==
    \A p \in Ops : Collecting(p) =>
        /\ \A o \in Ops : ~Busy(o) /\ (o # p => ~Collecting(o))
        /\ expired[p] = Expired(PageOf[p])
        /\ gc[p] \in Deleting => doomed[p] \cap InUse(Deps \ expired[p]) = {}

(* An op that is to insert a row of blobs has the object, and one that is  *)
(* to record a manifest has the manifest.                                  *)
Prepared ==
    /\ \A o \in Deploys, h \in Hashes :
        /\ opPc[o] \in {"idle", "upload", "read"} => stage[o][h] = "select"
        /\ Storing(o) /\ stage[o][h] = "row" => h \in objects
    /\ \A o \in Ops : opPc[o] = "record" => target[o] \in manifests

(* A recorded manifest is there, but for what the one collector is about   *)
(* to take from the tables.                                                *)
Kept ==
    \A d \in final \ manifests : \E o \in Ops : gc[o] = "rows" /\ d \in expired[o]

Exclusive == regime.alone => Solo
Serial == regime.alone => Prepared /\ RowsBacked /\ Kept

Quiet == \A p \in Ops : ~Collecting(p)
Whole == blobRows \subseteq objects /\ final \subseteq manifests

LEMMA SerialInit == GcInit => Exclusive /\ Serial
<1> SUFFICES ASSUME GcInit PROVE Exclusive /\ Serial
  OBVIOUS
<1>1. Solo
  BY DEF GcInit, Solo, Collecting, GcSteps
<1>2. Prepared
  BY GcAssumption DEF GcInit, Prepared, Storing, Ops
<1>3. RowsBacked /\ Kept
  BY DEF GcInit, RowsBacked, Kept
<1> QED BY <1>1, <1>2, <1>3 DEF Exclusive, Serial

LEMMA QuietWhole == regime.alone /\ Quiet => (RowsBacked /\ Kept <=> Whole)
BY DEF Quiet, RowsBacked, Kept, Whole, Collecting, GcSteps

(* No collector is at work where an op moves.                              *)
LEMMA OpIsAlone ==
    ASSUME GcTypeOK, regime.alone, Solo, NEW o \in Ops,
           (o \in Deploys /\ OpStep(o)) \/ TargetStep(o)
    PROVE  Quiet
<1> USE DEF Quiet
<1>1. CASE Busy(o)
  BY <1>1 DEF Solo
<1>2. CASE MayBegin(o)
  BY <1>2 DEF MayBegin
<1>3. Busy(o) \/ MayBegin(o)
  <2> USE GcAssumption, SetsOfSteps DEF Busy, Steps, InLock
  <2>1. CASE OpStep(o)
    BY <2>1 DEF OpStep, BeginUpload, UploadBlobs, ReadSources, BeginBuild, StoreSelect,
                StorePut, StoreRow, StoreDone, InsertRow, InsertTree, OpMove, Storing
  <2>2. CASE TargetStep(o)
    <3>1. ThrowOp(o) => opPc[o] \in Steps
      BY DEF ThrowOp, GcTypeOK, Regime
    <3> QED BY <2>2, <3>1
            DEF TargetStep, BeginRollback, PutManifest, RecordManifest, Activate, Settle, OpMove
  <2> QED BY <2>1, <2>2
<1> QED BY <1>1, <1>2, <1>3

LEMMA QuietStays ==
    ASSUME GcTypeOK, Quiet, NEW o \in Ops, (o \in Deploys /\ OpStep(o)) \/ TargetStep(o)
    PROVE  Quiet'
<1>1. \/ UNCHANGED gc
      \/ gc' = [gc EXCEPT ![o] = "select"]
  BY DEF OpStep, TargetStep, BeginUpload, UploadBlobs, ReadSources, BeginBuild,
         StoreSelect, StorePut, StoreRow, StoreDone, InsertRow, InsertTree, BeginRollback,
         PutManifest, RecordManifest, Activate, ThrowOp, Settle, Fail, gcs
<1> QED BY <1>1 DEF Quiet, Collecting, GcTypeOK

LEMMA SoloLooks ==
    ASSUME GcTypeOK, Solo, NEW o \in Ops, GcCandidates(o) \/ GcJudge(o) \/ GcThrow(o)
    PROVE  Solo'
<1> USE DEF minio, rows, ops
<1>1. /\ UNCHANGED <<depRow, tree, born, opPc, expired>>
      /\ \A p \in Ops : p # o => gc'[p] = gc[p] /\ doomed'[p] = doomed[p]
  BY DEF GcCandidates, GcJudge, GcThrow, GcMove, GcGoto, GcTypeOK
<1>2. \A p \in Ops : /\ Busy(p)' = Busy(p)
                     /\ Expired(PageOf[p])' = Expired(PageOf[p])
                     /\ InUse(Deps \ expired[p])' = InUse(Deps \ expired[p])
  BY <1>1 DEF Busy, Expired, Inactive, InUse
<1>3. \A p \in Ops : Collecting(p)' => Collecting(p)
  <2>1. gc'[o] = "off" \/ Collecting(o)
    BY DEF GcCandidates, GcJudge, GcThrow, GcMove, GcGoto, GcTypeOK, Collecting, GcSteps
  <2> QED BY <1>1, <2>1 DEF Collecting, GcSteps
<1>4. gc'[o] \in Deleting => doomed'[o] \cap InUse(Deps \ expired[o]) = {}
  <2>1. CASE GcJudge(o)
    BY <2>1 DEF GcJudge, Orphans, GcTypeOK
  <2>2. CASE ~GcJudge(o)
    BY <2>2 DEF GcCandidates, GcThrow, GcMove, GcGoto, GcTypeOK, Deleting
  <2> QED BY <2>1, <2>2
<1> QED BY <1>1, <1>2, <1>3, <1>4 DEF Solo

LEMMA SoloDeletes ==
    ASSUME GcTypeOK, Solo, NEW o \in Ops, GcBlobs(o) \/ GcManifests(o)
    PROVE  Solo'
<1> USE DEF minio, rows, ops
<1>1. /\ gc[o] \in Deleting /\ doomed'[o] \subseteq doomed[o]
      /\ UNCHANGED <<depRow, tree, born, opPc, expired>>
      /\ \A p \in Ops : p # o => gc'[p] = gc[p] /\ doomed'[p] = doomed[p]
  BY DEF GcBlobs, GcManifests, GcMove, GcGoto, GcTypeOK, Deleting
<1>2. \A p \in Ops : /\ Busy(p)' = Busy(p)
                     /\ Expired(PageOf[p])' = Expired(PageOf[p])
                     /\ InUse(Deps \ expired[p])' = InUse(Deps \ expired[p])
  BY <1>1 DEF Busy, Expired, Inactive, InUse
<1>3. \A p \in Ops : Collecting(p)' => Collecting(p)
  BY <1>1 DEF Collecting, GcSteps, Deleting
<1> QED BY <1>1, <1>2, <1>3 DEF Solo

LEMMA SoloSelect ==
    ASSUME GcTypeOK, regime.alone, NEW o \in Ops, GcSelect(o)
    PROVE  Solo'
<1> USE DEF minio, rows, ops
<1>1. /\ \A p \in Ops : ~Busy(p) /\ ~Collecting(p)
      /\ UNCHANGED <<depRow, born, opPc>>
      /\ expired'[o] = Expired(PageOf[o])
      /\ \A p \in Ops : p # o => gc'[p] = gc[p]
      /\ gc'[o] \in {"off", "candidates"}
  BY DEF GcSelect, GcMove, GcGoto, GcTypeOK
<1>2. \A p \in Ops : Collecting(p)' => p = o
  BY <1>1 DEF Collecting
<1>3. \A p \in Ops : ~Busy(p)'
  BY <1>1 DEF Busy
<1>4. Expired(PageOf[o])' = Expired(PageOf[o])
  BY <1>1 DEF Expired, Inactive
<1> QED BY <1>1, <1>2, <1>3, <1>4 DEF Solo, Deleting

LEMMA SoloStep ==
    ASSUME GcTypeOK, Exclusive, [GcNext]_gcVars
    PROVE  Exclusive'
<1>1. CASE ~regime.alone
  BY <1>1 DEF Exclusive, GcNext, gcVars
<1>2. CASE regime.alone
  <2>1. Solo
    BY <1>2 DEF Exclusive
  <2>2. CASE UNCHANGED gcVars
    <3>1. UNCHANGED <<depRow, tree, born, opPc, gc, expired, doomed>>
      BY <2>2 DEF gcVars, rows, ops, gcs
    <3>2. Solo'
      BY <2>1, <3>1 DEF Solo, Collecting, Busy, Expired, Inactive, InUse
    <3> QED BY <3>2 DEF Exclusive
  <2>3. ASSUME NEW o \in Ops, (o \in Deploys /\ OpStep(o)) \/ TargetStep(o)
        PROVE  Solo'
    <3>1. Quiet
      BY <1>2, <2>1, <2>3, OpIsAlone
    <3>2. Quiet'
      BY <2>3, <3>1, QuietStays
    <3> QED BY <3>2 DEF Solo, Quiet
  <2>4. ASSUME NEW o \in Ops, GcRows(o) PROVE Solo'
    <3>1. \A p \in Ops : p # o => ~Collecting(p)
      BY <2>1, <2>4 DEF Solo, GcRows, GcMove, Collecting, GcSteps
    <3>2. Quiet'
      BY <2>4, <3>1 DEF Quiet, Collecting, GcRows, GcMove, GcGoto, GcTypeOK, GcSteps
    <3> QED BY <3>2 DEF Solo, Quiet
  <2>5. ASSUME NEW o \in Ops, GcStep(o) PROVE Solo'
    BY <1>2, <2>1, <2>4, <2>5, SoloSelect, SoloLooks, SoloDeletes DEF GcStep
  <2>6. \A o \in Deploys : o \in Ops
    BY DEF Ops
  <2> QED BY <2>2, <2>3, <2>5, <2>6 DEF GcNext, Quiescent, Exclusive
<1> QED BY <1>1, <1>2

(* An op that moves to a step where it has nothing to lean on.             *)
LEMMA PreparedMove ==
    ASSUME GcTypeOK, Prepared, NEW o \in Ops, NEW s, OpGoto(o, s),
           UNCHANGED <<stage, target>>,
           objects \subseteq objects', manifests \subseteq manifests',
           s \in {"idle", "upload", "read"} => opPc[o] \in {"idle", "upload", "read"},
           s \in {"store", "adrift"} =>
               opPc[o] \in {"idle", "upload", "read", "store", "adrift"},
           s = "record" => target[o] \in manifests'
    PROVE  Prepared'
<1>1. \A p \in Ops : opPc'[p] = IF p = o THEN s ELSE opPc[p]
  BY DEF OpGoto, GcTypeOK
<1>2. \A p \in Deploys : p \in Ops
  BY DEF Ops
<1> QED BY <1>1, <1>2 DEF Prepared, Storing

LEMMA WholeDeploy ==
    ASSUME GcTypeOK, Prepared, Whole, NEW o \in Deploys,
           BeginUpload(o) \/ UploadBlobs(o) \/ ReadSources(o) \/ BeginBuild(o) \/ StoreDone(o)
    PROVE  Prepared' /\ Whole'
<1> USE DEF minio, rows
<1>1. o \in Ops
  BY DEF Ops
<1>2. Whole'
  BY DEF Whole, BeginUpload, UploadBlobs, ReadSources, BeginBuild, StoreDone, Fail
<1>3. Prepared'
  <2>1. CASE BeginUpload(o)
    BY <1>1, <2>1, PreparedMove DEF BeginUpload, MayBegin
  <2>2. CASE UploadBlobs(o)
    BY <1>1, <2>2, PreparedMove DEF UploadBlobs, OpMove
  <2>3. CASE ReadSources(o)
    BY <1>1, <2>3, PreparedMove DEF ReadSources, Fail
  <2>4. CASE BeginBuild(o)
    BY <1>1, <2>4, PreparedMove DEF BeginBuild, MayBegin
  <2>5. CASE StoreDone(o)
    BY <1>1, <2>5, PreparedMove DEF StoreDone, OpMove
  <2> QED BY <2>1, <2>2, <2>3, <2>4, <2>5
<1> QED BY <1>2, <1>3

LEMMA WholeStore ==
    ASSUME GcTypeOK, Prepared, Whole, NEW o \in Deploys, NEW h \in Content[o],
           StoreSelect(o, h) \/ StorePut(o, h) \/ StoreRow(o, h)
    PROVE  Prepared' /\ Whole'
<1> USE DEF minio, rows
<1>1. o \in Ops /\ h \in Hashes /\ \A p \in Deploys : p \in Ops
  BY GcAssumption DEF Ops, Deps
<1>2. ASSUME NEW s, StageTo(o, h, s)
      PROVE  \A p \in Ops, g \in Hashes :
                 stage'[p][g] = IF p = o /\ g = h THEN s ELSE stage[p][g]
  BY <1>1, <1>2 DEF StageTo, GcTypeOK
<1>3. Storing(o) /\ UNCHANGED <<opPc, target>>
  BY DEF StoreSelect, StorePut, StoreRow
<1>4. CASE StoreSelect(o, h)
  <2>1. \A p \in Ops, g \in Hashes :
            \/ stage'[p][g] = stage[p][g]
            \/ p = o /\ stage'[p][g] \in {"stored", "put"}
    BY <1>2, <1>4 DEF StoreSelect
  <2> QED BY <1>1, <1>3, <1>4, <2>1 DEF StoreSelect, Prepared, Storing, Whole
<1>5. CASE StorePut(o, h)
  <2>1. \A p \in Ops, g \in Hashes :
            stage'[p][g] = IF p = o /\ g = h THEN "row" ELSE stage[p][g]
    BY <1>2, <1>5 DEF StorePut
  <2> QED BY <1>1, <1>3, <1>5, <2>1 DEF StorePut, Prepared, Storing, Whole
<1>6. CASE StoreRow(o, h)
  <2>1. \A p \in Ops, g \in Hashes :
            stage'[p][g] = IF p = o /\ g = h THEN "stored" ELSE stage[p][g]
    BY <1>2, <1>6 DEF StoreRow
  <2> QED BY <1>1, <1>3, <1>6, <2>1 DEF StoreRow, Prepared, Storing, Whole
<1> QED BY <1>4, <1>5, <1>6

LEMMA WholeRows ==
    ASSUME GcTypeOK, Prepared, Whole, NEW o \in Deploys, InsertRow(o) \/ InsertTree(o)
    PROVE  Prepared' /\ Whole'
<1> USE DEF minio, rows
<1>1. o \in Ops
  BY DEF Ops
<1>2. Whole'
  BY DEF Whole, InsertRow, InsertTree, Fail
<1>3. CASE InsertRow(o)
  BY <1>1, <1>2, <1>3, PreparedMove DEF InsertRow, OpMove
<1>4. CASE InsertTree(o)
  BY <1>1, <1>2, <1>4, PreparedMove DEF InsertTree, Fail
<1> QED BY <1>3, <1>4

LEMMA WholeTarget ==
    ASSUME GcTypeOK, Prepared, Whole, NEW o \in Ops, TargetStep(o)
    PROVE  Prepared' /\ Whole'
<1> USE DEF minio, rows
<1>1. ASSUME NEW d \in Deps, BeginRollback(o, d) PROVE Prepared' /\ Whole'
  <2>1. /\ \A p \in Ops : opPc'[p] = IF p = o THEN "manifest" ELSE opPc[p]
        /\ \A p \in Ops : p # o => target'[p] = target[p]
        /\ UNCHANGED <<minio, rows, stage>>
    BY <1>1 DEF BeginRollback, OpGoto, GcTypeOK
  <2> QED BY <2>1 DEF Prepared, Storing, Whole, Ops
<1>2. CASE PutManifest(o)
  <2>1. CASE Fail(o)
    BY <2>1, PreparedMove DEF Fail, Whole
  <2>2. CASE ~Fail(o)
    BY <1>2, <2>2, PreparedMove DEF PutManifest, Whole
  <2> QED BY <2>1, <2>2
<1>3. CASE RecordManifest(o)
  <2>1. Whole'
    BY <1>3 DEF RecordManifest, OpMove, Prepared, Whole
  <2> QED BY <1>3, <2>1, PreparedMove DEF RecordManifest, OpMove
<1>4. CASE Activate(o)
  BY <1>4, PreparedMove DEF Activate, Fail, Whole
<1>5. CASE ThrowOp(o)
  BY <1>5, PreparedMove DEF ThrowOp, Whole
<1>6. CASE Settle(o)
  BY <1>6, PreparedMove DEF Settle, Fail, Whole
<1> QED BY <1>1, <1>2, <1>3, <1>4, <1>5, <1>6 DEF TargetStep

LEMMA SerialOp ==
    ASSUME GcTypeOK, regime.alone, Solo, Serial, NEW o \in Ops,
           (o \in Deploys /\ OpStep(o)) \/ TargetStep(o)
    PROVE  Serial'
<1>1. Quiet
  BY OpIsAlone
<1>2. Whole /\ Prepared
  BY <1>1, QuietWhole DEF Serial
<1>3. Whole' /\ Prepared'
  BY <1>2, WholeDeploy, WholeStore, WholeRows, WholeTarget DEF OpStep
<1>4. RowsBacked' /\ Kept'
  BY <1>3 DEF RowsBacked, Kept, Whole
<1> QED BY <1>3, <1>4 DEF Serial

(* A collector that only looks, or ends.                                   *)
LEMMA SerialLooks ==
    ASSUME GcTypeOK, regime.alone, Serial, FailsBeforeDeleting,
           NEW o \in Ops, GcSelect(o) \/ GcCandidates(o) \/ GcJudge(o) \/ GcThrow(o)
    PROVE  Serial'
<1> USE DEF minio, rows, ops
<1>1. /\ UNCHANGED <<objects, manifests, blobRows, final, opPc, target, stage>>
      /\ gc[o] \in {"select", "candidates", "judge"}
  BY DEF GcSelect, GcCandidates, GcJudge, GcThrow, GcMove, FailsBeforeDeleting, GcTypeOK
<1>2. \A p \in Ops : p # o => gc'[p] = gc[p]
  BY DEF GcSelect, GcCandidates, GcJudge, GcThrow, GcMove, GcGoto, GcTypeOK
<1>3. \A p \in Ops : p # o => expired'[p] = expired[p] /\ doomed'[p] = doomed[p]
  BY DEF GcSelect, GcCandidates, GcJudge, GcThrow, GcTypeOK
<1>4. Prepared'
  BY <1>1 DEF Serial, Prepared, Storing
<1>5. RowsBacked' /\ Kept'
  BY <1>1, <1>2, <1>3 DEF Serial, RowsBacked, Kept
<1> QED BY <1>4, <1>5 DEF Serial

(* The one collector, at work in MinIO.                                    *)
LEMMA SerialDeletes ==
    ASSUME GcTypeOK, regime.alone, Solo, Serial, FailsBeforeDeleting,
           NEW o \in Ops, GcBlobs(o) \/ GcManifests(o)
    PROVE  Serial'
<1> USE DEF minio, rows, ops
<1>1. /\ gc[o] \in {"blobs", "manifests"}
      /\ UNCHANGED <<blobRows, final, opPc, target, stage, expired>>
  BY DEF GcBlobs, GcManifests, GcMove
<1>2. Collecting(o)
  BY <1>1 DEF Collecting, GcSteps
<1>3. \A p \in Ops : ~Busy(p) /\ (p # o => ~Collecting(p))
  BY <1>2 DEF Solo
<1>4. gc'[o] \in {"manifests", "rows"}
  BY DEF GcBlobs, GcManifests, GcMove, GcGoto, GcTypeOK
<1>5. objects \ objects' \subseteq doomed'[o]
  <2>1. CASE GcBlobs(o)
    <3>1. "blobs" \notin regime.gcFaults
      BY DEF FailsBeforeDeleting, GcTypeOK
    <3> QED BY <2>1, <3>1 DEF GcBlobs, GcTypeOK
  <2>2. CASE GcManifests(o)
    BY <2>2 DEF GcManifests
  <2> QED BY <2>1, <2>2
<1>6. Prepared'
  BY <1>1, <1>3 DEF Serial, Prepared, Storing, Busy, Steps, InLock, Ops
<1>7. RowsBacked'
  <2>1. \A h \in blobRows \ objects : gc[o] = "manifests" /\ h \in doomed[o]
    BY <1>1, <1>3 DEF Serial, RowsBacked, Collecting, GcSteps
  <2>2. gc[o] = "manifests" => UNCHANGED <<objects, doomed>>
    BY DEF GcBlobs, GcMove, GcManifests
  <2> QED BY <1>1, <1>4, <1>5, <2>1, <2>2 DEF RowsBacked
<1>8. Kept'
  <2>1. final \subseteq manifests
    BY <1>1, <1>3 DEF Serial, Kept, Collecting, GcSteps
  <2>2. \/ manifests' = manifests
        \/ gc'[o] = "rows" /\ manifests \ manifests' \subseteq expired[o]
    BY DEF GcBlobs, GcManifests, GcMove, GcGoto, GcTypeOK
  <2> QED BY <1>1, <2>1, <2>2 DEF Kept
<1> QED BY <1>6, <1>7, <1>8 DEF Serial

(* Its transaction takes exactly what is left to take.                     *)
LEMMA SerialRows ==
    ASSUME GcTypeOK, regime.alone, Solo, Serial, NEW o \in Ops, GcRows(o)
    PROVE  Serial'
<1> USE DEF minio, rows, ops
<1>1. Collecting(o) /\ gc[o] = "rows"
  BY DEF GcRows, GcMove, Collecting, GcSteps
<1>2. \A p \in Ops : p # o => ~Collecting(p)
  BY <1>1 DEF Solo
<1>3. RowsMayGo(o)
  BY <1>1 DEF Solo, Deleting, RowsMayGo, DeletedHashes
<1>4. /\ final' = final \ expired[o]
      /\ blobRows' = blobRows \ doomed[o]
      /\ UNCHANGED <<objects, manifests, opPc, target, stage>>
  BY <1>3 DEF GcRows, DeletedHashes
<1>5. Whole'
  <2>1. \A h \in blobRows \ objects : h \in doomed[o]
    BY <1>2 DEF Serial, RowsBacked, Collecting, GcSteps
  <2>2. \A d \in final \ manifests : d \in expired[o]
    BY <1>2 DEF Serial, Kept, Collecting, GcSteps
  <2> QED BY <1>4, <2>1, <2>2 DEF Whole
<1>6. Prepared'
  BY <1>4 DEF Serial, Prepared, Storing
<1>7. RowsBacked' /\ Kept'
  BY <1>5 DEF RowsBacked, Kept, Whole
<1> QED BY <1>6, <1>7 DEF Serial

LEMMA SerialStep ==
    ASSUME GcTypeOK, Exclusive, Serial, FailsBeforeDeleting, [GcNext]_gcVars
    PROVE  Serial'
<1>1. CASE ~regime.alone
  BY <1>1 DEF Serial, GcNext, gcVars
<1>2. CASE regime.alone
  <2>1. Solo
    BY <1>2 DEF Exclusive
  <2>2. CASE UNCHANGED gcVars
    <3>1. UNCHANGED <<regime, objects, manifests, blobRows, final, opPc, target, stage,
                      gc, expired, doomed>>
      BY <2>2 DEF gcVars, minio, rows, ops, gcs
    <3>2. Prepared'
      BY <3>1, <1>2 DEF Serial, Prepared, Storing
    <3>3. RowsBacked' /\ Kept'
      BY <3>1, <1>2 DEF Serial, RowsBacked, Kept
    <3> QED BY <3>2, <3>3 DEF Serial
  <2>3. ASSUME NEW o \in Deploys, OpStep(o) PROVE Serial'
    BY <1>2, <2>1, <2>3, SerialOp DEF Ops
  <2>4. ASSUME NEW o \in Ops, TargetStep(o) PROVE Serial'
    BY <1>2, <2>1, <2>4, SerialOp
  <2>5. ASSUME NEW o \in Ops, GcStep(o) PROVE Serial'
    BY <1>2, <2>1, <2>5, SerialLooks, SerialDeletes, SerialRows DEF GcStep
  <2> QED BY <2>2, <2>3, <2>4, <2>5 DEF GcNext, Quiescent
<1> QED BY <1>1, <1>2

(* What a collector that runs alone has taken from MinIO already is not of *)
(* what is live, nor of what can be rolled back to.                        *)
LEMMA SerialIntact ==
    ASSUME GcTypeOK, Consistent, Exclusive, Serial
    PROVE  StoreIntact
<1>1. CASE ~regime.alone
  BY <1>1 DEF StoreIntact, LiveIntact, WindowIntact, RowsBacked
<1>2. CASE regime.alone
  <2>1. ASSUME NEW d \in final,
               \A p \in Ops : Collecting(p) => d \notin expired[p]
        PROVE  Intact(d)
    <3>1. d \in Deps /\ tree[d] = Content[d] /\ tree[d] \subseteq blobRows
      BY DEF Consistent, TablesAgree, Trees, GcTypeOK
    <3>2. d \in manifests
      BY <1>2, <2>1 DEF Serial, Kept, Collecting, GcSteps
    <3>3. ASSUME NEW h \in tree[d], h \notin objects PROVE FALSE
      <4>1. PICK p \in Ops : gc[p] \in {"manifests", "rows"} /\ h \in doomed[p]
        BY <1>2, <3>1, <3>3 DEF Serial, RowsBacked
      <4>2. Collecting(p) /\ gc[p] \in Deleting
        BY <4>1 DEF Collecting, GcSteps, Deleting
      <4>3. h \in InUse(Deps \ expired[p])
        BY <2>1, <3>1, <4>2 DEF InUse
      <4> QED BY <1>2, <4>1, <4>2, <4>3 DEF Exclusive, Solo
    <3> QED BY <3>1, <3>2, <3>3 DEF Intact
  <2>2. LiveIntact
    <3> SUFFICES ASSUME NEW d \in Deps, depRow[d] = "active" PROVE Intact(d)
      BY DEF LiveIntact
    <3>1. d \in final
      BY DEF Consistent, TablesAgree
    <3>2. \A p \in Ops : Collecting(p) => d \notin expired[p]
      BY <1>2 DEF Exclusive, Solo, Expired, Inactive
    <3> QED BY <2>1, <3>1, <3>2
  <2>3. WindowIntact
    <3> SUFFICES ASSUME NEW d \in final, d \notin Expired(PageOf[d]) PROVE Intact(d)
      BY DEF WindowIntact
    <3>1. \A p : d \in Expired(p) => PageOf[d] = p
      BY DEF Expired, Inactive
    <3>2. \A p \in Ops : Collecting(p) => d \notin expired[p]
      BY <1>2, <3>1 DEF Exclusive, Solo
    <3> QED BY <2>1, <3>1, <3>2
  <2> QED BY <1>2, <2>2, <2>3 DEF StoreIntact, Serial
<1> QED BY <1>1, <1>2

(* Where collectors run alone, and fail before they delete or not at all:  *)
(* whatever deploys and rollbacks fail in between, a live deployment and   *)
(* the ones in its rollback window keep their manifest and every object,   *)
(* those other pages store too included (runDeploymentGC, storeBlob).      *)
THEOREM StoreStaysIntact ==
    ASSUME FailsBeforeDeleting
    PROVE  GcSpec => []StoreIntact
<1>1. GcInit => GcTypeOK /\ Consistent /\ Exclusive /\ Serial
  BY GcTypeInit, ConsistentInit, SerialInit
<1>2. GcTypeOK /\ Consistent /\ Exclusive /\ Serial /\ [GcNext]_gcVars
          => GcTypeOK' /\ Consistent' /\ Exclusive' /\ Serial'
  BY GcStepTyped, ConsistentStep, SoloStep, SerialStep
<1>3. GcTypeOK /\ Consistent /\ Exclusive /\ Serial => StoreIntact
  BY SerialIntact
<1> QED BY <1>1, <1>2, <1>3, PTL DEF GcSpec

-----------------------------------------------------------------------------
(* What the collector leaves.                                              *)

(* created_at orders the deployments that were ever made.                  *)
Ranks ==
    /\ \A d \in Deps : born[d] <= Cardinality({e \in Deps : born[e] # 0})
    /\ \A d, e \in Deps : born[d] = born[e] /\ born[d] # 0 => d = e
    /\ \A d \in Deps : Exists(d) => born[d] # 0
    /\ \A o \in Deploys : opPc[o] \in Early => born[o] = 0

LEMMA RanksInit == GcInit => Ranks
<1> SUFFICES ASSUME GcInit PROVE Ranks
  OBVIOUS
<1>1. \A d \in Deps : born[d] = IF d \in Seeds THEN SeedBorn[d] ELSE 0
  BY DEF GcInit
<1>2. \A s \in Seeds : SeedBorn[s] \in 1..Cardinality(Seeds)
  BY GcAssumption
<1>3. {e \in Deps : born[e] # 0} = Seeds
  BY <1>1, <1>2 DEF Deps
<1>4. Cardinality(Seeds) \in Nat
  BY <1>3, BornCount
<1>5. \A d \in Deps : born[d] <= Cardinality({e \in Deps : born[e] # 0})
  BY <1>1, <1>2, <1>3, <1>4
<1>6. \A d, e \in Deps : born[d] = born[e] /\ born[d] # 0 => d = e
  BY <1>1, GcAssumption
<1>7. \A d \in Deps : Exists(d) => born[d] # 0
  BY <1>1, <1>2 DEF Exists, GcInit
<1>8. \A o \in Deploys : born[o] = 0
  BY <1>1, GcAssumption DEF Deps, Ops
<1> QED BY <1>5, <1>6, <1>7, <1>8 DEF Ranks

LEMMA RanksStep ==
    ASSUME GcTypeOK, Ranks, [GcNext]_gcVars
    PROVE  Ranks'
<1> USE DEF minio, rows, gcs
<1>1. ASSUME UNCHANGED born,
             \A d \in Deps : Exists(d)' => Exists(d),
             \A o \in Deploys : opPc'[o] \in Early => opPc[o] \in Early
      PROVE  Ranks'
  BY <1>1 DEF Ranks
<1>2. ASSUME NEW o \in Deploys, InsertRow(o) PROVE Ranks'
  <2> DEFINE made == {d \in Deps : born[d] # 0}
             n == Cardinality(made)
  <2>1. o \in Deps /\ o \in Ops
    BY DEF Deps, Ops
  <2>2. born[o] = 0 /\ opPc[o] = "insert"
    BY <1>2 DEF InsertRow, OpMove, Ranks, Early
  <2>3. IsFiniteSet(made) /\ n \in Nat
    BY BornCount
  <2>4. born' = [born EXCEPT ![o] = n + 1]
    BY <1>2 DEF InsertRow
  <2>5. \A d \in Deps : born[d] \in Nat /\ born[d] <= n
    BY DEF GcTypeOK, Ranks
  <2>6. \A d \in Deps : (d \in made <=> born[d] # 0)
    OBVIOUS
  <2> DEFINE m == {d \in Deps : born'[d] # 0}
  <2>7. m = made \cup {o}
    <3> HIDE DEF n
    <3>1. \A d \in Deps : born'[d] = IF d = o THEN n + 1 ELSE born[d]
      BY <2>1, <2>4 DEF GcTypeOK
    <3> QED BY <2>1, <2>3, <2>6, <3>1
  <2>8. Cardinality(m) = n + 1
    <3>1. o \notin made
      BY <2>2
    <3> QED BY <2>3, <2>7, <3>1, FS_AddElement
  <2> HIDE DEF m, n, made
  <2>9. \A d \in Deps : born'[d] = IF d = o THEN n + 1 ELSE born[d]
    BY <2>1, <2>4 DEF GcTypeOK
  <2>10. \A d \in Deps : born'[d] <= n + 1
    BY <2>3, <2>5, <2>9
  <2>11. \A d, e \in Deps : born'[d] = born'[e] /\ born'[d] # 0 => d = e
    BY <2>3, <2>5, <2>9 DEF Ranks
  <2>12. \A d \in Deps : Exists(d)' => born'[d] # 0
    BY <1>2, <2>1, <2>3, <2>9 DEF InsertRow, Ranks, Exists, GcTypeOK
  <2>13. \A p \in Deploys : opPc'[p] \in Early => born'[p] = 0
    BY <1>2, <2>1, <2>9 DEF InsertRow, OpMove, OpGoto, Ranks, GcTypeOK, Early, Deps, Ops
  <2> QED BY <2>8, <2>10, <2>11, <2>12, <2>13 DEF Ranks, m
<1>3. ASSUME NEW o \in Deploys, OpStep(o), ~InsertRow(o) PROVE Ranks'
  <2>1. UNCHANGED <<born, depRow>>
    BY <1>3 DEF OpStep, BeginUpload, UploadBlobs, ReadSources, BeginBuild, StoreSelect,
                StorePut, StoreRow, StoreDone, InsertTree, Fail
  <2>2. o \in Ops /\ \A p \in Deploys : p \in Ops
    BY DEF Ops
  <2>3. \A p \in Deploys : opPc'[p] \in Early => opPc[p] \in Early
    BY <1>3, <2>2 DEF OpStep, BeginUpload, UploadBlobs, ReadSources, BeginBuild, StoreSelect,
                StorePut, StoreRow, StoreDone, InsertTree, Fail, MayBegin, OpMove, OpGoto,
                Early, GcTypeOK
  <2> QED BY <1>1, <2>1, <2>3 DEF Exists
<1>4. ASSUME NEW o \in Ops, TargetStep(o) PROVE Ranks'
  <2>1. UNCHANGED born
    BY <1>4 DEF TargetStep, BeginRollback, PutManifest, RecordManifest, Activate, ThrowOp,
                Settle, Fail
  <2>2. \A d \in Deps : Exists(d)' => Exists(d)
    <3>1. CASE Activate(o)
      BY <3>1 DEF Activate, Fail, Exists
    <3>2. CASE ~Activate(o)
      BY <1>4, <3>2 DEF TargetStep, BeginRollback, PutManifest, RecordManifest, ThrowOp,
                        Settle, Fail, Exists
    <3> QED BY <3>1, <3>2
  <2>3. \E s \in {"manifest", "record", "activate", "done", "adrift"} : OpGoto(o, s)
    BY <1>4 DEF TargetStep, BeginRollback, PutManifest, RecordManifest, Activate, ThrowOp,
                Settle, Fail, OpMove
  <2>4. \A p \in Deploys : opPc'[p] \in Early => opPc[p] \in Early
    BY <2>3 DEF OpGoto, Early, Ops, GcTypeOK
  <2> QED BY <1>1, <2>1, <2>2, <2>4
<1>5. ASSUME NEW o \in Ops, GcStep(o) PROVE Ranks'
  <2>1. UNCHANGED <<born, opPc>>
    BY <1>5 DEF GcStep, GcSelect, GcCandidates, GcJudge, GcBlobs, GcManifests, GcRows,
                GcThrow, ops
  <2>2. \A d \in Deps : Exists(d)' => Exists(d)
    <3>1. CASE GcRows(o)
      BY <3>1 DEF GcRows, Exists
    <3>2. CASE ~GcRows(o)
      BY <1>5, <3>2 DEF GcStep, GcSelect, GcCandidates, GcJudge, GcBlobs, GcManifests,
                        GcThrow, Exists
    <3> QED BY <3>1, <3>2
  <2> QED BY <1>1, <2>1, <2>2
<1>6. CASE UNCHANGED gcVars
  BY <1>1, <1>6 DEF gcVars, ops, Exists
<1> QED BY <1>2, <1>3, <1>4, <1>5, <1>6 DEF GcNext, Quiescent

LEMMA LeastExists ==
    ASSUME NEW S \in SUBSET Nat, S # {}
    PROVE  \E x \in S : \A y \in S : x <= y
<1>1. PICK x \in S : \A y \in S : ~(<<y, x>> \in OpToRel(<, Nat))
  BY NatLessThanWellFounded, WFMin
<1>2. \A y \in S : ~(y < x)
  BY <1>1 DEF OpToRel
<1> QED BY <1>2

(* Of the inactive deployments of a page, those within the window are at   *)
(* most Retention: all but the oldest of them are newer than it.           *)
LEMMA WindowSize ==
    ASSUME GcTypeOK, Ranks, NEW p
    PROVE  Cardinality(Inactive(p) \ Expired(p)) <= Retention
<1> DEFINE S == Inactive(p)
           K == S \ Expired(p)
           newer(d) == {e \in S : born[e] > born[d]}
<1>1. S \subseteq Deps /\ \A d \in S : born[d] \in Nat /\ born[d] # 0
  BY DEF Inactive, Ranks, Exists, GcTypeOK
<1>2. \A d \in K : ~(Cardinality(newer(d)) >= Retention)
  BY DEF Expired
<1>3. IsFiniteSet(S) /\ IsFiniteSet(K)
  BY <1>1, GcAssumption, FS_Subset
<1>4. CASE K = {}
  <2>1. Cardinality({}) = 0
    BY FS_EmptySet
  <2>2. Cardinality(K) = 0
    BY <1>4, <2>1
  <2> HIDE DEF K
  <2>3. Cardinality(K) <= Retention
    BY <2>2, GcAssumption
  <2> QED BY <2>3 DEF K
<1>5. CASE K # {}
  <2> DEFINE B == {born[d] : d \in K}
  <2>1. B \in SUBSET Nat /\ B # {}
    BY <1>1, <1>5
  <2>2. PICK x \in B : \A y \in B : x <= y
    <3> HIDE DEF B
    <3> QED BY <2>1, LeastExists
  <2>3. PICK k \in K : x = born[k]
    BY <2>2
  <2>4. \A d \in K \ {k} : born[d] > born[k]
    <3> SUFFICES ASSUME NEW d \in K \ {k} PROVE born[d] > born[k]
      OBVIOUS
    <3>1. born[k] <= born[d]
      BY <2>2, <2>3
    <3>2. born[d] # born[k]
      BY <1>1 DEF Ranks
    <3> QED BY <1>1, <3>1, <3>2
  <2>5. K \ {k} \subseteq newer(k)
    BY <2>4
  <2>6. IsFiniteSet(newer(k))
    BY <1>3, FS_Subset
  <2> HIDE DEF S, K, newer
  <2>7. Cardinality(K \ {k}) <= Cardinality(newer(k))
    BY <2>5, <2>6, FS_Subset
  <2>8. Cardinality(K \ {k}) = Cardinality(K) - 1
    BY <1>3, <2>3, FS_RemoveElement
  <2>9. Cardinality(newer(k)) \in Nat /\ Cardinality(K) \in Nat
    BY <1>3, <2>6, FS_CardinalityType
  <2>10. ~(Cardinality(newer(k)) >= Retention)
    BY <1>2, <2>3
  <2>11. Cardinality(K) <= Retention
    BY <2>7, <2>8, <2>9, <2>10, GcAssumption
  <2> QED BY <2>11 DEF K, S
<1> QED BY <1>4, <1>5

(* Which step of which actor removes deployments.                          *)
LEMMA OnlyRowsRemove ==
    ASSUME GcTypeOK, GcNext, NEW d \in Deps, Exists(d), ~Exists(d)'
    PROVE  \E o \in Ops : GcRows(o) /\ d \in expired[o]
<1> USE DEF rows, Exists
<1>1. ASSUME NEW o \in Deploys, OpStep(o) PROVE FALSE
  BY <1>1 DEF OpStep, BeginUpload, UploadBlobs, ReadSources, BeginBuild, StoreSelect,
              StorePut, StoreRow, StoreDone, InsertRow, InsertTree, Fail, GcTypeOK
<1>2. ASSUME NEW o \in Ops, TargetStep(o) PROVE FALSE
  BY <1>2 DEF TargetStep, BeginRollback, PutManifest, RecordManifest, Activate, ThrowOp,
              Settle, Fail
<1>3. ASSUME NEW o \in Ops, GcStep(o) PROVE GcRows(o) /\ d \in expired[o]
  BY <1>3 DEF GcStep, GcSelect, GcCandidates, GcJudge, GcBlobs, GcManifests, GcRows, GcThrow
<1> QED BY <1>1, <1>2, <1>3 DEF GcNext, Quiescent, gcVars

LEMMA OnlyRowsEnd ==
    ASSUME GcTypeOK, GcNext, NEW o \in Ops, gc[o] = "rows", gc'[o] = "off", depRow' # depRow
    PROVE  GcRows(o) /\ RowsMayGo(o)
<1> USE DEF rows, gcs, minio
<1>1. ASSUME NEW p \in Deploys, OpStep(p) PROVE FALSE
  BY <1>1 DEF OpStep, BeginUpload, UploadBlobs, ReadSources, BeginBuild, StoreSelect,
              StorePut, StoreRow, StoreDone, InsertRow, InsertTree, Fail
<1>2. ASSUME NEW p \in Ops, TargetStep(p) PROVE FALSE
  BY <1>2 DEF TargetStep, BeginRollback, PutManifest, RecordManifest, Activate, ThrowOp,
              Settle, Fail, GcTypeOK
<1>3. ASSUME NEW p \in Ops, GcStep(p) PROVE GcRows(o) /\ RowsMayGo(o)
  <2>1. GcRows(p) /\ RowsMayGo(p)
    BY <1>3 DEF GcStep, GcSelect, GcCandidates, GcJudge, GcBlobs, GcManifests, GcRows, GcThrow
  <2>2. p = o
    BY <2>1 DEF GcRows, GcMove, GcGoto, GcTypeOK
  <2> QED BY <2>1, <2>2
<1> QED BY <1>1, <1>2, <1>3 DEF GcNext, Quiescent, gcVars

Settled == GcTypeOK /\ Consistent /\ Exclusive /\ Ranks

LEMMA SettledAlways == GcSpec => []Settled
<1>1. GcInit => Settled
  BY GcTypeInit, ConsistentInit, SerialInit, RanksInit DEF Settled
<1>2. Settled /\ [GcNext]_gcVars => Settled'
  BY GcStepTyped, ConsistentStep, SoloStep, RanksStep DEF Settled
<1> QED BY <1>1, <1>2, PTL DEF GcSpec

(* Where collectors run alone, each ends its transaction with at most      *)
(* Retention inactive deployments of its page left, whatever ops and       *)
(* collectors failed before: a pass that was cut short is made good by the *)
(* next (runDeploymentGC).                                                 *)
THEOREM WindowIsAll == GcSpec => PrunedToRetention
<1>1. ASSUME Settled, [GcNext]_gcVars, regime.alone, NEW o \in Ops,
             gc[o] = "rows", gc'[o] = "off", depRow' # depRow
      PROVE  Cardinality({d \in Deps : PageOf[d] = PageOf[o] /\ depRow'[d] = "inactive"})
                 <= Retention
  <2>1. GcRows(o) /\ RowsMayGo(o)
    BY <1>1, OnlyRowsEnd DEF Settled, gcVars, rows
  <2>2. expired[o] = Expired(PageOf[o])
    BY <1>1 DEF Settled, Exclusive, Solo, Collecting, GcSteps
  <2>3. \A d \in Deps : depRow'[d] = IF d \in expired[o] THEN "none" ELSE depRow[d]
    BY <2>1 DEF GcRows
  <2>4. {d \in Deps : PageOf[d] = PageOf[o] /\ depRow'[d] = "inactive"}
            = Inactive(PageOf[o]) \ Expired(PageOf[o])
    BY <2>2, <2>3 DEF Inactive
  <2> QED BY <1>1, <2>4, WindowSize DEF Settled
<1>2. Settled /\ [GcNext]_gcVars =>
          (regime.alone => \A o \in Ops : gc[o] = "rows" /\ gc'[o] = "off" /\ depRow' # depRow =>
              Cardinality({d \in Deps : PageOf[d] = PageOf[o] /\ depRow'[d] = "inactive"})
                  <= Retention)
  BY <1>1
<1> QED BY <1>2, SettledAlways, PTL DEF GcSpec, PrunedToRetention

(* Where collectors run alone none of them ever takes what is live: what   *)
(* the collector of the code lacks is being alone (runDeploymentGC is      *)
(* started by every activation and holds no lock).                         *)
THEOREM LiveIsKept ==
    ASSUME \A r \in Regimes : r.alone
    PROVE  GcSpec => ActiveNeverCollected
<1>1. ASSUME Settled, [GcNext]_gcVars, NEW d \in Deps, depRow[d] = "active",
             depRow'[d] = "none"
      PROVE  FALSE
  <2>1. PICK o \in Ops : GcRows(o) /\ d \in expired[o]
    BY <1>1, OnlyRowsRemove DEF Settled, Exists, gcVars, rows
  <2>2. expired[o] = Expired(PageOf[o])
    BY <1>1, <2>1 DEF Settled, GcTypeOK, Exclusive, Solo, Collecting, GcSteps, GcRows, GcMove
  <2> QED BY <1>1, <2>1, <2>2 DEF Expired, Inactive
<1>2. Settled /\ [GcNext]_gcVars =>
          \A d \in Deps : depRow[d] = "active" => depRow'[d] # "none"
  BY <1>1
<1> QED BY <1>2, SettledAlways, PTL DEF GcSpec, ActiveNeverCollected

=============================================================================
