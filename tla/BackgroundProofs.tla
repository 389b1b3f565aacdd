---------------------------- MODULE BackgroundProofs ----------------------------
(***************************************************************************)
(* What goes on behind the requests, whatever dies there: the limit of a   *)
(* tenant's builds, the log of a build on its way to the console, the      *)
(* start of API instances on a database that may lack migrations or their  *)
(* records, and the dumps of that database.                                *)
(***************************************************************************)
EXTENDS BuildQueue, BuildStream, Migrations, Backups, ListProofs, FiniteSetTheorems, SequenceTheorems, TLAPS

-----------------------------------------------------------------------------
(* Builds: their types.                                                    *)

(* A job that may yet be attempted has an attempt left, and one that has   *)
(* not been added has used up none.                                        *)
AttemptLeft ==
    \A b \in Builds : job[b] \in {"waiting", "active"} => attempts[b] < MaxAttempts

Unadded ==
    \A b \in Builds :
        /\ request[b] \in {"insert", "add"} => job[b] = "none"
        /\ job[b] = "none" => attempts[b] = 0

Typed == BuildTypeOK /\ AttemptLeft /\ Unadded

LEMMA TypedInit == BuildInit => Typed
<1> SUFFICES ASSUME BuildInit PROVE Typed
  OBVIOUS
<1>1. dlq \subseteq Builds /\ counter \in Int /\ crashes \in 0..MaxCrashes
  BY BuildConstants DEF BuildInit
<1>2. /\ ttl \in BOOLEAN
      /\ linked \in [Builds -> BOOLEAN]
      /\ holds \in [Builds -> BOOLEAN]
      /\ live \in [Builds -> BOOLEAN]
  BY DEF BuildInit
<1>3. AttemptLeft /\ Unadded
  BY BuildConstants DEF BuildInit, AttemptLeft, Unadded
<1> QED BY <1>1, <1>2, <1>3, BuildConstants DEF BuildInit, Typed, BuildTypeOK, ErrorTypes

(* A step that leaves the request and the job alone.                       *)
LEMMA TypedRest ==
    ASSUME Typed, BuildTypeOK', UNCHANGED <<request, job, attempts>>
    PROVE  Typed'
BY DEF Typed, AttemptLeft, Unadded

LEMMA TypedRequest ==
    ASSUME Typed, NEW b \in Builds, RunRequest(b)
    PROVE  Typed'
<1> USE BuildConstants DEF Typed, BuildTypeOK, AttemptLeft, Unadded, slots
<1>1. CASE InsertBuild(b) BY <1>1 DEF InsertBuild
<1>2. CASE AddJob(b) BY <1>2 DEF AddJob
<1>3. CASE LinkJob(b) BY <1>3 DEF LinkJob
<1> QED BY <1>1, <1>2, <1>3 DEF RunRequest

(* Steps of the worker before its catch block.                             *)
LEMMA TypedTry ==
    ASSUME Typed, NEW b \in Builds,
           \/ Throw(b) \/ Clone(b) \/ AcquireSlot(b) \/ RefuseSlot(b)
           \/ CreateContainer(b) \/ StartContainer(b) \/ EndRun(b) \/ RemoveContainer(b)
           \/ ReleaseSlot(b) \/ Validate(b) \/ Deploy(b) \/ Complete(b)
    PROVE  Typed'
<1> USE BuildConstants DEF Typed, BuildTypeOK, Goto, Raise, queue, slots, Steps, Catch, ErrorTypes
<1>0. UNCHANGED <<request, job, attempts>>
  BY DEF Throw, Fault, Clone, AcquireSlot, RefuseSlot, CreateContainer, StartContainer,
         EndRun, RemoveContainer, ReleaseSlot, Validate, Deploy, Complete
<1>1. CASE Throw(b) BY <1>0, <1>1, TypedRest DEF Throw, Fault, FaultClass
<1>2. CASE Clone(b) BY <1>0, <1>2, TypedRest DEF Clone
<1>3. CASE AcquireSlot(b)
  <2>1. ttl' \in BOOLEAN
    BY <1>3 DEF AcquireSlot, Lease
  <2>2. counter' \in Int
    BY <1>3 DEF AcquireSlot
  <2>3. holds' \in [Builds -> BOOLEAN]
    <3>1. holds' = [holds EXCEPT ![b] = TRUE] \/ holds' = holds
      BY <1>3 DEF AcquireSlot
    <3>2. CASE holds' = [holds EXCEPT ![b] = TRUE]
      BY <3>2
    <3>3. CASE holds' = holds
      BY <3>3
    <3> QED BY <3>1, <3>2, <3>3
  <2>4. pc' \in [Builds -> {"idle"} \cup Steps \cup Catch] /\ error' \in [Builds -> ErrorTypes]
    BY <1>3 DEF AcquireSlot
  <2> QED BY <1>0, <1>3, <2>1, <2>2, <2>3, <2>4, TypedRest DEF AcquireSlot
<1>4. CASE RefuseSlot(b) BY <1>0, <1>4, TypedRest DEF RefuseSlot
<1>5. CASE CreateContainer(b) BY <1>0, <1>5, TypedRest DEF CreateContainer
<1>6. CASE StartContainer(b) BY <1>0, <1>6, TypedRest DEF StartContainer
<1>7. CASE EndRun(b) BY <1>0, <1>7, TypedRest DEF EndRun
<1>8. CASE RemoveContainer(b) BY <1>0, <1>8, TypedRest DEF RemoveContainer
<1>9. CASE ReleaseSlot(b) BY <1>0, <1>9, TypedRest DEF ReleaseSlot, Decrement
<1>10. CASE Validate(b) BY <1>0, <1>10, TypedRest DEF Validate
<1>11. CASE Deploy(b) BY <1>0, <1>11, TypedRest DEF Deploy
<1>12. CASE Complete(b) BY <1>0, <1>12, TypedRest DEF Complete
<1> QED BY <1>1, <1>2, <1>3, <1>4, <1>5, <1>6, <1>7, <1>8, <1>9, <1>10, <1>11, <1>12

(* Its catch block, and what the queue does with the job.                  *)
LEMMA TypedCatch ==
    ASSUME Typed, NEW b \in Builds,
           Kill(b) \/ FreeSlot(b) \/ MarkRow(b) \/ Bury(b)
    PROVE  Typed'
<1> USE BuildConstants DEF Typed, BuildTypeOK, Goto, queue, slots, Steps, Catch, ErrorTypes
<1>0. UNCHANGED <<request, job, attempts>>
  BY DEF Kill, FreeSlot, MarkRow, Bury
<1>1. CASE Kill(b) BY <1>0, <1>1, TypedRest DEF Kill
<1>2. CASE FreeSlot(b) BY <1>0, <1>2, TypedRest DEF FreeSlot, Decrement
<1>3. CASE MarkRow(b) BY <1>0, <1>3, TypedRest DEF MarkRow, Marks
<1>4. CASE Bury(b) BY <1>0, <1>4, TypedRest DEF Bury, AfterBurial
<1> QED BY <1>1, <1>2, <1>3, <1>4

LEMMA TypedJob ==
    ASSUME Typed, NEW b \in Builds, Take(b) \/ Return(b) \/ Rethrow(b)
    PROVE  Typed'
<1> USE BuildConstants DEF Typed, BuildTypeOK, AttemptLeft, Unadded, Goto, At, slots, Steps, Catch
<1>1. CASE Take(b) BY <1>1 DEF Take
<1>2. CASE Return(b) BY <1>2 DEF Return
<1>3. CASE Rethrow(b) BY <1>3 DEF Rethrow, RetryLeft
<1> QED BY <1>1, <1>2, <1>3

LEMMA TypedOutside ==
    ASSUME Typed, CrashWorker \/ LeaseLapse \/ \E b \in Builds : OrphanEnds(b)
    PROVE  Typed'
<1> USE BuildConstants DEF Typed, BuildTypeOK, queue, slots
<1>1. CASE CrashWorker BY <1>1 DEF CrashWorker, Active, AttemptLeft, Unadded
<1>2. CASE LeaseLapse
  <2>1. ttl' \in BOOLEAN
    BY <1>2 DEF LeaseLapse
  <2>2. counter' \in Int
    BY <1>2 DEF LeaseLapse
  <2> QED BY <1>2, <2>1, <2>2, TypedRest DEF LeaseLapse
<1>3. CASE \E b \in Builds : OrphanEnds(b) BY <1>3, TypedRest DEF OrphanEnds
<1> QED BY <1>1, <1>2, <1>3

LEMMA TypedStep == Typed /\ [BuildNext]_buildVars => Typed'
<1> SUFFICES ASSUME Typed, [BuildNext]_buildVars PROVE Typed'
  OBVIOUS
<1>1. CASE UNCHANGED buildVars
  BY <1>1 DEF Typed, BuildTypeOK, AttemptLeft, Unadded, buildVars
<1>2. CASE BuildNext
  BY <1>2, TypedRequest, TypedTry, TypedCatch, TypedJob, TypedOutside DEF BuildNext, RunJob
<1> QED BY <1>1, <1>2

(* Every variable keeps its type; attempts never outrun MaxAttempts.       *)
THEOREM BuildTypeCorrect == BuildSpec => []BuildTypeOK
<1>1. BuildSpec => []Typed
  BY TypedInit, TypedStep, PTL DEF BuildSpec
<1> QED BY <1>1, PTL DEF Typed

-----------------------------------------------------------------------------
(* The limit.  A build uses a slot while the worker holds it for the build *)
(* or the container runs on without a worker; the counter is never below   *)
(* the number of such builds, as long as the lease is not too short.       *)

Using(b) == holds[b] \/ container[b] = "running"
InUse == {b \in Builds : Using(b)}

(* From the slot to its release the worker holds it, and when it is        *)
(* released the container has ended.                                       *)
Rules(b) ==
    /\ pc[b] \in {"create", "start", "run", "remove", "release"} => holds[b]
    /\ pc[b] \in {"remove", "release", "free"} => container[b] # "running"

Attended == \A b \in Builds : Rules(b)
Counted == Cardinality(InUse) <= counter /\ counter <= Limit
Slots == Attended /\ Counted

OthersStay(b) ==
    \A c \in Builds \ {b} :
        pc'[c] = pc[c] /\ holds'[c] = holds[c] /\ container'[c] = container[c]

LEMMA InUseFinite == IsFiniteSet(InUse) /\ Cardinality(InUse) \in Nat
<1>1. InUse \in SUBSET Builds
  BY DEF InUse
<1> QED BY <1>1, BuildConstants, FS_Subset, FS_CardinalityType

LEMMA InUseFiniteNext == IsFiniteSet(InUse') /\ Cardinality(InUse') \in Nat
<1>1. InUse' \in SUBSET Builds
  BY DEF InUse
<1> QED BY <1>1, BuildConstants, FS_Subset, FS_CardinalityType

LEMMA AttendedStep ==
    ASSUME Attended, NEW b \in Builds, OthersStay(b), Rules(b)'
    PROVE  Attended'
BY DEF Attended, OthersStay, Rules

(* The three ways a step treats the counter and the slots in use.          *)
LEMMA KeepsSlots ==
    ASSUME Slots, Typed, counter' = counter, InUse' \subseteq InUse
    PROVE  Counted'
<1>1. Cardinality(InUse') <= Cardinality(InUse)
  BY InUseFinite, FS_Subset
<1> QED BY <1>1, InUseFinite, InUseFiniteNext, BuildConstants
        DEF Slots, Counted, Typed, BuildTypeOK

LEMMA StaysQuiet ==
    ASSUME Slots, Typed, NEW b \in Builds, OthersStay(b), Rules(b)',
           counter' = counter, Using(b)' => Using(b)
    PROVE  Slots'
<1>1. InUse' \subseteq InUse
  BY DEF InUse, Using, OthersStay
<1> QED BY <1>1, KeepsSlots, AttendedStep DEF Slots

LEMMA TakesSlot ==
    ASSUME Slots, Typed, NEW b \in Builds, OthersStay(b), Rules(b)',
           counter < Limit, counter' = counter + 1
    PROVE  Slots'
<1>1. InUse' \subseteq InUse \cup {b}
  BY DEF InUse, Using, OthersStay
<1>2. /\ IsFiniteSet(InUse \cup {b})
      /\ Cardinality(InUse \cup {b}) <= Cardinality(InUse) + 1
      /\ Cardinality(InUse \cup {b}) \in Nat
  <2>1. /\ IsFiniteSet(InUse \cup {b})
        /\ Cardinality(InUse \cup {b}) =
               IF b \in InUse THEN Cardinality(InUse) ELSE Cardinality(InUse) + 1
    BY InUseFinite, FS_AddElement
  <2> QED BY <2>1, InUseFinite
<1>3. Cardinality(InUse') <= Cardinality(InUse \cup {b})
  BY <1>1, <1>2, FS_Subset
<1>4. Cardinality(InUse') <= counter' /\ counter' <= Limit
  BY <1>2, <1>3, InUseFinite, InUseFiniteNext, BuildConstants
     DEF Slots, Counted, Typed, BuildTypeOK
<1> QED BY <1>4, AttendedStep DEF Slots, Counted

LEMMA GivesSlot ==
    ASSUME Slots, Typed, NEW b \in Builds, OthersStay(b), Rules(b)',
           Using(b), ~Using(b)', counter' = counter - 1
    PROVE  Slots'
<1>1. InUse' \subseteq InUse \ {b} /\ b \in InUse
  BY DEF InUse, Using, OthersStay
<1>2. /\ IsFiniteSet(InUse \ {b})
      /\ Cardinality(InUse \ {b}) = Cardinality(InUse) - 1
  BY <1>1, InUseFinite, FS_RemoveElement
<1>3. Cardinality(InUse') <= Cardinality(InUse \ {b})
  BY <1>1, <1>2, FS_Subset
<1>4. Cardinality(InUse') <= counter' /\ counter' <= Limit
  BY <1>2, <1>3, InUseFinite, InUseFiniteNext, BuildConstants
     DEF Slots, Counted, Typed, BuildTypeOK
<1> QED BY <1>4, AttendedStep DEF Slots, Counted

-----------------------------------------------------------------------------
LEMMA SlotsInit == BuildInit => Slots
<1> SUFFICES ASSUME BuildInit PROVE Slots
  OBVIOUS
<1>1. InUse = {}
  BY DEF BuildInit, InUse, Using
<1> QED BY <1>1, FS_EmptySet, BuildConstants DEF BuildInit, Slots, Attended, Rules, Counted

(* A step of another kind than the worker's on b.                          *)
LEMMA SlotsOutside ==
    ASSUME Slots, Typed, NEW b \in Builds, RunRequest(b) \/ OrphanEnds(b)
    PROVE  Slots'
<1> USE DEF Typed, BuildTypeOK, Slots, Attended
<1>1. CASE RunRequest(b)
  <2>1. UNCHANGED <<pc, holds, container, counter>>
    BY <1>1 DEF RunRequest, InsertBuild, AddJob, LinkJob, slots
  <2> QED BY <2>1, StaysQuiet DEF OthersStay, Rules, Using
<1>2. CASE OrphanEnds(b)
  <2>1. OthersStay(b) /\ counter' = counter /\ (Using(b)' => Using(b))
    BY <1>2 DEF OrphanEnds, OthersStay, Using, slots
  <2>2. Rules(b)'
    BY <1>2 DEF OrphanEnds, Rules
  <2> QED BY <2>1, <2>2, StaysQuiet
<1> QED BY <1>1, <1>2

LEMMA SlotsProcess ==
    ASSUME Slots, Typed, ~EarlyLapse, CrashWorker \/ LeaseLapse
    PROVE  Slots'
<1>1. CASE CrashWorker
  <2>1. InUse' \subseteq InUse /\ counter' = counter
    BY <1>1 DEF CrashWorker, InUse, Using, slots
  <2>2. Attended'
    BY <1>1 DEF CrashWorker, Attended, Rules
  <2> QED BY <2>1, <2>2, KeepsSlots DEF Slots
<1>2. CASE LeaseLapse
  <2>1. InUse' = {}
    BY <1>2 DEF LeaseLapse, Outlasted, InUse, Using
  <2>2. Attended'
    BY <1>2 DEF LeaseLapse, Slots, Attended, Rules
  <2>3. counter' = 0
    BY <1>2 DEF LeaseLapse
  <2> QED BY <2>1, <2>2, <2>3, FS_EmptySet, BuildConstants DEF Slots, Counted
<1> QED BY <1>1, <1>2

(* The worker before its catch block.                                      *)
LEMMA SlotsTry ==
    ASSUME Slots, Typed, NEW b \in Builds,
           \/ Take(b) \/ Throw(b) \/ Clone(b) \/ RefuseSlot(b)
           \/ CreateContainer(b) \/ StartContainer(b) \/ EndRun(b) \/ RemoveContainer(b)
           \/ Validate(b) \/ Deploy(b) \/ Complete(b)
    PROVE  Slots'
<1> USE DEF Typed, BuildTypeOK, Slots, Attended, At, Goto, Raise, slots
<1>1. OthersStay(b) /\ counter' = counter
  BY DEF OthersStay, Take, Throw, Fault, Clone, RefuseSlot, CreateContainer,
         StartContainer, EndRun, RemoveContainer, Validate, Deploy, Complete
<1>2. Rules(b)' /\ (Using(b)' => Using(b))
  <2>1. CASE Take(b) BY <2>1 DEF Take, Rules, Using
  <2>2. CASE Throw(b) BY <2>2 DEF Throw, Fault, Rules, Using
  <2>3. CASE Clone(b) BY <2>3 DEF Clone, Rules, Using
  <2>4. CASE RefuseSlot(b) BY <2>4 DEF RefuseSlot, Rules, Using
  <2>5. CASE CreateContainer(b) BY <2>5 DEF CreateContainer, Rules, Using
  <2>6. CASE StartContainer(b) BY <2>6 DEF StartContainer, Rules, Using
  <2>7. CASE EndRun(b) BY <2>7 DEF EndRun, Rules, Using
  <2>8. CASE RemoveContainer(b) BY <2>8 DEF RemoveContainer, Rules, Using
  <2>9. CASE Validate(b) BY <2>9 DEF Validate, Rules, Using
  <2>10. CASE Deploy(b) BY <2>10 DEF Deploy, Rules, Using
  <2>11. CASE Complete(b) BY <2>11 DEF Complete, Rules, Using
  <2> QED BY <2>1, <2>2, <2>3, <2>4, <2>5, <2>6, <2>7, <2>8, <2>9, <2>10, <2>11
<1> QED BY <1>1, <1>2, StaysQuiet

(* Its catch block, and its end, but for the release.                      *)
LEMMA SlotsCatch ==
    ASSUME Slots, Typed, NEW b \in Builds,
           Kill(b) \/ MarkRow(b) \/ Bury(b) \/ Return(b) \/ Rethrow(b)
    PROVE  Slots'
<1> USE DEF Typed, BuildTypeOK, Slots, Attended, At, Goto, slots
<1>1. OthersStay(b) /\ counter' = counter
  BY DEF OthersStay, Kill, MarkRow, Bury, Return, Rethrow
<1>2. Rules(b)' /\ (Using(b)' => Using(b))
  <2>1. CASE Kill(b) BY <2>1 DEF Kill, Rules, Using
  <2>2. CASE MarkRow(b) BY <2>2 DEF MarkRow, Rules, Using
  <2>3. CASE Bury(b) BY <2>3 DEF Bury, AfterBurial, Rules, Using
  <2>4. CASE Return(b) BY <2>4 DEF Return, Rules, Using
  <2>5. CASE Rethrow(b) BY <2>5 DEF Rethrow, Rules, Using
  <2> QED BY <2>1, <2>2, <2>3, <2>4, <2>5
<1> QED BY <1>1, <1>2, StaysQuiet

(* The steps that count.                                                   *)
LEMMA SlotsAcquire ==
    ASSUME Slots, Typed, NEW b \in Builds, AcquireSlot(b)
    PROVE  Slots'
<1> USE DEF Typed, BuildTypeOK, At, Goto, Raise
<1>1. OthersStay(b)
  BY DEF AcquireSlot, OthersStay
<1>2. Rules(b)'
  BY DEF AcquireSlot, Rules
<1>3. counter < Limit /\ counter' = counter + 1
  BY DEF AcquireSlot, SlotFree
<1> QED BY <1>1, <1>2, <1>3, TakesSlot

LEMMA SlotsRelease ==
    ASSUME Slots, Typed, NEW b \in Builds, ReleaseSlot(b) \/ FreeSlot(b)
    PROVE  Slots'
<1> USE DEF Typed, BuildTypeOK, Slots, Attended, At, Goto, slots
<1>1. OthersStay(b)
  BY DEF ReleaseSlot, FreeSlot, OthersStay
<1>2. Rules(b)' /\ ~Using(b)'
  BY DEF ReleaseSlot, FreeSlot, Rules, Using
<1>3. CASE counter' = counter
  BY <1>1, <1>2, <1>3, StaysQuiet
<1>4. CASE counter' # counter
  <2>1. holds[b] /\ counter' = counter - 1
    BY <1>4 DEF ReleaseSlot, FreeSlot, MustRelease, Decrement, Rules
  <2> QED BY <1>1, <1>2, <2>1, GivesSlot DEF Using
<1> QED BY <1>3, <1>4

LEMMA SlotsStep ==
    ASSUME Slots, Typed, ~EarlyLapse, [BuildNext]_buildVars
    PROVE  Slots'
<1>1. CASE UNCHANGED buildVars
  BY <1>1 DEF buildVars, Slots, Attended, Rules, Counted, InUse, Using
<1>2. CASE BuildNext
  BY <1>2, SlotsOutside, SlotsProcess, SlotsTry, SlotsCatch, SlotsAcquire, SlotsRelease
     DEF BuildNext, RunJob
<1> QED BY <1>1, <1>2

(* acquireTenantSlot keeps every tenant within its limit, whatever fails   *)
(* or dies, if no build outlasts the lease of the counter.                 *)
THEOREM LimitHolds == ~EarlyLapse /\ BuildSpec => []WithinLimit
<1>1. ASSUME Slots, Typed PROVE WithinLimit
  <2> DEFINE Running == {b \in Builds : container[b] = "running"}
  <2>1. Running \in SUBSET InUse
    BY DEF InUse, Using
  <2>2. Cardinality(Running) <= Cardinality(InUse) /\ Cardinality(Running) \in Nat
    BY <2>1, InUseFinite, FS_Subset, FS_CardinalityType
  <2> HIDE DEF Running
  <2>3. Cardinality(Running) <= Limit
    BY <1>1, <2>2, InUseFinite, BuildConstants DEF Slots, Counted, Typed, BuildTypeOK
  <2> QED BY <2>3 DEF WithinLimit, Running
<1>2. BuildSpec => []Typed
  BY TypedInit, TypedStep, PTL DEF BuildSpec
<1>3. ASSUME ~EarlyLapse PROVE BuildSpec => []WithinLimit
  <2>1. Slots /\ Typed /\ [BuildNext]_buildVars => Slots'
    BY <1>3, SlotsStep
  <2> QED BY <1>1, <1>2, <2>1, SlotsInit, PTL DEF BuildSpec
<1> QED BY <1>3

-----------------------------------------------------------------------------
(* Migrations.                                                             *)

(* Entries are applied from the first on; only what is applied is recorded *)
(* or about to be; and tables without a record are all there or not at     *)
(* all, in the database and in what an instance has found.                 *)
Aligned ==
    /\ \E level \in 0..Newest : applied = 1..level
    /\ recorded \subseteq applied
    /\ ~tracked => applied \in {{}, Journal}
    /\ \A i \in Instances :
        /\ start[i] = "schema" => applied \in {{}, Journal}
        /\ start[i] \in {"create", "up"} => applied = Journal
        /\ toSeed[i] \subseteq applied
        /\ last[i] \in applied \cup {0}

InLine == MigrationTypeOK /\ Aligned

LEMMA InLineInit == MigrationInit => InLine
<1> SUFFICES ASSUME MigrationInit PROVE InLine
  OBVIOUS
<1> USE MigrationConstants DEF MigrationInit, Journal
<1>1. PICK d \in Databases : applied = d.applied /\ recorded = d.recorded /\ tracked = d.tracked
  OBVIOUS
<1>2. tracked \in BOOLEAN
  BY <1>1
<1>3. MigrationTypeOK
  BY <1>1, <1>2 DEF MigrationTypeOK, StartSteps
<1>4. Aligned
  BY <1>1 DEF Aligned
<1> QED BY <1>3, <1>4 DEF InLine

LEMMA InLineRead ==
    ASSUME InLine, NEW i \in Instances,
           Begin(i) \/ FindTracking(i) \/ FindSchema(i) \/ ReadRecords(i) \/ Probe(i) \/ Die(i)
    PROVE  InLine'
<1> USE MigrationConstants
        DEF InLine, MigrationTypeOK, StartSteps, Aligned, From, database, ownState
<1>1. tracked' \in BOOLEAN
  BY DEF Begin, FindTracking, FindSchema, ReadRecords, Probe, Die
<1>2. CASE Begin(i) BY <1>1, <1>2 DEF Begin
<1>3. CASE FindTracking(i) BY <1>1, <1>3 DEF FindTracking
<1>4. CASE FindSchema(i) BY <1>1, <1>4 DEF FindSchema
<1>5. CASE ReadRecords(i) BY <1>1, <1>5 DEF ReadRecords
<1>6. CASE Probe(i)
  <2>1. CASE todo[i] = {}
    BY <1>1, <1>6, <2>1 DEF Probe
  <2>2. CASE todo[i] # {}
    <3> DEFINE e == Min(todo[i])
    <3>1. e \in todo[i]
      BY <2>2, LeastIs DEF Journal
    <3> HIDE DEF e
    <3>2. /\ todo' = [todo EXCEPT ![i] = @ \ {e}]
          /\ toSeed' = [toSeed EXCEPT ![i] = IF AlreadyApplied(e) THEN @ \cup {e} ELSE @]
          /\ UNCHANGED <<applied, recorded, tracked, start, last, deaths>>
      BY <1>6, <2>2 DEF Probe, e
    <3>3. toSeed'[i] \subseteq applied
      BY <3>2 DEF AlreadyApplied
    <3> QED BY <1>1, <3>1, <3>2, <3>3
  <2> QED BY <2>1, <2>2
<1>7. CASE Die(i)
  <2>1. MigrationTypeOK'
    BY <1>1, <1>7 DEF Die
  <2>2. Aligned'
    BY <1>7 DEF Die
  <2> QED BY <2>1, <2>2
<1> QED BY <1>2, <1>3, <1>4, <1>5, <1>6, <1>7

LEMMA InLineRecord ==
    ASSUME InLine, NEW i \in Instances, CreateTracking(i) \/ SeedEntry(i) \/ ReadNewest(i)
    PROVE  InLine'
<1> USE MigrationConstants
        DEF InLine, MigrationTypeOK, StartSteps, Aligned, From, database, ownState, Journal
<1>1. tracked' \in BOOLEAN
  BY DEF CreateTracking, SeedEntry, ReadNewest
<1>2. CASE CreateTracking(i) BY <1>1, <1>2 DEF CreateTracking
<1>3. CASE SeedEntry(i)
  <2>1. CASE toSeed[i] = {}
    BY <1>1, <1>3, <2>1 DEF SeedEntry
  <2>2. CASE toSeed[i] # {}
    <3> DEFINE e == Min(toSeed[i])
    <3>1. e \in toSeed[i]
      BY <2>2, LeastIs
    <3> HIDE DEF e
    <3>2. /\ recorded' = recorded \cup {e}
          /\ toSeed' = [toSeed EXCEPT ![i] = @ \ {e}]
          /\ UNCHANGED <<applied, tracked, todo, last, deaths, start>>
      BY <1>3, <2>2 DEF SeedEntry, e
    <3> QED BY <1>1, <3>1, <3>2
  <2> QED BY <2>1, <2>2
<1>4. CASE ReadNewest(i)
  <2> DEFINE m == Max(recorded \cup {0})
  <2>1. m \in recorded \cup {0}
    <3>1. recorded \cup {0} \in SUBSET (0..Newest) /\ recorded \cup {0} # {}
      OBVIOUS
    <3> QED BY <3>1, GreatestExists
  <2> HIDE DEF m
  <2>2. /\ tracked' = TRUE /\ last' = [last EXCEPT ![i] = m]
        /\ start' = [start EXCEPT ![i] = "run"]
        /\ UNCHANGED <<applied, recorded, todo, toSeed, deaths>>
    BY <1>4 DEF ReadNewest, m
  <2>3. MigrationTypeOK'
    BY <1>1, <2>1, <2>2
  <2>4. Aligned'
    BY <2>1, <2>2
  <2> QED BY <2>3, <2>4
<1> QED BY <1>2, <1>3, <1>4

(* What the migrator runs on top of a prefix makes it the whole journal.   *)
LEMMA InLineRun ==
    ASSUME InLine, NEW i \in Instances, RunMissing(i)
    PROVE  InLine'
<1> USE MigrationConstants
        DEF InLine, MigrationTypeOK, StartSteps, Aligned, From, ownState, Journal
<1> DEFINE missing == {e \in Journal : e > last[i]}
<1>1. tracked' \in BOOLEAN
  BY DEF RunMissing
<1>2. CASE missing \cap applied = {}
  <2>1. /\ applied' = applied \cup missing /\ recorded' = recorded \cup missing
        /\ start' = [start EXCEPT ![i] = "up"]
        /\ UNCHANGED <<tracked, todo, toSeed, last, deaths>>
    BY <1>2 DEF RunMissing
  <2>2. applied' = Journal
    <3>1. PICK level \in 0..Newest : applied = 1..level
      OBVIOUS
    <3>2. last[i] \in 0..level
      BY <3>1
    <3>3. Journal \subseteq applied \cup missing
      BY <3>1, <3>2
    <3> QED BY <2>1, <3>3
  <2>3. MigrationTypeOK'
    BY <1>1, <2>1
  <2>4. Aligned'
    <3>1. \E level \in 0..Newest : applied' = 1..level
      BY <2>2
    <3>2. recorded' \subseteq applied' /\ (~tracked' => applied' \in {{}, Journal})
      BY <2>1, <2>2
    <3> SUFFICES ASSUME NEW j \in Instances
                 PROVE  toSeed'[j] \subseteq applied' /\ last'[j] \in applied' \cup {0}
      BY <2>2, <3>1, <3>2
    <3> QED BY <2>1
  <2> QED BY <2>3, <2>4
<1>3. CASE missing \cap applied # {}
  <2>1. /\ start' = [start EXCEPT ![i] = "down"]
        /\ UNCHANGED <<applied, recorded, tracked, todo, toSeed, last, deaths>>
    BY <1>3 DEF RunMissing
  <2> QED BY <1>1, <2>1
<1> QED BY <1>2, <1>3

LEMMA InLineStep == InLine /\ [MigrationNext]_migrationVars => InLine'
<1> SUFFICES ASSUME InLine, [MigrationNext]_migrationVars PROVE InLine'
  OBVIOUS
<1>1. CASE UNCHANGED migrationVars
  BY <1>1 DEF migrationVars, InLine, MigrationTypeOK, Aligned
<1>2. CASE MigrationNext
  BY <1>2, InLineRead, InLineRecord, InLineRun DEF MigrationNext, StartUp
<1> QED BY <1>1, <1>2

(* The journal, its records and the place each start has come to keep      *)
(* their types.                                                            *)
THEOREM MigrationTypeCorrect == MigrationSpec => []MigrationTypeOK
<1>1. InLine => MigrationTypeOK
  BY DEF InLine
<1> QED BY <1>1, InLineInit, InLineStep, PTL DEF MigrationSpec

(* No instance listens on a database that lacks a migration, for any       *)
(* journal, any number of instances that start at once and any deaths.     *)
THEOREM ListensOnWhole == MigrationSpec => []ListensMigrated
<1>1. InLine => ListensMigrated
  BY DEF InLine, Aligned, ListensMigrated
<1> QED BY <1>1, InLineInit, InLineStep, PTL DEF MigrationSpec

-----------------------------------------------------------------------------
(* The dumps.                                                              *)

(* A database without rows is never dumped, so none is restored; the dump  *)
(* that a cycle has stored is the last, and is not old when it prunes.     *)
Safe ==
    /\ BackupTypeOK /\ Len(dumps) > 0
    /\ dumped # "tables" /\ hand # "tables"
    /\ \A i \in 1..Len(dumps) : dumps[i].kind # "tables"
    /\ loop = "dump" => contents # "tables"
    /\ loop = "prune" => dumps[Len(dumps)].at = now

LEMMA SafeInit == BackupInit => Safe
<1> SUFFICES ASSUME BackupInit PROVE Safe
  OBVIOUS
<1> DEFINE first == [kind |-> "whole", at |-> 0]
<1>1. first \in Dump /\ first.kind = "whole"
  BY DEF Dump, Kinds
<1>2. dumps = <<first>>
  BY DEF BackupInit
<1> HIDE DEF first
<1>3. dumps \in Seq(Dump) /\ Len(dumps) = 1 /\ dumps[1] = first
  BY <1>1, <1>2
<1>4. \A i \in 1..Len(dumps) : dumps[i].kind # "tables"
  BY <1>1, <1>3
<1>5. /\ contents = "whole" /\ services \in BOOLEAN /\ loop = "sleep" /\ dumped = "whole"
      /\ now = 0 /\ restore = "idle" /\ stack \in BOOLEAN /\ hand = "whole" /\ losses = 0
  BY DEF BackupInit
<1>6. BackupTypeOK
  BY <1>3, <1>5 DEF BackupTypeOK, Contents, LoopSteps, RestoreSteps, Kinds
<1> QED BY <1>3, <1>4, <1>5, <1>6 DEF Safe

(* A step that stores and prunes nothing.                                  *)
LEMMA SafeStays ==
    ASSUME Safe, dumps' = dumps,
           contents' \in Contents, services' \in BOOLEAN, loop' \in LoopSteps \ {"prune"} \/ UNCHANGED <<loop, now>>,
           dumped' \in Kinds \ {"tables"}, now' \in Nat, restore' \in RestoreSteps, stack' \in BOOLEAN,
           hand' \in Kinds \ {"tables"}, losses' \in Nat,
           loop' = "dump" => contents' # "tables"
    PROVE  Safe'
BY DEF Safe, BackupTypeOK, LoopSteps

LEMMA SafeLoop ==
    ASSUME Safe, BeginCycle \/ CheckRows \/ TakeDump \/ Tick \/ LoopDies
    PROVE  Safe'
<1> USE DEF Contents, HasRows, Kinds, LoopSteps, RestoreSteps, loopVars, restoreVars
<1>1. CASE BeginCycle BY <1>1, SafeStays DEF BeginCycle, Safe, BackupTypeOK
<1>2. CASE CheckRows BY <1>2, SafeStays DEF CheckRows, Loop, WorthADump, Safe, BackupTypeOK
<1>3. CASE TakeDump BY <1>3, SafeStays DEF TakeDump, Loop, Safe, BackupTypeOK
<1>4. CASE Tick BY <1>4, SafeStays DEF Tick, Safe, BackupTypeOK
<1>5. CASE LoopDies BY <1>5, SafeStays DEF LoopDies, EndRestore, Safe, BackupTypeOK
<1> QED BY <1>1, <1>2, <1>3, <1>4, <1>5

LEMMA SafePut == ASSUME Safe, PutDump PROVE Safe'
<1>1. CASE Loop("put", "sleep") /\ UNCHANGED dumps
  BY <1>1, SafeStays DEF PutDump, Loop, restoreVars, Safe, BackupTypeOK, Kinds, LoopSteps
<1>2. CASE Loop("put", "prune") /\ dumps' = Append(dumps, [kind |-> dumped, at |-> now])
  <2> DEFINE taken == [kind |-> dumped, at |-> now]
  <2>1. taken \in Dump /\ taken.kind # "tables" /\ taken.at = now /\ dumps \in Seq(Dump)
    BY DEF Safe, BackupTypeOK, Dump
  <2>2. dumps' = Append(dumps, taken)
    BY <1>2
  <2> HIDE DEF taken
  <2>3. /\ dumps' \in Seq(Dump) /\ Len(dumps') = Len(dumps) + 1 /\ dumps'[Len(dumps')] = taken
        /\ \A i \in 1..Len(dumps) : dumps'[i] = dumps[i]
    BY <2>1, <2>2
  <2>4. \A i \in 1..Len(dumps') : dumps'[i].kind # "tables"
    <3>1. \A i \in 1..Len(dumps') : i \in 1..Len(dumps) \/ i = Len(dumps')
      BY <2>1, <2>3
    <3> QED BY <2>1, <2>3, <3>1 DEF Safe
  <2>5. Len(dumps') > 0
    BY <2>1, <2>3
  <2>6. /\ dumped' = "whole" /\ loop' = "prune" /\ UNCHANGED <<contents, services, now, restoreVars, losses>>
    BY <1>2 DEF PutDump, Loop
  <2> QED BY <2>1, <2>3, <2>4, <2>5, <2>6 DEF Safe, BackupTypeOK, restoreVars, Kinds, LoopSteps
<1> QED BY <1>1, <1>2 DEF PutDump

LEMMA SafePrune == ASSUME Safe, PruneDumps PROVE Safe'
<1> DEFINE m == Len(dumps)
<1>1. PICK n \in 0..m : /\ \A i \in 1..n : ~Kept(dumps[i])
                        /\ dumps' = SubSeq(dumps, n + 1, m)
  BY DEF PruneDumps
<1>2. dumps \in Seq(Dump) /\ m \in Nat /\ m > 0 /\ dumps[m].at = now /\ now \in Nat
  BY DEF Safe, BackupTypeOK, PruneDumps, Loop
<1>3. Kept(dumps[m])
  BY <1>2, BackupConstants DEF Kept
<1>4. n < m
  BY <1>1, <1>2, <1>3
<1>5. /\ dumps' \in Seq(Dump) /\ Len(dumps') = m - n
      /\ \A i \in 1..Len(dumps') : dumps'[i] = dumps[n + i] /\ n + i \in 1..m
  BY <1>1, <1>2, <1>4
<1>6. /\ loop' = "sleep" /\ UNCHANGED <<contents, services, dumped, now, restoreVars, losses>>
  BY DEF PruneDumps, Loop
<1> HIDE DEF m
<1>7. \A i \in 1..Len(dumps') : dumps'[i].kind # "tables"
  BY <1>5 DEF Safe, m
<1>8. Len(dumps') > 0
  BY <1>1, <1>2, <1>4, <1>5
<1> QED BY <1>5, <1>6, <1>7, <1>8 DEF Safe, BackupTypeOK, restoreVars, LoopSteps

LEMMA SafeRestore ==
    ASSUME Safe, RestoreByHand \/ RestoreStack \/ FetchLatest \/ DropDatabase \/ BeginLoad \/ EndLoad \/ FailRestore
    PROVE  Safe'
<1> USE DEF Contents, Kinds, LoopSteps, RestoreSteps, loopVars, RestoreTo, EndRestore
<1>1. CASE RestoreByHand BY <1>1, SafeStays DEF RestoreByHand, Safe, BackupTypeOK
<1>2. CASE RestoreStack BY <1>2, SafeStays DEF RestoreStack, Safe, BackupTypeOK
<1>3. CASE FetchLatest
  <2>1. dumps[Len(dumps)] \in Dump /\ dumps[Len(dumps)].kind # "tables"
    BY DEF Safe, BackupTypeOK
  <2>2. hand' \in Kinds \ {"tables"}
    BY <1>3, <2>1 DEF FetchLatest, Dump
  <2> QED BY <1>3, <2>2, SafeStays DEF FetchLatest, Safe, BackupTypeOK
<1>4. CASE DropDatabase BY <1>4, SafeStays DEF DropDatabase, Safe, BackupTypeOK
<1>5. CASE BeginLoad BY <1>5, SafeStays DEF BeginLoad, Safe, BackupTypeOK
<1>6. CASE EndLoad
  <2>1. services' \in BOOLEAN
    BY <1>6, Zenon DEF EndLoad
  <2>2. contents' \in Contents \ {"tables"}
    BY <1>6 DEF EndLoad, Loaded, Safe, BackupTypeOK
  <2> QED BY <1>6, <2>1, <2>2, SafeStays DEF EndLoad, Safe, BackupTypeOK
<1>7. CASE FailRestore BY <1>7, SafeStays DEF FailRestore, Safe, BackupTypeOK
<1> QED BY <1>1, <1>2, <1>3, <1>4, <1>5, <1>6, <1>7

LEMMA SafeServices ==
    ASSUME Safe, SwitchServices \/ SetUp \/ SignUp \/ LoseVolume
    PROVE  Safe'
<1> USE DEF Contents, LoopSteps, RestoreSteps, loopVars, restoreVars
<1>1. CASE SwitchServices
  <2>1. services' \in BOOLEAN
    BY <1>1, Zenon DEF SwitchServices
  <2> QED BY <1>1, <2>1, SafeStays DEF SwitchServices, Safe, BackupTypeOK
<1>2. CASE SetUp BY <1>2, SafeStays DEF SetUp, Safe, BackupTypeOK
<1>3. CASE SignUp BY <1>3, SafeStays DEF SignUp, Safe, BackupTypeOK
<1>4. CASE LoseVolume BY <1>4, SafeStays DEF LoseVolume, Safe, BackupTypeOK
<1> QED BY <1>1, <1>2, <1>3, <1>4

LEMMA SafeStep == Safe /\ [BackupNext]_backupVars => Safe'
<1> SUFFICES ASSUME Safe, [BackupNext]_backupVars PROVE Safe'
  OBVIOUS
<1>1. CASE UNCHANGED backupVars
  BY <1>1 DEF Safe, BackupTypeOK, backupVars, loopVars, restoreVars
<1> QED BY <1>1, SafeLoop, SafePut, SafePrune, SafeRestore, SafeServices DEF BackupNext

(* The database, the loop, the restore and the stored dumps are well typed *)
(* whatever is lost.                                                       *)
THEOREM BackupTypeCorrect == BackupSpec => []BackupTypeOK
<1>1. Safe => BackupTypeOK
  BY DEF Safe
<1> QED BY <1>1, SafeInit, SafeStep, PTL DEF BackupSpec

(* The dump that a restore would fetch is one of the whole database, for   *)
(* any retention and any number of losses, unless a dump was spoilt.       *)
THEOREM LatestStaysWhole == BackupSpec => []LatestIsWhole
<1>1. Safe => LatestIsWhole
  <2> SUFFICES ASSUME Safe, Unspoilt
               PROVE  Len(dumps) > 0 /\ dumps[Len(dumps)].kind = "whole"
    BY DEF LatestIsWhole
  <2>1. Len(dumps) \in 1..Len(dumps) /\ dumps[Len(dumps)] \in Dump
    BY DEF Safe, BackupTypeOK
  <2>2. /\ dumps[Len(dumps)].kind \in Kinds
        /\ dumps[Len(dumps)].kind \notin {"tables", "half", "other", "cut"}
    BY <2>1 DEF Safe, Unspoilt, Dump
  <2> QED BY <2>2 DEF Safe, Kinds
<1> QED BY <1>1, SafeInit, SafeStep, PTL DEF BackupSpec

-----------------------------------------------------------------------------
(* What is on its way: perhaps the line feeds of an event that was used,   *)
(* then whole events.                                                      *)
Framed(r, h, pl) ==
    /\ Len(r) = h + 4 * Len(pl)
    /\ \A i \in 1..h : r[i] = LF
    /\ \A k \in 1..Len(pl) : /\ r[h + 4 * k - 3] = DATA /\ r[h + 4 * k - 2] = pl[k]
                             /\ r[h + 4 * k - 1] = LF /\ r[h + 4 * k] = LF

Bytes == -1..Broken
Items == 1..Broken

(* Where in an event a byte is.                                            *)
LEMMA Position ==
    ASSUME NEW h \in {0, 2}, NEW n \in Nat, NEW i \in 1..(h + 4 * n)
    PROVE  \/ i \in 1..h
           \/ \E k \in 1..n : i = h + 4 * k - 3 \/ i = h + 4 * k - 2 \/ i = h + 4 * k - 1 \/ i = h + 4 * k
<1> SUFFICES ASSUME ~(i \in 1..h)
             PROVE \E k \in 1..n : i = h + 4 * k - 3 \/ i = h + 4 * k - 2 \/ i = h + 4 * k - 1 \/ i = h + 4 * k
  OBVIOUS
<1> DEFINE k == (i - h + 3) \div 4
<1>1. k \in 1..n /\ (i = h + 4 * k - 3 \/ i = h + 4 * k - 2 \/ i = h + 4 * k - 1 \/ i = h + 4 * k)
  OBVIOUS
<1> QED BY <1>1

LEMMA FramedBytes ==
    ASSUME NEW h \in {0, 2}, NEW pl \in Seq(Items), NEW r \in Seq(Bytes), Framed(r, h, pl)
    PROVE  /\ \A i \in 1..Len(r) : r[i] > 0 <=> \E k \in 1..Len(pl) : i = h + 4 * k - 2
           /\ \A i \in 1..(Len(r) - 1) : r[i] = LF /\ r[i + 1] = LF =>
                 (i = 1 /\ h = 2) \/ \E k \in 1..Len(pl) : i = h + 4 * k - 1
<1>1. Len(pl) \in Nat /\ Len(r) = h + 4 * Len(pl) /\ \A k \in 1..Len(pl) : pl[k] > 0
  <2>1. \A k \in 1..Len(pl) : pl[k] \in Items
    OBVIOUS
  <2> QED BY <2>1 DEF Framed, Items
<1>2. ASSUME NEW i \in 1..Len(r) PROVE r[i] > 0 <=> \E k \in 1..Len(pl) : i = h + 4 * k - 2
  <2>1. CASE i \in 1..h
    <3>1. ~(r[i] > 0)
      BY <2>1 DEF Framed, LF
    <3>2. \A k \in 1..Len(pl) : i # h + 4 * k - 2
      BY <2>1, <1>1
    <3> QED BY <3>1, <3>2
  <2>2. ASSUME NEW k \in 1..Len(pl), i = h + 4 * k - 2 PROVE r[i] > 0
    BY <1>1, <2>2 DEF Framed
  <2>3. ASSUME NEW k \in 1..Len(pl), i = h + 4 * k - 3 \/ i = h + 4 * k - 1 \/ i = h + 4 * k
        PROVE  ~(r[i] > 0) /\ \A l \in 1..Len(pl) : i # h + 4 * l - 2
    <3>1. r[i] = DATA \/ r[i] = LF
      BY <2>3 DEF Framed
    <3>2. \A l \in 1..Len(pl) : i # h + 4 * l - 2
      BY <1>1, <2>3
    <3> QED BY <3>1, <3>2 DEF DATA, LF
  <2>4. i \in 1..(h + 4 * Len(pl))
    BY <1>1
  <2>5. \/ i \in 1..h
        \/ \E k \in 1..Len(pl) : i = h + 4 * k - 3 \/ i = h + 4 * k - 2 \/ i = h + 4 * k - 1 \/ i = h + 4 * k
    BY <1>1, <2>4, Position
  <2> QED BY <2>1, <2>2, <2>3, <2>5
<1>3. ASSUME NEW i \in 1..(Len(r) - 1), r[i] = LF, r[i + 1] = LF
      PROVE  (i = 1 /\ h = 2) \/ \E k \in 1..Len(pl) : i = h + 4 * k - 1
  <2>0. i \in 1..(h + 4 * Len(pl))
    BY <1>1
  <2>1. CASE i \in 1..h
    <3>1. i = 2 => Len(pl) # 0 /\ r[i + 1] = DATA
      <4> SUFFICES ASSUME i = 2 PROVE Len(pl) # 0 /\ r[i + 1] = DATA
        OBVIOUS
      <4>1. h = 2 /\ 1 \in 1..Len(pl) /\ i + 1 = h + 4 * 1 - 3
        BY <1>1, <2>1
      <4> QED BY <4>1 DEF Framed
    <3> QED BY <1>3, <2>1, <3>1 DEF LF, DATA
  <2>2. ASSUME NEW k \in 1..Len(pl), i = h + 4 * k - 3 PROVE FALSE
    BY <1>3, <2>2 DEF Framed, LF, DATA
  <2>3. ASSUME NEW k \in 1..Len(pl), i = h + 4 * k - 2 PROVE FALSE
    <3>1. r[i] = pl[k] /\ pl[k] > 0
      BY <1>1, <2>3 DEF Framed
    <3> QED BY <1>3, <3>1 DEF LF
  <2>4. ASSUME NEW k \in 1..Len(pl), i = h + 4 * k PROVE FALSE
    <3>1. k + 1 \in 1..Len(pl) /\ i + 1 = h + 4 * (k + 1) - 3
      BY <1>1, <2>4
    <3>2. r[i + 1] = DATA
      BY <3>1 DEF Framed
    <3> QED BY <1>3, <3>2 DEF LF, DATA
  <2>5. \/ i \in 1..h
        \/ \E k \in 1..Len(pl) : i = h + 4 * k - 3 \/ i = h + 4 * k - 2 \/ i = h + 4 * k - 1 \/ i = h + 4 * k
    BY <1>1, <2>0, Position
  <2> QED BY <2>1, <2>2, <2>3, <2>4, <2>5
<1> QED BY <1>2, <1>3

(* The payloads in a text that begins with what is on its way.             *)
LEMMA PayloadsOf ==
    ASSUME NEW h \in {0, 2}, NEW pl \in Seq(Items), NEW r \in Seq(Bytes), Framed(r, h, pl),
           NEW c \in 0..Len(r), NEW q \in 0..Len(pl), h + 4 * q - 2 <= c, c < h + 4 * q + 2
    PROVE  Payloads(SubSeq(r, 1, c)) = SubSeq(pl, 1, q)
<1> DEFINE s == SubSeq(r, 1, c)
           I == {i \in 2..Len(s) : s[i] > 0 /\ s[i - 1] = DATA}
           g == [k \in 1..q |-> h + 4 * k - 2]
<1>0. Len(r) \in Nat /\ Len(pl) \in Nat /\ c \in Nat /\ q \in Nat /\ Len(r) = h + 4 * Len(pl)
  BY DEF Framed
<1>1. s \in Seq(Bytes) /\ Len(s) = c /\ \A i \in 1..c : s[i] = r[i]
  BY <1>0
<1>2. \A k \in 1..q : /\ g[k] \in 2..c /\ k \in 1..Len(pl) /\ g[k] = h + 4 * k - 2
                      /\ g[k] - 1 = h + 4 * k - 3 /\ g[k] - 1 \in 1..c /\ g[k] \in 1..c
  BY <1>0
<1> HIDE DEF s
<1>3. \A k \in 1..q : s[g[k]] = pl[k] /\ s[g[k]] > 0 /\ s[g[k] - 1] = DATA
  <2> SUFFICES ASSUME NEW k \in 1..q PROVE s[g[k]] = pl[k] /\ s[g[k]] > 0 /\ s[g[k] - 1] = DATA
    OBVIOUS
  <2>1. r[h + 4 * k - 2] = pl[k] /\ r[h + 4 * k - 3] = DATA /\ pl[k] \in Items
    BY <1>2 DEF Framed
  <2> QED BY <1>1, <1>2, <2>1 DEF Items
<1>4. \A i \in I : \E k \in 1..q : g[k] = i
  <2> SUFFICES ASSUME NEW i \in I PROVE \E k \in 1..q : g[k] = i
    OBVIOUS
  <2>1. i \in 1..Len(r) /\ i <= c /\ r[i] > 0
    BY <1>0, <1>1
  <2>2. PICK k \in 1..Len(pl) : i = h + 4 * k - 2
    BY <2>1, FramedBytes
  <2>3. k \in 1..q
    BY <1>0, <2>1, <2>2
  <2> QED BY <2>2, <2>3
<1>5. Enumerates(g, q, Len(s), I)
  <2>1. \A k \in 1..q : g[k] \in 1..Len(s) /\ g[k] \in I
    BY <1>1, <1>2, <1>3
  <2>2. \A j, k \in 1..q : j < k => g[j] < g[k]
    BY <1>0
  <2> QED BY <1>4, <2>1, <2>2 DEF Enumerates
<1>6. /\ Picked(s, I) \in Seq(Bytes) /\ Len(Picked(s, I)) = q
      /\ \A k \in 1..q : Picked(s, I)[k] = pl[k]
  <2> HIDE DEF g, I
  <2> QED BY <1>0, <1>1, <1>3, <1>5, PickedIs
<1>7. /\ SubSeq(pl, 1, q) \in Seq(Items) /\ Len(SubSeq(pl, 1, q)) = q
      /\ \A k \in 1..q : SubSeq(pl, 1, q)[k] = pl[k]
  <2>1. \A k \in 1..q : 1 + k - 1 = k
    BY <1>0
  <2>2. 1 <= q + 1 /\ q <= Len(pl) /\ q - 1 + 1 = q
    BY <1>0
  <2> DEFINE x == SubSeq(pl, 1, q)
  <2>3. x \in Seq(Items) /\ Len(x) = q - 1 + 1 /\ \A k \in 1..(q - 1 + 1) : x[k] = pl[1 + k - 1]
    BY <1>0, <2>2, PartOf
  <2> HIDE DEF x
  <2>4. x \in Seq(Items) /\ Len(x) = q /\ \A k \in 1..q : x[k] = pl[k]
    BY <2>1, <2>2, <2>3
  <2> QED BY <2>4 DEF x
<1>8. Picked(s, I) = SubSeq(pl, 1, q)
  <2> DEFINE x == Picked(s, I)
             y == SubSeq(pl, 1, q)
  <2>1. x \in Seq(Bytes) /\ y \in Seq(Items) /\ Len(x) = Len(y) /\ \A k \in 1..Len(x) : x[k] = y[k]
    BY <1>6, <1>7
  <2> HIDE DEF x, y
  <2>2. x = y
    BY <2>1
  <2> QED BY <2>2 DEF x, y
<1> QED BY <1>8 DEF Payloads, s

(* What a chunk cuts off: nothing, or some whole events but the line feeds *)
(* of the last.                                                            *)
LEMMA BoundaryOf ==
    ASSUME NEW h \in {0, 2}, NEW pl \in Seq(Items), NEW r \in Seq(Bytes), Framed(r, h, pl),
           NEW m \in 0..Len(r)
    PROVE  LET b == Boundary(SubSeq(r, 1, m)) IN
           \/ b = 0 \/ b = 1
           \/ \E q \in 1..Len(pl) : b = h + 4 * q - 1 /\ b + 1 <= m
<1> DEFINE s == SubSeq(r, 1, m)
<1>0. Len(r) \in Nat /\ Len(pl) \in Nat /\ m \in Nat /\ Len(r) = h + 4 * Len(pl)
  BY DEF Framed
<1>1. s \in Seq(Bytes) /\ Len(s) = m /\ \A i \in 1..m : s[i] = r[i]
  BY <1>0
<1> HIDE DEF s
<1>2. Boundary(s) \in Boundaries(s) \cup {0}
  <2>1. Boundaries(s) \cup {0} \subseteq 0..m /\ Boundaries(s) \cup {0} # {}
    BY <1>0, <1>1 DEF Boundaries
  <2> QED BY <1>0, <2>1, GreatestExists DEF Boundary
<1>3. ASSUME NEW i \in Boundaries(s)
      PROVE  i = 1 \/ \E q \in 1..Len(pl) : i = h + 4 * q - 1 /\ i + 1 <= m
  <2>1. i \in 1..(Len(r) - 1) /\ i + 1 <= m /\ r[i] = LF /\ r[i + 1] = LF
    BY <1>0, <1>1 DEF Boundaries
  <2> QED BY <2>1, FramedBytes
<1> QED BY <1>2, <1>3 DEF s

LEMMA FramedCut ==
    ASSUME NEW h \in {0, 2}, NEW pl \in Seq(Items), NEW r \in Seq(Bytes), Framed(r, h, pl),
           NEW q \in 1..Len(pl)
    PROVE  \E rest \in Seq(Items) :
              /\ Len(rest) = Len(pl) - q /\ \A k \in 1..Len(rest) : rest[k] = pl[q + k]
              /\ Framed(SubSeq(r, h + 4 * q - 1, Len(r)), 2, rest)
<1> DEFINE a == h + 4 * q - 1
           t == SubSeq(r, a, Len(r))
           rest == SubSeq(pl, q + 1, Len(pl))
<1>0. /\ Len(r) \in Nat /\ Len(pl) \in Nat /\ q \in Nat /\ Len(r) = h + 4 * Len(pl)
      /\ a \in 1..Len(r) /\ a = h + 4 * q - 1 /\ a + 1 <= Len(r)
  BY DEF Framed
<1> HIDE DEF a
<1>1. t \in Seq(Bytes) /\ Len(t) = Len(r) - a + 1 /\ \A i \in 1..Len(t) : t[i] = r[a + i - 1]
  BY <1>0
<1>2. /\ rest \in Seq(Items) /\ Len(rest) = Len(pl) - q
      /\ \A k \in 1..Len(rest) : rest[k] = pl[q + k]
  <2>1. /\ rest \in Seq(Items) /\ Len(rest) = Len(pl) - q
        /\ \A k \in 1..Len(rest) : rest[k] = pl[(q + 1) + k - 1]
    <3>1. q + 1 \in Nat /\ 1 <= q + 1 /\ q + 1 <= Len(pl) + 1 /\ Len(pl) - (q + 1) + 1 = Len(pl) - q
          /\ Len(pl) \in Nat /\ Len(pl) <= Len(pl)
      BY <1>0
    <3>2. /\ rest \in Seq(Items) /\ Len(rest) = Len(pl) - (q + 1) + 1
          /\ \A k \in 1..(Len(pl) - (q + 1) + 1) : rest[k] = pl[(q + 1) + k - 1]
      BY <3>1, PartOf
    <3> HIDE DEF rest
    <3> QED BY <3>1, <3>2
  <2> HIDE DEF rest
  <2> QED BY <1>0, <2>1
<1> HIDE DEF t, rest
<1>3. Len(t) = 2 + 4 * Len(rest)
  BY <1>0, <1>1, <1>2
<1>4. \A i \in 1..2 : t[i] = LF
  <2>1. r[h + 4 * q - 1] = LF /\ r[h + 4 * q] = LF
    BY DEF Framed
  <2>2. 1 \in 1..Len(t) /\ 2 \in 1..Len(t) /\ a + 1 - 1 = h + 4 * q - 1 /\ a + 2 - 1 = h + 4 * q
    BY <1>0, <1>1
  <2>3. t[1] = LF /\ t[2] = LF
    BY <1>1, <2>1, <2>2
  <2> QED BY <2>3
<1>5. ASSUME NEW k \in 1..Len(rest)
      PROVE  /\ t[2 + 4 * k - 3] = DATA /\ t[2 + 4 * k - 2] = rest[k]
             /\ t[2 + 4 * k - 1] = LF /\ t[2 + 4 * k] = LF
  <2>1. q + k \in 1..Len(pl)
    BY <1>0, <1>2
  <2>2. /\ 2 + 4 * k - 3 \in 1..Len(t) /\ a + (2 + 4 * k - 3) - 1 = h + 4 * (q + k) - 3
        /\ 2 + 4 * k - 2 \in 1..Len(t) /\ a + (2 + 4 * k - 2) - 1 = h + 4 * (q + k) - 2
        /\ 2 + 4 * k - 1 \in 1..Len(t) /\ a + (2 + 4 * k - 1) - 1 = h + 4 * (q + k) - 1
        /\ 2 + 4 * k \in 1..Len(t) /\ a + (2 + 4 * k) - 1 = h + 4 * (q + k)
    BY <1>0, <1>2, <1>3
  <2>3. /\ r[h + 4 * (q + k) - 3] = DATA /\ r[h + 4 * (q + k) - 2] = pl[q + k]
        /\ r[h + 4 * (q + k) - 1] = LF /\ r[h + 4 * (q + k)] = LF
    BY <2>1 DEF Framed
  <2> QED BY <1>1, <1>2, <2>2, <2>3
<1>6. Framed(t, 2, rest)
  BY <1>3, <1>4, <1>5 DEF Framed
<1>7. Framed(SubSeq(r, h + 4 * q - 1, Len(r)), 2, rest)
  BY <1>6 DEF t, a
<1> QED BY <1>2, <1>7

LEMMA EventsAre ==
    ASSUME NEW new \in Seq(Items)
    PROVE  /\ Events(new) \in Seq(Bytes) /\ Len(Events(new)) = 4 * Len(new)
           /\ \A k \in 1..Len(new) :
                 /\ Events(new)[4 * k - 3] = DATA /\ Events(new)[4 * k - 2] = new[k]
                 /\ Events(new)[4 * k - 1] = LF /\ Events(new)[4 * k] = LF
<1> DEFINE Nth(i) == Event(new[(i + 3) \div 4])[((i + 3) % 4) + 1]
<1>0. Len(new) \in Nat
  OBVIOUS
<1>1. Events(new) = [i \in 1..(4 * Len(new)) |-> Nth(i)]
  BY DEF Events
<1>2. ASSUME NEW k \in 1..Len(new)
      PROVE  Nth(4 * k - 3) = DATA /\ Nth(4 * k - 2) = new[k] /\ Nth(4 * k - 1) = LF /\ Nth(4 * k) = LF
  <2>1. /\ (4 * k - 3 + 3) \div 4 = k /\ (4 * k - 3 + 3) % 4 = 0
        /\ (4 * k - 2 + 3) \div 4 = k /\ (4 * k - 2 + 3) % 4 = 1
        /\ (4 * k - 1 + 3) \div 4 = k /\ (4 * k - 1 + 3) % 4 = 2
        /\ (4 * k + 3) \div 4 = k /\ (4 * k + 3) % 4 = 3
    BY <1>0
  <2>2. /\ Event(new[k])[1] = DATA /\ Event(new[k])[2] = new[k]
        /\ Event(new[k])[3] = LF /\ Event(new[k])[4] = LF
    BY DEF Event
  <2> QED BY <2>1, <2>2
<1>3. ASSUME NEW i \in 1..(4 * Len(new)) PROVE Nth(i) \in Bytes
  <2>1. \E k \in 1..Len(new) : i = 4 * k - 3 \/ i = 4 * k - 2 \/ i = 4 * k - 1 \/ i = 4 * k
    <3>1. i \in 1..(0 + 4 * Len(new)) /\ ~(i \in 1..0)
      BY <1>0
    <3>2. \E k \in 1..Len(new) : i = 0 + 4 * k - 3 \/ i = 0 + 4 * k - 2 \/ i = 0 + 4 * k - 1 \/ i = 0 + 4 * k
      BY <1>0, <3>1, Position
    <3> QED BY <3>2
  <2>2. \A k \in 1..Len(new) : new[k] \in Items
    OBVIOUS
  <2>3. DATA \in Bytes /\ LF \in Bytes /\ Items \subseteq Bytes
    BY StreamAssumption DEF DATA, LF, Bytes, Items, Broken
  <2> HIDE DEF Nth
  <2> QED BY <1>2, <2>1, <2>2, <2>3
<1>4. \A k \in 1..Len(new) : /\ 4 * k - 3 \in 1..(4 * Len(new)) /\ 4 * k - 2 \in 1..(4 * Len(new))
                             /\ 4 * k - 1 \in 1..(4 * Len(new)) /\ 4 * k \in 1..(4 * Len(new))
  BY <1>0
<1>5. 4 * Len(new) \in Nat
  BY <1>0
<1> HIDE DEF Nth
<1>6. Events(new) \in Seq(Bytes) /\ Len(Events(new)) = 4 * Len(new)
  BY <1>1, <1>3, <1>5
<1>7. \A i \in 1..(4 * Len(new)) : Events(new)[i] = Nth(i)
  BY <1>1
<1> QED BY <1>2, <1>4, <1>6, <1>7

(* The places of the bytes of an event, in a text that is added to.        *)
LEMMA Places ==
    ASSUME NEW h \in {0, 2}, NEW a \in Nat, NEW b \in Nat, NEW R, NEW E,
           R = h + 4 * a, E = 4 * b, NEW k \in 1..(a + b)
    PROVE  /\ h + 4 * k - 3 \in 1..(R + E) /\ h + 4 * k - 2 \in 1..(R + E)
           /\ h + 4 * k - 1 \in 1..(R + E) /\ h + 4 * k \in 1..(R + E)
           /\ k <= a => /\ h + 4 * k - 3 <= R /\ h + 4 * k - 2 <= R
                        /\ h + 4 * k - 1 <= R /\ h + 4 * k <= R
           /\ ~(k <= a) => /\ ~(h + 4 * k - 3 <= R) /\ ~(h + 4 * k - 2 <= R)
                           /\ ~(h + 4 * k - 1 <= R) /\ ~(h + 4 * k <= R)
                           /\ k - a \in 1..b
                           /\ h + 4 * k - 3 - R = 4 * (k - a) - 3 /\ h + 4 * k - 2 - R = 4 * (k - a) - 2
                           /\ h + 4 * k - 1 - R = 4 * (k - a) - 1 /\ h + 4 * k - R = 4 * (k - a)
  OBVIOUS

LEMMA FramedAdd ==
    ASSUME NEW h \in {0, 2}, NEW pl \in Seq(Items), NEW r \in Seq(Bytes), Framed(r, h, pl),
           NEW new \in Seq(Items)
    PROVE  r \o Events(new) \in Seq(Bytes) /\ pl \o new \in Seq(Items)
           /\ Framed(r \o Events(new), h, pl \o new)
<1> DEFINE e == Events(new)
           t == r \o e
           all == pl \o new
<1>0. Len(r) \in Nat /\ Len(pl) \in Nat /\ Len(new) \in Nat /\ Len(r) = h + 4 * Len(pl)
  BY DEF Framed
<1>1. /\ e \in Seq(Bytes) /\ Len(e) = 4 * Len(new)
      /\ \A k \in 1..Len(new) : /\ e[4 * k - 3] = DATA /\ e[4 * k - 2] = new[k]
                                /\ e[4 * k - 1] = LF /\ e[4 * k] = LF
  BY EventsAre
<1> HIDE DEF e
<1>2. /\ t \in Seq(Bytes) /\ Len(t) = Len(r) + Len(e)
      /\ \A i \in 1..(Len(r) + Len(e)) : t[i] = IF i <= Len(r) THEN r[i] ELSE e[i - Len(r)]
  BY <1>1, ConcatProperties
<1>3. /\ all \in Seq(Items) /\ Len(all) = Len(pl) + Len(new)
      /\ \A k \in 1..(Len(pl) + Len(new)) : all[k] = IF k <= Len(pl) THEN pl[k] ELSE new[k - Len(pl)]
  BY ConcatProperties
<1> HIDE DEF t, all
<1>4. Len(t) = h + 4 * Len(all)
  BY <1>0, <1>1, <1>2, <1>3
<1>5. \A i \in 1..h : t[i] = LF
  <2>1. \A i \in 1..h : i \in 1..(Len(r) + Len(e)) /\ i <= Len(r) /\ r[i] = LF
    BY <1>0, <1>1 DEF Framed
  <2> QED BY <1>2, <2>1
<1>6. ASSUME NEW k \in 1..Len(all)
      PROVE  /\ t[h + 4 * k - 3] = DATA /\ t[h + 4 * k - 2] = all[k]
             /\ t[h + 4 * k - 1] = LF /\ t[h + 4 * k] = LF
  <2>0. Len(e) = 4 * Len(new) /\ k \in 1..(Len(pl) + Len(new))
    BY <1>1, <1>3
  <2>1. CASE k <= Len(pl)
    <3>1. k \in 1..Len(pl) /\ all[k] = pl[k]
      BY <1>0, <1>3, <2>0, <2>1
    <3>2. /\ h + 4 * k - 3 \in 1..(Len(r) + Len(e)) /\ h + 4 * k - 3 <= Len(r)
          /\ h + 4 * k - 2 \in 1..(Len(r) + Len(e)) /\ h + 4 * k - 2 <= Len(r)
          /\ h + 4 * k - 1 \in 1..(Len(r) + Len(e)) /\ h + 4 * k - 1 <= Len(r)
          /\ h + 4 * k \in 1..(Len(r) + Len(e)) /\ h + 4 * k <= Len(r)
      BY <1>0, <2>0, <2>1, Places
    <3>3. /\ r[h + 4 * k - 3] = DATA /\ r[h + 4 * k - 2] = pl[k]
          /\ r[h + 4 * k - 1] = LF /\ r[h + 4 * k] = LF
      BY <3>1 DEF Framed
    <3>4. /\ t[h + 4 * k - 3] = r[h + 4 * k - 3] /\ t[h + 4 * k - 2] = r[h + 4 * k - 2]
          /\ t[h + 4 * k - 1] = r[h + 4 * k - 1] /\ t[h + 4 * k] = r[h + 4 * k]
      BY <1>2, <3>2
    <3> QED BY <3>1, <3>3, <3>4
  <2>2. CASE ~(k <= Len(pl))
    <3> DEFINE l == k - Len(pl)
    <3>1. all[k] = new[l]
      BY <1>3, <2>0, <2>2
    <3>2. /\ h + 4 * k - 3 \in 1..(Len(r) + Len(e)) /\ ~(h + 4 * k - 3 <= Len(r))
          /\ h + 4 * k - 2 \in 1..(Len(r) + Len(e)) /\ ~(h + 4 * k - 2 <= Len(r))
          /\ h + 4 * k - 1 \in 1..(Len(r) + Len(e)) /\ ~(h + 4 * k - 1 <= Len(r))
          /\ h + 4 * k \in 1..(Len(r) + Len(e)) /\ ~(h + 4 * k <= Len(r))
          /\ l \in 1..Len(new)
          /\ h + 4 * k - 3 - Len(r) = 4 * l - 3 /\ h + 4 * k - 2 - Len(r) = 4 * l - 2
          /\ h + 4 * k - 1 - Len(r) = 4 * l - 1 /\ h + 4 * k - Len(r) = 4 * l
      BY <1>0, <2>0, <2>2, Places
    <3> HIDE DEF l
    <3>3. /\ e[4 * l - 3] = DATA /\ e[4 * l - 2] = new[l]
          /\ e[4 * l - 1] = LF /\ e[4 * l] = LF
      BY <1>1, <3>2
    <3>4. /\ t[h + 4 * k - 3] = e[h + 4 * k - 3 - Len(r)] /\ t[h + 4 * k - 2] = e[h + 4 * k - 2 - Len(r)]
          /\ t[h + 4 * k - 1] = e[h + 4 * k - 1 - Len(r)] /\ t[h + 4 * k] = e[h + 4 * k - Len(r)]
      <4>1. \A i \in 1..(Len(r) + Len(e)) : ~(i <= Len(r)) => t[i] = e[i - Len(r)]
        BY <1>2
      <4>2. t[h + 4 * k - 3] = e[h + 4 * k - 3 - Len(r)]
        <5> DEFINE i == h + 4 * k - 3
        <5>1. i \in 1..(Len(r) + Len(e)) /\ ~(i <= Len(r))
          BY <3>2
        <5> HIDE DEF i
        <5>2. t[i] = e[i - Len(r)]
          BY <4>1, <5>1
        <5> QED BY <5>2 DEF i
      <4>3. t[h + 4 * k - 2] = e[h + 4 * k - 2 - Len(r)]
        <5> DEFINE i == h + 4 * k - 2
        <5>1. i \in 1..(Len(r) + Len(e)) /\ ~(i <= Len(r))
          BY <3>2
        <5> HIDE DEF i
        <5>2. t[i] = e[i - Len(r)]
          BY <4>1, <5>1
        <5> QED BY <5>2 DEF i
      <4>4. t[h + 4 * k - 1] = e[h + 4 * k - 1 - Len(r)]
        <5> DEFINE i == h + 4 * k - 1
        <5>1. i \in 1..(Len(r) + Len(e)) /\ ~(i <= Len(r))
          BY <3>2
        <5> HIDE DEF i
        <5>2. t[i] = e[i - Len(r)]
          BY <4>1, <5>1
        <5> QED BY <5>2 DEF i
      <4>5. t[h + 4 * k] = e[h + 4 * k - Len(r)]
        <5> DEFINE i == h + 4 * k
        <5>1. i \in 1..(Len(r) + Len(e)) /\ ~(i <= Len(r))
          BY <3>2
        <5> HIDE DEF i
        <5>2. t[i] = e[i - Len(r)]
          BY <4>1, <5>1
        <5> QED BY <5>2 DEF i
      <4> QED BY <4>2, <4>3, <4>4, <4>5
    <3> QED BY <3>1, <3>2, <3>3, <3>4
  <2> QED BY <2>1, <2>2
<1>7. Framed(t, h, all)
  BY <1>4, <1>5, <1>6 DEF Framed
<1> QED BY <1>2, <1>3, <1>7 DEF t, all, e

LEMMA ChunkIs ==
    ASSUME NEW b \in Seq(Bytes), NEW w \in Seq(Bytes), NEW n \in 0..Len(w)
    PROVE  LET r == b \o w
               t == b \o SubSeq(w, 1, n)
               u == SubSeq(w, n + 1, Len(w))
               m == Len(b) + n IN
           /\ r \in Seq(Bytes) /\ t \in Seq(Bytes) /\ u \in Seq(Bytes)
           /\ m \in 0..Len(r) /\ Len(t) = m
           /\ t = SubSeq(r, 1, m) /\ t \o u = r
           /\ \A c \in 1..m : /\ SubSeq(t, c, Len(t)) \in Seq(Bytes)
                              /\ SubSeq(t, c, Len(t)) \o u = SubSeq(r, c, Len(r))
                              /\ SubSeq(t, 1, c - 1) = SubSeq(r, 1, c - 1)
<1> DEFINE r == b \o w
           v == SubSeq(w, 1, n)
           t == b \o v
           u == SubSeq(w, n + 1, Len(w))
           m == Len(b) + n
<1>0. Len(b) \in Nat /\ Len(w) \in Nat /\ n \in Nat /\ m \in Nat /\ m = Len(b) + n
  OBVIOUS
<1>1. /\ r \in Seq(Bytes) /\ Len(r) = Len(b) + Len(w)
      /\ \A i \in 1..(Len(b) + Len(w)) : r[i] = IF i <= Len(b) THEN b[i] ELSE w[i - Len(b)]
  BY ConcatProperties
<1>2. v \in Seq(Bytes) /\ Len(v) = n /\ \A i \in 1..n : v[i] = w[i]
  BY <1>0
<1>3. /\ u \in Seq(Bytes) /\ Len(u) = Len(w) - n
      /\ \A i \in 1..(Len(w) - n) : u[i] = w[n + i]
  <2>1. /\ u \in Seq(Bytes) /\ Len(u) = Len(w) - n
        /\ \A i \in 1..(Len(w) - n) : u[i] = w[(n + 1) + i - 1]
    BY <1>0
  <2> HIDE DEF u
  <2> QED BY <1>0, <2>1
<1> HIDE DEF v, u, m
<1>4. /\ t \in Seq(Bytes) /\ Len(t) = m
      /\ \A i \in 1..m : t[i] = IF i <= Len(b) THEN b[i] ELSE v[i - Len(b)]
  <2>1. /\ t \in Seq(Bytes) /\ Len(t) = Len(b) + Len(v)
        /\ \A i \in 1..(Len(b) + Len(v)) : t[i] = IF i <= Len(b) THEN b[i] ELSE v[i - Len(b)]
    BY <1>2, ConcatProperties
  <2> HIDE DEF t
  <2> QED BY <1>0, <1>2, <2>1
<1> HIDE DEF r, t
<1>5. m \in 0..Len(r) /\ Len(r) \in Nat
  BY <1>0, <1>1
<1>6. \A i \in 1..m : t[i] = r[i]
  <2> SUFFICES ASSUME NEW i \in 1..m PROVE t[i] = r[i]
    OBVIOUS
  <2>1. CASE i <= Len(b)
    BY <1>0, <1>1, <1>4, <1>5, <2>1
  <2>2. CASE ~(i <= Len(b))
    <3>1. i - Len(b) \in 1..n /\ i \in 1..(Len(b) + Len(w))
      BY <1>0, <2>2
    <3> QED BY <1>1, <1>2, <1>4, <2>2, <3>1
  <2> QED BY <2>1, <2>2
<1>7. \A i \in 1..(Len(w) - n) : u[i] = r[m + i]
  <2> SUFFICES ASSUME NEW i \in 1..(Len(w) - n) PROVE u[i] = r[m + i]
    OBVIOUS
  <2> DEFINE j == m + i
  <2>1. j \in 1..(Len(b) + Len(w)) /\ ~(j <= Len(b)) /\ j - Len(b) = n + i
    BY <1>0
  <2> HIDE DEF j
  <2>2. r[j] = w[j - Len(b)]
    BY <1>1, <2>1
  <2>3. u[i] = w[n + i]
    BY <1>3
  <2>4. u[i] = r[j]
    BY <2>1, <2>2, <2>3
  <2> QED BY <2>4 DEF j
<1>8. t = SubSeq(r, 1, m)
  <2>1. SubSeq(r, 1, m) \in Seq(Bytes) /\ Len(SubSeq(r, 1, m)) = m
        /\ \A i \in 1..m : SubSeq(r, 1, m)[i] = r[i]
    BY <1>1, <1>5
  <2> QED BY <1>4, <1>6, <2>1, SeqEqual
<1>9. ASSUME NEW c \in 1..m
      PROVE  /\ SubSeq(t, c, Len(t)) \in Seq(Bytes)
             /\ SubSeq(t, c, Len(t)) \o u = SubSeq(r, c, Len(r))
             /\ SubSeq(t, 1, c - 1) = SubSeq(r, 1, c - 1)
  <2> DEFINE x == SubSeq(t, c, Len(t))
             y == SubSeq(r, c, Len(r))
             z == x \o u
             d == c - 1
  <2>0. c \in Nat /\ d \in 0..m /\ c = d + 1
    BY <1>0
  <2> HIDE DEF d
  <2>1. x \in Seq(Bytes) /\ Len(x) = m - d /\ \A i \in 1..(m - d) : x[i] = t[d + i]
    <3>1. x \in Seq(Bytes) /\ Len(x) = m - d /\ \A i \in 1..(m - d) : x[i] = t[(d + 1) + i - 1]
      BY <1>0, <1>4, <2>0
    <3> HIDE DEF x
    <3> QED BY <1>0, <2>0, <3>1
  <2>2. y \in Seq(Bytes) /\ Len(y) = Len(r) - d /\ \A i \in 1..(Len(r) - d) : y[i] = r[d + i]
    <3>1. y \in Seq(Bytes) /\ Len(y) = Len(r) - d /\ \A i \in 1..(Len(r) - d) : y[i] = r[(d + 1) + i - 1]
      <4>1. d + 1 \in Nat /\ 1 <= d + 1 /\ d + 1 <= Len(r) + 1 /\ Len(r) - (d + 1) + 1 = Len(r) - d /\ Len(r) \in Nat
        BY <1>0, <1>5, <2>0
      <4>2. /\ y \in Seq(Bytes) /\ Len(y) = Len(r) - (d + 1) + 1
            /\ \A i \in 1..(Len(r) - (d + 1) + 1) : y[i] = r[(d + 1) + i - 1]
        BY <1>1, <2>0, <4>1, PartOf
      <4> HIDE DEF y
      <4> QED BY <4>1, <4>2
    <3> HIDE DEF y
    <3>2. \A i \in 1..(Len(r) - d) : (d + 1) + i - 1 = d + i
      BY <1>5, <2>0
    <3> QED BY <3>1, <3>2
  <2> HIDE DEF x, y
  <2>3. /\ z \in Seq(Bytes) /\ Len(z) = Len(x) + Len(u)
        /\ \A i \in 1..(Len(x) + Len(u)) : z[i] = IF i <= Len(x) THEN x[i] ELSE u[i - Len(x)]
    BY <1>3, <2>1, ConcatProperties
  <2> HIDE DEF z
  <2>4. Len(z) = Len(y)
    <3>1. Len(z) = Len(x) + Len(u) /\ Len(x) = m - d /\ Len(u) = Len(w) - n
      BY <1>3, <2>1, <2>3
    <3>2. Len(y) = Len(r) - d /\ Len(r) = Len(b) + Len(w)
      BY <1>1, <2>2
    <3> QED BY <1>0, <2>0, <3>1, <3>2
  <2>5. ASSUME NEW i \in 1..Len(z) PROVE z[i] = y[i]
    <3>0. i \in 1..(Len(r) - d) /\ i \in 1..(Len(x) + Len(u))
      BY <2>2, <2>3, <2>4
    <3>1. CASE i <= Len(x)
      <4>1. i \in 1..(m - d) /\ d + i \in 1..m
        <5>1. Len(x) = m - d /\ m \in Nat /\ d \in 0..m
          BY <1>0, <2>0, <2>1
        <5> QED BY <3>0, <3>1, <5>1
      <4> QED BY <1>6, <2>1, <2>2, <2>3, <3>0, <3>1, <4>1
    <3>2. CASE ~(i <= Len(x))
      <4>1. i - Len(x) \in 1..(Len(w) - n) /\ m + (i - Len(x)) = d + i
        BY <1>0, <1>3, <2>0, <2>1, <3>0, <3>2
      <4> QED BY <1>7, <2>2, <2>3, <3>0, <3>2, <4>1
    <3> QED BY <3>1, <3>2
  <2>6. z = y
    BY <2>2, <2>3, <2>4, <2>5, SeqEqual
  <2>7. SubSeq(t, 1, d) = SubSeq(r, 1, d)
    <3>1. SubSeq(t, 1, d) \in Seq(Bytes) /\ Len(SubSeq(t, 1, d)) = d
          /\ \A i \in 1..d : SubSeq(t, 1, d)[i] = t[i]
      BY <1>4, <2>0
    <3>2. SubSeq(r, 1, d) \in Seq(Bytes) /\ Len(SubSeq(r, 1, d)) = d
          /\ \A i \in 1..d : SubSeq(r, 1, d)[i] = r[i]
      BY <1>1, <1>5, <2>0
    <3>3. \A i \in 1..d : t[i] = r[i]
      BY <1>0, <1>6, <2>0
    <3> DEFINE f == SubSeq(t, 1, d)
               g == SubSeq(r, 1, d)
    <3>4. f \in Seq(Bytes) /\ g \in Seq(Bytes) /\ Len(f) = Len(g) /\ \A i \in 1..Len(f) : f[i] = g[i]
      BY <3>1, <3>2, <3>3
    <3> HIDE DEF f, g
    <3>5. f = g
      BY <3>4, SeqEqual
    <3> QED BY <3>5 DEF f, g
  <2> QED BY <2>1, <2>6, <2>7 DEF x, y, z, d
<1>10. t \o u = r
  <2> DEFINE z == t \o u
  <2>1. /\ z \in Seq(Bytes) /\ Len(z) = Len(t) + Len(u)
        /\ \A i \in 1..(Len(t) + Len(u)) : z[i] = IF i <= Len(t) THEN t[i] ELSE u[i - Len(t)]
    BY <1>3, <1>4, ConcatProperties
  <2> HIDE DEF z
  <2>2. Len(z) = Len(r)
    BY <1>0, <1>1, <1>3, <1>4, <2>1
  <2>3. ASSUME NEW i \in 1..Len(z) PROVE z[i] = r[i]
    <3>1. CASE i <= Len(t)
      <4>1. i \in 1..m /\ i \in 1..(Len(t) + Len(u))
        BY <1>0, <1>4, <2>1, <3>1
      <4> QED BY <1>6, <2>1, <3>1, <4>1
    <3>2. CASE ~(i <= Len(t))
      <4>1. i - Len(t) \in 1..(Len(w) - n) /\ m + (i - Len(t)) = i /\ i \in 1..(Len(t) + Len(u))
        <5>1. Len(z) = Len(t) + Len(u) /\ Len(t) = m /\ Len(u) = Len(w) - n
          BY <1>3, <1>4, <2>1
        <5> QED BY <1>0, <3>2, <5>1
      <4> QED BY <1>7, <2>1, <3>2, <4>1
    <3> QED BY <3>1, <3>2
  <2>4. z = r
    BY <1>1, <2>1, <2>2, <2>3, SeqEqual
  <2> QED BY <2>4 DEF z
<1> QED BY <1>1, <1>3, <1>4, <1>5, <1>8, <1>9, <1>10 DEF r, t, u, v, m

Ending(pl) == Len(pl) > 0 /\ pl[Len(pl)] > MaxLines

(* Lines after the n shown ones, and then perhaps what ends it.            *)
InOrder(n, pl) ==
    \A k \in 1..Len(pl) : \/ pl[k] \in Lines /\ pl[k] = n + k
                          \/ k = Len(pl) /\ pl[k] > MaxLines

LEMMA ShownAre ==
    ASSUME shown \in Seq(Lines), LinesInOrder,
           NEW pl \in Seq(Items), InOrder(Len(shown), pl), ShowEvents(pl)
    PROVE  /\ shown' \in Seq(Lines) /\ LinesInOrder'
           /\ Ending(pl) => Len(shown') = Len(shown) + Len(pl) - 1 /\ over' = Verdict(pl[Len(pl)])
           /\ ~Ending(pl) => Len(shown') = Len(shown) + Len(pl) /\ over' = over
<1> DEFINE stops == {i \in DOMAIN pl : pl[i] \in Ends}
           ends == {i \in DOMAIN pl : pl[i] > MaxLines}
           m == IF Ending(pl) THEN Len(pl) - 1 ELSE Len(pl)
           I == {i \in DOMAIN pl : pl[i] \in Lines}
           g == [k \in 1..m |-> k]
<1>0. Len(pl) \in Nat /\ Len(shown) \in Nat /\ DOMAIN pl = 1..Len(pl) /\ \A k \in 1..Len(pl) : pl[k] \in Int
  <2>1. \A k \in 1..Len(pl) : pl[k] \in Items
    OBVIOUS
  <2> QED BY <2>1 DEF Items
<1>1. \A k \in 1..Len(pl) : pl[k] > MaxLines => k = Len(pl) /\ Ending(pl)
  <2> SUFFICES ASSUME NEW k \in 1..Len(pl), pl[k] > MaxLines PROVE k = Len(pl) /\ Ending(pl)
    OBVIOUS
  <2>1. ~(pl[k] \in Lines)
    BY <1>0, StreamAssumption DEF Lines
  <2>2. k = Len(pl)
    BY <2>1 DEF InOrder
  <2> QED BY <1>0, <2>2 DEF Ending
<1>2. IF stops = {} THEN TRUE ELSE SubSeq(pl, 1, Min(stops)) = pl
  <2> SUFFICES ASSUME stops # {} PROVE SubSeq(pl, 1, Min(stops)) = pl
    OBVIOUS
  <2>1. \A i \in stops : i = Len(pl)
    <3> SUFFICES ASSUME NEW i \in 1..Len(pl), pl[i] \in Ends PROVE i = Len(pl)
      BY <1>0
    <3>1. pl[i] > MaxLines
      BY StreamAssumption DEF Ends, DoneOk, DoneOkError, DoneFailed
    <3> QED BY <1>1, <3>1
  <2>2. stops = {Len(pl)}
    BY <2>1
  <2>3. Min(stops) = Len(pl)
    BY <1>0, <2>2 DEF Min
  <2>4. SubSeq(pl, 1, Len(pl)) \in Seq(Items) /\ Len(SubSeq(pl, 1, Len(pl))) = Len(pl)
        /\ \A i \in 1..Len(pl) : SubSeq(pl, 1, Len(pl))[i] = pl[i]
    BY <1>0
  <2>5. SubSeq(pl, 1, Len(pl)) = pl
    BY <2>4, SeqEqual
  <2> QED BY <2>3, <2>5
<1>3. /\ shown' = shown \o Filter(pl, Lines)
      /\ over' = IF ends = {} THEN over ELSE Verdict(pl[Max(ends)])
  <2>1. (IF stops = {} THEN pl ELSE SubSeq(pl, 1, Min(stops))) = pl
    BY <1>2
  <2> QED BY <2>1 DEF ShowEvents
<1>4. over' = IF Ending(pl) THEN Verdict(pl[Len(pl)]) ELSE over
  <2>1. CASE Ending(pl)
    <3>1. Len(pl) \in 1..Len(pl) /\ pl[Len(pl)] > MaxLines
      BY <1>0, <2>1 DEF Ending
    <3>2. ends = {Len(pl)}
      BY <1>0, <1>1, <3>1
    <3>3. Max(ends) = Len(pl)
      BY <1>0, <3>2 DEF Max
    <3> HIDE DEF ends
    <3> QED BY <1>3, <2>1, <3>2, <3>3
  <2>2. CASE ~Ending(pl)
    <3>1. ends = {}
      BY <1>0, <1>1, <2>2
    <3> QED BY <1>3, <2>2, <3>1
  <2> QED BY <2>1, <2>2
<1>12. Ending(pl) => m = Len(pl) - 1 /\ Len(pl) > 0 /\ pl[Len(pl)] > MaxLines
  BY DEF Ending
<1>13. ~Ending(pl) => m = Len(pl) /\ ~(Len(pl) > 0 /\ pl[Len(pl)] > MaxLines)
  BY DEF Ending
<1> HIDE DEF m
<1>14. m \in Nat /\ m <= Len(pl)
  BY <1>0, <1>12, <1>13
<1>5. m \in Nat /\ m <= Len(pl) /\ \A k \in 1..m : pl[k] \in Lines /\ pl[k] = Len(shown) + k
  <2>2. ASSUME NEW k \in 1..m PROVE pl[k] \in Lines /\ pl[k] = Len(shown) + k
    <3>1. k \in 1..Len(pl)
      BY <1>0, <1>14
    <3>2. ~(k = Len(pl) /\ pl[k] > MaxLines)
      <4>1. CASE Ending(pl)
        <5>1. m = Len(pl) - 1
          BY <1>12, <4>1
        <5>2. Len(pl) \in Nat
          BY <1>0
        <5>3. k # Len(pl)
          BY <1>14, <5>1, <5>2
        <5> QED BY <5>3
      <4>2. CASE ~Ending(pl)
        <5>1. ~(Len(pl) > 0 /\ pl[Len(pl)] > MaxLines)
          BY <1>13, <4>2
        <5>2. Len(pl) \in Nat
          BY <1>0
        <5>3. Len(pl) > 0
          BY <3>1, <5>2
        <5>4. ~(pl[Len(pl)] > MaxLines)
          BY <5>1, <5>3
        <5>5. k = Len(pl) => ~(pl[k] > MaxLines)
          BY <5>4
        <5> QED BY <5>5
      <4> QED BY <4>1, <4>2
    <3> QED BY <3>1, <3>2 DEF InOrder
  <2> QED BY <1>14, <2>2
<1>6. I = 1..m
  <2>1. \A k \in 1..Len(pl) : pl[k] \in Lines => k \in 1..m
    <3> SUFFICES ASSUME NEW k \in 1..Len(pl), pl[k] \in Lines, ~(k \in 1..m) PROVE FALSE
      OBVIOUS
    <3>1. Ending(pl) /\ k = Len(pl)
      <4>1. CASE Ending(pl)
        <5>1. m = Len(pl) - 1
          BY <1>12, <4>1
        <5>2. Len(pl) \in Nat
          BY <1>0
        <5>3. k = Len(pl)
          BY <1>14, <5>1, <5>2
        <5> QED BY <4>1, <5>3
      <4>2. CASE ~Ending(pl)
        <5>1. m = Len(pl)
          BY <1>13, <4>2
        <5> QED BY <1>0, <5>1
      <4> QED BY <4>1, <4>2
    <3>2. pl[k] > MaxLines /\ pl[k] <= MaxLines
      BY <1>12, <3>1 DEF Lines
    <3> QED BY <1>0, <3>2, StreamAssumption
  <2>2. \A k \in 1..m : k \in 1..Len(pl)
    BY <1>0, <1>5
  <2> QED BY <1>0, <1>5, <2>1, <2>2
<1> HIDE DEF I
<1>7. Enumerates(g, m, Len(pl), I)
  <2>1. \A k \in 1..m : k \in 1..Len(pl)
    BY <1>0, <1>5
  <2> QED BY <1>0, <1>5, <1>6, <2>1 DEF Enumerates
<1>8. /\ Filter(pl, Lines) \in Seq(Items) /\ Len(Filter(pl, Lines)) = m
      /\ \A k \in 1..m : Filter(pl, Lines)[k] = pl[k]
  <2>1. /\ Picked(pl, I) \in Seq(Items) /\ Len(Picked(pl, I)) = m
        /\ \A k \in 1..m : Picked(pl, I)[k] = pl[g[k]]
    BY <1>5, <1>7, PickedIs
  <2> QED BY <2>1 DEF Filter, I
<1> DEFINE new == Filter(pl, Lines)
<1> HIDE DEF new
<1>9. new \in Seq(Lines) /\ Len(new) = m /\ \A k \in 1..m : new[k] = Len(shown) + k
  <2>1. new \in Seq(Items) /\ Len(new) = m /\ \A k \in 1..m : new[k] = pl[k]
    BY <1>8 DEF new
  <2>2. \A k \in 1..m : new[k] \in Lines /\ new[k] = Len(shown) + k
    BY <1>5, <2>1
  <2> QED BY <2>1, <2>2
<1>10. /\ shown' \in Seq(Lines) /\ Len(shown') = Len(shown) + m
       /\ \A i \in 1..(Len(shown) + m) : shown'[i] = IF i <= Len(shown) THEN shown[i] ELSE new[i - Len(shown)]
  <2>1. /\ shown \o new \in Seq(Lines) /\ Len(shown \o new) = Len(shown) + Len(new)
        /\ \A i \in 1..(Len(shown) + Len(new)) :
              (shown \o new)[i] = IF i <= Len(shown) THEN shown[i] ELSE new[i - Len(shown)]
    BY <1>9, ConcatProperties
  <2>2. shown' = shown \o new
    BY <1>3 DEF new
  <2> QED BY <1>9, <2>1, <2>2
<1>11. LinesInOrder'
  <2>1. DOMAIN shown = 1..Len(shown) /\ \A i \in 1..Len(shown) : shown[i] = i
    BY DEF LinesInOrder
  <2>2. ASSUME NEW i \in 1..(Len(shown) + m) PROVE shown'[i] = i
    <3>1. CASE i <= Len(shown)
      <4>1. i \in 1..Len(shown)
        BY <1>0, <1>5, <3>1
      <4> QED BY <1>10, <2>1, <3>1, <4>1
    <3>2. CASE ~(i <= Len(shown))
      <4>1. i - Len(shown) \in 1..m /\ Len(shown) + (i - Len(shown)) = i
        BY <1>0, <1>5, <3>2
      <4> QED BY <1>9, <1>10, <3>2, <4>1
    <3> QED BY <3>1, <3>2
  <2>3. DOMAIN shown' = 1..(Len(shown) + m)
    BY <1>10
  <2> QED BY <2>2, <2>3 DEF LinesInOrder
<1>15. Ending(pl) => Len(shown') = Len(shown) + Len(pl) - 1
  BY <1>0, <1>10, <1>12
<1>16. ~Ending(pl) => Len(shown') = Len(shown) + Len(pl)
  BY <1>10, <1>13
<1> QED BY <1>4, <1>10, <1>11, <1>15, <1>16

(* The log has no more than its n lines.                                   *)
Whole(n) == build.status = "completed" /\ (stream = "ended" /\ hasJob => n = written)

InFlight(pl) ==
    /\ InOrder(Len(shown), pl)
    /\ stream = "open" => Len(shown) + Len(pl) = sent
    /\ over # "" => pl = <<>>
    /\ over # "" \/ Ending(pl) => stream \in {"answered", "ended"}
    /\ over = "Complete" => Whole(Len(shown))
    /\ Ending(pl) /\ pl[Len(pl)] = DoneOk => Whole(Len(shown) + Len(pl) - 1)

Polled(p) ==
    LET mid == poll[p] IN
    /\ mid.step # "idle" => stream \in {"open", "cut"}
    /\ mid.step # "idle" /\ mid.row.status = "completed" => build.status = "completed"
    /\ mid.step = "send" =>
          /\ \A i \in 1..Len(mid.got) : mid.got[i] = sent + i
          /\ sent + Len(mid.got) <= written
          /\ mid.row.status = "completed" /\ hasJob => sent + Len(mid.got) = written
    /\ mid.step = "finish" /\ mid.row.status = "completed" /\ hasJob => sent = written

Rows == [status : {"queued", "completed", "failed"}, error : BOOLEAN]

StreamTyped ==
    /\ written \in 0..MaxLines /\ build \in Rows /\ hasJob \in BOOLEAN
    /\ stream \in {"closed", "open", "answered", "ended", "cut"}
    /\ sent \in 0..written
    /\ poll \in [Polls -> [step : {"idle", "logs", "send", "finish"}, row : Rows, got : Seq(Lines)]]
    /\ wire \in Seq(Bytes) /\ buffer \in Seq(Bytes) /\ shown \in Seq(Lines)
    /\ over \in {"", "Complete", "Failed"}

Unasked == stream = "closed" => wire = <<>> /\ buffer = <<>> /\ shown = <<>> /\ sent = 0

OnTheWay == \E pl \in Seq(Items) : \E h \in {0, 2} : Framed(buffer \o wire, h, pl) /\ InFlight(pl)

StreamSafe ==
    /\ StreamTyped /\ LinesInOrder /\ Unasked /\ OnTheWay
    /\ \A p \in Polls : Polled(p)

OnePoll == \A p, q \in Polls : p = q

LEMMA StreamSafeInit == ASSUME StreamInit PROVE StreamSafe
<1>1. StreamTyped
  <2>1. written = 0 /\ sent = 0 /\ 0 \in 0..MaxLines /\ 0 \in 0..0
    <3>1. 0 \in 0..MaxLines /\ 0 \in 0..0
      BY StreamAssumption
    <3> QED BY <3>1 DEF StreamInit
  <2>2. <<>> \in Seq(Lines) /\ <<>> \in Seq(Bytes)
    BY EmptySeq
  <2>3. Nothing \in Rows
    BY DEF Nothing, Rows
  <2>4. Resting \in [step : {"idle", "logs", "send", "finish"}, row : Rows, got : Seq(Lines)]
    BY <2>2, <2>3 DEF Resting
  <2>5. poll \in [Polls -> [step : {"idle", "logs", "send", "finish"}, row : Rows, got : Seq(Lines)]]
    BY <2>4 DEF StreamInit
  <2> QED BY <2>1, <2>2, <2>3, <2>5 DEF StreamInit, StreamTyped
<1>2. LinesInOrder /\ Unasked
  <2>1. shown = <<>> /\ DOMAIN shown = {}
    <3>1. <<>> \in Seq({}) /\ Len(<<>>) = 0
      BY EmptySeq
    <3>2. DOMAIN <<>> = 1..0
      BY <3>1, LenProperties
    <3>3. shown = <<>>
      BY DEF StreamInit
    <3>4. DOMAIN <<>> = {}
      BY <3>2
    <3> QED BY <3>3, <3>4
  <2> QED BY <2>1 DEF StreamInit, LinesInOrder, Unasked
<1>3. OnTheWay
  <2>1. <<>> \in Seq(Items) /\ buffer \o wire = <<>> /\ Len(<<>>) = 0
    <3>1. <<>> \in Seq(Items) /\ <<>> \o <<>> = <<>> /\ Len(<<>>) = 0
      BY EmptySeq, ConcatEmptySeq
    <3>2. buffer = <<>> /\ wire = <<>>
      BY DEF StreamInit
    <3> QED BY <3>1, <3>2
  <2>2. Framed(<<>>, 0, <<>>)
    BY DEF Framed
  <2>3. InFlight(<<>>)
    <3>1. ~Ending(<<>>) /\ InOrder(Len(shown), <<>>)
      BY DEF Ending, InOrder
    <3> QED BY <3>1 DEF InFlight, StreamInit
  <2>4. Framed(buffer \o wire, 0, <<>>)
    BY <2>1, <2>2
  <2> QED BY <2>1, <2>3, <2>4 DEF OnTheWay
<1>4. \A p \in Polls : Polled(p)
  BY DEF StreamInit, Polled, Resting
<1> QED BY <1>1, <1>2, <1>3, <1>4 DEF StreamSafe

(* What changes neither the bytes nor what is shown.                       *)
LEMMA WorkerSafe ==
    ASSUME StreamSafe, WorkerStep PROVE StreamSafe'
<1>0. StreamTyped /\ LinesInOrder /\ Unasked /\ OnTheWay /\ \A p \in Polls : Polled(p)
  BY DEF StreamSafe
<1>1. build.status # "completed" /\ UNCHANGED <<hasJob, stream, sent, poll, wire, buffer, shown, over>>
  BY DEF WorkerStep, WriteLine, EndAttempt
<1>2. StreamTyped'
  <2>1. CASE WriteLine
    <3>1. written' \in 0..MaxLines /\ sent \in 0..written'
      <4>1. written \in 0..MaxLines /\ sent \in 0..written
        BY <1>0 DEF StreamTyped
      <4>2. written < MaxLines /\ written' = written + 1
        BY <2>1 DEF WriteLine
      <4> QED BY <4>1, <4>2, StreamAssumption
    <3>2. UNCHANGED <<build, hasJob, stream, sent, poll, wire, buffer, shown, over>>
      BY <2>1 DEF WriteLine
    <3> QED BY <1>0, <3>1, <3>2 DEF StreamTyped
  <2>2. ASSUME NEW status \in {"completed", "failed"}, EndAttempt(status) PROVE StreamTyped'
    <3>1. build' \in Rows
      <4>1. build.error \in BOOLEAN
        BY <1>0 DEF StreamTyped, Rows
      <4>2. (build.error \/ status = "failed") \in BOOLEAN
        BY <4>1
      <4> QED BY <2>2, <4>2 DEF EndAttempt, Rows
    <3> QED BY <1>0, <2>2, <3>1 DEF EndAttempt, StreamTyped
  <2> QED BY <2>1, <2>2 DEF WorkerStep
<1>3. (LinesInOrder /\ Unasked)'
  BY <1>0, <1>1 DEF LinesInOrder, Unasked
<1>4. OnTheWay'
  <2>1. PICK pl \in Seq(Items) : \E h \in {0, 2} : Framed(buffer \o wire, h, pl) /\ InFlight(pl)
    BY <1>0 DEF OnTheWay
  <2>2. PICK h \in {0, 2} : Framed(buffer \o wire, h, pl) /\ InFlight(pl)
    BY <2>1
  <2>3. Framed(buffer' \o wire', h, pl)
    BY <1>1, <2>2
  <2>4. InFlight(pl)'
    <3>1. over # "Complete" /\ ~(Ending(pl) /\ pl[Len(pl)] = DoneOk)
      BY <1>1, <2>2 DEF InFlight, Whole
    <3> QED BY <1>1, <2>2, <3>1 DEF InFlight
  <2> QED BY <2>3, <2>4 DEF OnTheWay
<1>5. ASSUME NEW p \in Polls PROVE Polled(p)'
  <2>1. Polled(p)
    BY <1>0
  <2>2. written <= written' /\ written \in Nat /\ written' \in Nat
    <3>1. written \in Nat /\ written' \in Nat
      <4>1. written \in 0..MaxLines /\ written' \in 0..MaxLines
        BY <1>0, <1>2 DEF StreamTyped
      <4> QED BY <4>1, StreamAssumption
    <3>2. written' = written \/ written' = written + 1
      BY DEF WorkerStep, WriteLine, EndAttempt
    <3> QED BY <3>1, <3>2
  <2>3. poll[p].step = "idle" \/ poll[p].row.status # "completed"
    BY <1>1, <2>1 DEF Polled
  <2>4. poll[p].got \in Seq(Lines) /\ Len(poll[p].got) \in Nat /\ sent \in Nat
    <3>1. poll[p].got \in Seq(Lines)
      BY <1>0 DEF StreamTyped
    <3>2. sent \in Nat
      <4>1. written \in 0..MaxLines /\ sent \in 0..written
        BY <1>0 DEF StreamTyped
      <4> QED BY <4>1, StreamAssumption
    <3> QED BY <3>1, <3>2
  <2>5. poll[p].step = "send" =>
          /\ \A i \in 1..Len(poll[p].got) : poll[p].got[i] = sent + i
          /\ sent + Len(poll[p].got) <= written'
    BY <2>1, <2>2, <2>4 DEF Polled
  <2> QED BY <1>1, <2>1, <2>3, <2>5 DEF Polled
<1> QED BY <1>2, <1>3, <1>4, <1>5 DEF StreamSafe

PollStates == [step : {"idle", "logs", "send", "finish"}, row : Rows, got : Seq(Lines)]

LEMMA SafeParts ==
    ASSUME StreamSafe
    PROVE  /\ written \in Nat /\ written <= MaxLines /\ sent \in Nat /\ sent <= written
           /\ build \in Rows /\ hasJob \in BOOLEAN
           /\ stream \in {"closed", "open", "answered", "ended", "cut"}
           /\ poll \in [Polls -> PollStates]
           /\ wire \in Seq(Bytes) /\ buffer \in Seq(Bytes) /\ shown \in Seq(Lines) /\ Len(shown) \in Nat
           /\ over \in {"", "Complete", "Failed"}
           /\ LinesInOrder /\ Unasked /\ OnTheWay /\ \A p \in Polls : Polled(p)
<1>1. StreamTyped
  BY DEF StreamSafe
<1>2. written \in Nat /\ written <= MaxLines /\ sent \in Nat /\ sent <= written
  <2>1. written \in 0..MaxLines /\ sent \in 0..written
    BY <1>1 DEF StreamTyped
  <2> QED BY <2>1, StreamAssumption
<1>3. Len(shown) \in Nat
  <2>1. shown \in Seq(Lines)
    BY <1>1 DEF StreamTyped
  <2> QED BY <2>1
<1> QED BY <1>1, <1>2, <1>3 DEF StreamSafe, StreamTyped, PollStates

LEMMA Within == \A s \in Nat, w \in Nat : s <= w => s \in 0..w
  OBVIOUS

LEMMA SafeIf ==
    ASSUME StreamSafe, UNCHANGED <<written, build, hasJob>>,
           sent' \in Nat, sent' <= written,
           stream' \in {"closed", "open", "answered", "ended", "cut"},
           poll' \in [Polls -> PollStates],
           wire' \in Seq(Bytes), buffer' \in Seq(Bytes), shown' \in Seq(Lines),
           over' \in {"", "Complete", "Failed"},
           LinesInOrder', Unasked', OnTheWay', \A p \in Polls : Polled(p)'
    PROVE  StreamSafe'
<1>1. sent' \in 0..written'
  <2>1. written \in Nat
    BY SafeParts
  <2>2. written' = written
    OBVIOUS
  <2>3. sent' \in Nat /\ sent' <= written
    OBVIOUS
  <2>5. sent' \in 0..written
    BY <2>1, <2>3, Within, Zenon
  <2> QED BY <2>2, <2>5
<1>2. StreamTyped'
  <2>1. StreamTyped
    BY DEF StreamSafe
  <2> QED BY <1>1, <2>1 DEF StreamTyped, PollStates
<1> QED BY <1>2 DEF StreamSafe

LEMMA EventIs == ASSUME NEW x \in Items PROVE Event(x) = Events(<<x>>) /\ <<x>> \in Seq(Items) /\ Len(<<x>>) = 1
<1>1. <<x>> \in Seq(Items) /\ Len(<<x>>) = 1 /\ <<x>>[1] = x
  OBVIOUS
<1>2. /\ Events(<<x>>) \in Seq(Bytes) /\ Len(Events(<<x>>)) = 4
      /\ Events(<<x>>)[1] = DATA /\ Events(<<x>>)[2] = x /\ Events(<<x>>)[3] = LF /\ Events(<<x>>)[4] = LF
  <2> DEFINE new == <<x>>
  <2>1. new \in Seq(Items) /\ Len(new) = 1 /\ new[1] = x /\ 1 \in 1..Len(new)
    BY <1>1
  <2> HIDE DEF new
  <2>2. /\ Events(new) \in Seq(Bytes) /\ Len(Events(new)) = 4 * Len(new)
        /\ \A k \in 1..Len(new) :
              /\ Events(new)[4 * k - 3] = DATA /\ Events(new)[4 * k - 2] = new[k]
              /\ Events(new)[4 * k - 1] = LF /\ Events(new)[4 * k] = LF
    BY <2>1, EventsAre
  <2>3. /\ Events(new)[4 * 1 - 3] = DATA /\ Events(new)[4 * 1 - 2] = new[1]
        /\ Events(new)[4 * 1 - 1] = LF /\ Events(new)[4 * 1] = LF
    BY <2>1, <2>2
  <2>4. Len(Events(new)) = 4
    BY <2>1, <2>2
  <2>5. 4 * 1 - 3 = 1 /\ 4 * 1 - 2 = 2 /\ 4 * 1 - 1 = 3 /\ 4 * 1 = 4
    OBVIOUS
  <2>6. /\ Events(new) \in Seq(Bytes) /\ Len(Events(new)) = 4
        /\ Events(new)[1] = DATA /\ Events(new)[2] = x /\ Events(new)[3] = LF /\ Events(new)[4] = LF
    BY <2>1, <2>2, <2>3, <2>4, <2>5
  <2> QED BY <2>6 DEF new
<1>3. Event(x) \in Seq(Bytes) /\ Len(Event(x)) = 4
      /\ Event(x)[1] = DATA /\ Event(x)[2] = x /\ Event(x)[3] = LF /\ Event(x)[4] = LF
  <2>1. x \in Bytes /\ DATA \in Bytes /\ LF \in Bytes
    BY StreamAssumption DEF Items, Bytes, DATA, LF, Broken
  <2> QED BY <2>1 DEF Event
<1> DEFINE a == Event(x)
           b == Events(<<x>>)
<1>4. a \in Seq(Bytes) /\ b \in Seq(Bytes) /\ Len(a) = Len(b)
  BY <1>2, <1>3
<1>5. \A i \in 1..Len(a) : a[i] = b[i]
  <2>1. \A i \in 1..4 : i = 1 \/ i = 2 \/ i = 3 \/ i = 4
    OBVIOUS
  <2>2. Len(a) = 4 /\ a[1] = b[1] /\ a[2] = b[2] /\ a[3] = b[3] /\ a[4] = b[4]
    BY <1>2, <1>3
  <2> HIDE DEF a, b
  <2> QED BY <2>1, <2>2
<1> HIDE DEF a, b
<1>6. a = b
  BY <1>4, <1>5, SeqEqual
<1> QED BY <1>1, <1>6 DEF a, b

LEMMA DoneIs ==
    ASSUME NEW row \in Rows, Terminal(row)
    PROVE  \E x \in Items : Done(row) = Event(x) /\ x > MaxLines /\ (x = DoneOk => row.status = "completed")
<1> DEFINE x == IF row.status = "failed" THEN DoneFailed ELSE IF row.error THEN DoneOkError ELSE DoneOk
<1>1. x \in {DoneFailed, DoneOkError, DoneOk}
  OBVIOUS
<1>2. x \in Items /\ x > MaxLines
  BY <1>1, StreamAssumption DEF Items, DoneFailed, DoneOkError, DoneOk, Broken
<1>3. x = DoneOk => row.status = "completed"
  <2>1. DoneFailed # DoneOk
    BY StreamAssumption DEF DoneFailed, DoneOk
  <2> QED BY <2>1 DEF Terminal
<1>4. Done(row) = Event(x)
  BY DEF Done
<1> HIDE DEF x
<1> QED BY <1>2, <1>3, <1>4

(* What is added to the bytes while the response is open.                  *)
LEMMA Added ==
    ASSUME StreamSafe, stream = "open", NEW new \in Seq(Items), wire' = wire \o Events(new),
           UNCHANGED buffer, NEW pl \in Seq(Items), NEW h \in {0, 2}, Framed(buffer \o wire, h, pl)
    PROVE  wire' \in Seq(Bytes) /\ pl \o new \in Seq(Items) /\ Framed(buffer' \o wire', h, pl \o new)
<1>1. buffer \in Seq(Bytes) /\ wire \in Seq(Bytes) /\ Events(new) \in Seq(Bytes)
  BY SafeParts, EventsAre
<1>2. buffer \o wire \in Seq(Bytes) /\ wire \o Events(new) \in Seq(Bytes)
  BY <1>1, ConcatProperties
<1>3. (buffer \o wire) \o Events(new) = buffer \o (wire \o Events(new))
  BY <1>1, ConcatAssociative
<1>4. /\ pl \o new \in Seq(Items)
      /\ Framed((buffer \o wire) \o Events(new), h, pl \o new)
  BY <1>2, FramedAdd
<1> QED BY <1>2, <1>3, <1>4

(* While the response is open, lines only are on their way.                *)
LEMMA OpenLines ==
    ASSUME StreamSafe, stream = "open", NEW pl \in Seq(Items), InFlight(pl)
    PROVE  /\ over = "" /\ Len(shown) + Len(pl) = sent /\ Len(pl) \in Nat
           /\ \A k \in 1..Len(pl) : pl[k] \in Lines /\ pl[k] = Len(shown) + k
<1>1. over = "" /\ ~Ending(pl) /\ Len(shown) + Len(pl) = sent /\ InOrder(Len(shown), pl)
  BY DEF InFlight
<1>2. Len(pl) \in Nat
  OBVIOUS
<1>3. \A k \in 1..Len(pl) : ~(k = Len(pl) /\ pl[k] > MaxLines)
  <2> SUFFICES ASSUME Len(pl) \in 1..Len(pl), pl[Len(pl)] > MaxLines PROVE FALSE
    OBVIOUS
  <2>1. Len(pl) > 0
    BY <1>2
  <2> QED BY <1>1, <2>1 DEF Ending
<1> QED BY <1>1, <1>2, <1>3 DEF InOrder

(* The end of the response, if it is open, with what says how.             *)
LEMMA EndSafe ==
    ASSUME StreamSafe, OnePoll, NEW p \in Polls, poll[p].step # "idle", NEW x \in Items, x > MaxLines,
           x = DoneOk => build.status = "completed" /\ (hasJob => sent = written),
           EndStream(Event(x)), poll' = [poll EXCEPT ![p] = Resting],
           UNCHANGED <<written, build, hasJob, sent, buffer, shown, over>>
    PROVE  StreamSafe'
<1>1. stream \in {"open", "cut"}
  BY SafeParts DEF Polled
<1>2. poll' \in [Polls -> PollStates] /\ \A q \in Polls : poll'[q] = Resting
  <2>1. poll \in [Polls -> PollStates]
    BY SafeParts
  <2>2. Resting \in PollStates
    <3>1. Nothing \in Rows /\ <<>> \in Seq(Lines)
      BY EmptySeq DEF Nothing, Rows
    <3> QED BY <3>1 DEF Resting, PollStates
  <2> QED BY <2>1, <2>2 DEF OnePoll
<1>3. \A q \in Polls : Polled(q)'
  BY <1>2 DEF Polled, Resting
<1>4. wire' \in Seq(Bytes) /\ stream' \in {"ended", "cut"} /\ OnTheWay'
  <2>1. CASE stream = "cut"
    <3>1. wire' = wire /\ stream' = stream
      BY <2>1 DEF EndStream, Write
    <3>2. wire \in Seq(Bytes) /\ OnTheWay
      BY SafeParts
    <3> QED BY <2>1, <3>1, <3>2 DEF OnTheWay, InFlight, Whole
  <2>2. CASE stream = "open"
    <3>1. wire' = wire \o Events(<<x>>) /\ stream' = "ended" /\ <<x>> \in Seq(Items) /\ Len(<<x>>) = 1 /\ <<x>>[1] = x
      BY <2>2, EventIs DEF EndStream, Write
    <3>2. PICK pl \in Seq(Items) : \E h \in {0, 2} : Framed(buffer \o wire, h, pl) /\ InFlight(pl)
      BY SafeParts DEF OnTheWay
    <3>3. PICK h \in {0, 2} : Framed(buffer \o wire, h, pl) /\ InFlight(pl)
      BY <3>2
    <3> DEFINE all == pl \o <<x>>
    <3>4. wire' \in Seq(Bytes) /\ all \in Seq(Items) /\ Framed(buffer' \o wire', h, all)
      BY <2>2, <3>1, <3>3, Added
    <3>5. /\ over = "" /\ Len(shown) + Len(pl) = sent /\ Len(pl) \in Nat
          /\ \A k \in 1..Len(pl) : pl[k] \in Lines /\ pl[k] = Len(shown) + k
      BY <2>2, <3>3, OpenLines
    <3>6. /\ Len(all) = Len(pl) + 1
          /\ \A k \in 1..(Len(pl) + 1) : all[k] = IF k <= Len(pl) THEN pl[k] ELSE <<x>>[k - Len(pl)]
      BY <3>1, ConcatProperties
    <3> HIDE DEF all
    <3>7. all[Len(all)] = x /\ \A k \in 1..Len(pl) : all[k] = pl[k]
      <4>0. Len(pl) \in Nat
        OBVIOUS
      <4>1. Len(pl) + 1 \in 1..(Len(pl) + 1) /\ ~(Len(pl) + 1 <= Len(pl)) /\ Len(pl) + 1 - Len(pl) = 1
        BY <4>0
      <4>2. all[Len(pl) + 1] = <<x>>[1]
        BY <3>6, <4>1
      <4>3. \A k \in 1..Len(pl) : k \in 1..(Len(pl) + 1) /\ k <= Len(pl)
        BY <4>0
      <4> QED BY <3>1, <3>6, <4>2, <4>3
    <3>8. InOrder(Len(shown), all)
      <4> SUFFICES ASSUME NEW k \in 1..Len(all)
                   PROVE  \/ all[k] \in Lines /\ all[k] = Len(shown) + k
                          \/ k = Len(all) /\ all[k] > MaxLines
        BY DEF InOrder
      <4>1. k \in 1..Len(pl) \/ k = Len(all)
        <5>1. Len(pl) \in Nat /\ Len(all) = Len(pl) + 1
          BY <3>6
        <5> QED BY <5>1
      <4> QED BY <3>5, <3>7, <4>1
    <3>9. x = DoneOk => Whole(Len(shown) + Len(all) - 1)'
      <4>1. Len(shown) + Len(all) - 1 = sent
        <5>0. Len(shown) \in Nat
          BY SafeParts
        <5>1. Len(shown) \in Nat /\ Len(pl) \in Nat
          BY <5>0
        <5>2. Len(shown) + Len(pl) = sent /\ Len(all) = Len(pl) + 1
          BY <3>5, <3>6
        <5> QED BY <5>1, <5>2
      <4> QED BY <4>1 DEF Whole
    <3>10. InFlight(all)'
      BY <3>1, <3>5, <3>7, <3>8, <3>9 DEF InFlight
    <3> QED BY <3>1, <3>4, <3>10 DEF OnTheWay
  <2> QED BY <1>1, <2>1, <2>2
<1>5. Unasked' /\ LinesInOrder'
  BY SafeParts, <1>4 DEF Unasked, LinesInOrder
<1> QED BY SafeParts, SafeIf, <1>2, <1>3, <1>4, <1>5

LEMMA FinishSafe == ASSUME StreamSafe, OnePoll, NEW p \in Polls, FinishPoll(p) PROVE StreamSafe'
<1>0. poll[p] \in PollStates /\ Polled(p) /\ poll[p].row \in Rows
  BY SafeParts DEF PollStates
<1>1. CASE Terminal(poll[p].row)
  <2>1. PICK x \in Items : /\ Done(poll[p].row) = Event(x) /\ x > MaxLines
                           /\ x = DoneOk => poll[p].row.status = "completed"
    BY <1>0, <1>1, DoneIs
  <2>2. /\ poll[p].step = "finish" /\ poll[p].step # "idle" /\ poll' = [poll EXCEPT ![p] = Resting]
        /\ EndStream(Event(x))
        /\ UNCHANGED <<written, build, hasJob, sent, buffer, shown, over>>
    BY <1>1, <2>1 DEF FinishPoll
  <2>3. x = DoneOk => build.status = "completed" /\ (hasJob => sent = written)
    BY <1>0, <2>1, <2>2 DEF Polled
  <2> QED BY <2>1, <2>2, <2>3, EndSafe
<1>2. CASE ~Terminal(poll[p].row)
  <2>1. /\ poll' = [poll EXCEPT ![p] = Resting]
        /\ UNCHANGED <<written, build, hasJob, stream, sent, wire, buffer, shown, over>>
    BY <1>2 DEF FinishPoll
  <2>2. poll' \in [Polls -> PollStates] /\ \A q \in Polls : poll'[q] = Resting
    <3>1. poll \in [Polls -> PollStates]
      BY SafeParts
    <3>2. Resting \in PollStates
      <4>1. Nothing \in Rows /\ <<>> \in Seq(Lines)
        BY EmptySeq DEF Nothing, Rows
      <4> QED BY <4>1 DEF Resting, PollStates
    <3> QED BY <2>1, <3>1, <3>2 DEF OnePoll
  <2>3. \A q \in Polls : Polled(q)'
    BY <2>2 DEF Polled, Resting
  <2>4. OnTheWay' /\ Unasked' /\ LinesInOrder'
    BY SafeParts, <2>1 DEF OnTheWay, InFlight, Whole, Unasked, LinesInOrder
  <2> QED BY SafeParts, SafeIf, <2>1, <2>2, <2>3, <2>4
<1> QED BY <1>1, <1>2

LEMMA FailSafe == ASSUME StreamSafe, OnePoll, NEW p \in Polls, FailPoll(p) PROVE StreamSafe'
<1>1. /\ Broken \in Items /\ Broken > MaxLines /\ Broken # DoneOk
  BY StreamAssumption DEF Items, Broken, DoneOk
<1>2. /\ poll[p].step # "idle" /\ poll' = [poll EXCEPT ![p] = Resting] /\ EndStream(Event(Broken))
      /\ UNCHANGED <<written, build, hasJob, sent, buffer, shown, over>>
  BY DEF FailPoll
<1> QED BY <1>1, <1>2, EndSafe

LEMMA NoneLeft == \A a, b, c \in Nat : b <= a /\ c = a - b /\ a = 0 => b = 0 /\ c = 0
  OBVIOUS

(* What is used leaves the rest in order.                                  *)
LEMMA ShowSafe ==
    ASSUME StreamSafe, UNCHANGED <<written, build, hasJob, stream, sent>>,
           NEW pl \in Seq(Items), InFlight(pl), NEW q \in 0..Len(pl), ShowEvents(SubSeq(pl, 1, q)),
           NEW rest \in Seq(Items), Len(rest) = Len(pl) - q, \A k \in 1..Len(rest) : rest[k] = pl[q + k]
    PROVE  /\ shown' \in Seq(Lines) /\ LinesInOrder' /\ over' \in {"", "Complete", "Failed"}
           /\ InFlight(rest)'
<1> DEFINE used == SubSeq(pl, 1, q)
<1>0. Len(pl) \in Nat /\ q \in Nat /\ q <= Len(pl) /\ Len(rest) \in Nat /\ Len(rest) = Len(pl) - q
  OBVIOUS
<1>00. Len(shown) \in Nat
  BY SafeParts
<1>01. Len(pl) = 0 => q = 0 /\ Len(rest) = 0
  BY <1>0, NoneLeft, Zenon
<1>02. q = 0 => Len(shown) + q = Len(shown)
  BY <1>00
<1>1. used \in Seq(Items) /\ Len(used) = q /\ \A k \in 1..q : used[k] = pl[k] /\ k \in 1..Len(pl)
  BY <1>0
<1>2. /\ InOrder(Len(shown), pl)
      /\ stream = "open" => Len(shown) + Len(pl) = sent
      /\ over # "" => pl = <<>>
      /\ over # "" \/ Ending(pl) => stream \in {"answered", "ended"}
      /\ over = "Complete" => Whole(Len(shown))
      /\ Ending(pl) /\ pl[Len(pl)] = DoneOk => Whole(Len(shown) + Len(pl) - 1)
  BY DEF InFlight
<1>3. /\ shown \in Seq(Lines) /\ LinesInOrder /\ over \in {"", "Complete", "Failed"}
  BY SafeParts
<1> HIDE DEF used
<1>4. InOrder(Len(shown), used)
  <2> SUFFICES ASSUME NEW k \in 1..Len(used)
               PROVE  \/ used[k] \in Lines /\ used[k] = Len(shown) + k
                      \/ k = Len(used) /\ used[k] > MaxLines
    BY DEF InOrder
  <2>1. used[k] = pl[k] /\ k \in 1..Len(pl) /\ k \in 1..q
    BY <1>1
  <2>2. \/ pl[k] \in Lines /\ pl[k] = Len(shown) + k
        \/ k = Len(pl) /\ pl[k] > MaxLines
    BY <1>2, <2>1 DEF InOrder
  <2>3. k = Len(pl) => k = q
    BY <1>0, <2>1
  <2> QED BY <1>1, <2>1, <2>2, <2>3
<1>5. ShowEvents(used)
  BY DEF used
<1>6. /\ shown' \in Seq(Lines) /\ LinesInOrder'
      /\ Ending(used) => Len(shown') = Len(shown) + Len(used) - 1 /\ over' = Verdict(used[Len(used)])
      /\ ~Ending(used) => Len(shown') = Len(shown) + Len(used) /\ over' = over
  BY <1>1, <1>3, <1>4, <1>5, ShownAre
<1>7. \A n : Whole(n)' <=> Whole(n)
  BY DEF Whole
<1>8. ASSUME Ending(used) PROVE over' \in {"", "Complete", "Failed"} /\ InFlight(rest)'
  <2>1. q > 0 /\ used[q] > MaxLines
    BY <1>1, <1>8 DEF Ending
  <2>2. q \in 1..Len(pl) /\ q \in 1..q
    BY <1>0, <2>1
  <2>3. pl[q] > MaxLines /\ used[q] = pl[q]
    BY <1>1, <2>1, <2>2
  <2>4. ~(pl[q] \in Lines)
    <3>1. pl[q] \in Int
      <4>1. pl[q] \in Items
        BY <2>2, ElementOfSeq
      <4> QED BY <4>1 DEF Items
    <3> QED BY <2>3, <3>1, StreamAssumption DEF Lines
  <2>5. q = Len(pl)
    BY <1>2, <2>2, <2>4 DEF InOrder
  <2>6. Ending(pl)
    BY <1>0, <2>1, <2>3, <2>5 DEF Ending
  <2>7. Len(rest) = 0 /\ rest = <<>>
    <3>1. Len(rest) = 0
      BY <1>0, <2>5
    <3> QED BY <3>1, EmptySeq
  <2>8. over' = Verdict(pl[Len(pl)]) /\ Len(shown') = Len(shown) + Len(pl) - 1
    BY <1>1, <1>6, <1>8, <2>3, <2>5
  <2>9. over' \in {"Complete", "Failed"} /\ (over' = "Complete" => pl[Len(pl)] = DoneOk)
    BY <2>8 DEF Verdict
  <2>10. InOrder(Len(shown'), rest) /\ ~Ending(rest)
    BY <2>7 DEF InOrder, Ending
  <2>11. stream \in {"answered", "ended"}
    BY <1>2, <2>6
  <2>12. over' = "Complete" => Whole(Len(shown))'
    <3>1. over' = "Complete" => Whole(Len(shown) + Len(pl) - 1)
      BY <1>2, <2>6, <2>9
    <3> QED BY <2>8, <3>1 DEF Whole
  <2> QED BY <2>7, <2>9, <2>10, <2>11, <2>12 DEF InFlight
<1>9. ASSUME ~Ending(used) PROVE over' \in {"", "Complete", "Failed"} /\ InFlight(rest)'
  <2>1. Len(shown') = Len(shown) + q /\ over' = over
    BY <1>1, <1>6, <1>9
  <2>2. InOrder(Len(shown'), rest)
    <3> SUFFICES ASSUME NEW k \in 1..Len(rest)
                 PROVE  \/ rest[k] \in Lines /\ rest[k] = Len(shown') + k
                        \/ k = Len(rest) /\ rest[k] > MaxLines
      BY DEF InOrder
    <3>1. q + k \in 1..Len(pl) /\ (q + k = Len(pl) => k = Len(rest)) /\ Len(shown) + (q + k) = (Len(shown) + q) + k
      BY <1>0, <1>00
    <3>2. \/ pl[q + k] \in Lines /\ pl[q + k] = Len(shown) + (q + k)
          \/ q + k = Len(pl) /\ pl[q + k] > MaxLines
      BY <1>2, <3>1 DEF InOrder
    <3>3. rest[k] = pl[q + k]
      OBVIOUS
    <3> QED BY <2>1, <3>1, <3>2, <3>3
  <2>3. Len(shown') + Len(rest) = Len(shown) + Len(pl)
    BY <1>0, <1>00, <2>1
  <2>4. Ending(rest) => Ending(pl) /\ rest[Len(rest)] = pl[Len(pl)]
    <3> SUFFICES ASSUME Ending(rest) PROVE Ending(pl) /\ rest[Len(rest)] = pl[Len(pl)]
      OBVIOUS
    <3>1. Len(rest) > 0 /\ rest[Len(rest)] > MaxLines
      BY DEF Ending
    <3>2. Len(rest) \in 1..Len(rest) /\ q + Len(rest) = Len(pl) /\ Len(pl) > 0
      BY <1>0, <3>1
    <3>3. rest[Len(rest)] = pl[q + Len(rest)]
      BY <3>2
    <3> QED BY <3>1, <3>2, <3>3 DEF Ending
  <2>5. over # "" => rest = <<>> /\ Len(shown') = Len(shown)
    <3> SUFFICES ASSUME over # "" PROVE rest = <<>> /\ Len(shown') = Len(shown)
      OBVIOUS
    <3>1. Len(pl) = 0
      BY <1>2, EmptySeq
    <3>2. q = 0 /\ Len(rest) = 0
      BY <1>01, <3>1, Zenon
    <3>3. Len(shown') = Len(shown)
      BY <1>02, <2>1, <3>2, Zenon
    <3>4. rest = <<>>
      BY <3>2, EmptySeq
    <3> QED BY <3>3, <3>4
  <2>6. over' = "Complete" => Whole(Len(shown))'
    <3>1. over' = "Complete" => Whole(Len(shown)) /\ Len(shown') = Len(shown)
      BY <1>2, <2>1, <2>5
    <3> QED BY <3>1 DEF Whole
  <2>7. Ending(rest) /\ rest[Len(rest)] = DoneOk => Whole(Len(shown) + Len(rest) - 1)'
    <3>1. Ending(rest) /\ rest[Len(rest)] = DoneOk => Whole(Len(shown) + Len(pl) - 1)
      BY <1>2, <2>4
    <3>2. Len(shown') + Len(rest) - 1 = Len(shown) + Len(pl) - 1
      BY <2>3
    <3> QED BY <3>1, <3>2 DEF Whole
  <2>8. stream' = "open" => Len(shown') + Len(rest) = sent'
    BY <1>2, <2>3
  <2>9. over' # "" \/ Ending(rest) => stream' \in {"answered", "ended"}
    BY <1>2, <2>1, <2>4
  <2>10. over' # "" => rest = <<>>
    BY <2>1, <2>5
  <2>11. InFlight(rest)'
    BY <2>2, <2>6, <2>7, <2>8, <2>9, <2>10 DEF InFlight
  <2> QED BY <1>3, <2>1, <2>11
<1> QED BY <1>6, <1>8, <1>9

LEMMA PolledStays ==
    ASSUME StreamSafe, UNCHANGED <<written, build, hasJob, stream, sent, poll>>
    PROVE  \A p \in Polls : Polled(p)'
  BY SafeParts DEF Polled

LEMMA ReceiveSafe == ASSUME StreamSafe, NEW n \in 1..Len(wire), Receive(n) PROVE StreamSafe'
<1> DEFINE r == buffer \o wire
           text == buffer \o SubSeq(wire, 1, n)
           u == SubSeq(wire, n + 1, Len(wire))
           m == Len(buffer) + n
           B == Boundary(text)
<1>0. wire \in Seq(Bytes) /\ buffer \in Seq(Bytes)
  BY SafeParts
<1>1. /\ UNCHANGED <<written, build, hasJob, stream, sent, poll>> /\ wire' = u
      /\ B = 0 => buffer' = text /\ UNCHANGED <<shown, over>>
      /\ B # 0 => /\ buffer' = SubSeq(text, B, Len(text))
                  /\ ShowEvents(Payloads(SubSeq(text, 1, B - 1)))
  BY DEF Receive
<1>2. PICK pl \in Seq(Items) : \E h \in {0, 2} : Framed(r, h, pl) /\ InFlight(pl)
  BY SafeParts DEF OnTheWay
<1>3. PICK h \in {0, 2} : Framed(r, h, pl) /\ InFlight(pl)
  BY <1>2
<1>4. Len(buffer) \in Nat /\ n \in Nat /\ n >= 1 /\ n \in 0..Len(wire) /\ m \in Nat /\ 1 \in 1..m
  <2>1. Len(buffer) \in Nat /\ Len(wire) \in Nat
    BY <1>0
  <2> QED BY <2>1
<1>5. /\ r \in Seq(Bytes) /\ text \in Seq(Bytes) /\ u \in Seq(Bytes)
      /\ m \in 0..Len(r) /\ Len(text) = m
      /\ text = SubSeq(r, 1, m) /\ text \o u = r
      /\ \A c \in 1..m : /\ SubSeq(text, c, Len(text)) \in Seq(Bytes)
                         /\ SubSeq(text, c, Len(text)) \o u = SubSeq(r, c, Len(r))
                         /\ SubSeq(text, 1, c - 1) = SubSeq(r, 1, c - 1)
  BY <1>0, <1>4, ChunkIs
<1>7. Len(r) \in Nat /\ Len(pl) \in Nat /\ Len(r) = h + 4 * Len(pl)
  BY <1>3, <1>5 DEF Framed
<1>8. Unasked'
  <2>1. wire # <<>>
    <3> SUFFICES ASSUME wire = <<>> PROVE FALSE
      OBVIOUS
    <3>1. Len(wire) = 0
      BY EmptySeq
    <3> QED BY <3>1
  <2> QED BY SafeParts, <1>1, <2>1 DEF Unasked
<1> HIDE DEF r, text, u, m
<1>6. B = 0 \/ B = 1 \/ \E q \in 1..Len(pl) : B = h + 4 * q - 1 /\ B + 1 <= m
  <2> DEFINE b == Boundary(SubSeq(r, 1, m))
  <2>1. b = 0 \/ b = 1 \/ \E q \in 1..Len(pl) : b = h + 4 * q - 1 /\ b + 1 <= m
    BY <1>3, <1>5, BoundaryOf
  <2>2. b = B
    BY <1>5
  <2> HIDE DEF b, B
  <2> QED BY <2>1, <2>2
<1> HIDE DEF B
<1>9. /\ buffer' \in Seq(Bytes) /\ wire' \in Seq(Bytes) /\ shown' \in Seq(Lines) /\ LinesInOrder'
      /\ over' \in {"", "Complete", "Failed"} /\ OnTheWay'
  <2>1. CASE B = 0
    <3>1. buffer' \o wire' = r /\ UNCHANGED <<shown, over>>
      BY <1>1, <1>5, <2>1
    <3>2. InFlight(pl)'
      BY <1>1, <1>3, <3>1 DEF InFlight, Whole
    <3>3. Framed(buffer' \o wire', h, pl)
      BY <1>3, <3>1
    <3>4. OnTheWay'
      BY <3>2, <3>3 DEF OnTheWay
    <3> QED BY SafeParts, <1>1, <1>5, <2>1, <3>1, <3>4 DEF LinesInOrder
  <2>2. CASE B = 1
    <3>1. /\ buffer' \in Seq(Bytes) /\ buffer' \o wire' = SubSeq(r, 1, Len(r))
          /\ ShowEvents(Payloads(SubSeq(r, 1, 0)))
      <4>1. 1 - 1 = 0 /\ 1 # 0
        OBVIOUS
      <4>2. /\ buffer' = SubSeq(text, 1, Len(text)) /\ ShowEvents(Payloads(SubSeq(text, 1, 0)))
        BY <1>1, <2>2, <4>1
      <4>3. /\ SubSeq(text, 1, Len(text)) \in Seq(Bytes)
            /\ SubSeq(text, 1, Len(text)) \o u = SubSeq(r, 1, Len(r))
            /\ SubSeq(text, 1, 0) = SubSeq(r, 1, 0)
        BY <1>4, <1>5, <4>1
      <4> QED BY <1>1, <4>2, <4>3
    <3>2. SubSeq(r, 1, Len(r)) = r
      <4>1. SubSeq(r, 1, Len(r)) \in Seq(Bytes) /\ Len(SubSeq(r, 1, Len(r))) = Len(r)
            /\ \A i \in 1..Len(r) : SubSeq(r, 1, Len(r))[i] = r[i]
        BY <1>5, <1>7
      <4> QED BY <1>5, <4>1, SeqEqual
    <3>3. Payloads(SubSeq(r, 1, 0)) = SubSeq(pl, 1, 0)
      <4>1. 0 \in 0..Len(r) /\ 0 \in 0..Len(pl) /\ h + 4 * 0 - 2 <= 0 /\ 0 < h + 4 * 0 + 2
        BY <1>7
      <4> QED BY <1>3, <1>5, <4>1, PayloadsOf
    <3>4. ShowEvents(SubSeq(pl, 1, 0))
      BY <3>1, <3>3
    <3>5. 0 \in 0..Len(pl) /\ Len(pl) = Len(pl) - 0 /\ \A k \in 1..Len(pl) : pl[k] = pl[0 + k]
      BY <1>7
    <3>6. /\ shown' \in Seq(Lines) /\ LinesInOrder' /\ over' \in {"", "Complete", "Failed"}
          /\ InFlight(pl)'
      BY <1>1, <1>3, <3>4, <3>5, ShowSafe
    <3>7. Framed(buffer' \o wire', h, pl)
      BY <1>3, <3>1, <3>2
    <3> QED BY <1>1, <1>5, <3>1, <3>6, <3>7 DEF OnTheWay
  <2>3. ASSUME NEW q \in 1..Len(pl), B = h + 4 * q - 1, B + 1 <= m
        PROVE  /\ buffer' \in Seq(Bytes) /\ wire' \in Seq(Bytes) /\ shown' \in Seq(Lines) /\ LinesInOrder'
               /\ over' \in {"", "Complete", "Failed"} /\ OnTheWay'
    <3> DEFINE t == SubSeq(r, B, Len(r))
    <3>1. /\ B # 0 /\ B \in 1..m /\ B - 1 \in 0..Len(r) /\ q \in 0..Len(pl)
          /\ h + 4 * q - 2 <= B - 1 /\ B - 1 < h + 4 * q + 2
      <4>1. q \in Nat /\ q >= 1 /\ q <= Len(pl) /\ m \in Nat /\ m <= Len(r)
        BY <1>4, <1>5, <1>7
      <4> QED BY <1>7, <2>3, <4>1
    <3>2. /\ buffer' \in Seq(Bytes) /\ buffer' \o wire' = t
          /\ ShowEvents(Payloads(SubSeq(r, 1, B - 1)))
      BY <1>1, <1>5, <3>1
    <3>3. Payloads(SubSeq(r, 1, B - 1)) = SubSeq(pl, 1, q)
      BY <1>3, <1>5, <3>1, PayloadsOf
    <3> HIDE DEF t
    <3>4. PICK rest \in Seq(Items) : /\ Len(rest) = Len(pl) - q
                                     /\ \A k \in 1..Len(rest) : rest[k] = pl[q + k]
                                     /\ Framed(t, 2, rest)
      <4>1. Framed(r, h, pl) /\ r \in Seq(Bytes)
        BY <1>3, <1>5
      <4>2. \E rest \in Seq(Items) :
               /\ Len(rest) = Len(pl) - q /\ \A k \in 1..Len(rest) : rest[k] = pl[q + k]
               /\ Framed(SubSeq(r, h + 4 * q - 1, Len(r)), 2, rest)
        BY <4>1, FramedCut
      <4> QED BY <2>3, <4>2 DEF t
    <3>5. ShowEvents(SubSeq(pl, 1, q))
      BY <3>2, <3>3
    <3>6. /\ shown' \in Seq(Lines) /\ LinesInOrder' /\ over' \in {"", "Complete", "Failed"}
          /\ InFlight(rest)'
      BY <1>1, <1>3, <3>1, <3>4, <3>5, ShowSafe
    <3>7. Framed(buffer' \o wire', 2, rest)
      <4>1. buffer' \o wire' = t
        BY <3>2
      <4>2. Framed(t, 2, rest)
        BY <3>4
      <4> QED BY <4>1, <4>2
    <3> QED BY <1>1, <1>5, <3>2, <3>4, <3>6, <3>7 DEF OnTheWay
  <2> QED BY <1>6, <2>1, <2>2, <2>3
<1> QED BY SafeParts, SafeIf, PolledStays, <1>1, <1>8, <1>9

LEMMA ReadEndSafe == ASSUME StreamSafe, ReadEnd PROVE StreamSafe'
<1>1. /\ stream \in {"answered", "ended", "cut"} /\ wire = <<>> /\ buffer' = <<>>
      /\ ShowEvents(Payloads(buffer))
      /\ UNCHANGED <<written, build, hasJob, stream, sent, poll, wire>>
  BY DEF ReadEnd
<1>2. buffer \o wire = buffer /\ buffer \in Seq(Bytes) /\ Len(buffer) \in Nat
  <2>1. buffer \in Seq(Bytes)
    BY SafeParts
  <2> QED BY <1>1, <2>1, ConcatEmptySeq
<1>3. PICK pl \in Seq(Items) : \E h \in {0, 2} : Framed(buffer, h, pl) /\ InFlight(pl)
  BY SafeParts, <1>2 DEF OnTheWay
<1>4. PICK h \in {0, 2} : Framed(buffer, h, pl) /\ InFlight(pl)
  BY <1>3
<1>5. Len(pl) \in Nat /\ Len(buffer) = h + 4 * Len(pl)
  BY <1>4 DEF Framed
<1>6. Payloads(SubSeq(buffer, 1, Len(buffer))) = SubSeq(pl, 1, Len(pl))
  <2>1. /\ Len(buffer) \in 0..Len(buffer) /\ Len(pl) \in 0..Len(pl)
        /\ h + 4 * Len(pl) - 2 <= Len(buffer) /\ Len(buffer) < h + 4 * Len(pl) + 2
    BY <1>2, <1>5
  <2>2. h \in {0, 2} /\ Framed(buffer, h, pl) /\ buffer \in Seq(Bytes) /\ pl \in Seq(Items)
    BY <1>2, <1>4
  <2> QED BY <2>1, <2>2, PayloadsOf
<1>7. SubSeq(buffer, 1, Len(buffer)) = buffer
  <2>1. SubSeq(buffer, 1, Len(buffer)) \in Seq(Bytes) /\ Len(SubSeq(buffer, 1, Len(buffer))) = Len(buffer)
        /\ \A i \in 1..Len(buffer) : SubSeq(buffer, 1, Len(buffer))[i] = buffer[i]
    BY <1>2
  <2> QED BY <1>2, <2>1, SeqEqual
<1>8. ShowEvents(SubSeq(pl, 1, Len(pl)))
  BY <1>1, <1>6, <1>7
<1>9. /\ <<>> \in Seq(Items) /\ <<>> \in Seq(Bytes) /\ Len(<<>>) = Len(pl) - Len(pl) /\ Len(pl) \in 0..Len(pl)
      /\ \A k \in 1..Len(<<>>) : <<>>[k] = pl[Len(pl) + k]
  <2>1. <<>> \in Seq(Items) /\ <<>> \in Seq(Bytes) /\ Len(<<>>) = 0
    BY EmptySeq
  <2> QED BY <1>5, <2>1
<1>10. /\ shown' \in Seq(Lines) /\ LinesInOrder' /\ over' \in {"", "Complete", "Failed"} /\ InFlight(<<>>)'
  BY <1>1, <1>4, <1>8, <1>9, ShowSafe
<1>11. Framed(<<>>, 0, <<>>)
  <2>1. Len(<<>>) = 0
    BY EmptySeq
  <2> QED BY <2>1 DEF Framed
<1>12. buffer' \o wire' = <<>>
  <2>1. <<>> \o <<>> = <<>>
    BY <1>9, ConcatEmptySeq
  <2> QED BY <1>1, <2>1
<1>13. OnTheWay'
  <2>1. Framed(buffer' \o wire', 0, <<>>)
    BY <1>11, <1>12
  <2> QED BY <1>9, <1>10, <2>1 DEF OnTheWay
<1>14. Unasked' /\ wire' \in Seq(Bytes) /\ buffer' \in Seq(Bytes)
  BY <1>1, <1>9 DEF Unasked
<1> QED BY SafeParts, SafeIf, PolledStays, <1>1, <1>10, <1>13, <1>14

LEMMA OpenSafe == ASSUME StreamSafe, Open PROVE StreamSafe'
<1>1. /\ stream = "closed" /\ wire = <<>> /\ buffer = <<>> /\ shown = <<>> /\ sent = 0
  BY SafeParts DEF Open, Unasked
<1>2. UNCHANGED <<written, build, hasJob, sent, poll, buffer, shown, over>>
  BY DEF Open
<1>3. \A p \in Polls : Polled(p)'
  <2> SUFFICES ASSUME NEW p \in Polls PROVE Polled(p)'
    OBVIOUS
  <2>1. poll[p].step = "idle"
    BY SafeParts, <1>1 DEF Polled
  <2> QED BY <1>2, <2>1 DEF Polled
<1>4. PICK pl \in Seq(Items) : \E h \in {0, 2} : Framed(buffer \o wire, h, pl) /\ InFlight(pl)
  BY SafeParts DEF OnTheWay
<1>5. PICK h \in {0, 2} : Framed(buffer \o wire, h, pl) /\ InFlight(pl)
  BY <1>4
<1>6. <<>> \o <<>> = <<>> /\ Len(<<>>) = 0 /\ <<>> \in Seq(Items) /\ <<>> \in Seq(Bytes)
  BY EmptySeq, ConcatEmptySeq
<1>7. h = 0 /\ pl = <<>>
  <2>1. buffer \o wire = <<>>
    BY <1>1, <1>6
  <2>2. h + 4 * Len(pl) = 0 /\ Len(pl) \in Nat
    BY <1>5, <1>6, <2>1 DEF Framed
  <2>3. h = 0 /\ Len(pl) = 0
    BY <2>2
  <2> QED BY <2>3, EmptySeq
<1>8. over = "" /\ Len(shown) = 0
  BY <1>1, <1>5, <1>6 DEF InFlight
<1>9. CASE Terminal(build)
  <2>1. PICK x \in Items : Done(build) = Event(x) /\ x > MaxLines /\ (x = DoneOk => build.status = "completed")
    BY SafeParts, <1>9, DoneIs
  <2>2. stream' = "answered" /\ wire' = Events(<<x>>) /\ <<x>> \in Seq(Items) /\ Len(<<x>>) = 1 /\ <<x>>[1] = x
    BY <1>9, <2>1, EventIs DEF Open
  <2> DEFINE new == <<x>>
  <2>3. /\ new \in Seq(Items) /\ Len(new) = 1 /\ new[1] = x /\ wire' = Events(new)
    BY <2>2
  <2> HIDE DEF new
  <2>4. Framed(buffer' \o wire', 0, new) /\ wire' \in Seq(Bytes)
    <3>1. Framed(<<>>, 0, <<>>)
      BY <1>6 DEF Framed
    <3>2. Framed(<<>> \o Events(new), 0, <<>> \o new) /\ Events(new) \in Seq(Bytes)
      BY <1>6, <2>3, <3>1, FramedAdd, EventsAre
    <3>3. <<>> \o new = new
      BY <2>3, ConcatEmptySeq
    <3> QED BY <1>1, <1>2, <2>3, <3>2, <3>3
  <2>5. Ending(new) /\ new[Len(new)] = x
    BY <2>1, <2>3 DEF Ending
  <2>6. InOrder(Len(shown), new)
    <3> SUFFICES ASSUME NEW k \in 1..Len(new) PROVE k = Len(new) /\ new[k] > MaxLines
      BY DEF InOrder
    <3>1. k = 1
      BY <2>3
    <3> QED BY <2>1, <2>3, <3>1
  <2>7. InFlight(new)'
    BY <1>2, <1>8, <2>1, <2>2, <2>5, <2>6 DEF InFlight, Whole
  <2>8. OnTheWay' /\ Unasked' /\ LinesInOrder'
    BY SafeParts, <1>2, <2>2, <2>3, <2>4, <2>7 DEF OnTheWay, Unasked, LinesInOrder
  <2> QED BY SafeParts, SafeIf, <1>2, <1>3, <2>2, <2>4, <2>8
<1>10. CASE ~Terminal(build)
  <2>1. stream' = "open" /\ wire' = wire
    BY <1>10 DEF Open
  <2>2. InFlight(<<>>)'
    <3>1. ~Ending(<<>>) /\ InOrder(Len(shown), <<>>)
      BY <1>6 DEF Ending, InOrder
    <3>2. Len(shown) + Len(<<>>) = sent
      <4>1. Len(shown) = 0 /\ Len(<<>>) = 0 /\ sent = 0
        BY <1>1, <1>6, <1>8
      <4>2. 0 + 0 = 0
        OBVIOUS
      <4> QED BY <4>1, <4>2
    <3> QED BY <1>2, <1>8, <2>1, <3>1, <3>2 DEF InFlight
  <2>3. Framed(buffer' \o wire', 0, <<>>)
    BY <1>2, <1>5, <1>7, <2>1
  <2>4. OnTheWay' /\ Unasked' /\ LinesInOrder'
    BY SafeParts, <1>2, <1>6, <2>1, <2>2, <2>3 DEF OnTheWay, Unasked, LinesInOrder
  <2> QED BY SafeParts, SafeIf, <1>2, <1>3, <2>1, <2>4
<1> QED BY <1>9, <1>10

LEMMA CutSafe == ASSUME StreamSafe, Cut PROVE StreamSafe'
<1>1. /\ stream = "open" /\ stream' = "cut"
      /\ UNCHANGED <<written, build, hasJob, sent, poll, wire, buffer, shown, over>>
  BY DEF Cut
<1>2. \A p \in Polls : Polled(p)'
  BY SafeParts, <1>1 DEF Polled
<1>3. PICK pl \in Seq(Items) : \E h \in {0, 2} : Framed(buffer \o wire, h, pl) /\ InFlight(pl)
  BY SafeParts DEF OnTheWay
<1>4. PICK h \in {0, 2} : Framed(buffer \o wire, h, pl) /\ InFlight(pl)
  BY <1>3
<1>5. InFlight(pl)'
  BY <1>1, <1>4 DEF InFlight
<1>6. OnTheWay' /\ Unasked' /\ LinesInOrder'
  BY SafeParts, <1>1, <1>4, <1>5 DEF OnTheWay, Unasked, LinesInOrder
<1> QED BY SafeParts, SafeIf, <1>1, <1>2, <1>6

(* Reading changes the poll alone.                                         *)
LEMMA ReadSafe ==
    ASSUME StreamSafe, OnePoll, NEW p \in Polls,
           UNCHANGED <<written, build, hasJob, stream, sent, wire, buffer, shown, over>>,
           NEW mid \in PollStates, poll' = [poll EXCEPT ![p] = mid], Polled(p)'
    PROVE  StreamSafe'
<1>1. poll' \in [Polls -> PollStates]
  BY SafeParts
<1>2. \A q \in Polls : Polled(q)'
  BY DEF OnePoll
<1>3. OnTheWay' /\ Unasked' /\ LinesInOrder'
  BY SafeParts DEF OnTheWay, InFlight, Whole, Unasked, LinesInOrder
<1> QED BY SafeParts, SafeIf, <1>1, <1>2, <1>3

LEMMA ReadRowSafe == ASSUME StreamSafe, OnePoll, NEW p \in Polls, ReadRow(p) PROVE StreamSafe'
<1> DEFINE mid == [Resting EXCEPT !.step = "logs", !.row = build]
<1>1. /\ stream = "open" /\ poll' = [poll EXCEPT ![p] = mid]
      /\ UNCHANGED <<written, build, hasJob, stream, sent, wire, buffer, shown, over>>
  BY DEF ReadRow
<1>2. mid \in PollStates /\ mid.step = "logs" /\ mid.row = build
  <2>1. Nothing \in Rows /\ <<>> \in Seq(Lines) /\ build \in Rows
    BY SafeParts, EmptySeq DEF Nothing, Rows
  <2> QED BY <2>1 DEF Resting, PollStates
<1> HIDE DEF mid
<1>3. poll'[p] = mid
  BY SafeParts, <1>1
<1>4. Polled(p)'
  BY <1>1, <1>2, <1>3 DEF Polled
<1> QED BY <1>1, <1>2, <1>4, ReadSafe

LEMMA ReadLogsSafe == ASSUME StreamSafe, OnePoll, NEW p \in Polls, ReadLogs(p) PROVE StreamSafe'
<1> DEFINE got == IF hasJob THEN [i \in 1..(written - sent) |-> sent + i] ELSE <<>>
           mid == [poll[p] EXCEPT !.step = "send", !.got = got]
<1>0. poll \in [Polls -> PollStates] /\ poll[p] \in PollStates /\ poll[p].step = "logs" /\ Polled(p)
  BY SafeParts DEF ReadLogs
<1>1. /\ poll' = [poll EXCEPT ![p] = mid]
      /\ UNCHANGED <<written, build, hasJob, stream, sent, wire, buffer, shown, over>>
  BY DEF ReadLogs
<1>2. /\ got \in Seq(Lines) /\ Len(got) \in Nat
      /\ \A i \in 1..Len(got) : got[i] = sent + i
      /\ sent + Len(got) <= written
      /\ hasJob => sent + Len(got) = written
  <2>0. written \in Nat /\ sent \in Nat /\ sent <= written /\ written <= MaxLines
    BY SafeParts
  <2>1. CASE hasJob
    <3> DEFINE d == written - sent
               g == [i \in 1..d |-> sent + i]
    <3>1. d \in Nat /\ sent + d = written
      BY <2>0
    <3>2. \A i \in 1..d : sent + i \in Lines
      BY <2>0, StreamAssumption DEF Lines
    <3>3. got = g
      BY <2>1
    <3> HIDE DEF d
    <3>4. g \in Seq(Lines) /\ Len(g) = d /\ \A i \in 1..d : g[i] = sent + i
      BY <3>1, <3>2
    <3> HIDE DEF g, got
    <3>5. got \in Seq(Lines) /\ Len(got) = d /\ \A i \in 1..d : got[i] = sent + i
      BY <3>3, <3>4
    <3>6. written <= written
      BY <2>0
    <3> QED BY <3>1, <3>5, <3>6
  <2>2. CASE ~hasJob
    <3>1. got = <<>> /\ Len(<<>>) = 0 /\ <<>> \in Seq(Lines)
      BY <2>2, EmptySeq
    <3> HIDE DEF got
    <3>2. sent + 0 <= written
      BY <2>0
    <3> QED BY <2>2, <3>1, <3>2
  <2> QED BY <2>1, <2>2
<1> HIDE DEF got
<1>3. mid \in PollStates /\ mid.step = "send" /\ mid.got = got /\ mid.row = poll[p].row
  BY <1>0, <1>2 DEF PollStates
<1> HIDE DEF mid
<1>4. poll'[p] = mid
  BY <1>0, <1>1
<1>5. Polled(p)'
  BY <1>0, <1>1, <1>2, <1>3, <1>4 DEF Polled
<1> QED BY <1>1, <1>3, <1>5, ReadSafe

LEMMA SendLogsSafe == ASSUME StreamSafe, OnePoll, NEW p \in Polls, SendLogs(p) PROVE StreamSafe'
<1> DEFINE got == poll[p].got
           mid == [poll[p] EXCEPT !.step = "finish"]
<1>0. poll \in [Polls -> PollStates] /\ poll[p] \in PollStates /\ poll[p].step = "send" /\ Polled(p)
  BY SafeParts DEF SendLogs
<1>1. /\ Write(Events(got)) /\ sent' = sent + Len(got) /\ poll' = [poll EXCEPT ![p] = mid]
      /\ UNCHANGED <<written, build, hasJob, stream, buffer, shown, over>>
  BY DEF SendLogs
<1>2. /\ got \in Seq(Lines) /\ \A i \in 1..Len(got) : got[i] = sent + i
      /\ sent + Len(got) <= written
      /\ poll[p].row.status = "completed" /\ hasJob => sent + Len(got) = written
      /\ stream \in {"open", "cut"}
      /\ poll[p].row.status = "completed" => build.status = "completed"
  BY <1>0 DEF Polled, PollStates
<1>3. mid \in PollStates /\ mid.step = "finish" /\ mid.row = poll[p].row
  BY <1>0 DEF PollStates
<1> HIDE DEF got, mid
<1>4. got \in Seq(Items) /\ Len(got) \in Nat /\ \A i \in 1..Len(got) : got[i] \in Lines
  <2>1. Lines \subseteq Items
    BY StreamAssumption DEF Lines, Items, Broken
  <2> QED BY <1>2, <2>1, SeqMonotonic
<1>15. PICK new \in Seq(Items) : new = got
  BY <1>4
<1>11. Write(Events(new)) /\ sent' = sent + Len(new)
  BY <1>1, <1>15
<1>12. \A i \in 1..Len(new) : new[i] = sent + i
  BY <1>2, <1>15
<1>13. sent + Len(new) <= written /\ (poll[p].row.status = "completed" /\ hasJob => sent + Len(new) = written)
  BY <1>2, <1>15
<1>14. Len(new) \in Nat /\ \A i \in 1..Len(new) : new[i] \in Lines
  BY <1>4, <1>15
<1>5. poll'[p] = mid /\ poll' \in [Polls -> PollStates]
  BY <1>0, <1>1, <1>3
<1>6. Polled(p)'
  BY <1>1, <1>2, <1>3, <1>5 DEF Polled
<1>7. \A q \in Polls : Polled(q)'
  BY <1>6 DEF OnePoll
<1>8. sent' \in Nat /\ sent' <= written
  <2>1. sent \in Nat
    BY SafeParts
  <2> QED BY <1>11, <1>13, <1>14, <2>1
<1>9. wire' \in Seq(Bytes) /\ OnTheWay'
  <2>1. CASE stream = "cut"
    <3>1. wire' = wire /\ stream' = "cut"
      BY <1>1, <2>1 DEF Write
    <3> QED BY SafeParts, <1>1, <2>1, <3>1 DEF OnTheWay, InFlight, Whole
  <2>2. CASE stream = "open"
    <3>1. wire' = wire \o Events(new) /\ stream' = "open"
      BY <1>1, <1>11, <2>2 DEF Write
    <3>2. PICK pl \in Seq(Items) : \E h \in {0, 2} : Framed(buffer \o wire, h, pl) /\ InFlight(pl)
      BY SafeParts DEF OnTheWay
    <3>3. PICK h \in {0, 2} : Framed(buffer \o wire, h, pl) /\ InFlight(pl)
      BY <3>2
    <3> DEFINE all == pl \o new
    <3>4. wire' \in Seq(Bytes) /\ all \in Seq(Items) /\ Framed(buffer' \o wire', h, all)
      BY <1>1, <2>2, <3>1, <3>3, Added
    <3>5. /\ over = "" /\ Len(shown) + Len(pl) = sent /\ Len(pl) \in Nat
          /\ \A k \in 1..Len(pl) : pl[k] \in Lines /\ pl[k] = Len(shown) + k
      BY <2>2, <3>3, OpenLines
    <3>6. /\ Len(all) = Len(pl) + Len(new)
          /\ \A k \in 1..(Len(pl) + Len(new)) : all[k] = IF k <= Len(pl) THEN pl[k] ELSE new[k - Len(pl)]
      BY <1>14, ConcatProperties
    <3> HIDE DEF all
    <3>0. Len(shown) \in Nat /\ Len(pl) \in Nat /\ Len(new) \in Nat
      <4>1. Len(shown) \in Nat
        BY SafeParts
      <4> QED BY <1>14, <4>1
    <3>7. ASSUME NEW k \in 1..Len(all) PROVE all[k] \in Lines /\ all[k] = Len(shown) + k
      <4>0. k \in 1..(Len(pl) + Len(new))
        BY <3>6
      <4>1. CASE k <= Len(pl)
        <5>1. k \in 1..Len(pl)
          BY <3>0, <4>0, <4>1
        <5> QED BY <3>5, <3>6, <4>0, <4>1, <5>1
      <4>2. CASE ~(k <= Len(pl))
        <5>1. k - Len(pl) \in 1..Len(new) /\ Len(shown) + Len(pl) + (k - Len(pl)) = Len(shown) + k
          BY <3>0, <4>0, <4>2
        <5>2. all[k] = new[k - Len(pl)]
          BY <3>6, <4>0, <4>2
        <5>3. new[k - Len(pl)] = sent + (k - Len(pl)) /\ new[k - Len(pl)] \in Lines
          BY <1>12, <1>14, <5>1
        <5> QED BY <3>5, <5>1, <5>2, <5>3
      <4> QED BY <4>1, <4>2
    <3>8. InOrder(Len(shown), all)
      BY <3>7 DEF InOrder
    <3>9. ~Ending(all)
      <4> SUFFICES ASSUME Ending(all) PROVE FALSE
        OBVIOUS
      <4>1. Len(all) > 0 /\ all[Len(all)] > MaxLines
        BY DEF Ending
      <4>2. Len(all) \in 1..Len(all)
        BY <3>0, <3>6, <4>1
      <4>3. all[Len(all)] \in Lines
        BY <3>7, <4>2
      <4> QED BY <4>1, <4>3, StreamAssumption DEF Lines
    <3>10. Len(shown) + Len(all) = sent'
      <4>1. Len(shown) + (Len(pl) + Len(new)) = (Len(shown) + Len(pl)) + Len(new)
        BY <3>0
      <4> QED BY <1>11, <3>5, <3>6, <4>1
    <3>11. InFlight(all)'
      BY <1>1, <3>1, <3>5, <3>8, <3>9, <3>10 DEF InFlight
    <3> QED BY <3>4, <3>11 DEF OnTheWay
  <2> QED BY <1>2, <2>1, <2>2
<1>10. Unasked' /\ LinesInOrder'
  BY SafeParts, <1>1, <1>2 DEF Unasked, LinesInOrder
<1> QED BY SafeParts, SafeIf, <1>1, <1>5, <1>7, <1>8, <1>9, <1>10

LEMMA StutterSafe ==
    ASSUME StreamSafe, UNCHANGED <<written, build, hasJob, stream, sent, poll, wire, buffer, shown, over>>
    PROVE  StreamSafe'
<1>1. OnTheWay' /\ Unasked' /\ LinesInOrder'
  BY SafeParts DEF OnTheWay, InFlight, Whole, Unasked, LinesInOrder
<1> QED BY SafeParts, SafeIf, PolledStays, <1>1

LEMMA StreamSafeStep == ASSUME OnePoll, StreamSafe, [StreamNext]_streamVars PROVE StreamSafe'
<1>1. CASE WorkerStep
  BY <1>1, WorkerSafe
<1>2. CASE Open
  BY <1>2, OpenSafe
<1>3. CASE Cut
  BY <1>3, CutSafe
<1>4. ASSUME NEW p \in Polls, PollStep(p) PROVE StreamSafe'
  BY <1>4, ReadRowSafe, ReadLogsSafe, SendLogsSafe, FinishSafe, FailSafe DEF PollStep
<1>5. CASE Arrive
  BY <1>5, ReceiveSafe, ReadEndSafe DEF Arrive
<1>6. CASE UNCHANGED streamVars
  BY <1>6, StutterSafe DEF streamVars
<1> QED BY <1>1, <1>2, <1>3, <1>4, <1>5, <1>6 DEF StreamNext

LEMMA StreamSafeShows == ASSUME StreamSafe PROVE ShowsTheLog
<1>1. over = "Complete" => Whole(Len(shown))
  BY SafeParts DEF OnTheWay, InFlight
<1>2. LinesInOrder
  BY SafeParts
<1> QED BY <1>1, <1>2 DEF ShowsTheLog, CompleteIsWhole, CompleteIsTrue, Whole

(* However the bytes are cut and whatever fails, the console shows the log *)
(* from its first line on, each line once; it says Complete of a completed *)
(* build only, and of one that it followed when it has shown all of it.    *)
(* One poll at a time: of two that overlap, both send the lines they read. *)
THEOREM TerminalShowsTheLog == ASSUME OnePoll PROVE StreamSpec => [](StreamTypeOK /\ ShowsTheLog)
<1>1. StreamInit => StreamSafe
  BY StreamSafeInit
<1>2. StreamSafe /\ [StreamNext]_streamVars => StreamSafe'
  BY StreamSafeStep
<1>3. StreamSafe => StreamTypeOK /\ ShowsTheLog
  <2> SUFFICES ASSUME StreamSafe PROVE StreamTypeOK
    BY StreamSafeShows
  <2>1. StreamTyped
    BY DEF StreamSafe
  <2>2. sent \in Nat
    BY SafeParts
  <2> QED BY <2>1, <2>2 DEF StreamTyped, StreamTypeOK, Rows, Bytes
<1> QED BY <1>1, <1>2, <1>3, PTL DEF StreamSpec
================================================================================
