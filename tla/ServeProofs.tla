---------------------------- MODULE ServeProofs ----------------------------
(***************************************************************************)
(* Theorems about ServeCache and BlobServe, and their proofs.              *)
(***************************************************************************)
EXTENDS ServeCache, BlobServe, SequenceTheorems, TLAPS

-----------------------------------------------------------------------------
(* ServeCache: types.                                                      *)

(* What TypeOK lacks to be inductive: what FillActive and SetActive write  *)
(* is a deployment, and an activation under way has a version to bump to.  *)
Bounded ==
    /\ \A x \in Visits : pc[x] = "actFill" => got[x] # 0
    /\ switch.step \in {"setActive", "incr"} => rVersion < Seed + MaxSwitches
    /\ switch.step = "setActive" => switch.to # 0

Typed == TypeOK /\ Bounded

LEMMA TypedInit == Init => Typed
<1> SUFFICES ASSUME Init PROVE Typed
  OBVIOUS
<1> USE ConstantsAssumption DEF Init, Answers, Deployments, SiteVersions
<1>1. made \in Answers /\ live \in 0..made /\ rVersion \in SiteVersions
  OBVIOUS
<1>2. rActive \in Deployments \cup {Empty}
  OBVIOUS
<1>3. switch \in [step : SwitchSteps, to : Answers, isRollback : BOOLEAN]
  BY DEF Idle, SwitchSteps
<1>4. lSite \in CacheOf(SiteEntries) /\ lVersion \in CacheOf(SiteVersions)
  BY DEF CacheOf
<1>5. lActive \in ScopedCache /\ lPath \in ScopedCache
  BY DEF ScopedCache
<1>6. pc \in [Visits -> VisitSteps] /\ ver \in [Visits -> SiteVersions] /\ got \in [Visits -> Answers]
  BY DEF VisitSteps
<1> QED BY <1>1, <1>2, <1>3, <1>4, <1>5, <1>6 DEF Typed, TypeOK, Bounded, DeleteSteps, Idle

(* A step of one visit: where it goes on, by which version and with what.  *)
LEMMA VisitType ==
    ASSUME Typed, NEW x \in Visits, NEW step \in VisitSteps, NEW v \in SiteVersions,
           NEW d \in Answers, step = "actFill" => d # 0,
           pc' = [pc EXCEPT ![x] = step], ver' = [ver EXCEPT ![x] = v],
           got' = [got EXCEPT ![x] = d]
    PROVE  /\ pc' \in [Visits -> VisitSteps] /\ ver' \in [Visits -> SiteVersions]
           /\ got' \in [Visits -> Answers]
           /\ \A y \in Visits : pc'[y] = "actFill" => got'[y] # 0
BY DEF Typed, TypeOK, Bounded

(* What a visit writes besides: Redis and the LRU.                         *)
LEMMA LookType ==
    ASSUME Typed, NEW x \in Visits,
           \/ LookUpSite(x) \/ GetSite(x) \/ FailSite(x) \/ QuerySite(x) \/ FillSite(x)
           \/ LookUpVersion(x) \/ GetVersion(x) \/ PutVersion(x)
    PROVE  Typed'
<1> USE ConstantsAssumption
<1>0. /\ pc \in [Visits -> VisitSteps] /\ ver \in [Visits -> SiteVersions]
      /\ got \in [Visits -> Answers] /\ ServerOf[x] \in Servers
      /\ lSite \in [Servers -> SiteEntries \cup {Empty}]
      /\ lVersion \in [Servers -> SiteVersions \cup {Empty}]
      /\ 0 \in SiteVersions /\ 0 \in Answers
  BY DEF Typed, TypeOK, CacheOf, SiteVersions, Answers
<1>a. pc[x] \in VisitSteps /\ ver[x] \in SiteVersions /\ got[x] \in Answers
  BY <1>0
<1>b. ver = [ver EXCEPT ![x] = ver[x]] /\ got = [got EXCEPT ![x] = got[x]]
  BY <1>0
<1>1. \E step \in VisitSteps \ {"actFill"}, v \in SiteVersions, d \in Answers :
          /\ pc' = [pc EXCEPT ![x] = step]
          /\ ver' = [ver EXCEPT ![x] = v]
          /\ got' = [got EXCEPT ![x] = d]
  <2>1. CASE LookUpSite(x)
    BY <2>1, <1>0, <1>a, <1>b DEF LookUpSite, NotFound, Goto, VisitSteps
  <2>2. CASE GetSite(x)
    BY <2>2, <1>0, <1>a, <1>b DEF GetSite, NotFound, Goto, VisitSteps
  <2>3. CASE FailSite(x)
    BY <2>3, <1>0, <1>a, <1>b DEF FailSite, Move, Goto, VisitSteps
  <2>4. CASE QuerySite(x)
    <3>1. /\ pc' = [pc EXCEPT ![x] = "siteFill"]
          /\ got' = [got EXCEPT ![x] = IF open THEN 1 ELSE 0]
          /\ ver' = [ver EXCEPT ![x] = ver[x]]
      BY <2>4, <1>b DEF QuerySite, Move, Goto
    <3>2. (IF open THEN 1 ELSE 0) \in Answers
      BY DEF Typed, TypeOK, Answers
    <3> QED BY <3>1, <3>2, <1>a DEF VisitSteps
  <2>5. CASE FillSite(x)
    <3> DEFINE next == IF got[x] = 1 THEN "version" ELSE "respond"
    <3>1. /\ pc' = [pc EXCEPT ![x] = next]
          /\ got' = [got EXCEPT ![x] = 0]
          /\ ver' = [ver EXCEPT ![x] = ver[x]]
      BY <2>5, <1>b DEF FillSite, Move, Goto
    <3>2. next \in VisitSteps \ {"actFill"}
      BY DEF VisitSteps
    <3> HIDE DEF next
    <3> QED BY <3>1, <3>2, <1>0, <1>a
  <2>6. CASE LookUpVersion(x)
    BY <2>6, <1>0, <1>a, <1>b DEF LookUpVersion, Goto, VisitSteps
  <2>7. CASE GetVersion(x)
    <3>1. PICK v \in {rVersion} \cup (IF RedisFails THEN {0} ELSE {}) :
              ver' = [ver EXCEPT ![x] = v]
      BY <2>7 DEF GetVersion
    <3>2. v \in SiteVersions
      BY <1>0 DEF Typed, TypeOK
    <3> QED BY <2>7, <3>1, <3>2, <1>a, <1>b DEF GetVersion, Move, Goto, VisitSteps
  <2>8. CASE PutVersion(x)
    BY <2>8, <1>0, <1>a, <1>b DEF PutVersion, Move, Goto, VisitSteps
  <2> QED BY <2>1, <2>2, <2>3, <2>4, <2>5, <2>6, <2>7, <2>8
<1>2. /\ pc' \in [Visits -> VisitSteps] /\ ver' \in [Visits -> SiteVersions]
      /\ got' \in [Visits -> Answers]
      /\ \A y \in Visits : pc'[y] = "actFill" => got'[y] # 0
  BY <1>1, VisitType
<1>3. rSite' \in SiteEntries \cup {Empty}
  BY DEF Typed, TypeOK, LookUpSite, GetSite, FailSite, QuerySite, FillSite, Written,
         LookUpVersion, GetVersion, PutVersion, redis, SiteEntries
<1>4. lSite' \in CacheOf(SiteEntries)
  BY <1>0 DEF Typed, TypeOK, CacheOf, LookUpSite, GetSite, FailSite, QuerySite, FillSite,
         LookUpVersion, GetVersion, PutVersion, lru, SiteEntries
<1>5. lVersion' \in CacheOf(SiteVersions)
  BY <1>0, <1>a DEF Typed, TypeOK, CacheOf, LookUpSite, GetSite, FailSite, QuerySite, FillSite,
         LookUpVersion, GetVersion, PutVersion, lru
<1>6. UNCHANGED <<mishap, made, live, open, switch, delete, rActive, rVersion, lActive, lPath>>
  BY DEF LookUpSite, GetSite, FailSite, QuerySite, FillSite, LookUpVersion, GetVersion,
         PutVersion, pg, api, redis, lru
<1> QED BY <1>2, <1>3, <1>4, <1>5, <1>6 DEF Typed, TypeOK, Bounded

LEMMA ServeType ==
    ASSUME Typed, NEW x \in Visits,
           \/ LookUpPath(x) \/ GetActive(x) \/ QueryActive(x) \/ FillActive(x)
           \/ PutActive(x) \/ Resolve(x) \/ Respond(x)
    PROVE  Typed'
<1> USE ConstantsAssumption
<1>0. /\ pc \in [Visits -> VisitSteps] /\ ver \in [Visits -> SiteVersions]
      /\ got \in [Visits -> Answers] /\ ServerOf[x] \in Servers
      /\ lActive \in [Servers -> [SiteVersions -> Answers \cup {Empty}]]
      /\ lPath \in [Servers -> [SiteVersions -> Answers \cup {Empty}]]
      /\ 0 \in SiteVersions /\ 0 \in Answers
  BY DEF Typed, TypeOK, ScopedCache, SiteVersions, Answers
<1>a. pc[x] \in VisitSteps /\ ver[x] \in SiteVersions /\ got[x] \in Answers
  BY <1>0
<1>b. ver = [ver EXCEPT ![x] = ver[x]] /\ got = [got EXCEPT ![x] = got[x]]
  BY <1>0
<1>c. /\ lPath[ServerOf[x]][ver[x]] \in Answers \cup {Empty}
      /\ lActive[ServerOf[x]][ver[x]] \in Answers \cup {Empty}
  BY <1>0, <1>a
<1>1. \E step \in VisitSteps, v \in SiteVersions, d \in Answers :
          /\ step = "actFill" => d # 0
          /\ pc' = [pc EXCEPT ![x] = step]
          /\ ver' = [ver EXCEPT ![x] = v]
          /\ got' = [got EXCEPT ![x] = d]
  <2>1. CASE LookUpPath(x)
    BY <2>1, <1>a, <1>b, <1>c DEF LookUpPath, Found, Goto, Scope, VisitSteps
  <2>2. CASE GetActive(x)
    <3>1. rActive # Empty => rActive \in Answers
      BY DEF Typed, TypeOK, Deployments, Answers
    <3> QED BY <2>2, <3>1, <1>a, <1>b DEF GetActive, Found, Goto, VisitSteps
  <2>3. CASE QueryActive(x)
    <3> DEFINE next == IF live = 0 THEN "actPut" ELSE "actFill"
    <3>1. /\ pc' = [pc EXCEPT ![x] = next]
          /\ got' = [got EXCEPT ![x] = live]
          /\ ver' = [ver EXCEPT ![x] = ver[x]]
      BY <2>3, <1>b DEF QueryActive, Move, Goto
    <3>2. live \in Answers
      BY DEF Typed, TypeOK, Answers
    <3>3. next \in VisitSteps /\ (next = "actFill" => live # 0)
      BY DEF VisitSteps
    <3> HIDE DEF next
    <3> QED BY <3>1, <3>2, <3>3, <1>a
  <2>4. CASE FillActive(x)
    BY <2>4, <1>a, <1>b DEF FillActive, Move, Goto, VisitSteps
  <2>5. CASE PutActive(x)
    BY <2>5, <1>a, <1>b DEF PutActive, Move, Goto, VisitSteps
  <2>6. CASE Resolve(x)
    BY <2>6, <1>a, <1>b DEF Resolve, Move, Goto, VisitSteps
  <2>7. CASE Respond(x)
    BY <2>7, <1>0 DEF Respond, Move, Goto, VisitSteps
  <2> QED BY <2>1, <2>2, <2>3, <2>4, <2>5, <2>6, <2>7
<1>2. /\ pc' \in [Visits -> VisitSteps] /\ ver' \in [Visits -> SiteVersions]
      /\ got' \in [Visits -> Answers]
      /\ \A y \in Visits : pc'[y] = "actFill" => got'[y] # 0
  BY <1>1, VisitType
<1>3. rActive' \in Deployments \cup {Empty}
  <2>1. CASE FillActive(x)
    <3>1. got[x] \in Deployments
      BY <2>1, <1>a DEF FillActive, Move, Typed, Bounded, Answers, Deployments
    <3> QED BY <2>1, <3>1 DEF FillActive, Written, Typed, TypeOK
  <2>2. CASE ~FillActive(x)
    BY <2>2 DEF Typed, TypeOK, LookUpPath, GetActive, QueryActive, PutActive, Resolve, Respond, redis
  <2> QED BY <2>1, <2>2
<1>4. lActive' \in ScopedCache
  <2>1. CASE PutActive(x)
    BY <2>1, <1>0, <1>a DEF PutActive, Scope, ScopedCache
  <2>2. CASE ~PutActive(x)
    BY <2>2 DEF Typed, TypeOK, LookUpPath, GetActive, QueryActive, FillActive, Resolve, Respond, lru
  <2> QED BY <2>1, <2>2
<1>5. lPath' \in ScopedCache
  <2>1. CASE Resolve(x)
    BY <2>1, <1>0, <1>a DEF Resolve, ScopedCache
  <2>2. CASE ~Resolve(x)
    BY <2>2 DEF Typed, TypeOK, LookUpPath, GetActive, QueryActive, FillActive, PutActive, Respond, lru
  <2> QED BY <2>1, <2>2
<1>6. UNCHANGED <<mishap, made, live, open, switch, delete, rSite, rVersion, lSite, lVersion>>
  BY DEF LookUpPath, GetActive, QueryActive, FillActive, PutActive, Resolve, Respond,
         pg, api, redis, lru
<1> QED BY <1>2, <1>3, <1>4, <1>5, <1>6 DEF Typed, TypeOK, Bounded

(* Activations, the deletion, and entries that run out.                    *)
LEMMA ApiType ==
    ASSUME Typed,
           \/ \E d \in Deployments : Activate(d)
           \/ Publish \/ DeleteRows \/ Delete
    PROVE  Typed'
<1> USE ConstantsAssumption
<1>0. /\ switch \in [step : SwitchSteps, to : Answers, isRollback : BOOLEAN]
      /\ made \in Answers /\ live \in 0..made /\ rVersion \in SiteVersions
      /\ Seed \in Nat /\ MaxSwitches \in Nat
  BY DEF Typed, TypeOK
<1>1. ASSUME NEW d \in Deployments, Activate(d) PROVE Typed'
  <2>1. made' \in Answers /\ live' \in 0..made'
    BY <1>1, <1>0 DEF Activate, Answers, Deployments
  <2>2. (d <= made) \in BOOLEAN
    BY <1>0 DEF Answers, Deployments
  <2>3. d \in Answers /\ d # 0
    BY DEF Answers, Deployments
  <2>4. /\ switch' \in [step : SwitchSteps, to : Answers, isRollback : BOOLEAN]
        /\ switch'.step = "setActive" /\ switch'.to # 0
    BY <1>1, <2>2, <2>3 DEF Activate, SwitchSteps
  <2> QED BY <1>1, <2>1, <2>4 DEF Activate, Typed, TypeOK, Bounded, redis, lru, visit
<1>2. CASE SetActive
  <2>1. switch' = [switch EXCEPT !.step = "incr"] /\ switch.step = "setActive" /\ switch.to # 0
    BY <1>2 DEF SetActive, SwitchTo, Typed, Bounded
  <2>2. /\ switch' \in [step : SwitchSteps, to : Answers, isRollback : BOOLEAN]
        /\ switch'.step = "incr"
    BY <2>1, <1>0 DEF SwitchSteps
  <2>3. rActive' \in Deployments
    BY <1>2, <1>0, <2>1 DEF SetActive, Answers, Deployments
  <2> QED BY <1>2, <2>1, <2>2, <2>3 DEF SetActive, Typed, TypeOK, Bounded, pg, lru, visit
<1>3. CASE IncrVersion
  <2>1. switch' = [switch EXCEPT !.step = "dropSite"] /\ rVersion < Seed + MaxSwitches
    BY <1>3 DEF IncrVersion, SwitchTo, Typed, Bounded
  <2>2. /\ switch' \in [step : SwitchSteps, to : Answers, isRollback : BOOLEAN]
        /\ switch'.step = "dropSite"
    BY <2>1, <1>0 DEF SwitchSteps
  <2>3. rVersion' \in SiteVersions
    BY <1>3, <1>0, <2>1 DEF IncrVersion, SiteVersions
  <2> QED BY <1>3, <2>2, <2>3 DEF IncrVersion, Typed, TypeOK, Bounded, pg, lru, visit
<1>4. CASE DropSite
  <2>1. switch' \in [step : SwitchSteps, to : Answers, isRollback : BOOLEAN]
    BY <1>4 DEF DropSite, Idle, SwitchSteps, Answers
  <2> QED BY <1>4, <2>1 DEF DropSite, Idle, Typed, TypeOK, Bounded, pg, lru, visit
<1>5. CASE DeleteRows
  <2>1. live' \in 0..made
    BY <1>5, <1>0 DEF DeleteRows, Answers
  <2> QED BY <1>5, <2>1 DEF DeleteRows, DeleteTo, DeleteSteps, Typed, TypeOK, Bounded, redis, lru, visit
<1>6. CASE DeactivateSite
  BY <1>6 DEF DeactivateSite, DeleteTo, DeleteSteps, Typed, TypeOK, Bounded, redis, lru, visit
<1>7. CASE DeleteSiteKey
  BY <1>7 DEF DeleteSiteKey, DeleteTo, DeleteSteps, Typed, TypeOK, Bounded, pg, lru, visit
<1>8. CASE DeleteActiveKey
  BY <1>8 DEF DeleteActiveKey, DeleteTo, DeleteSteps, Typed, TypeOK, Bounded, pg, lru, visit
<1>9. CASE DeleteVersionKey
  <2>1. rVersion' \in SiteVersions /\ (rVersion < Seed + MaxSwitches => rVersion' < Seed + MaxSwitches)
    BY <1>9, <1>0 DEF DeleteVersionKey, SiteVersions
  <2> QED BY <1>9, <2>1 DEF DeleteVersionKey, DeleteTo, DeleteSteps, Typed, TypeOK, Bounded, pg, lru, visit
<1> QED BY <1>1, <1>2, <1>3, <1>4, <1>5, <1>6, <1>7, <1>8, <1>9 DEF Publish, Delete

LEMMA LapseType ==
    ASSUME Typed, LapseRedisSite \/ \E s \in Servers : Lapses(s)
    PROVE  Typed'
<1> USE DEF Typed, TypeOK, Bounded, pg, api, redis, lru, visit
<1>1. CASE LapseRedisSite
  BY <1>1 DEF LapseRedisSite
<1>2. ASSUME NEW s \in Servers, LapseSite(s) PROVE Typed'
  BY <1>2 DEF LapseSite, CacheOf
<1>3. ASSUME NEW s \in Servers, LapseVersion(s) PROVE Typed'
  BY <1>3 DEF LapseVersion, CacheOf
<1>4. ASSUME NEW s \in Servers, NEW v \in SiteVersions, LapseActive(s, v) PROVE Typed'
  <2>1. lActive' \in ScopedCache
    BY <1>4 DEF LapseActive, ScopedCache
  <2> QED BY <1>4, <2>1 DEF LapseActive
<1>5. ASSUME NEW s \in Servers, NEW v \in SiteVersions, LapsePath(s, v) PROVE Typed'
  <2>1. lPath' \in ScopedCache
    BY <1>5 DEF LapsePath, ScopedCache
  <2> QED BY <1>5, <2>1 DEF LapsePath
<1> QED BY <1>1, <1>2, <1>3, <1>4, <1>5 DEF Lapses

LEMMA TypedStep == Typed /\ [Next]_vars => Typed'
<1> SUFFICES ASSUME Typed, [Next]_vars PROVE Typed'
  OBVIOUS
<1>1. CASE UNCHANGED vars
  BY <1>1 DEF vars, pg, api, redis, lru, visit, Typed, TypeOK, Bounded
<1>2. ASSUME NEW x \in Visits, LookUpSite(x) \/ Proceed(x) PROVE Typed'
  BY <1>2, LookType, ServeType DEF Proceed
<1> QED BY <1>1, <1>2, ApiType, LapseType DEF Next

(* Types: what Redis, the LRUs and the visits hold has its type, for every *)
(* number of servers, visits and activations.                              *)
THEOREM ServeTypeCorrect == Spec => []TypeOK
<1>1. Init => Typed
  BY TypedInit
<1>2. Typed /\ [Next]_vars => Typed'
  BY TypedStep
<1>3. Typed => TypeOK
  BY DEF Typed
<1> QED BY <1>1, <1>2, <1>3, PTL DEF Spec

-----------------------------------------------------------------------------
(* What is cached under the current version.                               *)

(* No server carries what it read from PostgreSQL past an activation: the  *)
(* run stale_fill shows what happens otherwise.                            *)
FillsInTime == \A m \in Mishaps : "slowFill" \notin m

(* The activation under way is that of the live row; nobody goes by a      *)
(* version that is still to come, and nothing is cached under one.         *)
Ahead ==
    /\ switch.step # "idle" => switch.to = live
    /\ \A x \in Visits : ver[x] <= rVersion
    /\ \A s \in Servers :
        /\ lVersion[s] # Empty => lVersion[s] <= rVersion
        /\ \A v \in SiteVersions :
            v > rVersion => lActive[s][v] = Empty /\ lPath[s][v] = Empty

(* active_deployment:{siteId} can only be stale before the activation has  *)
(* set it, and nobody is about to make it so.                              *)
RedisFresh ==
    /\ switch.step # "setActive" => rActive \in {live, Empty}
    /\ \A x \in Visits : pc[x] = "actFill" => got[x] = live

Published == switch.step \in {"idle", "dropSite"}

(* Nobody is about to cache under the current version what is not live.    *)
VisitsFresh ==
    Published =>
        \A x \in Visits :
            pc[x] \in {"actPut", "resolve"} /\ ver[x] = rVersion => got[x] = live

CachesFresh ==
    Published =>
        \A s \in Servers :
            lActive[s][rVersion] \in {live, Empty} /\ lPath[s][rVersion] \in {live, Empty}

Fresh == delete = "live" => Ahead /\ RedisFresh /\ VisitsFresh /\ CachesFresh

LEMMA FreshInit == Init => Fresh
<1> SUFFICES ASSUME Init PROVE Ahead /\ RedisFresh /\ VisitsFresh /\ CachesFresh
  BY DEF Fresh
<1> USE ConstantsAssumption DEF Init
<1>1. rVersion \in SiteVersions /\ rVersion \in Nat
  BY DEF SiteVersions
<1>2. Ahead
  BY <1>1 DEF Ahead, Idle
<1>3. RedisFresh
  BY DEF RedisFresh
<1>4. VisitsFresh /\ CachesFresh
  BY <1>1 DEF VisitsFresh, CachesFresh
<1> QED BY <1>2, <1>3, <1>4

LEMMA FreshLook ==
    ASSUME Typed, Fresh, NEW x \in Visits,
           \/ LookUpSite(x) \/ GetSite(x) \/ FailSite(x) \/ QuerySite(x) \/ FillSite(x)
           \/ LookUpVersion(x) \/ GetVersion(x) \/ PutVersion(x)
    PROVE  Fresh'
<1> USE ConstantsAssumption
<1>1. /\ UNCHANGED <<live, switch, delete, rActive, rVersion, lActive, lPath>>
      /\ \A y \in Visits \ {x} : pc'[y] = pc[y] /\ ver'[y] = ver[y] /\ got'[y] = got[y]
      /\ pc'[x] \notin {"actFill", "actPut", "resolve"}
  BY DEF LookUpSite, GetSite, FailSite, QuerySite, FillSite, LookUpVersion, GetVersion,
         PutVersion, NotFound, Move, Goto, pg, api, redis, lru, Typed, TypeOK
<1> SUFFICES ASSUME delete = "live" PROVE Ahead' /\ RedisFresh' /\ VisitsFresh' /\ CachesFresh'
  BY <1>1 DEF Fresh
<1>2. Ahead /\ RedisFresh /\ VisitsFresh /\ CachesFresh
  BY DEF Fresh
<1>3. rVersion \in Nat /\ 0 <= rVersion /\ ServerOf[x] \in Servers
  BY DEF Typed, TypeOK, SiteVersions
<1>4. ver'[x] <= rVersion
  BY <1>2, <1>3 DEF Ahead, LookUpSite, GetSite, FailSite, QuerySite, FillSite, LookUpVersion,
         GetVersion, PutVersion, Typed, TypeOK
<1>5. \A s \in Servers : lVersion'[s] # Empty => lVersion'[s] <= rVersion
  BY <1>2, <1>3 DEF Ahead, LookUpSite, GetSite, FailSite, QuerySite, FillSite, LookUpVersion,
         GetVersion, PutVersion, Typed, TypeOK, CacheOf, lru
<1>6. Ahead'
  BY <1>1, <1>2, <1>4, <1>5 DEF Ahead
<1>7. RedisFresh' /\ VisitsFresh' /\ CachesFresh'
  BY <1>1, <1>2 DEF RedisFresh, VisitsFresh, CachesFresh, Published
<1> QED BY <1>6, <1>7

LEMMA FreshServe ==
    ASSUME Typed, Fresh, NEW x \in Visits,
           \/ LookUpPath(x) \/ GetActive(x) \/ QueryActive(x) \/ FillActive(x)
           \/ PutActive(x) \/ Resolve(x) \/ Respond(x)
    PROVE  Fresh'
<1> USE ConstantsAssumption
<1>1. /\ UNCHANGED <<live, switch, delete, rVersion, lVersion>>
      /\ \A y \in Visits \ {x} : pc'[y] = pc[y] /\ ver'[y] = ver[y] /\ got'[y] = got[y]
  BY DEF LookUpPath, GetActive, QueryActive, FillActive, PutActive, Resolve, Respond,
         Found, Move, Goto, pg, api, redis, lru, Typed, TypeOK
<1> SUFFICES ASSUME delete = "live" PROVE Ahead' /\ RedisFresh' /\ VisitsFresh' /\ CachesFresh'
  BY <1>1 DEF Fresh
<1>2. Ahead /\ RedisFresh /\ VisitsFresh /\ CachesFresh
  BY DEF Fresh
<1>3. /\ rVersion \in SiteVersions /\ rVersion \in Nat /\ 0 <= rVersion
      /\ ServerOf[x] \in Servers /\ ver[x] \in SiteVersions /\ ver[x] \in Nat
  BY DEF Typed, TypeOK, SiteVersions
<1>4. ver'[x] <= rVersion /\ (pc'[x] \in {"actFill", "actPut", "resolve"} => ver'[x] = ver[x])
  BY <1>2, <1>3 DEF Ahead, LookUpPath, GetActive, QueryActive, FillActive, PutActive, Resolve,
         Respond, Found, Move, Goto, Typed, TypeOK
<1>5. rActive' = rActive \/ rActive' = live
  BY <1>2 DEF RedisFresh, LookUpPath, GetActive, QueryActive, FillActive, PutActive, Resolve,
         Respond, Move, Written, redis
<1>6. pc'[x] = "actFill" => got'[x] = live
  BY DEF LookUpPath, GetActive, QueryActive, FillActive, PutActive, Resolve,
         Respond, Found, Move, Goto, Typed, TypeOK
<1>7. ASSUME Published, ver[x] = rVersion, pc'[x] \in {"actPut", "resolve"}
      PROVE  got'[x] = live
  <2>1. lActive[ServerOf[x]][ver[x]] \in {live, Empty} /\ rActive \in {live, Empty}
    BY <1>2, <1>3, <1>7 DEF CachesFresh, RedisFresh, Published
  <2>2. pc[x] \in {"actPut", "resolve", "actFill"} => got[x] = live
    BY <1>2, <1>7 DEF VisitsFresh, RedisFresh
  <2> QED
    BY <1>7, <2>1, <2>2 DEF LookUpPath, GetActive, QueryActive, FillActive, PutActive, Resolve,
         Respond, Found, Move, Goto, Scope, Typed, TypeOK
<1>8. \A s \in Servers, v \in SiteVersions :
          \/ lActive'[s][v] = lActive[s][v]
          \/ v = ver[x] /\ pc[x] = "actPut" /\ lActive'[s][v] = got[x]
  <2>1. CASE PutActive(x)
    <3>1. /\ lActive \in [Servers -> [SiteVersions -> Answers \cup {Empty}]]
          /\ lActive' = [lActive EXCEPT ![ServerOf[x]][ver[x]] = got[x]] /\ pc[x] = "actPut"
      BY <2>1 DEF PutActive, Move, Scope, Typed, TypeOK, ScopedCache
    <3> QED BY <3>1, <1>3
  <2>2. CASE ~PutActive(x)
    BY <2>2 DEF LookUpPath, GetActive, QueryActive, FillActive, Resolve, Respond, lru
  <2> QED BY <2>1, <2>2
<1>9. \A s \in Servers, v \in SiteVersions :
          \/ lPath'[s][v] = lPath[s][v]
          \/ v = ver[x] /\ pc[x] = "resolve" /\ lPath'[s][v] = got[x]
  <2>1. CASE Resolve(x)
    <3>1. /\ lPath \in [Servers -> [SiteVersions -> Answers \cup {Empty}]]
          /\ lPath' = [lPath EXCEPT ![ServerOf[x]][ver[x]] = got[x]] /\ pc[x] = "resolve"
      BY <2>1 DEF Resolve, Move, Typed, TypeOK, ScopedCache
    <3> QED BY <3>1, <1>3
  <2>2. CASE ~Resolve(x)
    BY <2>2 DEF LookUpPath, GetActive, QueryActive, FillActive, PutActive, Respond, lru
  <2> QED BY <2>1, <2>2
<1>10. \A v \in SiteVersions : v \in Nat
  BY DEF SiteVersions
<1>11. ver[x] <= rVersion
  BY <1>2 DEF Ahead
<1>12. ASSUME NEW s \in Servers, NEW v \in SiteVersions, v > rVersion
       PROVE  lActive'[s][v] = Empty /\ lPath'[s][v] = Empty
  <2>1. v # ver[x]
    BY <1>3, <1>10, <1>11, <1>12
  <2>2. lActive[s][v] = Empty /\ lPath[s][v] = Empty
    BY <1>2, <1>12 DEF Ahead
  <2> QED BY <1>8, <1>9, <2>1, <2>2
<1>13. Ahead'
  BY <1>1, <1>2, <1>4, <1>12 DEF Ahead
<1>14. RedisFresh'
  BY <1>1, <1>2, <1>5, <1>6 DEF RedisFresh
<1>15. VisitsFresh'
  BY <1>1, <1>2, <1>4, <1>7 DEF VisitsFresh, Published
<1>16. CachesFresh'
  BY <1>1, <1>2, <1>3, <1>8, <1>9 DEF CachesFresh, VisitsFresh, Published
<1> QED BY <1>13, <1>14, <1>15, <1>16

LEMMA FreshApi ==
    ASSUME Typed, Fresh, FillsInTime,
           \/ \E d \in Deployments : Activate(d)
           \/ Publish \/ DeleteRows \/ Delete
    PROVE  Fresh'
<1> USE ConstantsAssumption
<1>1. \/ \E d \in Deployments : Activate(d)
      \/ SetActive \/ IncrVersion \/ DropSite \/ delete' # "live"
  BY DEF Publish, Delete, DeleteRows, DeactivateSite, DeleteSiteKey, DeleteActiveKey,
         DeleteVersionKey, DeleteTo
<1> SUFFICES ASSUME delete' = "live",
                    \/ \E d \in Deployments : Activate(d)
                    \/ SetActive \/ IncrVersion \/ DropSite
             PROVE  Ahead' /\ RedisFresh' /\ VisitsFresh' /\ CachesFresh'
  BY <1>1 DEF Fresh
<1>2. delete = "live"
  BY DEF Activate, SetActive, IncrVersion, DropSite
<1>3. Ahead /\ RedisFresh /\ VisitsFresh /\ CachesFresh
  BY <1>2 DEF Fresh
<1>4. /\ switch \in [step : SwitchSteps, to : Answers, isRollback : BOOLEAN]
      /\ rVersion \in Nat /\ rVersion \in SiteVersions
      /\ \A x \in Visits : ver[x] \in Nat
      /\ \A s \in Servers : lVersion[s] # Empty => lVersion[s] \in Nat
      /\ \A v \in SiteVersions : v \in Nat
  BY DEF Typed, TypeOK, SiteVersions, CacheOf
<1>5. ASSUME NEW d \in Deployments, Activate(d)
      PROVE  Ahead' /\ RedisFresh' /\ VisitsFresh' /\ CachesFresh'
  <2>1. \A x \in Visits : pc[x] # "actFill"
    BY <1>5 DEF Activate, NoFillPending, FillsInTime, Typed, TypeOK
  <2>2. switch'.step = "setActive" /\ switch'.to = live'
    BY <1>5 DEF Activate
  <2>3. UNCHANGED <<rActive, rVersion, lVersion, lActive, lPath, pc, ver, got>>
    BY <1>5 DEF Activate, redis, lru, visit
  <2>4. Ahead'
    BY <1>3, <2>2, <2>3 DEF Ahead
  <2> QED BY <2>1, <2>2, <2>3, <2>4 DEF RedisFresh, VisitsFresh, CachesFresh, Published
<1>6. CASE SetActive
  <2>1. /\ switch' = [switch EXCEPT !.step = "incr"] /\ switch.step = "setActive"
        /\ rActive' = switch.to
        /\ UNCHANGED <<live, rVersion, lVersion, lActive, lPath, pc, ver, got>>
    BY <1>6 DEF SetActive, SwitchTo, pg, lru, visit
  <2>2. switch'.step = "incr" /\ switch'.to = switch.to /\ switch.to = live
    BY <1>3, <1>4, <2>1 DEF Ahead
  <2>3. Ahead'
    BY <1>3, <2>1, <2>2 DEF Ahead
  <2> QED BY <1>3, <2>1, <2>2, <2>3 DEF RedisFresh, VisitsFresh, CachesFresh, Published
<1>7. CASE IncrVersion
  <2>1. /\ switch' = [switch EXCEPT !.step = "dropSite"] /\ switch.step = "incr"
        /\ rVersion' = rVersion + 1 /\ rVersion < Seed + MaxSwitches
        /\ UNCHANGED <<live, rActive, lVersion, lActive, lPath, pc, ver, got>>
    BY <1>7 DEF IncrVersion, SwitchTo, pg, lru, visit, Typed, Bounded
  <2>2. switch'.step = "dropSite" /\ switch'.to = switch.to /\ switch.to = live
    BY <1>3, <1>4, <2>1 DEF Ahead
  <2>3. rVersion' \in SiteVersions
    BY <1>4, <2>1 DEF SiteVersions
  <2>4. Ahead'
    BY <1>3, <1>4, <2>1, <2>2 DEF Ahead
  <2>5. \A s \in Servers : lActive[s][rVersion'] = Empty /\ lPath[s][rVersion'] = Empty
    BY <1>3, <1>4, <2>1, <2>3 DEF Ahead
  <2>6. \A x \in Visits : ver[x] # rVersion'
    BY <1>3, <1>4, <2>1 DEF Ahead
  <2> QED BY <1>3, <2>1, <2>2, <2>4, <2>5, <2>6 DEF RedisFresh, VisitsFresh, CachesFresh, Published
<1>8. CASE DropSite
  <2>1. /\ switch'.step = "idle" /\ switch.step = "dropSite"
        /\ UNCHANGED <<live, rActive, rVersion, lVersion, lActive, lPath, pc, ver, got>>
    BY <1>8 DEF DropSite, Idle, pg, lru, visit
  <2> QED BY <1>3, <2>1 DEF Ahead, RedisFresh, VisitsFresh, CachesFresh, Published
<1> QED BY <1>5, <1>6, <1>7, <1>8

LEMMA FreshLapse ==
    ASSUME Typed, Fresh, LapseRedisSite \/ \E s \in Servers : Lapses(s)
    PROVE  Fresh'
<1> USE ConstantsAssumption
<1>1. UNCHANGED <<live, switch, delete, rActive, rVersion, pc, ver, got>>
  BY DEF LapseRedisSite, Lapses, LapseSite, LapseVersion, LapseActive, LapsePath,
         pg, api, redis, visit
<1>2. \A s \in Servers : lVersion'[s] \in {lVersion[s], Empty}
  BY DEF LapseRedisSite, Lapses, LapseSite, LapseVersion, LapseActive, LapsePath, lru,
         Typed, TypeOK, CacheOf
<1>3. \A s \in Servers, v \in SiteVersions : lActive'[s][v] \in {lActive[s][v], Empty}
  <2>1. ASSUME NEW t \in Servers, NEW w \in SiteVersions, LapseActive(t, w)
        PROVE  \A s \in Servers, v \in SiteVersions : lActive'[s][v] \in {lActive[s][v], Empty}
    BY <2>1 DEF LapseActive, Typed, TypeOK, ScopedCache
  <2>2. CASE lActive' = lActive
    BY <2>2
  <2> QED BY <2>1, <2>2 DEF LapseRedisSite, Lapses, LapseSite, LapseVersion, LapsePath, lru
<1>4. \A s \in Servers, v \in SiteVersions : lPath'[s][v] \in {lPath[s][v], Empty}
  <2>1. ASSUME NEW t \in Servers, NEW w \in SiteVersions, LapsePath(t, w)
        PROVE  \A s \in Servers, v \in SiteVersions : lPath'[s][v] \in {lPath[s][v], Empty}
    BY <2>1 DEF LapsePath, Typed, TypeOK, ScopedCache
  <2>2. CASE lPath' = lPath
    BY <2>2
  <2> QED BY <2>1, <2>2 DEF LapseRedisSite, Lapses, LapseSite, LapseVersion, LapseActive, lru
<1>5. rVersion \in SiteVersions
  BY DEF Typed, TypeOK
<1> SUFFICES ASSUME delete = "live" PROVE Ahead' /\ RedisFresh' /\ VisitsFresh' /\ CachesFresh'
  BY <1>1 DEF Fresh
<1>6. Ahead /\ RedisFresh /\ VisitsFresh /\ CachesFresh
  BY DEF Fresh
<1>7. Ahead'
  BY <1>1, <1>2, <1>3, <1>4, <1>6 DEF Ahead
<1>8. RedisFresh' /\ VisitsFresh'
  BY <1>1, <1>6 DEF RedisFresh, VisitsFresh, Published
<1>9. CachesFresh'
  BY <1>1, <1>3, <1>4, <1>5, <1>6 DEF CachesFresh, Published
<1> QED BY <1>7, <1>8, <1>9

(* With FillsInTime: whatever activations, rollbacks, lapses, evictions    *)
(* and errors of Redis come between the steps of whatever number of        *)
(* visits, a version, once bumped, is never filled with what was live      *)
(* before (resolveActiveDeploymentID, activateDeployment).                 *)
THEOREM BumpedIsFresh ==
    ASSUME FillsInTime PROVE Spec => []CurrentVersionFresh
<1>1. Init => Typed /\ Fresh
  BY TypedInit, FreshInit
<1>2. Typed /\ Fresh /\ [Next]_vars => Typed' /\ Fresh'
  <2> SUFFICES ASSUME Typed, Fresh, [Next]_vars PROVE Fresh'
    BY TypedStep
  <2>1. CASE UNCHANGED vars
    BY <2>1 DEF vars, pg, api, redis, lru, visit, Fresh, Ahead, RedisFresh, VisitsFresh,
                CachesFresh, Published
  <2>2. ASSUME NEW x \in Visits, LookUpSite(x) \/ Proceed(x) PROVE Fresh'
    BY <2>2, FreshLook, FreshServe DEF Proceed
  <2> QED BY <2>1, <2>2, FreshApi, FreshLapse DEF Next
<1>3. Typed /\ Fresh => CurrentVersionFresh
  BY DEF Fresh, CachesFresh, Published, CurrentVersionFresh
<1> QED BY <1>1, <1>2, <1>3, PTL DEF Spec

-----------------------------------------------------------------------------
(* BlobServe: the first of a list that is there, for the short lists that  *)
(* Preferences and ResolveBlob try.                                        *)
LEMMA FirstOfThree ==
    ASSUME NEW p, NEW q, NEW r, NEW these
    PROVE  FirstOf(<<p, q, r>>, these) =
               IF p \in these THEN p ELSE IF q \in these THEN q
               ELSE IF r \in these THEN r ELSE Absent
<1> DEFINE s == <<p, q, r>>
           hits == {i \in DOMAIN s : s[i] \in these}
<1>1. DOMAIN s = {1, 2, 3} /\ s[1] = p /\ s[2] = q /\ s[3] = r
  OBVIOUS
<1>2. FirstOf(s, these) =
         IF hits = {} THEN Absent ELSE s[CHOOSE i \in hits : \A j \in hits : i <= j]
  BY DEF FirstOf
<1> HIDE DEF s
<1>3. hits \subseteq {1, 2, 3}
  BY <1>1
<1>4. \A k \in hits : (\A j \in hits : k <= j) => (CHOOSE i \in hits : \A j \in hits : i <= j) = k
  BY <1>3
<1>5. CASE p \in these
  <2>1. 1 \in hits /\ \A j \in hits : 1 <= j
    BY <1>1, <1>3, <1>5
  <2> QED BY <1>1, <1>2, <1>4, <1>5, <2>1 DEF s
<1>6. CASE p \notin these /\ q \in these
  <2>1. 2 \in hits /\ \A j \in hits : 2 <= j
    BY <1>1, <1>3, <1>6
  <2> QED BY <1>1, <1>2, <1>4, <1>6, <2>1 DEF s
<1>7. CASE p \notin these /\ q \notin these /\ r \in these
  <2>1. 3 \in hits /\ \A j \in hits : 3 <= j
    BY <1>1, <1>3, <1>7
  <2> QED BY <1>1, <1>2, <1>4, <1>7, <2>1 DEF s
<1>8. CASE p \notin these /\ q \notin these /\ r \notin these
  <2>1. hits = {}
    BY <1>1, <1>3, <1>8
  <2> QED BY <1>2, <1>8, <2>1 DEF s
<1> QED BY <1>5, <1>6, <1>7, <1>8

LEMMA FirstOfTwo ==
    ASSUME NEW p, NEW q, NEW these
    PROVE  FirstOf(<<p, q>>, these) =
               IF p \in these THEN p ELSE IF q \in these THEN q ELSE Absent
<1> DEFINE s == <<p, q>>
           hits == {i \in DOMAIN s : s[i] \in these}
<1>1. DOMAIN s = {1, 2} /\ s[1] = p /\ s[2] = q
  OBVIOUS
<1>2. FirstOf(s, these) =
         IF hits = {} THEN Absent ELSE s[CHOOSE i \in hits : \A j \in hits : i <= j]
  BY DEF FirstOf
<1> HIDE DEF s
<1>3. hits \subseteq {1, 2}
  BY <1>1
<1>4. \A k \in hits : (\A j \in hits : k <= j) => (CHOOSE i \in hits : \A j \in hits : i <= j) = k
  BY <1>3
<1>5. CASE p \in these
  <2>1. 1 \in hits /\ \A j \in hits : 1 <= j
    BY <1>1, <1>3, <1>5
  <2> QED BY <1>1, <1>2, <1>4, <1>5, <2>1 DEF s
<1>6. CASE p \notin these /\ q \in these
  <2>1. 2 \in hits /\ \A j \in hits : 2 <= j
    BY <1>1, <1>3, <1>6
  <2> QED BY <1>1, <1>2, <1>4, <1>6, <2>1 DEF s
<1>8. CASE p \notin these /\ q \notin these
  <2>1. hits = {}
    BY <1>1, <1>3, <1>8
  <2> QED BY <1>2, <1>8, <2>1 DEF s
<1> QED BY <1>5, <1>6, <1>8

LEMMA FirstOfOne ==
    ASSUME NEW p, NEW these
    PROVE  FirstOf(<<p>>, these) = IF p \in these THEN p ELSE Absent
<1> DEFINE s == <<p>>
           hits == {i \in DOMAIN s : s[i] \in these}
<1>1. DOMAIN s = {1} /\ s[1] = p
  OBVIOUS
<1>2. FirstOf(s, these) =
         IF hits = {} THEN Absent ELSE s[CHOOSE i \in hits : \A j \in hits : i <= j]
  BY DEF FirstOf
<1> HIDE DEF s
<1>3. hits \subseteq {1}
  BY <1>1
<1>5. CASE p \in these
  <2>1. hits = {1}
    BY <1>1, <1>3, <1>5
  <2>2. (CHOOSE i \in hits : \A j \in hits : i <= j) = 1
    BY <2>1
  <2> QED BY <1>1, <1>2, <1>5, <2>1, <2>2 DEF s
<1>6. CASE p \notin these
  <2>1. hits = {}
    BY <1>1, <1>3, <1>6
  <2> QED BY <1>2, <1>6, <2>1 DEF s
<1> QED BY <1>5, <1>6


(* The lists, element by element.                                          *)
LEMMA Pair == ASSUME NEW p, NEW q PROVE <<p>> \o <<q>> = <<p, q>>
<1> DEFINE S == {p, q}
<1>1. <<p>> \in Seq(S) /\ <<q>> \in Seq(S) /\ <<p, q>> \in Seq(S)
  OBVIOUS
<1>2. /\ <<p>> \o <<q>> \in Seq(S)
      /\ Len(<<p>> \o <<q>>) = 2
      /\ \A i \in 1..2 : (<<p>> \o <<q>>)[i] = IF i <= 1 THEN <<p>>[i] ELSE <<q>>[i - 1]
  BY <1>1, ConcatProperties
<1>3. \A i \in 1..2 : (<<p>> \o <<q>>)[i] = <<p, q>>[i]
  BY <1>2
<1> QED BY <1>1, <1>2, <1>3, SeqEqual

LEMMA Triple == ASSUME NEW p, NEW q, NEW r PROVE <<p, q>> \o <<r>> = <<p, q, r>>
<1> DEFINE S == {p, q, r}
<1>1. <<p, q>> \in Seq(S) /\ <<r>> \in Seq(S) /\ <<p, q, r>> \in Seq(S)
  OBVIOUS
<1>2. /\ <<p, q>> \o <<r>> \in Seq(S)
      /\ Len(<<p, q>> \o <<r>>) = 3
      /\ \A i \in 1..3 : (<<p, q>> \o <<r>>)[i] = IF i <= 2 THEN <<p, q>>[i] ELSE <<r>>[i - 2]
  BY <1>1, ConcatProperties
<1>3. \A i \in 1..3 : (<<p, q>> \o <<r>>)[i] = <<p, q, r>>[i]
  BY <1>2
<1> QED BY <1>1, <1>2, <1>3, SeqEqual

LEMMA Single == ASSUME NEW p PROVE <<>> \o <<p>> = <<p>> /\ <<p>> \o <<>> = <<p>>
<1>1. <<p>> \in Seq({p})
  OBVIOUS
<1> QED BY <1>1, ConcatEmptySeq

(* Whether a browser may be given a WebP, whether it takes a compressed    *)
(* form, and which.                                                        *)
Webp(b, base) == Raster /\ base # "index" /\ "webp" \in Accepts[b]
Coded(b) == "br" \in Accepts[b] \/ "gzip" \in Accepts[b]
Enc(b) == IF "br" \in Accepts[b] THEN <<".br", "br">> ELSE <<".gz", "gzip">>

(* What pickVariantMap tries, in order.                                    *)
LEMMA PreferencesAre ==
    ASSUME NEW b, NEW base
    PROVE  Preferences(b, base) =
             IF Webp(b, base)
             THEN IF Coded(b) THEN <<<<".webp", "">>, Enc(b), <<"", "">>>>
                  ELSE <<<<".webp", "">>, <<"", "">>>>
             ELSE IF Coded(b) THEN <<Enc(b), <<"", "">>>> ELSE <<<<"", "">>>>
<1> DEFINE w == IF Webp(b, base) THEN <<<<".webp", "">>>> ELSE <<>>
           c == IF Coded(b) THEN <<Enc(b)>> ELSE <<>>
           last == <<"", "">>
<1>1. Preferences(b, base) = (w \o c) \o <<last>>
  <2>1. c = IF "br" \in Accepts[b] THEN <<<<".br", "br">>>>
            ELSE IF "gzip" \in Accepts[b] THEN <<<<".gz", "gzip">>>> ELSE <<>>
    BY DEF Enc, Coded
  <2> HIDE DEF c
  <2> QED BY <2>1 DEF Preferences, Webp
<1> DEFINE webp == <<".webp", "">>
           enc == Enc(b)
<1>2. w = (IF Webp(b, base) THEN <<webp>> ELSE <<>>) /\ c = (IF Coded(b) THEN <<enc>> ELSE <<>>)
  OBVIOUS
<1> HIDE DEF w, c, last, enc, webp
<1>3. (w \o c) \o <<last>> =
        IF Webp(b, base)
        THEN IF Coded(b) THEN <<webp, enc, last>> ELSE <<webp, last>>
        ELSE IF Coded(b) THEN <<enc, last>> ELSE <<last>>
  <2>1. CASE Webp(b, base) /\ Coded(b)
    <3>1. w \o c = <<webp, enc>>
      BY <1>2, <2>1, Pair
    <3>2. <<webp, enc>> \o <<last>> = <<webp, enc, last>>
      BY Triple
    <3> QED BY <2>1, <3>1, <3>2
  <2>2. CASE Webp(b, base) /\ ~Coded(b)
    <3>1. w \o c = <<webp>>
      BY <1>2, <2>2, Single
    <3>2. <<webp>> \o <<last>> = <<webp, last>>
      BY Pair
    <3> QED BY <2>2, <3>1, <3>2
  <2>3. CASE ~Webp(b, base) /\ Coded(b)
    <3>1. w \o c = <<enc>>
      BY <1>2, <2>3, Single
    <3>2. <<enc>> \o <<last>> = <<enc, last>>
      BY Pair
    <3> QED BY <2>3, <3>1, <3>2
  <2>4. CASE ~Webp(b, base) /\ ~Coded(b)
    <3>1. <<>> \in Seq({}) /\ <<>> \o <<>> = <<>>
      BY ConcatEmptySeq
    <3>2. w \o c = <<>>
      BY <1>2, <2>4, <3>1
    <3>3. <<>> \o <<last>> = <<last>>
      BY Single
    <3> QED BY <2>4, <3>2, <3>3
  <2> QED BY <2>1, <2>2, <2>3, <2>4
<1> QED BY <1>1, <1>3 DEF last, enc, webp

Is(m, base, suffix, encoding) == [blob |-> m[<<base, suffix>>], encoding |-> encoding]

(* What it picks.                                                          *)
LEMMA PickIs ==
    ASSUME NEW m, NEW b, NEW base
    PROVE  PickVariant(m, b, base) =
             IF Webp(b, base) /\ m[<<base, ".webp">>] # Absent THEN Is(m, base, ".webp", "")
             ELSE IF "br" \in Accepts[b] /\ m[<<base, ".br">>] # Absent
             THEN Is(m, base, ".br", "br")
             ELSE IF "br" \notin Accepts[b] /\ "gzip" \in Accepts[b] /\ m[<<base, ".gz">>] # Absent
             THEN Is(m, base, ".gz", "gzip")
             ELSE IF m[<<base, "">>] # Absent THEN Is(m, base, "", "") ELSE Absent
<1> DEFINE has == {x \in VariantSuffixes \X ContentEncodings : m[<<base, x[1]>>] # Absent}
           first == FirstOf(Preferences(b, base), has)
           webp == <<".webp", "">>
           last == <<"", "">>
           enc == Enc(b)
<1>1. PickVariant(m, b, base) =
         IF first = Absent THEN Absent ELSE [blob |-> m[<<base, first[1]>>], encoding |-> first[2]]
  BY DEF PickVariant
<1>a. \A s \in VariantSuffixes, e \in ContentEncodings :
          <<s, e>> \in has <=> m[<<base, s>>] # Absent
  OBVIOUS
<1>b. /\ ".webp" \in VariantSuffixes /\ ".br" \in VariantSuffixes /\ ".gz" \in VariantSuffixes
      /\ "" \in VariantSuffixes /\ "" \in ContentEncodings /\ "br" \in ContentEncodings
      /\ "gzip" \in ContentEncodings
  BY DEF VariantSuffixes, ContentEncodings
<1>2. /\ (webp \in has <=> m[<<base, ".webp">>] # Absent)
      /\ (last \in has <=> m[<<base, "">>] # Absent)
  BY <1>a, <1>b
<1> HIDE DEF has, enc
<1>3. Absent \notin VariantSuffixes \X ContentEncodings
  BY BlobConstants
<1>3a. \A s \in VariantSuffixes, e \in ContentEncodings : <<s, e>> # Absent
  BY <1>3
<1>4. webp # Absent /\ last # Absent
  BY <1>b, <1>3a
<1>c. ASSUME NEW s \in VariantSuffixes, NEW e \in ContentEncodings, enc = <<s, e>>
      PROVE  enc # Absent /\ (enc \in has <=> m[<<base, s>>] # Absent) /\ enc[1] = s /\ enc[2] = e
  BY <1>a, <1>c, <1>3
<1>5. enc = IF "br" \in Accepts[b] THEN <<".br", "br">> ELSE <<".gz", "gzip">>
  BY DEF enc, Enc
<1>d. /\ enc # Absent
      /\ "br" \in Accepts[b] => (enc \in has <=> m[<<base, ".br">>] # Absent) /\ enc[1] = ".br" /\ enc[2] = "br"
      /\ "br" \notin Accepts[b] => (enc \in has <=> m[<<base, ".gz">>] # Absent) /\ enc[1] = ".gz" /\ enc[2] = "gzip"
  <2>1. CASE "br" \in Accepts[b]
    <3>1. enc = <<".br", "br">>
      BY <2>1, <1>5
    <3> QED BY <2>1, <1>b, <1>c, <3>1
  <2>2. CASE "br" \notin Accepts[b]
    <3>1. enc = <<".gz", "gzip">>
      BY <2>2, <1>5
    <3> QED BY <2>2, <1>b, <1>c, <3>1
  <2> QED BY <2>1, <2>2
<1>6. first = IF Webp(b, base) /\ webp \in has THEN webp
              ELSE IF Coded(b) /\ enc \in has THEN enc
              ELSE IF last \in has THEN last ELSE Absent
  <2>1. Preferences(b, base) =
          IF Webp(b, base)
          THEN IF Coded(b) THEN <<webp, enc, last>> ELSE <<webp, last>>
          ELSE IF Coded(b) THEN <<enc, last>> ELSE <<last>>
    BY PreferencesAre DEF enc
  <2> HIDE DEF webp, last
  <2> QED BY <2>1, FirstOfThree, FirstOfTwo, FirstOfOne
<1>7. webp[1] = ".webp" /\ webp[2] = "" /\ last[1] = "" /\ last[2] = ""
  OBVIOUS
<1> HIDE DEF webp, last, first
<1>8. CASE Webp(b, base) /\ webp \in has
  BY <1>8, <1>1, <1>2, <1>4, <1>6, <1>7 DEF Is
<1>9. CASE ~(Webp(b, base) /\ webp \in has) /\ Coded(b) /\ enc \in has
  BY <1>9, <1>1, <1>2, <1>d, <1>6 DEF Is, Coded
<1>10. CASE ~(Webp(b, base) /\ webp \in has) /\ ~(Coded(b) /\ enc \in has)
  BY <1>10, <1>1, <1>2, <1>4, <1>d, <1>6, <1>7 DEF Is, Coded
<1> QED BY <1>8, <1>9, <1>10

-----------------------------------------------------------------------------
(* What a deploy makes of one path: every form of a file comes with its    *)
(* original, and of what is not a text no compressed form is made.         *)
Deployed(m, c) ==
    /\ m \in Manifests
    /\ \A base \in Bases, suffix \in VariantSuffixes :
        m[<<base, suffix>>] # Absent =>
            /\ m[<<base, suffix>>] = [base |-> base, suffix |-> suffix, content |-> c]
            /\ m[<<base, "">>] # Absent
    /\ Raster => m[<<"file", ".br">>] = Absent /\ m[<<"file", ".gz">>] = Absent
    /\ kind # "route" => m[<<"dir", "">>] = Absent

LEMMA DeployableIsDeployed ==
    ASSUME NEW c \in 1..MaxActivations, NEW m \in Deployable(c)
    PROVE  Deployed(m, c)
<1>1. PICK p : m = ManifestOf(p[1] \cup (IF FallsBack THEN {"index"} ELSE {}), c, p[2])
               /\ p[1] \subseteq (IF kind = "route" THEN {"dir", "file"} ELSE {"file"})
  BY DEF Deployable
<1> DEFINE some == p[1]
           failed == p[2]
<1> DEFINE bases == some \cup (IF FallsBack THEN {"index"} ELSE {})
           Made(base, suffix) ==
               base \in bases /\ (suffix = "" \/ suffix \in VariantsOf(base) \ failed)
<1>2. \A base \in Bases, suffix \in VariantSuffixes :
          m[<<base, suffix>>] = IF Made(base, suffix)
                                THEN [base |-> base, suffix |-> suffix, content |-> c]
                                ELSE Absent
  BY <1>1 DEF ManifestOf
<1>3. DOMAIN m = Bases \X VariantSuffixes
  BY <1>1 DEF ManifestOf
<1>4. ASSUME NEW base \in Bases, NEW suffix \in VariantSuffixes
      PROVE  /\ [base |-> base, suffix |-> suffix, content |-> c] \in Blobs
             /\ [base |-> base, suffix |-> suffix, content |-> c] # Absent
  <2>1. [base |-> base, suffix |-> suffix, content |-> c] \in Blobs
    BY DEF Blobs
  <2>2. Absent \notin Blobs
    BY BlobConstants
  <2> QED BY <2>1, <2>2
<1>5. m \in Manifests
  <2>1. m = [n \in Bases \X VariantSuffixes |-> m[n]]
    BY <1>1 DEF ManifestOf
  <2>2. \A base \in Bases, suffix \in VariantSuffixes : m[<<base, suffix>>] \in Blobs \cup {Absent}
    <3> HIDE DEF Made
    <3> SUFFICES ASSUME NEW base \in Bases, NEW suffix \in VariantSuffixes
                 PROVE  m[<<base, suffix>>] \in Blobs \cup {Absent}
      OBVIOUS
    <3> DEFINE blob == [base |-> base, suffix |-> suffix, content |-> c]
    <3>1. m[<<base, suffix>>] = blob \/ m[<<base, suffix>>] = Absent
      BY <1>2
    <3>2. blob \in Blobs
      BY <1>4
    <3> HIDE DEF blob
    <3> QED BY <3>1, <3>2
  <2>3. \A n \in Bases \X VariantSuffixes : m[n] \in Blobs \cup {Absent}
    <3> SUFFICES ASSUME NEW n \in Bases \X VariantSuffixes PROVE m[n] \in Blobs \cup {Absent}
      OBVIOUS
    <3>1. n = <<n[1], n[2]>> /\ n[1] \in Bases /\ n[2] \in VariantSuffixes
      OBVIOUS
    <3> QED BY <2>2, <3>1
  <2> QED BY <2>1, <2>3 DEF Manifests
<1>6. "dir" \in Bases /\ "file" \in Bases /\ "index" \in Bases /\ "" \in VariantSuffixes
      /\ ".br" \in VariantSuffixes /\ ".gz" \in VariantSuffixes
  BY DEF Bases, VariantSuffixes
<1>7. \A base \in Bases, suffix \in VariantSuffixes : Made(base, suffix) => Made(base, "")
  OBVIOUS
<1>8. Raster => ~Made("file", ".br") /\ ~Made("file", ".gz")
  BY DEF VariantsOf, Raster, Compressible
<1>9. kind # "route" => ~Made("dir", "")
  BY <1>1
<1> HIDE DEF Made
<1> QED BY <1>2, <1>4, <1>5, <1>6, <1>7, <1>8, <1>9 DEF Deployed

(* A choice that suits the browser, out of the deployment of content c.    *)
Suits(s, b, base, c) ==
    /\ s \in Selections /\ s.blob.base = base /\ s.blob.content = c
    /\ s.encoding = EncodingOf(s.blob.suffix)
    /\ s.encoding \in Accepts[b] \cup {""}
    /\ s.blob.suffix = ".webp" => "webp" \in Accepts[b]

(* pickVariantMap finds a form wherever there is a file, and it suits.     *)
LEMMA PickSuits ==
    ASSUME NEW c \in 1..MaxActivations, NEW m, Deployed(m, c), NEW b, NEW place \in Bases
    PROVE  /\ PickVariant(m, b, place) = Absent <=> m[<<place, "">>] = Absent
           /\ PickVariant(m, b, place) # Absent => Suits(PickVariant(m, b, place), b, place, c)
<1>1. ASSUME NEW form \in VariantSuffixes, NEW e \in ContentEncodings,
             m[<<place, form>>] # Absent
      PROVE  /\ Is(m, place, form, e) \in Selections
             /\ Is(m, place, form, e) # Absent
             /\ Is(m, place, form, e).blob.base = place
             /\ Is(m, place, form, e).blob.suffix = form
             /\ Is(m, place, form, e).blob.content = c
             /\ Is(m, place, form, e).encoding = e
             /\ m[<<place, "">>] # Absent
  <2>1. m[<<place, form>>] = [base |-> place, suffix |-> form, content |-> c]
        /\ m[<<place, "">>] # Absent
    BY <1>1 DEF Deployed
  <2>a. [base |-> place, suffix |-> form, content |-> c] \in Blobs
    BY DEF Blobs
  <2>2. m[<<place, form>>] \in Blobs
    BY <2>1, <2>a
  <2>3. Is(m, place, form, e) \in Selections
    BY <2>2 DEF Is, Selections
  <2>4. Absent \notin Selections
    BY BlobConstants
  <2>5. Is(m, place, form, e).blob = m[<<place, form>>] /\ Is(m, place, form, e).encoding = e
    BY DEF Is
  <2>6. /\ m[<<place, form>>].base = place /\ m[<<place, form>>].suffix = form
        /\ m[<<place, form>>].content = c
    <3> DEFINE blob == [base |-> place, suffix |-> form, content |-> c]
    <3>1. blob.base = place /\ blob.suffix = form /\ blob.content = c
      OBVIOUS
    <3> HIDE DEF blob
    <3>2. m[<<place, form>>] = blob
      BY <2>1 DEF blob
    <3> QED BY <3>1, <3>2
  <2> QED BY <2>1, <2>3, <2>4, <2>5, <2>6
<1>2. /\ ".webp" \in VariantSuffixes /\ ".br" \in VariantSuffixes /\ ".gz" \in VariantSuffixes
      /\ "" \in VariantSuffixes /\ "" \in ContentEncodings /\ "br" \in ContentEncodings
      /\ "gzip" \in ContentEncodings
  BY DEF VariantSuffixes, ContentEncodings
<1> DEFINE p == PickVariant(m, b, place)
           Good == (p = Absent <=> m[<<place, "">>] = Absent) /\ (p # Absent => Suits(p, b, place, c))
<1>3. ASSUME NEW form \in VariantSuffixes, NEW e \in ContentEncodings,
             m[<<place, form>>] # Absent, p = Is(m, place, form, e), e = EncodingOf(form),
             e \in Accepts[b] \cup {""}, form = ".webp" => "webp" \in Accepts[b]
      PROVE  Good
  <2>1. /\ p \in Selections /\ p # Absent /\ p.blob.base = place /\ p.blob.suffix = form
        /\ p.blob.content = c /\ p.encoding = e /\ m[<<place, "">>] # Absent
    <3> DEFINE is == Is(m, place, form, e)
    <3>1. /\ is \in Selections /\ is # Absent /\ is.blob.base = place /\ is.blob.suffix = form
          /\ is.blob.content = c /\ is.encoding = e /\ m[<<place, "">>] # Absent
      BY <1>1, <1>3
    <3>2. p = is
      BY <1>3
    <3> HIDE DEF p, is
    <3> QED BY <3>1, <3>2
  <2> HIDE DEF p
  <2> QED BY <1>3, <2>1 DEF Suits
<1>4. /\ EncodingOf(".webp") = "" /\ EncodingOf("") = ""
      /\ EncodingOf(".br") = "br" /\ EncodingOf(".gz") = "gzip"
  BY DEF EncodingOf
<1>5. ASSUME p = Absent, m[<<place, "">>] = Absent PROVE Good
  BY <1>5
<1> SUFFICES Good
  OBVIOUS
<1> HIDE DEF Good
<1>6. CASE p = Is(m, place, ".webp", "") /\ Webp(b, place) /\ m[<<place, ".webp">>] # Absent
  BY <1>2, <1>3, <1>4, <1>6 DEF Webp
<1>7. CASE p = Is(m, place, ".br", "br") /\ "br" \in Accepts[b] /\ m[<<place, ".br">>] # Absent
  BY <1>2, <1>3, <1>4, <1>7
<1>8. CASE p = Is(m, place, ".gz", "gzip") /\ "gzip" \in Accepts[b] /\ m[<<place, ".gz">>] # Absent
  BY <1>2, <1>3, <1>4, <1>8
<1>9. CASE p = Is(m, place, "", "") /\ m[<<place, "">>] # Absent
  BY <1>2, <1>3, <1>4, <1>9
<1> QED BY <1>5, <1>6, <1>7, <1>8, <1>9, PickIs

(* resolveBlob: the path itself, then the fallback.                        *)
LEMMA TriedAre ==
    ASSUME NEW m, NEW b
    PROVE  ResolveBlob(m, b) =
             IF kind = "route" /\ PickVariant(m, b, "dir") # Absent THEN PickVariant(m, b, "dir")
             ELSE IF PickVariant(m, b, "file") # Absent THEN PickVariant(m, b, "file")
             ELSE IF FallsBack THEN PickVariant(m, b, "index") ELSE Absent
<1> DEFINE tried == PathCandidates \o (IF FallsBack THEN <<"index">> ELSE <<>>)
           some == {x \in Bases : PickVariant(m, b, x) # Absent}
           first == FirstOf(tried, some)
<1>1. ResolveBlob(m, b) = IF first = Absent THEN Absent ELSE PickVariant(m, b, first)
  BY DEF ResolveBlob
<1>2. \A x \in Bases : x \in some <=> PickVariant(m, b, x) # Absent
  OBVIOUS
<1>3. "dir" \in Bases /\ "file" \in Bases /\ "index" \in Bases /\ \A x \in Bases : x # Absent
  BY BlobConstants DEF Bases
<1>4. tried = IF kind = "route" THEN <<"dir", "file", "index">>
              ELSE IF FallsBack THEN <<"file", "index">> ELSE <<"file">>
  <2>1. CASE kind = "route"
    <3>1. tried = <<"dir", "file">> \o <<"index">>
      BY <2>1 DEF PathCandidates, FallsBack
    <3> HIDE DEF tried
    <3> QED BY <2>1, <3>1, Triple
  <2>2. CASE kind # "route" /\ FallsBack
    <3>1. tried = <<"file">> \o <<"index">>
      BY <2>2 DEF PathCandidates
    <3> HIDE DEF tried
    <3> QED BY <2>2, <3>1, Pair
  <2>3. CASE kind # "route" /\ ~FallsBack
    <3>1. tried = <<"file">> \o <<>>
      BY <2>3 DEF PathCandidates
    <3> HIDE DEF tried
    <3> QED BY <2>3, <3>1, Single
  <2> QED BY <2>1, <2>2, <2>3
<1> HIDE DEF tried, some
<1>5. first = IF kind = "route" /\ "dir" \in some THEN "dir"
              ELSE IF "file" \in some THEN "file"
              ELSE IF FallsBack /\ "index" \in some THEN "index" ELSE Absent
  <2>1. kind = "route" => FallsBack
    BY DEF FallsBack
  <2> QED BY <1>4, <2>1, FirstOfThree, FirstOfTwo, FirstOfOne
<1> HIDE DEF first
<1> QED BY <1>1, <1>2, <1>3, <1>5

(* So it falls back only if the path has nothing to give.                  *)
LEMMA ResolveSuits ==
    ASSUME NEW c \in 1..MaxActivations, NEW m, Deployed(m, c), NEW b,
           ResolveBlob(m, b) # Absent
    PROVE  \E base \in Bases :
              /\ Suits(ResolveBlob(m, b), b, base, c)
              /\ base = "index" => m[<<"dir", "">>] = Absent /\ m[<<"file", "">>] = Absent
<1>1. "dir" \in Bases /\ "file" \in Bases /\ "index" \in Bases /\ "dir" # "index" /\ "file" # "index"
  BY DEF Bases
<1>2. kind # "route" => m[<<"dir", "">>] = Absent
  BY DEF Deployed
<1> QED BY <1>1, <1>2, PickSuits, TriedAre

(* Browsers that share an encoding key are chosen the same, unless the     *)
(* path is of a photo: then the fallback may be compressed, and the key    *)
(* says nothing of that.                                                   *)
LEMMA SameChoice ==
    ASSUME NEW c \in 1..MaxActivations, NEW m, Deployed(m, c), NEW b, NEW d,
           kind # "photo", EncodingKey(b) = EncodingKey(d)
    PROVE  ResolveBlob(m, b) = ResolveBlob(m, d)
<1>1. CASE ~Raster
  <2>1. /\ "br" \in Accepts[b] <=> "br" \in Accepts[d]
        /\ "br" \notin Accepts[b] => ("gzip" \in Accepts[b] <=> "gzip" \in Accepts[d])
    BY <1>1 DEF EncodingKey
  <2>2. \A base \in Bases : PickVariant(m, b, base) = PickVariant(m, d, base)
    BY <1>1, <2>1, PickIs DEF Webp
  <2> QED BY <2>2, TriedAre DEF Bases
<1>2. CASE Raster
  <2>1. "webp" \in Accepts[b] <=> "webp" \in Accepts[d]
    BY <1>2 DEF EncodingKey
  <2>2. kind # "route" /\ ~FallsBack
    BY <1>2 DEF Raster, FallsBack
  <2>3. m[<<"file", ".br">>] = Absent /\ m[<<"file", ".gz">>] = Absent
    BY <1>2 DEF Deployed
  <2>4. PickVariant(m, b, "file") = PickVariant(m, d, "file")
    BY <2>1, <2>3, PickIs DEF Webp
  <2> QED BY <2>2, <2>4, TriedAre
<1> QED BY <1>1, <1>2

-----------------------------------------------------------------------------
(* The invariant of the serving of a path.                                 *)

(* Of the type invariant, what EXCEPT needs; a request under way has been  *)
(* chosen a variant, and a version's manifest is what a deploy makes.      *)
Stocked ==
    /\ BlobTypeOK
    /\ manifest \in [ServedVersions -> Manifests]
    /\ paths \in [ServedVersions -> [EncodingKeys -> Selections \cup {Absent}]]
    /\ bodies \in [ServedVersions -> [EncodingKeys -> CachedBodies]]
    /\ \A b \in Browsers : ask[b].step # "idle" => choice[b] \in Selections
    /\ \A v \in 1..version : \E c \in 1..v : Deployed(manifest[v], c) /\ (~Reverts => c = v)

LEMMA BlobInitTyped == BlobInit => Stocked
<1> SUFFICES ASSUME BlobInit PROVE Stocked
  OBVIOUS
<1> USE BlobConstants DEF BlobInit
<1>1. PICK m \in Deployable(1) : manifest = [v \in ServedVersions |-> m]
  BY Zenon
<1>2. Deployed(m, 1)
  BY DeployableIsDeployed
<1>3a. m \in Manifests
  BY <1>2 DEF Deployed
<1>3. manifest \in [ServedVersions -> Manifests] /\ 1 \in ServedVersions
  BY <1>1, <1>3a DEF ServedVersions
<1>4. \A v \in 1..version : \E c \in 1..v : Deployed(manifest[v], c) /\ (~Reverts => c = v)
  BY <1>1, <1>2, <1>3
<1>5. paths \in [ServedVersions -> [EncodingKeys -> Selections \cup {Absent}]]
  BY DEF NoEntries
<1>6. bodies \in [ServedVersions -> [EncodingKeys -> CachedBodies]]
  BY DEF NoEntries, CachedBodies
<1>7. ask \in [Browsers -> [step : {"idle", "serve", "fetch"}, at : ServedVersions]]
  BY <1>3
<1>8. choice \in [Browsers -> Selections \cup {Absent}] /\ kept \in [Browsers -> Selections \cup {Absent}]
  OBVIOUS
<1>9. answer \in [Browsers -> ServeAnswers]
  BY DEF ServeAnswers
<1>10. scene \in Scenes /\ large \in BOOLEAN /\ version \in ServedVersions /\ nowhere \subseteq ServedVersions
  BY <1>3
<1>11. \A b \in Browsers : ask[b].step = "idle"
  OBVIOUS
<1>12. storeFails \in BOOLEAN
  OBVIOUS
<1> QED BY <1>3, <1>4, <1>5, <1>6, <1>7, <1>8, <1>9, <1>10, <1>11, <1>12 DEF Stocked, BlobTypeOK

(* What is right for a browser, by version, and the key it shares.         *)
Right == [v \in ServedVersions |-> [b \in Browsers |-> ResolveBlob(manifest[v], b)]]
Key == [b \in Browsers |-> EncodingKey(b)]

(* What RightRepresentation asks of an answer.                             *)
Fits(w, b, v) ==
    /\ w.encoding = EncodingOf(w.blob.suffix)
    /\ w.encoding \in Accepts[b] \cup {""}
    /\ w.blob.suffix = ".webp" => "webp" \in Accepts[b]
    /\ w.blob.base = "index" => \A base \in {"dir", "file"} : manifest[v][<<base, "">>] = Absent

LEMMA RightIs ==
    ASSUME Stocked, NEW v \in 1..version, NEW b \in Browsers
    PROVE  /\ Right[v][b] = ResolveBlob(manifest[v], b)
           /\ Right[v][b] \in Selections \cup {Absent}
           /\ Right[v][b] # Absent =>
                /\ Right[v][b].blob.content \in 1..v
                /\ ~Reverts => Right[v][b].blob.content = v
                /\ Fits(Right[v][b], b, v)
           /\ kind # "photo" => \A d \in Browsers : Key[d] = Key[b] => Right[v][d] = Right[v][b]
<1> USE BlobConstants
<1>1. v \in ServedVersions /\ v \in Nat
  BY DEF Stocked, BlobTypeOK, ServedVersions
<1>2. PICK c \in 1..v : Deployed(manifest[v], c) /\ (~Reverts => c = v)
  BY DEF Stocked
<1>3. c \in 1..MaxActivations
  BY <1>1, <1>2 DEF ServedVersions
<1>4. \A d \in Browsers : Right[v][d] = ResolveBlob(manifest[v], d)
  BY <1>1 DEF Right
<1>5. ASSUME Right[v][b] # Absent
      PROVE  \E base \in Bases :
                /\ Suits(Right[v][b], b, base, c)
                /\ base = "index" => manifest[v][<<"dir", "">>] = Absent /\ manifest[v][<<"file", "">>] = Absent
  <2>1. ResolveBlob(manifest[v], b) # Absent
    BY <1>4, <1>5
  <2>2. \E base \in Bases :
                /\ Suits(ResolveBlob(manifest[v], b), b, base, c)
                /\ base = "index" => manifest[v][<<"dir", "">>] = Absent /\ manifest[v][<<"file", "">>] = Absent
    BY <1>2, <1>3, <2>1, ResolveSuits
  <2> QED BY <1>4, <2>2
<1>6. ASSUME kind # "photo", NEW d \in Browsers, Key[d] = Key[b] PROVE Right[v][d] = Right[v][b]
  <2>1. EncodingKey(d) = EncodingKey(b)
    BY <1>6 DEF Key
  <2>2. ResolveBlob(manifest[v], d) = ResolveBlob(manifest[v], b)
    BY <1>2, <1>3, <1>6, <2>1, SameChoice
  <2> QED BY <1>4, <2>2
<1>7. ASSUME Right[v][b] # Absent
      PROVE  /\ Right[v][b].blob.content = c
             /\ Fits(Right[v][b], b, v)
  BY <1>5, <1>7 DEF Suits, Fits
<1> QED BY <1>2, <1>4, <1>5, <1>6, <1>7 DEF Suits

LEMMA KeyIs ==
    ASSUME NEW b \in Browsers
    PROVE  EncodingKey(b) = Key[b] /\ Key[b] \in EncodingKeys
BY DEF Key, EncodingKey, EncodingKeys

LEMMA KeyStays == ASSUME scene' = scene PROVE Key' = Key /\ kind' = kind
<1>1. kind' = kind
  BY DEF kind
<1>2. \A b \in Browsers : EncodingKey(b)' = EncodingKey(b)
  BY <1>1 DEF EncodingKey, Raster
<1> QED BY <1>1, <1>2 DEF Key

LEMMA RightStays ==
    ASSUME scene' = scene, NEW v \in ServedVersions, NEW b \in Browsers, manifest'[v] = manifest[v]
    PROVE  Right'[v][b] = Right[v][b]
<1>1. kind' = kind
  BY KeyStays
<1>2. ResolveBlob(manifest[v], b)' = ResolveBlob(manifest[v], b)
  BY <1>1 DEF ResolveBlob, PathCandidates, FallsBack, PickVariant, Preferences, Raster
<1>3. Right'[v][b] = ResolveBlob(manifest[v], b)'
  BY DEF Right
<1>4. Right[v][b] = ResolveBlob(manifest[v], b)
  BY DEF Right
<1> QED BY <1>2, <1>3, <1>4

(* Answers that say which file they mean.                                  *)
Telling == {200, 206, 304, 307}

(* What a cache holds is right for all who share the key, and what a       *)
(* browser was chosen, told or keeps is right for it.                      *)
Shared ==
    /\ \A v \in ServedVersions, b \in Browsers :
        /\ paths[v][Key[b]] # Absent => v <= version /\ paths[v][Key[b]] = Right[v][b]
        /\ bodies[v][Key[b]] # Absent => v <= version /\ bodies[v][Key[b]].what = Right[v][b]
    /\ \A b \in Browsers :
        /\ ask[b].step # "idle" => choice[b] = Right[ask[b].at][b]
        /\ answer[b].status \in Telling => answer[b].what = Right[ask[b].at][b]
        /\ kept[b] # Absent => \E v \in 1..ask[b].at : kept[b] = Right[v][b]

(* Of a request's version; and media are redirected to, never revalidated. *)
Asked ==
    \A b \in Browsers :
        /\ ask[b].at <= version
        /\ answer[b].status = 304 => ~Redirects

(* A browser is told that its copy is good only if it is.                  *)
Honest == ~Reverts => NotModifiedIsTrue

Sharing == Asked /\ (kind # "photo" => Shared /\ Honest)

(* The parts of these that concern the server, and the browsers.           *)
CachesTyped ==
    /\ paths \in [ServedVersions -> [EncodingKeys -> Selections \cup {Absent}]]
    /\ bodies \in [ServedVersions -> [EncodingKeys -> CachedBodies]]
    /\ nowhere \subseteq ServedVersions

CachesRight ==
    \A v \in ServedVersions, b \in Browsers :
        /\ paths[v][Key[b]] # Absent => v <= version /\ paths[v][Key[b]] = Right[v][b]
        /\ bodies[v][Key[b]] # Absent => v <= version /\ bodies[v][Key[b]].what = Right[v][b]

BrowsersTyped ==
    /\ ask \in [Browsers -> [step : {"idle", "serve", "fetch"}, at : ServedVersions]]
    /\ choice \in [Browsers -> Selections \cup {Absent}]
    /\ answer \in [Browsers -> ServeAnswers]
    /\ kept \in [Browsers -> Selections \cup {Absent}]
    /\ \A b \in Browsers : ask[b].step # "idle" => choice[b] \in Selections

BrowsersRight ==
    \A b \in Browsers :
        /\ ask[b].step # "idle" => choice[b] = Right[ask[b].at][b]
        /\ answer[b].status \in Telling => answer[b].what = Right[ask[b].at][b]
        /\ kept[b] # Absent => \E v \in 1..ask[b].at : kept[b] = Right[v][b]

(* A step that activates nothing keeps what its parts keep.                *)
LEMMA Together ==
    ASSUME Stocked, UNCHANGED <<scene, large, manifest, version>>, storeFails' \in BOOLEAN,
           CachesTyped', BrowsersTyped', Asked',
           kind # "photo" => CachesRight' /\ BrowsersRight' /\ Honest'
    PROVE  Stocked' /\ Sharing'
<1>1. kind' = kind
  BY KeyStays
<1>2. \A m, c : Deployed(m, c)' <=> Deployed(m, c)
  BY <1>1 DEF Deployed, Raster
<1>3. (\A v \in 1..version : \E c \in 1..v : Deployed(manifest[v], c) /\ (~Reverts => c = v))'
  BY <1>2 DEF Stocked
<1>4. \A v \in ServedVersions, k \in EncodingKeys :
          paths'[v][k] \in Selections \cup {Absent} /\ bodies'[v][k] \in CachedBodies
  BY DEF CachesTyped
<1>5. BlobTypeOK'
  BY <1>4 DEF Stocked, BlobTypeOK, CachesTyped, BrowsersTyped
<1>6. Stocked'
  BY <1>3, <1>5 DEF Stocked, CachesTyped, BrowsersTyped
<1>7. Sharing'
  BY <1>1 DEF Sharing, Shared, CachesRight, BrowsersRight
<1> QED BY <1>6, <1>7

(* What an answer, or the end of a request, comes to.                      *)
LEMMA Answered ==
    ASSUME Stocked, Sharing, NEW b \in Browsers, NEW a, AnswerWith(b, a),
           UNCHANGED <<scene, manifest, version>>,
           a \in ServeAnswers,
           a.status \in Telling => a.what \in Selections,
           a.status = 304 => ~Redirects,
           kind # "photo" /\ a.status \in Telling => a.what = Right[ask[b].at][b],
           kind # "photo" /\ ~Reverts /\ a.status = 304 /\ kept[b] # Absent =>
               kept[b].blob = a.what.blob
    PROVE  BrowsersTyped' /\ Asked' /\ (kind # "photo" => BrowsersRight' /\ Honest')
<1>1. /\ ask \in [Browsers -> [step : {"idle", "serve", "fetch"}, at : ServedVersions]]
      /\ choice \in [Browsers -> Selections \cup {Absent}]
      /\ answer \in [Browsers -> ServeAnswers]
      /\ kept \in [Browsers -> Selections \cup {Absent}]
      /\ \A d \in Browsers : ask[d].step # "idle" => choice[d] \in Selections
  BY DEF Stocked, BlobTypeOK
<1>2. /\ ask' = [ask EXCEPT ![b].step = "idle"]
      /\ choice' = [choice EXCEPT ![b] = Absent]
      /\ answer' = [answer EXCEPT ![b] = a]
      /\ kept' = [kept EXCEPT ![b] = IF a.status = 200 THEN a.what ELSE @]
  BY DEF AnswerWith
<1>3. \A v \in ServedVersions, d \in Browsers : Right'[v][d] = Right[v][d]
  BY RightStays
<1>4. kind' = kind /\ (Redirects' <=> Redirects)
  BY KeyStays DEF Redirects, Raster
<1>5. /\ ask'[b].step = "idle" /\ ask'[b].at = ask[b].at /\ answer'[b] = a /\ choice'[b] = Absent
      /\ kept'[b] = IF a.status = 200 THEN a.what ELSE kept[b]
      /\ ask[b].at \in ServedVersions
      /\ \A d \in Browsers \ {b} : /\ ask'[d] = ask[d] /\ choice'[d] = choice[d]
                                   /\ answer'[d] = answer[d] /\ kept'[d] = kept[d]
  BY <1>1, <1>2
<1>6. \A d \in Browsers : ask'[d].at = ask[d].at /\ ask[d].at \in ServedVersions
  BY <1>1, <1>5
<1>7. ask' \in [Browsers -> [step : {"idle", "serve", "fetch"}, at : ServedVersions]]
  BY <1>1, <1>2
<1>8. choice' \in [Browsers -> Selections \cup {Absent}] /\ answer' \in [Browsers -> ServeAnswers]
  BY <1>1, <1>2
<1>9. kept' \in [Browsers -> Selections \cup {Absent}]
  BY <1>1, <1>2, <1>5 DEF Telling
<1>10. \A d \in Browsers : ask'[d].step # "idle" => choice'[d] \in Selections
  BY <1>1, <1>5
<1>11. Asked'
  BY <1>4, <1>5, <1>6 DEF Asked, Sharing
<1>12. ASSUME kind # "photo", NEW d \in Browsers
       PROVE  /\ ask'[d].step # "idle" => choice'[d] = Right'[ask'[d].at][d]
              /\ answer'[d].status \in Telling => answer'[d].what = Right'[ask'[d].at][d]
              /\ kept'[d] # Absent => \E v \in 1..ask'[d].at : kept'[d] = Right'[v][d]
              /\ ~Reverts /\ answer'[d].status = 304 /\ kept'[d] # Absent =>
                     kept'[d].blob = answer'[d].what.blob
  <2>1. Shared /\ Honest
    BY <1>12 DEF Sharing
  <2>2. \A v \in 1..ask[d].at : v \in ServedVersions
    BY <1>6, BlobConstants DEF ServedVersions
  <2>3. ask[d].at \in 1..ask[d].at
    BY <1>6 DEF ServedVersions
  <2>4. CASE d = b
    <3>1. answer'[d].status \in Telling => answer'[d].what = Right'[ask'[d].at][d]
      BY <1>3, <1>5, <1>6, <1>12, <2>4
    <3>2. kept'[d] # Absent => \E v \in 1..ask'[d].at : kept'[d] = Right'[v][d]
      <4>1. CASE a.status = 200
        BY <1>3, <1>5, <1>6, <1>12, <2>3, <2>4, <4>1 DEF Telling
      <4>2. CASE a.status # 200
        BY <1>3, <1>5, <1>6, <2>1, <2>2, <2>4, <4>2 DEF Shared
      <4> QED BY <4>1, <4>2
    <3>3. ~Reverts /\ answer'[d].status = 304 /\ kept'[d] # Absent =>
                     kept'[d].blob = answer'[d].what.blob
      BY <1>5, <1>12, <2>4
    <3> QED BY <1>5, <2>4, <3>1, <3>2, <3>3
  <2>5. CASE d # b
    BY <1>3, <1>5, <1>6, <2>1, <2>2, <2>5 DEF Shared, Honest, NotModifiedIsTrue
  <2> QED BY <2>4, <2>5
<1>13. kind # "photo" => Honest'
  BY <1>12 DEF Honest, NotModifiedIsTrue
<1> QED BY <1>7, <1>8, <1>9, <1>10, <1>11, <1>12, <1>13 DEF BrowsersTyped, BrowsersRight

(* What a step leaves alone stays right.                                   *)
LEMMA CachesStay ==
    ASSUME Stocked, Sharing, UNCHANGED <<scene, manifest, version>>
    PROVE  /\ UNCHANGED caches => CachesTyped' /\ (kind # "photo" => CachesRight')
           /\ UNCHANGED <<ask, choice, answer, kept>> =>
                BrowsersTyped' /\ Asked' /\ (kind # "photo" => BrowsersRight' /\ Honest')
           /\ Key' = Key
           /\ \A v \in ServedVersions, b \in Browsers : Right'[v][b] = Right[v][b]
<1>1. Key' = Key /\ kind' = kind /\ (Redirects' <=> Redirects)
  BY KeyStays DEF Redirects, Raster
<1>2. \A v \in ServedVersions, b \in Browsers : Right'[v][b] = Right[v][b]
  BY RightStays
<1>3. ASSUME UNCHANGED caches PROVE CachesTyped' /\ (kind # "photo" => CachesRight')
  BY <1>1, <1>2, <1>3 DEF caches, CachesTyped, CachesRight, Stocked, BlobTypeOK, Sharing, Shared
<1>4. ASSUME UNCHANGED <<ask, choice, answer, kept>>
      PROVE  BrowsersTyped' /\ Asked' /\ (kind # "photo" => BrowsersRight' /\ Honest')
  <2>1. BrowsersTyped'
    BY <1>4 DEF BrowsersTyped, Stocked, BlobTypeOK
  <2>2. Asked'
    BY <1>1, <1>4 DEF Asked, Sharing
  <2>3. \A b \in Browsers : ask[b].at \in ServedVersions /\ \A v \in 1..ask[b].at : v \in ServedVersions
    BY BlobConstants DEF Stocked, BlobTypeOK, ServedVersions
  <2>4. kind # "photo" => BrowsersRight' /\ Honest'
    BY <1>2, <1>4, <2>3 DEF Sharing, Shared, BrowsersRight, Honest, NotModifiedIsTrue
  <2> QED BY <2>1, <2>2, <2>4
<1> QED BY <1>1, <1>2, <1>3, <1>4

(* Entries that lapse and copies that are forgotten.                       *)
LEMMA SharedLapses ==
    ASSUME Stocked, Sharing,
           \/ \E v \in ServedVersions, k \in EncodingKeys : LapseChoice(v, k) \/ LapseBody(v, k)
           \/ LapseNowhere
           \/ \E b \in Browsers : ForgetCopy(b)
    PROVE  Stocked' /\ Sharing'
<1> USE DEF site, caches
<1>1. ASSUME NEW v \in ServedVersions, NEW k \in EncodingKeys, LapseChoice(v, k)
      PROVE  Stocked' /\ Sharing'
  <2>1. /\ paths' = [paths EXCEPT ![v][k] = Absent]
        /\ UNCHANGED <<scene, large, manifest, version, nowhere, bodies, ask, choice, answer, kept, storeFails>>
    BY <1>1 DEF LapseChoice
  <2>2. paths' \in [ServedVersions -> [EncodingKeys -> Selections \cup {Absent}]]
    BY <2>1 DEF Stocked
  <2>3. \A w \in ServedVersions, e \in EncodingKeys : paths'[w][e] \in {paths[w][e], Absent}
    BY <2>1 DEF Stocked
  <2>4. CachesTyped'
    BY <2>1, <2>2 DEF CachesTyped, Stocked, BlobTypeOK
  <2>5. kind # "photo" => CachesRight'
    BY <2>1, <2>3, KeyIs, CachesStay DEF CachesRight, Sharing, Shared
  <2> QED BY <2>1, <2>4, <2>5, CachesStay, Together DEF Stocked, BlobTypeOK
<1>2. ASSUME NEW v \in ServedVersions, NEW k \in EncodingKeys, LapseBody(v, k)
      PROVE  Stocked' /\ Sharing'
  <2>1. /\ bodies' = [bodies EXCEPT ![v][k] = Absent]
        /\ UNCHANGED <<scene, large, manifest, version, nowhere, paths, ask, choice, answer, kept, storeFails>>
    BY <1>2 DEF LapseBody
  <2>2. bodies' \in [ServedVersions -> [EncodingKeys -> CachedBodies]]
    BY <2>1 DEF Stocked, CachedBodies
  <2>3. \A w \in ServedVersions, e \in EncodingKeys : bodies'[w][e] \in {bodies[w][e], Absent}
    BY <2>1 DEF Stocked
  <2>4. CachesTyped'
    BY <2>1, <2>2 DEF CachesTyped, Stocked, BlobTypeOK
  <2>5. kind # "photo" => CachesRight'
    BY <2>1, <2>3, KeyIs, CachesStay DEF CachesRight, Sharing, Shared
  <2> QED BY <2>1, <2>4, <2>5, CachesStay, Together DEF Stocked, BlobTypeOK
<1>3. CASE LapseNowhere
  <2>1. /\ nowhere' = {}
        /\ UNCHANGED <<scene, large, manifest, version, paths, bodies, ask, choice, answer, kept, storeFails>>
    BY <1>3 DEF LapseNowhere
  <2>2. CachesTyped'
    BY <2>1 DEF CachesTyped, Stocked
  <2>3. kind # "photo" => CachesRight'
    BY <2>1, CachesStay DEF CachesRight, Sharing, Shared
  <2> QED BY <2>1, <2>2, <2>3, CachesStay, Together DEF Stocked, BlobTypeOK
<1>4. ASSUME NEW b \in Browsers, ForgetCopy(b) PROVE Stocked' /\ Sharing'
  <2>1. /\ kept' = [kept EXCEPT ![b] = Absent]
        /\ UNCHANGED <<scene, large, manifest, version, paths, nowhere, bodies, ask, choice, answer, storeFails>>
    BY <1>4 DEF ForgetCopy
  <2>2. /\ kept' \in [Browsers -> Selections \cup {Absent}]
        /\ \A d \in Browsers : kept'[d] \in {kept[d], Absent}
    BY <2>1 DEF Stocked, BlobTypeOK
  <2>3. BrowsersTyped'
    BY <2>1, <2>2 DEF BrowsersTyped, Stocked, BlobTypeOK
  <2>4. \A d \in Browsers : ask[d].at \in ServedVersions /\ \A v \in 1..ask[d].at : v \in ServedVersions
    BY BlobConstants DEF Stocked, BlobTypeOK, ServedVersions
  <2>5. kind # "photo" => BrowsersRight'
    BY <2>1, <2>2, <2>4, CachesStay DEF BrowsersRight, Sharing, Shared
  <2>6. kind # "photo" => Honest'
    BY <2>1, <2>2 DEF Honest, NotModifiedIsTrue, Sharing
  <2>7. Asked'
    BY <2>1, KeyStays DEF Asked, Sharing, Redirects, Raster
  <2>8. CachesTyped' /\ (kind # "photo" => CachesRight')
    BY <2>1, CachesStay
  <2> QED BY <2>1, <2>3, <2>5, <2>6, <2>7, <2>8, Together DEF Stocked, BlobTypeOK
<1> QED BY <1>1, <1>2, <1>3, <1>4

(* ServeHTTP: what is chosen is right, be it cached or resolved.           *)
LEMMA SharedChoose ==
    ASSUME Stocked, Sharing, NEW b \in Browsers, Choose(b)
    PROVE  Stocked' /\ Sharing'
<1> USE BlobConstants
<1> DEFINE known == paths[version][EncodingKey(b)]
           found == IF known # Absent THEN known ELSE ResolveBlob(manifest[version], b)
<1>1. /\ UNCHANGED <<scene, large, manifest, version, bodies, storeFails>>
      /\ \/ /\ nowhere' = nowhere \cup {version}
            /\ AnswerWith(b, [status |-> 404])
            /\ UNCHANGED paths
         \/ /\ found # Absent
            /\ choice' = [choice EXCEPT ![b] = found]
            /\ paths' = [paths EXCEPT ![version][EncodingKey(b)] = found]
            /\ ask' = [ask EXCEPT ![b] = [step |-> "serve", at |-> version]]
            /\ answer' = [answer EXCEPT ![b] = [status |-> 0]]
            /\ UNCHANGED <<nowhere, kept>>
  BY DEF Choose, site
<1>2. version \in ServedVersions /\ version \in 1..version /\ version \in Nat
  BY DEF Stocked, BlobTypeOK, ServedVersions
<1>3. CASE nowhere' = nowhere \cup {version} /\ AnswerWith(b, [status |-> 404]) /\ UNCHANGED paths
  <2>1. [status |-> 404] \in ServeAnswers
    BY DEF ServeAnswers
  <2>2. CachesTyped'
    BY <1>1, <1>2, <1>3 DEF CachesTyped, Stocked, BlobTypeOK
  <2>3. kind # "photo" => CachesRight'
    BY <1>1, <1>3, CachesStay DEF CachesRight, Sharing, Shared
  <2>4. BrowsersTyped' /\ Asked' /\ (kind # "photo" => BrowsersRight' /\ Honest')
    BY <1>1, <1>3, <2>1, Answered DEF Telling
  <2>5. storeFails' \in BOOLEAN
    BY <1>1 DEF Stocked, BlobTypeOK
  <2> QED BY <1>1, <2>2, <2>3, <2>4, <2>5, Together
<1>4. CASE /\ found # Absent
           /\ choice' = [choice EXCEPT ![b] = found]
           /\ paths' = [paths EXCEPT ![version][EncodingKey(b)] = found]
           /\ ask' = [ask EXCEPT ![b] = [step |-> "serve", at |-> version]]
           /\ answer' = [answer EXCEPT ![b] = [status |-> 0]]
           /\ UNCHANGED <<nowhere, kept>>
  <2>1. EncodingKey(b) = Key[b] /\ Key[b] \in EncodingKeys /\ Key' = Key
    BY <1>1, KeyIs, KeyStays
  <2>2. found \in Selections
    <3>1. known \in Selections \cup {Absent}
      BY <1>2, <2>1 DEF Stocked
    <3>2. ResolveBlob(manifest[version], b) \in Selections \cup {Absent}
      <4>1. /\ Right[version][b] = ResolveBlob(manifest[version], b)
            /\ Right[version][b] \in Selections \cup {Absent}
        BY <1>2, RightIs
      <4> QED BY <4>1
    <3> QED BY <1>4, <3>1, <3>2
  <2>3. kind # "photo" => found = Right[version][b]
    <3>1. Right[version][b] = ResolveBlob(manifest[version], b)
      BY <1>2, RightIs
    <3>2. kind # "photo" /\ known # Absent => known = Right[version][b]
      BY <1>2, <2>1 DEF Sharing, Shared
    <3> QED BY <3>1, <3>2
  <2> HIDE DEF found
  <2>4. paths' = [paths EXCEPT ![version][Key[b]] = found]
    BY <1>4, <2>1
  <2>5. paths' \in [ServedVersions -> [EncodingKeys -> Selections \cup {Absent}]]
    BY <1>2, <2>1, <2>2, <2>4 DEF Stocked
  <2>6. CachesTyped'
    BY <1>1, <1>4, <2>5 DEF CachesTyped, Stocked, BlobTypeOK
  <2>7. \A v \in ServedVersions, d \in Browsers : Right'[v][d] = Right[v][d]
    BY <1>1, CachesStay
  <2>8. kind # "photo" => CachesRight'
    <3> SUFFICES ASSUME kind # "photo", NEW v \in ServedVersions, NEW d \in Browsers
                 PROVE  /\ paths'[v][Key[d]] # Absent => v <= version /\ paths'[v][Key[d]] = Right[v][d]
                        /\ bodies[v][Key[d]] # Absent => v <= version /\ bodies[v][Key[d]].what = Right[v][d]
      BY <1>1, <2>1, <2>7 DEF CachesRight
    <3>1. bodies[v][Key[d]] # Absent => v <= version /\ bodies[v][Key[d]].what = Right[v][d]
      BY DEF Sharing, Shared
    <3>2. paths[v][Key[d]] # Absent => v <= version /\ paths[v][Key[d]] = Right[v][d]
      BY DEF Sharing, Shared
    <3>3. paths'[v][Key[d]] = paths[v][Key[d]] \/ (v = version /\ Key[d] = Key[b] /\ paths'[v][Key[d]] = found)
      BY <1>2, <2>1, <2>4, KeyIs DEF Stocked
    <3>4. Key[d] = Key[b] => Right[version][d] = Right[version][b]
      BY <1>2, RightIs
    <3>5. version <= version
      BY <1>2
    <3> QED BY <2>3, <3>1, <3>2, <3>3, <3>4, <3>5
  <2>9. /\ ask \in [Browsers -> [step : {"idle", "serve", "fetch"}, at : ServedVersions]]
        /\ choice \in [Browsers -> Selections \cup {Absent}]
        /\ answer \in [Browsers -> ServeAnswers]
        /\ kept \in [Browsers -> Selections \cup {Absent}]
        /\ \A d \in Browsers : ask[d].step # "idle" => choice[d] \in Selections
    BY DEF Stocked, BlobTypeOK
  <2>10. /\ ask'[b].step = "serve" /\ ask'[b].at = version /\ choice'[b] = found
         /\ answer'[b].status = 0 /\ kept'[b] = kept[b]
         /\ \A d \in Browsers \ {b} : /\ ask'[d] = ask[d] /\ choice'[d] = choice[d]
                                      /\ answer'[d] = answer[d] /\ kept'[d] = kept[d]
    BY <1>4, <2>9
  <2>11. BrowsersTyped'
    <3>1. [step |-> "serve", at |-> version] \in [step : {"idle", "serve", "fetch"}, at : ServedVersions]
      BY <1>2
    <3>2. [status |-> 0] \in ServeAnswers
      BY DEF ServeAnswers
    <3>3. ask' \in [Browsers -> [step : {"idle", "serve", "fetch"}, at : ServedVersions]]
      BY <1>4, <2>9, <3>1
    <3>4. choice' \in [Browsers -> Selections \cup {Absent}] /\ answer' \in [Browsers -> ServeAnswers]
      BY <1>4, <2>2, <2>9, <3>2
    <3>5. \A d \in Browsers : ask'[d].step # "idle" => choice'[d] \in Selections
      BY <2>2, <2>9, <2>10
    <3> QED BY <1>4, <2>9, <3>3, <3>4, <3>5 DEF BrowsersTyped
  <2>12. Asked'
    BY <1>1, <1>2, <2>10, KeyStays DEF Asked, Sharing, Redirects, Raster
  <2>13. \A d \in Browsers : /\ ask[d].at \in ServedVersions /\ ask[d].at <= version
                             /\ \A v \in 1..ask[d].at : v \in ServedVersions /\ v \in 1..version
    BY <1>2 DEF Stocked, BlobTypeOK, ServedVersions, Sharing, Asked
  <2>14. kind # "photo" => BrowsersRight'
    <3> SUFFICES ASSUME kind # "photo", NEW d \in Browsers
                 PROVE  /\ ask'[d].step # "idle" => choice'[d] = Right'[ask'[d].at][d]
                        /\ answer'[d].status \in Telling => answer'[d].what = Right'[ask'[d].at][d]
                        /\ kept'[d] # Absent => \E v \in 1..ask'[d].at : kept'[d] = Right'[v][d]
      BY DEF BrowsersRight
    <3>1. /\ ask[d].step # "idle" => choice[d] = Right[ask[d].at][d]
          /\ answer[d].status \in Telling => answer[d].what = Right[ask[d].at][d]
          /\ kept[d] # Absent => \E v \in 1..ask[d].at : kept[d] = Right[v][d]
      BY DEF Sharing, Shared
    <3>2. CASE d # b
      BY <2>7, <2>10, <2>13, <3>1, <3>2
    <3>3. CASE d = b
      BY <1>2, <2>3, <2>7, <2>10, <2>13, <3>1, <3>3 DEF Telling
    <3> QED BY <3>2, <3>3
  <2>15. kind # "photo" => Honest'
    BY <2>10 DEF Honest, NotModifiedIsTrue, Sharing
  <2> QED BY <1>1, <2>6, <2>8, <2>11, <2>12, <2>14, <2>15, Together DEF Stocked, BlobTypeOK
<1> HIDE DEF found
<1> QED BY <1>1, <1>3, <1>4

(* A request that goes on to MinIO.                                        *)
LEMMA SharedWait ==
    ASSUME Stocked, Sharing, NEW b \in Browsers, ask[b].step # "idle",
           ask' = [ask EXCEPT ![b].step = "fetch"],
           UNCHANGED <<scene, large, manifest, version, paths, nowhere, bodies, choice, answer, kept, storeFails>>
    PROVE  Stocked' /\ Sharing'
<1>1. /\ ask \in [Browsers -> [step : {"idle", "serve", "fetch"}, at : ServedVersions]]
      /\ choice \in [Browsers -> Selections \cup {Absent}]
      /\ answer \in [Browsers -> ServeAnswers]
      /\ kept \in [Browsers -> Selections \cup {Absent}]
      /\ \A d \in Browsers : ask[d].step # "idle" => choice[d] \in Selections
  BY DEF Stocked, BlobTypeOK
<1>2. ask' \in [Browsers -> [step : {"idle", "serve", "fetch"}, at : ServedVersions]]
  BY <1>1
<1>3. \A d \in Browsers : ask'[d].at = ask[d].at /\ (ask'[d].step # "idle" => ask[d].step # "idle")
  BY <1>1
<1>4. BrowsersTyped'
  BY <1>1, <1>2, <1>3 DEF BrowsersTyped
<1>5. Asked'
  BY <1>3, KeyStays DEF Asked, Sharing, Redirects, Raster
<1>6. \A d \in Browsers : ask[d].at \in ServedVersions /\ \A v \in 1..ask[d].at : v \in ServedVersions
  BY BlobConstants DEF Stocked, BlobTypeOK, ServedVersions
<1>7. kind # "photo" => BrowsersRight'
  BY <1>3, <1>6, CachesStay DEF BrowsersRight, Sharing, Shared
<1>8. kind # "photo" => Honest'
  BY DEF Honest, NotModifiedIsTrue, Sharing
<1>9. CachesTyped' /\ (kind # "photo" => CachesRight')
  BY CachesStay DEF caches
<1> QED BY <1>4, <1>5, <1>7, <1>8, <1>9, Together DEF Stocked, BlobTypeOK

(* A body that is kept goes under the key of whoever asked for it.         *)
LEMMA SharedPut ==
    ASSUME Stocked, Sharing, NEW b \in Browsers, NEW h \in {"body", "metadata", "nothing"},
           ask[b].step # "idle", PutBody(b, [what |-> choice[b], holds |-> h]),
           UNCHANGED <<scene, manifest, version, paths, nowhere>>
    PROVE  CachesTyped' /\ (kind # "photo" => CachesRight')
<1> USE BlobConstants
<1> DEFINE entry == [what |-> choice[b], holds |-> h]
           at == ask[b].at
<1>1. /\ at \in ServedVersions /\ at \in 1..version /\ choice[b] \in Selections
      /\ version \in Nat
  BY DEF Stocked, BlobTypeOK, ServedVersions, Sharing, Asked
<1>2. EncodingKey(b) = Key[b] /\ Key[b] \in EncodingKeys /\ Key' = Key
  BY KeyIs, KeyStays
<1>3. entry \in CachedBodies /\ entry.what = choice[b]
  BY <1>1 DEF CachedBodies
<1>4. bodies' = [bodies EXCEPT ![at][Key[b]] = entry]
  BY <1>2 DEF PutBody
<1> HIDE DEF entry, at
<1>5. bodies' \in [ServedVersions -> [EncodingKeys -> CachedBodies]]
  BY <1>1, <1>2, <1>3, <1>4 DEF Stocked
<1>6. CachesTyped'
  BY <1>5 DEF CachesTyped, Stocked, BlobTypeOK
<1>7. kind # "photo" => CachesRight'
  <2> SUFFICES ASSUME kind # "photo", NEW v \in ServedVersions, NEW d \in Browsers
               PROVE  /\ paths[v][Key[d]] # Absent => v <= version /\ paths[v][Key[d]] = Right[v][d]
                      /\ bodies'[v][Key[d]] # Absent =>
                             v <= version /\ bodies'[v][Key[d]].what = Right[v][d]
    BY <1>2, CachesStay DEF CachesRight
  <2>1. /\ paths[v][Key[d]] # Absent => v <= version /\ paths[v][Key[d]] = Right[v][d]
        /\ bodies[v][Key[d]] # Absent => v <= version /\ bodies[v][Key[d]].what = Right[v][d]
        /\ choice[b] = Right[at][b]
    BY DEF Sharing, Shared, at
  <2>2. bodies'[v][Key[d]] = bodies[v][Key[d]] \/ (v = at /\ Key[d] = Key[b] /\ bodies'[v][Key[d]] = entry)
    BY <1>1, <1>2, <1>4, KeyIs DEF Stocked
  <2>3. Key[d] = Key[b] => Right[at][d] = Right[at][b]
    <3>1. at \in 1..version
      BY <1>1
    <3>2. \A e \in Browsers : Key[e] = Key[b] => Right[at][e] = Right[at][b]
      BY <3>1, RightIs
    <3> QED BY <3>2
  <2>4. at <= version
    BY <1>1
  <2> QED BY <1>3, <2>1, <2>2, <2>3, <2>4
<1> QED BY <1>6, <1>7

(* An object that MinIO does not have.                                     *)
LEMMA SharedFailFetch ==
    ASSUME Stocked, Sharing, NEW b \in Browsers, FailFetch(b)
    PROVE  Stocked' /\ Sharing'
<1>1. /\ UNCHANGED <<scene, large, manifest, version, paths, nowhere>>
      /\ AnswerWith(b, [status |-> 404]) /\ storeFails' = FALSE
      /\ PutBody(b, [what |-> choice[b], holds |-> "nothing"]) /\ ask[b].step # "idle"
  BY DEF FailFetch, site
<1>2. [status |-> 404] \in ServeAnswers
  BY DEF ServeAnswers
<1>3. BrowsersTyped' /\ Asked' /\ (kind # "photo" => BrowsersRight' /\ Honest')
  BY <1>1, <1>2, Answered DEF Telling
<1>4. CachesTyped' /\ (kind # "photo" => CachesRight')
  BY <1>1, SharedPut
<1> QED BY <1>1, <1>3, <1>4, Together

(* An answer with what is right.                                           *)
LEMMA Tells ==
    ASSUME Stocked, Sharing, NEW b \in Browsers, NEW status \in Telling, NEW what \in Selections,
           kind # "photo" => what = Right[ask[b].at][b],
           status = 304 => ~Redirects,
           kind # "photo" /\ ~Reverts /\ status = 304 /\ kept[b] # Absent => kept[b].blob = what.blob,
           AnswerWith(b, [status |-> status, what |-> what]),
           UNCHANGED <<scene, manifest, version>>
    PROVE  BrowsersTyped' /\ Asked' /\ (kind # "photo" => BrowsersRight' /\ Honest')
<1> DEFINE a == [status |-> status, what |-> what]
<1>1. a.status = status /\ a.what = what
  OBVIOUS
<1>2. a \in [status : {200, 206, 304, 307}, what : Selections]
  BY DEF Telling
<1>3. a \in ServeAnswers
  BY <1>2 DEF ServeAnswers
<1> HIDE DEF a
<1>4. AnswerWith(b, a)
  BY DEF a
<1> QED BY <1>1, <1>3, <1>4, Answered

(* GetObject, and what is kept of it.                                      *)
LEMMA SharedFetch ==
    ASSUME Stocked, Sharing, NEW b \in Browsers, NEW partial \in BOOLEAN, Fetch(b, partial)
    PROVE  Stocked' /\ Sharing'
<1>1. /\ UNCHANGED <<scene, large, manifest, version, paths, nowhere, storeFails>>
      /\ ask[b].step # "idle"
      /\ choice[b] \in Selections /\ (kind # "photo" => choice[b] = Right[ask[b].at][b])
  BY DEF Fetch, site, Stocked, Sharing, Shared
<1>2. storeFails' \in BOOLEAN
  BY <1>1 DEF Stocked, BlobTypeOK
<1>3. CASE /\ ~Redirects /\ kept[b] # Absent /\ kept[b].blob = choice[b].blob
           /\ AnswerWith(b, [status |-> 304, what |-> choice[b]]) /\ UNCHANGED bodies
  <2>1. 304 \in Telling
    BY DEF Telling
  <2>2. BrowsersTyped' /\ Asked' /\ (kind # "photo" => BrowsersRight' /\ Honest')
    BY <1>1, <1>3, <2>1, Tells
  <2>3. CachesTyped' /\ (kind # "photo" => CachesRight')
    BY <1>1, <1>3, CachesStay DEF caches
  <2> QED BY <1>1, <1>2, <2>2, <2>3, Together
<1>4. ASSUME NEW status \in {200, 206, 307}, AnswerWith(b, [status |-> status, what |-> choice[b]]),
             \/ UNCHANGED bodies
             \/ \E h \in {"body", "metadata", "nothing"} :
                    PutBody(b, [what |-> choice[b], holds |-> h])
      PROVE  Stocked' /\ Sharing'
  <2>1. status \in Telling /\ status # 304
    BY <1>4 DEF Telling
  <2>2. BrowsersTyped' /\ Asked' /\ (kind # "photo" => BrowsersRight' /\ Honest')
    BY <1>1, <1>4, <2>1, Tells
  <2>3. CachesTyped' /\ (kind # "photo" => CachesRight')
    BY <1>1, <1>4, CachesStay, SharedPut DEF caches
  <2> QED BY <1>1, <1>2, <2>2, <2>3, Together
<1>5. ASSUME ~(~Redirects /\ kept[b] # Absent /\ kept[b].blob = choice[b].blob)
      PROVE  \E status \in {200, 206, 307} :
                /\ AnswerWith(b, [status |-> status, what |-> choice[b]])
                /\ \/ UNCHANGED bodies
                   \/ \E h \in {"body", "metadata", "nothing"} :
                          PutBody(b, [what |-> choice[b], holds |-> h])
  <2> DEFINE st == IF Redirects THEN 307 ELSE IF partial THEN 206 ELSE 200
             hold == IF large \/ Redirects THEN "metadata" ELSE "body"
  <2>1. /\ AnswerWith(b, [status |-> st, what |-> choice[b]])
        /\ IF partial /\ ~Redirects THEN UNCHANGED bodies
           ELSE PutBody(b, [what |-> choice[b], holds |-> hold])
    BY <1>5 DEF Fetch
  <2>2. st \in {200, 206, 307} /\ hold \in {"body", "metadata", "nothing"}
    OBVIOUS
  <2> HIDE DEF st, hold
  <2> QED BY <2>1, <2>2
<1>6. CASE ~Redirects /\ kept[b] # Absent /\ kept[b].blob = choice[b].blob
  BY <1>3, <1>6 DEF Fetch
<1> QED BY <1>4, <1>5, <1>6

(* serveBlob.  Where no deployment is activated twice, contents rise with  *)
(* the versions, so that a date that is no older means the same version.   *)
LEMMA SharedServeCached ==
    ASSUME Stocked, Sharing, NEW b \in Browsers, NEW partial \in BOOLEAN, ServeCached(b, partial)
    PROVE  Stocked' /\ Sharing'
<1> USE BlobConstants
<1> DEFINE at == ask[b].at
           entry == BodyOf(b)
<1>1. /\ UNCHANGED <<scene, large, manifest, version, paths, nowhere, bodies, storeFails>>
      /\ ask[b].step = "serve" /\ entry # Absent
      /\ \/ AnswerWith(b, [status |-> 404])
         \/ Redirects /\ AnswerWith(b, [status |-> 307, what |-> choice[b]])
         \/ /\ ~Redirects /\ NotModified(b, entry.what)
            /\ AnswerWith(b, [status |-> 304, what |-> choice[b]])
         \/ AnswerWith(b, [status |-> IF partial THEN 206 ELSE 200, what |-> LabelFor(b, entry)])
         \/ ask' = [ask EXCEPT ![b].step = "fetch"] /\ UNCHANGED <<choice, answer, kept>>
  BY DEF ServeCached, site, caches
<1>2. /\ at \in ServedVersions /\ at \in 1..version /\ at \in Nat /\ choice[b] \in Selections
      /\ \A v \in 1..at : v \in 1..version /\ v \in Nat /\ v <= at
  BY <1>1 DEF Stocked, BlobTypeOK, ServedVersions, Sharing, Asked
<1>3. entry = bodies[at][Key[b]] /\ Key[b] \in EncodingKeys
  BY KeyIs DEF BodyOf
<1>4. entry.what \in Selections
  BY <1>1, <1>2, <1>3 DEF Stocked, CachedBodies
<1>5. kind # "photo" => /\ choice[b] = Right[at][b] /\ entry.what = choice[b]
                        /\ kept[b] # Absent => \E v \in 1..at : kept[b] = Right[v][b]
  BY <1>1, <1>2, <1>3 DEF Sharing, Shared
<1> HIDE DEF at, entry
<1>6. storeFails' \in BOOLEAN
  BY <1>1 DEF Stocked, BlobTypeOK
<1>7. CachesTyped' /\ (kind # "photo" => CachesRight')
  BY <1>1, CachesStay DEF caches
<1>8. kind # "photo" => choice[b] = Right[ask[b].at][b]
  BY <1>5 DEF at
<1>9. CASE AnswerWith(b, [status |-> 404])
  <2>1. [status |-> 404] \in ServeAnswers
    BY DEF ServeAnswers
  <2>2. BrowsersTyped' /\ Asked' /\ (kind # "photo" => BrowsersRight' /\ Honest')
    BY <1>1, <1>9, <2>1, Answered DEF Telling
  <2> QED BY <1>1, <1>6, <1>7, <2>2, Together
<1>10. CASE AnswerWith(b, [status |-> 307, what |-> choice[b]])
  <2>1. 307 \in Telling
    BY DEF Telling
  <2>2. BrowsersTyped' /\ Asked' /\ (kind # "photo" => BrowsersRight' /\ Honest')
    BY <1>1, <1>2, <1>8, <1>10, <2>1, Tells
  <2> QED BY <1>1, <1>6, <1>7, <2>2, Together
<1>11. CASE /\ ~Redirects /\ NotModified(b, entry.what)
            /\ AnswerWith(b, [status |-> 304, what |-> choice[b]])
  <2>1. 304 \in Telling
    BY DEF Telling
  <2>2. ASSUME kind # "photo", ~Reverts, kept[b] # Absent PROVE kept[b].blob = choice[b].blob
    <3>1. PICK v \in 1..at : kept[b] = Right[v][b]
      BY <1>5, <2>2
    <3>2. v \in 1..version /\ v \in Nat /\ v <= at
      BY <1>2
    <3>3. Right[v][b] # Absent => Right[v][b].blob.content = v
      BY <2>2, <3>2, RightIs
    <3>4. Right[at][b] # Absent => Right[at][b].blob.content = at
      BY <1>2, <2>2, RightIs
    <3>5. choice[b] # Absent
      BY <1>2
    <3>6. kept[b].blob = choice[b].blob \/ at <= v
      BY <1>5, <1>11, <2>2, <3>1, <3>3, <3>4, <3>5 DEF NotModified
    <3> QED BY <1>2, <1>5, <2>2, <3>1, <3>2, <3>6
  <2>3. BrowsersTyped' /\ Asked' /\ (kind # "photo" => BrowsersRight' /\ Honest')
    BY <1>1, <1>2, <1>8, <1>11, <2>1, <2>2, Tells
  <2> QED BY <1>1, <1>6, <1>7, <2>3, Together
<1>12. CASE AnswerWith(b, [status |-> IF partial THEN 206 ELSE 200, what |-> LabelFor(b, entry)])
  <2> DEFINE st == IF partial THEN 206 ELSE 200
             what == LabelFor(b, entry)
  <2>1. st \in Telling /\ st # 304
    BY DEF Telling
  <2>2. what \in Selections
    BY <1>2, <1>4 DEF LabelFor, Selections
  <2>3. kind # "photo" => what = Right[ask[b].at][b]
    <3>1. entry.what = choice[b] => what = choice[b]
      BY <1>2 DEF LabelFor, Selections
    <3> QED BY <1>5, <1>8, <3>1
  <2>4. AnswerWith(b, [status |-> st, what |-> what])
    BY <1>12
  <2> HIDE DEF st, what
  <2>5. BrowsersTyped' /\ Asked' /\ (kind # "photo" => BrowsersRight' /\ Honest')
    BY <1>1, <2>1, <2>2, <2>3, <2>4, Tells
  <2> QED BY <1>1, <1>6, <1>7, <2>5, Together
<1>13. CASE ask' = [ask EXCEPT ![b].step = "fetch"] /\ UNCHANGED <<choice, answer, kept>>
  BY <1>1, <1>13, SharedWait
<1> QED BY <1>1, <1>9, <1>10, <1>11, <1>12, <1>13

LEMMA SharedMissBody ==
    ASSUME Stocked, Sharing, NEW b \in Browsers, MissBody(b)
    PROVE  Stocked' /\ Sharing'
BY SharedWait DEF MissBody, site, caches

(* A new version: of those before it nothing changes.                      *)
LEMMA SharedActivate ==
    ASSUME Stocked, Sharing, ActivateSite
    PROVE  Stocked' /\ Sharing'
<1> USE BlobConstants
<1>1. /\ version \in ServedVersions /\ version \in Nat /\ version + 1 \in ServedVersions
      /\ version' = version + 1
      /\ UNCHANGED <<scene, large, paths, nowhere, bodies, ask, choice, answer, kept, storeFails>>
  BY ScenesAssumption DEF ActivateSite, Stocked, BlobTypeOK, ServedVersions, caches
<1>2. kind' = kind /\ Key' = Key /\ (Redirects' <=> Redirects)
  BY <1>1, KeyStays DEF Redirects, Raster
<1>3. \A m, c : Deployed(m, c)' <=> Deployed(m, c)
  BY <1>2 DEF Deployed, Raster
<1>4. \E m : /\ manifest' = [manifest EXCEPT ![version + 1] = m]
             /\ \E c \in 1..(version + 1) : Deployed(m, c) /\ (~Reverts => c = version + 1)
  <2>1. PICK m : /\ m \in Deployable(version + 1) \/ (Reverts /\ \E v \in 1..version : m = manifest[v])
                 /\ manifest' = [manifest EXCEPT ![version + 1] = m]
    BY DEF ActivateSite
  <2>2. CASE m \in Deployable(version + 1)
    <3>1. version + 1 \in 1..MaxActivations /\ version + 1 \in 1..(version + 1)
      BY <1>1 DEF ServedVersions
    <3>2. Deployed(m, version + 1)
      BY <2>2, <3>1, DeployableIsDeployed
    <3> QED BY <2>1, <3>1, <3>2
  <2>3. CASE Reverts /\ \E v \in 1..version : m = manifest[v]
    <3>1. PICK v \in 1..version : m = manifest[v]
      BY <2>3
    <3>2. PICK c \in 1..v : Deployed(manifest[v], c)
      BY DEF Stocked
    <3>3. c \in 1..(version + 1)
      BY <1>1
    <3> QED BY <2>1, <2>3, <3>1, <3>2, <3>3
  <2> QED BY <2>1, <2>2, <2>3
<1>5. /\ manifest' \in [ServedVersions -> Manifests]
      /\ \A v \in 1..version : manifest'[v] = manifest[v]
      /\ \E c \in 1..(version + 1) : Deployed(manifest'[version + 1], c) /\ (~Reverts => c = version + 1)
  <2>1. PICK m : /\ manifest' = [manifest EXCEPT ![version + 1] = m]
                 /\ \E c \in 1..(version + 1) : Deployed(m, c) /\ (~Reverts => c = version + 1)
    BY <1>4
  <2>2. m \in Manifests
    BY <2>1 DEF Deployed
  <2>3. \A v \in 1..version : v \in ServedVersions /\ v # version + 1
    BY <1>1 DEF ServedVersions
  <2> QED BY <1>1, <2>1, <2>2, <2>3 DEF Stocked
<1>6. \A v \in 1..version, b \in Browsers : v \in ServedVersions /\ Right'[v][b] = Right[v][b]
  BY <1>1, <1>5, RightStays DEF ServedVersions
<1>7. (\A v \in 1..version : \E c \in 1..v : Deployed(manifest[v], c) /\ (~Reverts => c = v))'
  <2>1. \A v \in 1..version' : v \in 1..version \/ v = version + 1
    BY <1>1
  <2>2. ASSUME NEW v \in 1..version
        PROVE  \E c \in 1..v : Deployed(manifest'[v], c) /\ (~Reverts => c = v)
    BY <1>5 DEF Stocked
  <2> QED BY <1>3, <1>5, <2>1, <2>2
<1>8. Stocked'
  <2>1. version' \in ServedVersions
    BY <1>1
  <2>2. \A v \in 1..version' : manifest'[v] \in Manifests
    BY <1>1, <1>5 DEF ServedVersions
  <2>3. BlobTypeOK'
    BY <1>1, <2>1, <2>2 DEF Stocked, BlobTypeOK
  <2> QED BY <1>1, <1>5, <1>7, <2>3 DEF Stocked
<1>9. Asked'
  BY <1>1, <1>2 DEF Asked, Sharing, Stocked, BlobTypeOK, ServedVersions
<1>10. ASSUME kind # "photo" PROVE Shared' /\ Honest'
  <2>1. Shared /\ Honest
    BY <1>10 DEF Sharing
  <2>2. \A b \in Browsers : /\ ask[b].at \in 1..version
                             /\ \A v \in 1..ask[b].at : v \in 1..version
    BY <1>1 DEF Sharing, Asked, Stocked, BlobTypeOK, ServedVersions
  <2>3. \A v \in ServedVersions : v <= version => v \in 1..version /\ v <= version'
    BY <1>1 DEF ServedVersions
  <2>4. ASSUME NEW v \in ServedVersions, NEW b \in Browsers
        PROVE  /\ paths[v][Key[b]] # Absent => v <= version' /\ paths[v][Key[b]] = Right'[v][b]
               /\ bodies[v][Key[b]] # Absent => v <= version' /\ bodies[v][Key[b]].what = Right'[v][b]
    BY <1>6, <2>1, <2>3 DEF Shared
  <2>5. ASSUME NEW b \in Browsers
        PROVE  /\ ask[b].step # "idle" => choice[b] = Right'[ask[b].at][b]
               /\ answer[b].status \in Telling => answer[b].what = Right'[ask[b].at][b]
               /\ kept[b] # Absent => \E v \in 1..ask[b].at : kept[b] = Right'[v][b]
    BY <1>6, <2>1, <2>2 DEF Shared
  <2>6. Shared'
    BY <1>1, <1>2, <2>4, <2>5 DEF Shared
  <2> QED BY <1>1, <2>1, <2>6 DEF Honest, NotModifiedIsTrue
<1> QED BY <1>2, <1>8, <1>9, <1>10 DEF Sharing

LEMMA BlobInitShares == BlobInit => Stocked /\ Sharing
<1> SUFFICES ASSUME BlobInit PROVE Stocked /\ Sharing
  OBVIOUS
<1>1. Stocked
  BY BlobInitTyped
<1>2. /\ \A v \in ServedVersions, k \in EncodingKeys : paths[v][k] = Absent /\ bodies[v][k] = Absent
      /\ \A b \in Browsers : /\ ask[b] = [step |-> "idle", at |-> 1]
                             /\ answer[b] = [status |-> 0] /\ kept[b] = Absent
      /\ version = 1
  BY DEF BlobInit, NoEntries
<1>3. Shared /\ Asked /\ Honest
  BY <1>2, KeyIs DEF Shared, Asked, Honest, NotModifiedIsTrue, Telling
<1> QED BY <1>1, <1>3 DEF Sharing

LEMMA SharedAlways == BlobSpec => [](Stocked /\ Sharing)
<1>1. Stocked /\ Sharing /\ [BlobNext]_serveVars => (Stocked /\ Sharing)'
  <2> SUFFICES ASSUME Stocked, Sharing, [BlobNext]_serveVars PROVE Stocked' /\ Sharing'
    OBVIOUS
  <2>1. scene.browsers \subseteq Browsers
    BY ScenesAssumption DEF Stocked, BlobTypeOK
  <2>2. CASE ActivateSite
    BY <2>2, SharedActivate
  <2>3. ASSUME NEW b \in Browsers, Choose(b) \/ MissBody(b) \/ FailFetch(b) \/ ForgetCopy(b)
        PROVE  Stocked' /\ Sharing'
    BY <2>3, SharedChoose, SharedMissBody, SharedFailFetch, SharedLapses
  <2>4. ASSUME NEW b \in Browsers, NEW partial \in BOOLEAN, ServeCached(b, partial) \/ Fetch(b, partial)
        PROVE  Stocked' /\ Sharing'
    BY <2>4, SharedServeCached, SharedFetch
  <2>5. CASE \E v \in ServedVersions, k \in EncodingKeys : LapseChoice(v, k) \/ LapseBody(v, k)
    BY <2>5, SharedLapses
  <2>6. CASE LapseNowhere
    BY <2>6, SharedLapses
  <2>7. CASE UNCHANGED serveVars
    <3>1. storeFails' \in BOOLEAN
      BY <2>7 DEF serveVars, Stocked, BlobTypeOK
    <3> QED BY <2>7, <3>1, CachesStay, Together DEF serveVars, caches
  <2> QED BY <2>1, <2>2, <2>3, <2>4, <2>5, <2>6, <2>7 DEF BlobNext
<1> QED BY <1>1, BlobInitShares, PTL DEF BlobSpec

(* Whatever the path is, the manifests, the two caches, the requests and   *)
(* the copies of the browsers keep their types (handler.go, ServeHTTP).    *)
THEOREM BlobTypeCorrect == BlobSpec => []BlobTypeOK
<1>1. Stocked /\ Sharing => BlobTypeOK
  BY DEF Stocked
<1> QED BY <1>1, SharedAlways, PTL

(* For any number of browsers, whatever they accept and whichever entries  *)
(* of the caches they share, in all interleavings: an answer is of the     *)
(* form, under the label and with the fallback that resolveBlob owes this  *)
(* browser.  Not so for photos: two browsers that take WebP share a key,   *)
(* though the page they fall back to may be compressed for one of them.    *)
THEOREM RightlyRepresented ==
    ASSUME \A s \in Scenes : s.kind # "photo"
    PROVE  BlobSpec => []RightRepresentation
<1>1. Stocked /\ Sharing => RightRepresentation
  <2> SUFFICES ASSUME Stocked, Sharing, NEW b \in Browsers, answer[b].status \in {200, 206, 307}
               PROVE  Fits(answer[b].what, b, ask[b].at)
    BY DEF RightRepresentation, Fits
  <2>1. kind # "photo"
    BY DEF kind, Stocked, BlobTypeOK
  <2>2. answer[b].what = Right[ask[b].at][b]
    BY <2>1 DEF Sharing, Shared, Telling
  <2>3. answer[b].what \in Selections
    <3>1. answer[b] \in ServeAnswers
      BY DEF Stocked, BlobTypeOK
    <3> QED BY <3>1 DEF ServeAnswers
  <2>4. ask[b].at \in 1..version
    BY DEF Sharing, Asked, Stocked, BlobTypeOK, ServedVersions
  <2>5. Fits(Right[ask[b].at][b], b, ask[b].at)
    BY <2>2, <2>3, <2>4, BlobConstants, RightIs
  <2> QED BY <2>2, <2>5
<1> QED BY <1>1, SharedAlways, PTL

(* While no deployment of before is activated again, a 304 of either       *)
(* checkConditionalHeaders or MinIO is true, photos included.              *)
THEOREM CopiesAreGood ==
    ASSUME ~Reverts
    PROVE  BlobSpec => []NotModifiedIsTrue
<1>1. Stocked /\ Sharing => NotModifiedIsTrue
  <2>1. CASE kind = "photo"
    BY <2>1 DEF Sharing, Asked, NotModifiedIsTrue, Redirects, Raster
  <2>2. CASE kind # "photo"
    BY <2>2 DEF Sharing, Honest
  <2> QED BY <2>1, <2>2
<1> QED BY <1>1, SharedAlways, PTL
=============================================================================
