-------------------------- MODULE BlobServerProofs --------------------------
(***************************************************************************)
(* Four parts of a blob server, for every number of goroutines: the        *)
(* single flight of a manifest shelters MinIO whatever requests overlap    *)
(* and fail, the statistics account for every request that was taken up,   *)
(* the cache of a single tenant bounds how old an answer may be, and an    *)
(* LRU counts its bytes and evicts the oldest first.  Of those statistics, *)
(* what the console makes of them while they move.  And that every file    *)
(* published is served from the manifest under its path.                   *)
(***************************************************************************)
EXTENDS ManifestLoad, Usage, SingleTenant, LruCache, Publish, ListProofs,
        FiniteSetTheorems, SequenceTheorems, TLAPS

-----------------------------------------------------------------------------
(* The single flight.                                                      *)

Joined == {"enter", "load", "store", "delete", "close", "wait"}
Loading == {"load", "store", "delete"}
Owner(r) == at[r] \in {"load", "store", "delete", "close"}

(* A request has a group from its join to its answer.                      *)
Grouped == \A r \in Requests : mine[r] # NoGroup <=> at[r] \in Joined

(* A group whose once is running is in the hands of one request.           *)
Owned ==
    /\ \A r \in Requests : Owner(r) => flight[mine[r]] = "running"
    /\ \A r, q \in Requests : Owner(r) /\ Owner(q) /\ mine[r] = mine[q] => r = q
    /\ \A g \in Groups : flight[g] = "running" => \E q \in Requests : Owner(q) /\ mine[q] = g
    /\ \A r \in Requests : at[r] = "wait" => flight[mine[r]] # "new"

(* Who loads, or is about to find that it is the first of its group, has   *)
(* the group of the map: another group is not made meanwhile.              *)
Mapped ==
    \A r \in Requests :
        /\ at[r] \in Loading => mine[r] = loading
        /\ at[r] = "enter" /\ flight[mine[r]] = "new" => mine[r] = loading

Flown == LoadTypeOK /\ Grouped /\ Owned /\ Mapped /\ FailureAbsorbs

LEMMA FlownSheltered ==
    ASSUME Flown PROVE Sheltered
<1> USE LoadConstants DEF Flown, LoadTypeOK, Grouped, Joined, Owned, Mapped, Loading, Owner
<1>1. SingleFlight
  BY DEF SingleFlight
<1>2. NoneWaitsInVain
  BY DEF NoneWaitsInVain
<1> QED BY <1>1, <1>2 DEF Sheltered

LEMMA FlownInit == LoadInit => Flown
<1> SUFFICES ASSUME LoadInit PROVE Flown
  OBVIOUS
<1>1. inLru \in BOOLEAN
  BY DEF LoadInit
<1>2. LoadTypeOK
  BY <1>1, LoadConstants DEF LoadInit, LoadTypeOK, LoadSteps
<1>3. Grouped /\ Owned /\ Mapped /\ FailureAbsorbs
  BY LoadConstants DEF LoadInit, Grouped, Joined, Owned, Mapped, Loading, Owner, FailureAbsorbs
<1> QED BY <1>2, <1>3 DEF Flown

(* There are more identities than requests, so a new group finds one.      *)
LEMMA FreeGroup ==
    ASSUME LoadTypeOK, loading = NoGroup
    PROVE  \E g \in Groups : g \in Free
<1> DEFINE T == {mine[r] : r \in Requests}
<1>1. mine \in Surjection(Requests, T)
  BY DEF LoadTypeOK, Surjection
<1>2. IsFiniteSet(T) /\ Cardinality(T) <= Cardinality(Requests)
  BY <1>1, FS_Surjection, LoadConstants
<1>3. /\ Cardinality(T) \in Nat
      /\ Cardinality(Requests) \in Nat
      /\ Cardinality(Groups) \in Nat
  BY <1>2, FS_CardinalityType, LoadConstants
<1>4. ~(Groups \subseteq T)
  <2> SUFFICES ASSUME Groups \in SUBSET T PROVE FALSE
    OBVIOUS
  <2> HIDE DEF T
  <2>1. Cardinality(Groups) <= Cardinality(T)
    BY <1>2, FS_Subset
  <2> QED BY <2>1, <1>2, <1>3, LoadConstants
<1> QED BY <1>4, LoadConstants DEF Free

LEMMA FlownJoin ==
    ASSUME Flown, NEW r \in Requests, Join(r)
    PROVE  Flown'
<1> USE LoadConstants DEF Flown, LoadTypeOK, Grouped, Joined, Owned, Mapped, Loading, Owner,
                          FailureAbsorbs, Join, Step, LoadSteps
<1>1. CASE loading = NoGroup
  <2> DEFINE g == CHOOSE h \in Free : TRUE
  <2>1. g \in Free /\ g \in Groups
    BY <1>1, FreeGroup DEF Free
  <2>2. g # NoGroup /\ \A q \in Requests : mine[q] # g
    BY <2>1 DEF Free
  <2>3. /\ mine' = [mine EXCEPT ![r] = g]
        /\ loading' = g
        /\ flight' = [flight EXCEPT ![g] = "new"]
        /\ outcome' = [outcome EXCEPT ![g] = "ok"]
        /\ at[r] = "join" /\ at' = [at EXCEPT ![r] = "enter"]
        /\ UNCHANGED <<negative, inLru, failures>>
    BY <1>1 DEF LoadOrStore, NewGroup
  <2> HIDE DEF g
  <2>4. LoadTypeOK'
    BY <2>1, <2>3
  <2>5. Grouped' /\ Mapped'
    BY <1>1, <2>1, <2>2, <2>3
  <2>6. Owned'
    BY <2>1, <2>2, <2>3
  <2>7. FailureAbsorbs'
    BY <2>3
  <2> QED BY <2>4, <2>5, <2>6, <2>7
<1>2. CASE loading # NoGroup
  <2>1. /\ mine' = [mine EXCEPT ![r] = loading]
        /\ UNCHANGED <<loading, flight, outcome>>
    BY <1>2 DEF LoadOrStore, JoinGroup, shared
  <2> QED BY <1>2, <2>1
<1> QED BY <1>1, <1>2

LEMMA FlownEnter ==
    ASSUME Flown, NEW r \in Requests, Enter(r)
    PROVE  Flown'
<1> USE LoadConstants DEF Flown, LoadTypeOK, Grouped, Joined, Owned, Mapped, Loading, Owner,
                          FailureAbsorbs, Enter, Step, LoadSteps, Remembered
<1>1. mine[r] \in Groups
  OBVIOUS
<1>2. CASE flight[mine[r]] # "new"
  BY <1>1, <1>2
<1>3. CASE flight[mine[r]] = "new"
  <2>1. LoadTypeOK'
    BY <1>1, <1>3
  <2>2. Grouped' /\ Mapped' /\ FailureAbsorbs'
    BY <1>1, <1>3
  <2>3. Owned'
    BY <1>1, <1>3
  <2> QED BY <2>1, <2>2, <2>3
<1> QED BY <1>2, <1>3

LEMMA FlownLoad ==
    ASSUME Flown, NEW r \in Requests, Load(r) \/ Store(r) \/ DeleteGroup(r)
    PROVE  Flown'
<1> USE LoadConstants DEF Flown, LoadTypeOK, Grouped, Joined, Owned, Mapped, Loading, Owner,
                          FailureAbsorbs, Step, LoadSteps, shared
<1>1. mine[r] \in Groups /\ mine[r] = loading
  BY DEF Load, Store, DeleteGroup
<1>2. CASE Load(r) BY <1>1, <1>2 DEF Load
<1>3. CASE Store(r)
  <2>1. inLru' \in BOOLEAN
    BY <1>3 DEF Store
  <2>2. LoadTypeOK'
    BY <1>1, <1>3, <2>1 DEF Store
  <2>3. Grouped' /\ Owned' /\ Mapped' /\ FailureAbsorbs'
    BY <1>1, <1>3 DEF Store
  <2> QED BY <2>2, <2>3
<1>4. CASE DeleteGroup(r) BY <1>1, <1>4 DEF DeleteGroup
<1> QED BY <1>2, <1>3, <1>4

LEMMA FlownEnd ==
    ASSUME Flown, NEW r \in Requests, Close(r) \/ Answer(r)
    PROVE  Flown'
<1> USE LoadConstants DEF Flown, LoadTypeOK, Grouped, Joined, Owned, Mapped, Loading, Owner,
                          FailureAbsorbs, Step, LoadSteps, shared
<1>1. mine[r] \in Groups
  BY DEF Close, Answer
<1>2. CASE Close(r) BY <1>1, <1>2 DEF Close
<1>3. CASE Answer(r) BY <1>1, <1>3 DEF Answer
<1> QED BY <1>2, <1>3

LEMMA FlownBefore ==
    ASSUME Flown, NEW r \in Requests, CheckNegative(r) \/ ForgetFailure(r) \/ LookUp(r)
    PROVE  Flown'
BY LoadConstants DEF Flown, LoadTypeOK, Grouped, Joined, Owned, Mapped, Loading, Owner,
                     FailureAbsorbs, Step, LoadSteps, shared,
                     CheckNegative, ForgetFailure, LookUp

LEMMA FlownStep == Flown /\ [LoadNext]_loadVars => Flown'
<1> SUFFICES ASSUME Flown, [LoadNext]_loadVars PROVE Flown'
  OBVIOUS
<1>1. CASE UNCHANGED loadVars \/ Expire \/ Evict
  <2>1. UNCHANGED <<at, mine, loading, flight, outcome, failures>>
    BY <1>1 DEF loadVars, shared, Expire, Evict
  <2>2. inLru' \in BOOLEAN
    BY <1>1 DEF loadVars, Expire, Evict, Flown, LoadTypeOK
  <2>3. negative' \in {negative, "expired"}
    BY <1>1 DEF loadVars, Expire, Evict
  <2>4. Grouped' /\ Owned' /\ Mapped'
    BY <2>1 DEF Flown, Grouped, Joined, Owned, Mapped, Loading, Owner
  <2> QED BY <2>1, <2>2, <2>3, <2>4 DEF Flown, LoadTypeOK, FailureAbsorbs
<1>2. CASE LoadNext
  BY <1>1, <1>2, FlownJoin, FlownEnter, FlownLoad, FlownEnd, FlownBefore DEF LoadNext, GoOn
<1> QED BY <1>1, <1>2

(* The map, the groups and the caches of a manifest keep their types.      *)
THEOREM LoadTypeCorrect == LoadSpec => []LoadTypeOK
<1>1. Flown => LoadTypeOK
  BY DEF Flown
<1> QED BY <1>1, FlownInit, FlownStep, PTL DEF LoadSpec

(* One load at a time, none while a failure is remembered, and none that   *)
(* joins waits in vain, for any number of requests and failures.           *)
THEOREM LoadShelters == LoadSpec => []Sheltered
<1>1. Flown => Sheltered
  BY FlownSheltered
<1> QED BY <1>1, FlownInit, FlownStep, PTL DEF LoadSpec

-----------------------------------------------------------------------------
(* The statistics: types.                                                  *)

LEMMA CountInitTyped == AnalyticsInit => AnalyticsTypeOK
<1> SUFFICES ASSUME AnalyticsInit PROVE AnalyticsTypeOK
  OBVIOUS
<1>1. done \in BOOLEAN
  BY DEF AnalyticsInit
<1> QED BY <1>1, AnalyticsConstants DEF AnalyticsInit, AnalyticsTypeOK, Zero, FlushSteps

LEMMA CountWorkTyped ==
    ASSUME AnalyticsTypeOK, Record \/ Work
    PROVE  AnalyticsTypeOK'
<1> USE AnalyticsConstants DEF AnalyticsTypeOK, IdleWorkers, Plus, Fields, hash, pool
<1>1. CASE Record BY <1>1 DEF Record
<1>2. CASE TakeEvent BY <1>2 DEF TakeEvent
<1>3. CASE CountRequest BY <1>3 DEF CountRequest
<1>4. CASE CountClass BY <1>4 DEF CountClass
<1>5. CASE FailCount BY <1>5 DEF FailCount
<1>6. CASE ExitWorker BY <1>6 DEF ExitWorker
<1> QED BY <1>1, <1>2, <1>3, <1>4, <1>5, <1>6 DEF Work

LEMMA CountFlushTyped ==
    ASSUME AnalyticsTypeOK, NEW u \in Flushers, Flush(u)
    PROVE  AnalyticsTypeOK'
<1> USE AnalyticsConstants DEF AnalyticsTypeOK, Fields, FlushSteps, Rest, hash, pool
<1>1. CASE ReadHash(u) BY <1>1 DEF ReadHash
<1>2. CASE Upsert(u) BY <1>2 DEF Upsert, Added
<1>3. CASE FailUpsert(u) BY <1>3 DEF FailUpsert
<1>4. CASE Reset(u) BY <1>4 DEF Reset, AfterReset, Zero
<1> QED BY <1>1, <1>2, <1>3, <1>4 DEF Flush

LEMMA CountEndTyped ==
    ASSUME AnalyticsTypeOK, Cleanup \/ Restart \/ Crash
    PROVE  AnalyticsTypeOK'
<1> USE AnalyticsConstants DEF AnalyticsTypeOK, Fields, FlushSteps, Fresh, Zero, hash, pool
<1>1. done' \in BOOLEAN
  BY DEF Cleanup, Restart, Crash
<1>2. CASE Cleanup BY <1>1, <1>2 DEF Cleanup
<1>3. CASE Restart BY <1>1, <1>3 DEF Restart
<1>4. CASE Crash BY <1>1, <1>4 DEF Crash
<1> QED BY <1>2, <1>3, <1>4

LEMMA CountTypedStep == AnalyticsTypeOK /\ [AnalyticsNext]_analyticsVars => AnalyticsTypeOK'
<1> SUFFICES ASSUME AnalyticsTypeOK, [AnalyticsNext]_analyticsVars PROVE AnalyticsTypeOK'
  OBVIOUS
<1>1. CASE UNCHANGED analyticsVars BY <1>1 DEF AnalyticsTypeOK, analyticsVars
<1>2. CASE AnalyticsNext
  BY <1>2, CountWorkTyped, CountFlushTyped, CountEndTyped DEF AnalyticsNext
<1> QED BY <1>1, <1>2

(* No more goroutines than Workers, no more events than the channel holds, *)
(* and no count but "lost" below zero, in any process and after any death. *)
THEOREM AnalyticsTypeCorrect == AnalyticsSpec => []AnalyticsTypeOK
BY CountInitTyped, CountTypedStep, PTL DEF AnalyticsSpec

-----------------------------------------------------------------------------
(* The statistics: every request once.  One instance flushes, its resets   *)
(* succeed, and it does not die between an upsert and the reset: in any    *)
(* other case flushKey counts twice.                                       *)

OneFlusher(u) == Flushers = {u} /\ {"reset", "die"} \cap CountFaults = {}

Both(u, f) == IF flushStep[u] = "reset" THEN snap[u][f] ELSE 0

Balance(u, f) ==
    accepted = channel + taken + (IF f = "class" THEN half ELSE 0)
               + statsHash[f] + db[f] - Both(u, f) + missed[f] + lost[f]

(* The hash has at least what a flush under way has read; a reset loses no *)
(* less than nothing.                                                      *)
Covered(u, f) ==
    /\ flushStep[u] \in {"upsert", "reset"} => snap[u][f] <= statsHash[f]
    /\ lost[f] >= 0

(* Workers end when the channel is empty, and none is filled after that.   *)
Closed == left > 0 => done /\ channel = 0

Tallied(u) ==
    /\ AnalyticsTypeOK /\ Closed
    /\ \A f \in Fields : Balance(u, f) /\ Covered(u, f)
    /\ flushStep[u] = "upsert" => snap[u]["requests"] > 0

LEMMA TwiceIsBoth ==
    ASSUME NEW u, OneFlusher(u), NEW f \in Fields
    PROVE  Twice(f) = Both(u, f)
BY DEF OneFlusher, Twice, Both

LEMMA TalliedAccounts ==
    ASSUME NEW u, OneFlusher(u), Tallied(u)
    PROVE  Accounting
<1>1. EachOnce
  BY TwiceIsBoth DEF Tallied, Balance, EachOnce
<1>2. Drained
  BY AnalyticsConstants DEF Tallied, Closed, AnalyticsTypeOK, Drained, Ended
<1> QED BY <1>1, <1>2 DEF Accounting

LEMMA TalliedInit ==
    ASSUME NEW u, OneFlusher(u), AnalyticsInit
    PROVE  Tallied(u)
<1>1. AnalyticsTypeOK
  BY CountInitTyped
<1> QED BY <1>1 DEF OneFlusher, AnalyticsInit, Zero, Tallied, Closed, Balance, Both, Covered, Fields

LEMMA TalliedWork ==
    ASSUME NEW u, OneFlusher(u), Tallied(u), AnalyticsTypeOK', Record \/ Work
    PROVE  Tallied(u)'
<1> USE AnalyticsConstants DEF Tallied, AnalyticsTypeOK, Closed, Balance, Both, Covered, Plus, Fields,
        OneFlusher, IdleWorkers, hash
<1>1. CASE Record BY <1>1 DEF Record
<1>2. CASE TakeEvent BY <1>2 DEF TakeEvent
<1>3. CASE CountRequest BY <1>3 DEF CountRequest
<1>4. CASE CountClass BY <1>4 DEF CountClass
<1>5. CASE FailCount
  <2>1. UNCHANGED <<accepted, channel, left, flushStep, snap, done, kills, statsHash, db, lost>>
    BY <1>5 DEF FailCount
  <2>2. CASE taken > 0 /\ taken' = taken - 1 /\ half' = half /\ missed' = Plus(missed, Fields)
    <3>1. \A f \in Fields : missed'[f] = missed[f] + 1
      BY <2>2
    <3> QED BY <2>1, <2>2, <3>1
  <2>3. CASE half > 0 /\ half' = half - 1 /\ taken' = taken /\ missed' = Plus(missed, {"class"})
    <3>1. missed'["requests"] = missed["requests"] /\ missed'["class"] = missed["class"] + 1
      BY <2>3
    <3> QED BY <2>1, <2>3, <3>1
  <2> QED BY <1>5, <2>2, <2>3 DEF FailCount
<1>6. CASE ExitWorker BY <1>6 DEF ExitWorker, MayExit
<1> QED BY <1>1, <1>2, <1>3, <1>4, <1>5, <1>6 DEF Work

LEMMA TalliedFlush ==
    ASSUME NEW u, OneFlusher(u), Tallied(u), AnalyticsTypeOK', Flush(u)
    PROVE  Tallied(u)'
<1> USE AnalyticsConstants DEF Tallied, AnalyticsTypeOK, Closed, Balance, Both, Covered, Fields,
        OneFlusher, Rest, hash, pool
<1>1. CASE ReadHash(u) BY <1>1 DEF ReadHash
<1>2. CASE Upsert(u) BY <1>2 DEF Upsert, Added
<1>3. CASE FailUpsert(u) BY <1>3 DEF FailUpsert
<1>4. CASE Reset(u) BY <1>4 DEF Reset, AfterReset, Zero
<1> QED BY <1>1, <1>2, <1>3, <1>4 DEF Flush

LEMMA TalliedEnd ==
    ASSUME NEW u, OneFlusher(u), Tallied(u), AnalyticsTypeOK', Cleanup \/ Restart \/ Crash
    PROVE  Tallied(u)'
<1> USE AnalyticsConstants DEF Tallied, AnalyticsTypeOK, Closed, Balance, Both, Covered, Fields,
        OneFlusher, Fresh, Zero, hash, pool
<1>1. CASE Cleanup BY <1>1 DEF Cleanup
<1>2. CASE Restart
  <2>1. taken = 0 /\ half = 0 /\ channel = 0 /\ flushStep[u] = "gone"
    BY <1>2 DEF Restart, Ended
  <2>2. /\ channel' = 0 /\ taken' = 0 /\ half' = 0 /\ left' = 0 /\ flushStep'[u] = "idle"
        /\ UNCHANGED <<accepted, statsHash, db, lost>>
    BY <1>2 DEF Restart
  <2>3. \A f \in Fields : missed'[f] = missed[f]
    BY <1>2, <2>1 DEF Restart
  <2>4. \A f \in Fields : Balance(u, f)'
    BY <2>1, <2>2, <2>3
  <2>5. \A f \in Fields : Covered(u, f)'
    BY <2>2
  <2> QED BY <2>2, <2>4, <2>5
<1>3. CASE Crash BY <1>3 DEF Crash
<1> QED BY <1>1, <1>2, <1>3

LEMMA TalliedStep ==
    ASSUME NEW u, OneFlusher(u), Tallied(u), [AnalyticsNext]_analyticsVars
    PROVE  Tallied(u)'
<1>1. AnalyticsTypeOK'
  BY CountTypedStep DEF Tallied
<1>2. CASE UNCHANGED analyticsVars
  BY <1>1, <1>2 DEF analyticsVars, Tallied, Closed, Balance, Both, Covered
<1>3. CASE AnalyticsNext
  BY <1>1, <1>3, TalliedWork, TalliedFlush, TalliedEnd DEF AnalyticsNext, OneFlusher
<1> QED BY <1>2, <1>3

(* Every request taken up is in the channel, with a worker, in the hash or *)
(* in the row, missed or lost, and once; and Cleanup leaves none behind.   *)
THEOREM CountAccounts ==
    ASSUME NEW u, OneFlusher(u)
    PROVE  AnalyticsSpec => []Accounting
<1>1. AnalyticsInit => Tallied(u)
  BY TalliedInit
<1>2. Tallied(u) /\ [AnalyticsNext]_analyticsVars => Tallied(u)'
  BY TalliedStep
<1>3. Tallied(u) => Accounting
  BY TalliedAccounts
<1> QED BY <1>1, <1>2, <1>3, PTL DEF AnalyticsSpec

-----------------------------------------------------------------------------
(* The row implements RequestCount.                                        *)

LEMMA CountMapsStep ==
    ASSUME NEW u, OneFlusher(u), Tallied(u), Tallied(u)', [AnalyticsNext]_analyticsVars
    PROVE  [CountsOnce!CountNext]_<<accepted, db["requests"]>>
<1> USE DEF Tallied, AnalyticsTypeOK, Fields
<1>1. CASE Record
  BY <1>1 DEF Record, hash, CountsOnce!CountNext, CountsOnce!Accept
<1>2. CASE Upsert(u)
  <2> DEFINE n == snap[u]["requests"]
  <2>1. db'["requests"] = db["requests"] + n /\ accepted' = accepted
    BY <1>2 DEF OneFlusher, Upsert, Added
  <2>2. n \in Nat /\ n > 0
    BY <1>2 DEF OneFlusher, Upsert
  <2>3. db'["requests"] <= accepted
    <3>1. accepted = channel' + taken' + statsHash'["requests"] + db'["requests"]
                     - snap[u]["requests"] + missed'["requests"] + lost'["requests"]
      BY <1>2 DEF OneFlusher, Upsert, Balance, Both
    <3>2. snap[u]["requests"] <= statsHash'["requests"] /\ lost'["requests"] >= 0
      BY <1>2 DEF OneFlusher, Upsert, Covered
    <3> QED BY <3>1, <3>2, <2>1, <2>2
  <2>4. n \in 1..(accepted - db["requests"])
    BY <2>1, <2>2, <2>3
  <2> QED BY <2>1, <2>4 DEF CountsOnce!CountNext, CountsOnce!Count
<1>3. CASE ~Record /\ ~Upsert(u)
  <2>1. UNCHANGED <<accepted, db>>
    BY <1>3 DEF OneFlusher, AnalyticsNext, analyticsVars, Work, Flush, hash,
       TakeEvent, CountRequest, CountClass, FailCount, ExitWorker,
       ReadHash, FailUpsert, Reset, Cleanup, Restart, Crash
  <2> QED BY <2>1
<1> QED BY <1>1, <1>2, <1>3

(* The row counts every request at most once, whenever it is read, and     *)
(* never goes back.                                                        *)
THEOREM CountsNoneTwice ==
    ASSUME NEW u, OneFlusher(u)
    PROVE  AnalyticsSpec => CountsEachOnce
<1>1. AnalyticsInit => Tallied(u)
  BY TalliedInit
<1>2. Tallied(u) /\ [AnalyticsNext]_analyticsVars => Tallied(u)'
  BY TalliedStep
<1>3. Tallied(u) /\ Tallied(u)' /\ [AnalyticsNext]_analyticsVars
          => [CountsOnce!CountNext]_<<accepted, db["requests"]>>
  BY CountMapsStep
<1>4. AnalyticsInit => CountsOnce!CountInit
  BY DEF AnalyticsInit, Zero, Fields, CountsOnce!CountInit
<1> QED BY <1>1, <1>2, <1>3, <1>4, PTL
        DEF AnalyticsSpec, CountsEachOnce, CountsOnce!CountSpec
-----------------------------------------------------------------------------
(* A server of a single tenant.                                            *)

(* The key had the version within the last n ticks.                        *)
Had(k, n, v) == \E i \in 0..n : v \in recent[k][i]

Age == IF setting.caches THEN Ttl ELSE 0

(* A version of a key that is remembered by the history or a browser.      *)
Known(k, w) ==
    \/ Had(k, Ttl, w)
    \/ \E u \in Visitors : copy[u].key = k /\ copy[u].version = w

(* Versions rise: one that is newer than what a key had i ticks ago was    *)
(* written since.                                                          *)
Rising ==
    \A k \in ObjectKeys :
        /\ bucket[k] \in recent[k][0]
        /\ \A w \in ObjectVersions : Known(k, w) =>
            /\ w <= writes
            /\ bucket[k] # 0 => w <= bucket[k]
            /\ \A i \in 0..Ttl : \A v \in recent[k][i] : v # 0 /\ v < w => Had(k, i, w)

(* An item that may live on for so long was true as long ago as it has     *)
(* lived.                                                                  *)
Lived ==
    \A k \in ObjectKeys : memory[k].holds # "absent" =>
        /\ setting.caches
        /\ Had(k, Ttl - memory[k].left, memory[k].version)
        /\ memory[k].holds = "missing" <=> memory[k].version = 0

(* A request takes less than a tick.  One that goes on to MinIO has found  *)
(* no item, or one that is newer than the copy of its browser; an item     *)
(* that it is about to renew was put there meanwhile.                      *)
AtMinio(u) ==
    LET item == memory[visit[u].key]
        new == item.version \in recent[visit[u].key][0]
    IN  /\ visit[u].step \in {"keep", "renew"} => visit[u].got \in recent[visit[u].key][0]
        /\ visit[u].step = "fetch" /\ ~setting.redirects /\ item.holds # "absent" /\ Copy(u) # 0 =>
               new \/ Copy(u) < item.version
        /\ visit[u].step = "renew" /\ item.holds # "absent" => new

Visiting ==
    \A u \in Visitors : visit[u].step # "away" =>
        /\ ~visit[u].fell => visit[u].key = "file"
        /\ visit[u].key = "fallback" /\ ~IsRoute => Had("file", Age, 0)
        /\ AtMinio(u)

(* BoundedStaleness.                                                       *)
Bounded ==
    \A u \in Visitors :
        /\ told[u].status # 0 => Had(told[u].key, Age, told[u].version)
        /\ told[u].key = "fallback" /\ ~IsRoute => Had("file", Age, 0)

Served == SingleTypeOK /\ Rising /\ Lived /\ Visiting /\ Bounded

LEMMA BoundedIs == Bounded => BoundedStaleness
BY DEF Bounded, BoundedStaleness, Had, Within, Age

LEMMA HadMore ==
    ASSUME NEW k, NEW m \in Nat, NEW n \in Nat, m <= n, NEW v, Had(k, m, v) PROVE Had(k, n, v)
BY DEF Had

LEMMA AgeIs == Age \in 0..Ttl /\ (setting.caches => Age = Ttl)
BY SingleAssumption DEF Age

LEMMA ServedInit == SingleInit => Served
<1> SUFFICES ASSUME SingleInit PROVE Served
  OBVIOUS
<1> USE SingleAssumption DEF SingleInit
<1>1. 0 \in ObjectVersions /\ 0 \in 0..Ttl /\ 0..MaxWrites = ObjectVersions
  BY DEF ObjectVersions
<1>2. SingleTypeOK
  <2>1. memory \in [ObjectKeys -> [holds : Held, version : ObjectVersions, left : 0..Ttl]]
    BY <1>1 DEF Unknown, Held
  <2>2. visit \in [Visitors -> [step : {"away", "cache", "fetch", "keep", "renew"}, key : ObjectKeys,
                               partial : BOOLEAN, got : ObjectVersions, fell : BOOLEAN]]
    BY <1>1 DEF Away, ObjectKeys
  <2>3. /\ told \in [Visitors -> [status : {0, 200, 206, 304, 307, 404}, key : ObjectKeys,
                              version : ObjectVersions]]
        /\ copy \in [Visitors -> [key : ObjectKeys, version : ObjectVersions]]
    BY <1>1 DEF NotTold, ObjectKeys
  <2>4. recent \in [ObjectKeys -> [0..Ttl -> SUBSET ObjectVersions]]
    BY <1>1
  <2> QED BY <1>1, <2>1, <2>2, <2>3, <2>4 DEF SingleTypeOK
<1>3. \A k \in ObjectKeys, i \in 0..Ttl : recent[k][i] = {0}
  OBVIOUS
<1>4. \A u \in Visitors : copy[u].version = 0 /\ told[u] = NotTold /\ visit[u] = Away
  OBVIOUS
<1>5. \A k \in ObjectKeys : memory[k] = Unknown /\ bucket[k] = 0
  OBVIOUS
<1>6. \A w : \A k \in ObjectKeys : Known(k, w) => w = 0
  BY <1>3, <1>4 DEF Known, Had
<1>7. Rising
  BY <1>1, <1>3, <1>5, <1>6 DEF Rising
<1>8. Lived /\ Visiting /\ Bounded
  BY <1>4, <1>5 DEF Lived, Visiting, Bounded, Unknown, Away, NotTold
<1> QED BY <1>2, <1>7, <1>8 DEF Served

(* What the history of a key was goes on to be.                            *)
LEMMA HadStays ==
    ASSUME recent' = recent, setting' = setting
    PROVE  /\ \A k, n, v : Had(k, n, v)' <=> Had(k, n, v)
           /\ Age' = Age
           /\ IsRoute' = IsRoute
BY DEF Had, Age, IsRoute

-----------------------------------------------------------------------------
(* The owner, and time.                                                    *)
LEMMA ServedWrite ==
    ASSUME Served, NEW k \in ObjectKeys, NEW x, x = writes + 1 \/ x = 0, WriteObject(k, x)
    PROVE  Served'
<1> USE SingleAssumption
<1>1. /\ writes < MaxWrites /\ x # bucket[k] /\ writes' = writes + 1
      /\ bucket' = [bucket EXCEPT ![k] = x]
      /\ recent' = [recent EXCEPT ![k][0] = @ \cup {x}]
      /\ UNCHANGED <<setting, memory, visit, told, copy>>
  BY DEF WriteObject
<1>2. /\ writes \in Nat /\ x \in ObjectVersions /\ writes' \in 0..MaxWrites
      /\ bucket \in [ObjectKeys -> ObjectVersions]
      /\ recent \in [ObjectKeys -> [0..Ttl -> SUBSET ObjectVersions]]
      /\ 0 \in 0..Ttl
  BY <1>1 DEF Served, SingleTypeOK, ObjectVersions
<1>3. /\ recent' \in [ObjectKeys -> [0..Ttl -> SUBSET ObjectVersions]]
      /\ \A l \in ObjectKeys, i \in 0..Ttl :
            recent'[l][i] = IF l = k /\ i = 0 THEN recent[l][i] \cup {x} ELSE recent[l][i]
  <2>1. recent[k] \in [0..Ttl -> SUBSET ObjectVersions]
    BY <1>2
  <2>2. recent' = [recent EXCEPT ![k] = [recent[k] EXCEPT ![0] = recent[k][0] \cup {x}]]
    BY <1>1
  <2>3. [recent[k] EXCEPT ![0] = recent[k][0] \cup {x}] \in [0..Ttl -> SUBSET ObjectVersions]
    BY <1>2, <2>1
  <2> QED BY <1>2, <2>1, <2>2, <2>3
<1>4. SingleTypeOK'
  BY <1>1, <1>2, <1>3 DEF Served, SingleTypeOK
<1>5. \A v : \A l \in ObjectKeys, n \in 0..Ttl : Had(l, n, v) => Had(l, n, v)'
  <2>1. \A n \in 0..Ttl : \A i \in 0..n : i \in 0..Ttl
    OBVIOUS
  <2>2. \A l \in ObjectKeys, i \in 0..Ttl : recent[l][i] \subseteq recent'[l][i]
    BY <1>3
  <2> QED BY <2>1, <2>2 DEF Had
<1>6. \A n \in 0..Ttl : Had(k, n, x)'
  <2>1. \A n \in 0..Ttl : 0 \in 0..n
    OBVIOUS
  <2>2. x \in recent'[k][0]
    BY <1>2, <1>3
  <2> QED BY <2>1, <2>2 DEF Had
<1>7. \A l \in ObjectKeys, w \in ObjectVersions : Known(l, w)' => Known(l, w) \/ (l = k /\ w = x)
  BY <1>1, <1>2, <1>3 DEF Known, Had
<1>8. Rising'
  <2> SUFFICES ASSUME NEW l \in ObjectKeys, NEW w \in ObjectVersions, Known(l, w)'
               PROVE  /\ bucket'[l] \in recent'[l][0] /\ w <= writes'
                      /\ bucket'[l] # 0 => w <= bucket'[l]
                      /\ \A i \in 0..Ttl : \A v \in recent'[l][i] : v # 0 /\ v < w => Had(l, i, w)'
    <3>1. \A l \in ObjectKeys : bucket'[l] \in recent'[l][0]
      BY <1>1, <1>2, <1>3 DEF Served, Rising
    <3> QED BY <3>1 DEF Rising
  <2>1. bucket'[l] = (IF l = k THEN x ELSE bucket[l]) /\ bucket[l] \in recent[l][0]
    BY <1>1, <1>2 DEF Served, Rising
  <2>2. bucket'[l] \in recent'[l][0]
    BY <1>2, <1>3, <2>1
  <2>3. \/ w \in Nat /\ l = k /\ w = x
        \/ /\ w \in Nat /\ Known(l, w) /\ w <= writes /\ (bucket[l] # 0 => w <= bucket[l])
           /\ \A i \in 0..Ttl : \A v \in recent[l][i] : v # 0 /\ v < w => Had(l, i, w)
    BY <1>7 DEF Served, Rising, ObjectVersions
  <2>4. w <= writes' /\ (bucket'[l] # 0 => w <= bucket'[l])
    BY <1>1, <1>2, <2>1, <2>3 DEF ObjectVersions
  <2>5. ASSUME NEW i \in 0..Ttl, NEW v \in recent'[l][i], v # 0, v < w PROVE Had(l, i, w)'
    <3>1. CASE l = k /\ w = x
      BY <1>6, <3>1
    <3>2. CASE ~(l = k /\ w = x)
      <4>1. v \in recent[l][i] \/ (v = x /\ l = k)
        BY <1>3
      <4>2. v = x => v > w
        BY <1>1, <1>2, <2>3, <2>5, <3>2
      <4>3. v \in Nat /\ w \in Nat
        BY <1>2, <1>3, <2>3 DEF ObjectVersions
      <4> QED BY <1>5, <2>3, <2>5, <3>2, <4>1, <4>2, <4>3
    <3> QED BY <3>1, <3>2
  <2> QED BY <2>2, <2>4, <2>5
<1>9. IsRoute' = IsRoute /\ Age' = Age /\ Age \in 0..Ttl /\ "file" \in ObjectKeys
  BY <1>1, AgeIs DEF IsRoute, Age, ObjectKeys
<1>10. Lived'
  <2>1. \A l \in ObjectKeys : Ttl - memory[l].left \in 0..Ttl
    BY DEF Served, SingleTypeOK
  <2> QED BY <1>1, <1>5, <2>1 DEF Served, Lived
<1>11. Visiting'
  <2> SUFFICES ASSUME NEW u \in Visitors, visit[u].step # "away"
               PROVE  /\ ~visit[u].fell => visit[u].key = "file"
                      /\ visit[u].key = "fallback" /\ ~IsRoute => Had("file", Age, 0)'
                      /\ AtMinio(u)'
    BY <1>1, <1>9 DEF Visiting
  <2>1. visit[u].key \in ObjectKeys
    BY DEF Served, SingleTypeOK
  <2>2. \A l \in ObjectKeys : recent[l][0] \subseteq recent'[l][0]
    BY <1>2, <1>3
  <2>3. Copy(u)' = Copy(u)
    BY <1>1 DEF Copy
  <2>4. AtMinio(u)'
    BY <1>1, <2>1, <2>2, <2>3 DEF Served, Visiting, AtMinio
  <2> QED BY <1>5, <1>9, <2>4 DEF Served, Visiting
<1>12. Bounded'
  <2>1. \A u \in Visitors : told[u].key \in ObjectKeys
    BY DEF Served, SingleTypeOK
  <2> QED BY <1>1, <1>5, <1>9, <2>1 DEF Served, Bounded
<1> QED BY <1>4, <1>8, <1>10, <1>11, <1>12 DEF Served

LEMMA ServedTick == ASSUME Served, Tick PROVE Served'
<1> USE SingleAssumption
<1>1. /\ \A u \in Visitors : visit[u].step = "away"
      /\ recent' = [k \in ObjectKeys |->
                     [n \in 0..Ttl |-> IF n = 0 THEN {bucket[k]} ELSE recent[k][n - 1]]]
      /\ memory' = [k \in ObjectKeys |-> Older(memory[k])]
      /\ told' = [u \in Visitors |-> NotTold]
      /\ UNCHANGED <<setting, bucket, writes, visit, copy>>
  BY DEF Tick
<1>2. /\ bucket \in [ObjectKeys -> ObjectVersions]
      /\ recent \in [ObjectKeys -> [0..Ttl -> SUBSET ObjectVersions]]
      /\ memory \in [ObjectKeys -> [holds : Held, version : ObjectVersions, left : 0..Ttl]]
      /\ 0 \in ObjectVersions /\ "file" \in ObjectKeys
  BY DEF Served, SingleTypeOK, ObjectVersions, ObjectKeys
<1>3. \A k \in ObjectKeys : /\ recent'[k][0] = {bucket[k]}
                            /\ \A i \in 1..Ttl : i - 1 \in 0..Ttl /\ recent'[k][i] = recent[k][i - 1]
  BY <1>1
<1>4. \A v : \A k \in ObjectKeys, n \in 0..(Ttl - 1) : Had(k, n, v) => Had(k, n + 1, v)'
  <2> SUFFICES ASSUME NEW k \in ObjectKeys, NEW n \in 0..(Ttl - 1), NEW v,
                      NEW i \in 0..n, v \in recent[k][i]
               PROVE  \E j \in 0..(n + 1) : v \in recent'[k][j]
    BY DEF Had
  <2>1. i + 1 \in 1..Ttl /\ i + 1 \in 0..(n + 1) /\ (i + 1) - 1 = i
    OBVIOUS
  <2>2. recent'[k][i + 1] = recent[k][(i + 1) - 1]
    BY <1>3, <2>1
  <2> QED BY <2>1, <2>2
<1>5. \A k \in ObjectKeys, w \in ObjectVersions : Known(k, w)' => Known(k, w)
  <2> SUFFICES ASSUME NEW k \in ObjectKeys, NEW w \in ObjectVersions, Had(k, Ttl, w)'
               PROVE  Had(k, Ttl, w)
    BY <1>1 DEF Known
  <2>1. PICK i \in 0..Ttl : w \in recent'[k][i]
    BY DEF Had
  <2>2. CASE i = 0
    <3>1. w = bucket[k] /\ bucket[k] \in recent[k][0] /\ 0 \in 0..Ttl
      BY <1>3, <2>1, <2>2 DEF Served, Rising
    <3> QED BY <3>1 DEF Had
  <2>3. CASE i # 0
    <3>1. i \in 1..Ttl
      BY <2>3
    <3>2. i - 1 \in 0..Ttl /\ w \in recent[k][i - 1]
      BY <1>3, <2>1, <3>1
    <3> QED BY <3>2 DEF Had
  <2> QED BY <2>2, <2>3
<1>6. SingleTypeOK'
  <2>1. recent' \in [ObjectKeys -> [0..Ttl -> SUBSET ObjectVersions]]
    <3>1. \A k \in ObjectKeys, n \in 0..Ttl :
              (IF n = 0 THEN {bucket[k]} ELSE recent[k][n - 1]) \in SUBSET ObjectVersions
      <4>1. \A n \in 0..Ttl : n # 0 => n - 1 \in 0..Ttl
        OBVIOUS
      <4> QED BY <1>2, <4>1
    <3>2. \A k \in ObjectKeys :
              [n \in 0..Ttl |-> IF n = 0 THEN {bucket[k]} ELSE recent[k][n - 1]]
                  \in [0..Ttl -> SUBSET ObjectVersions]
      BY <3>1
    <3> QED BY <1>1, <3>2
  <2>2. ASSUME NEW k \in ObjectKeys
        PROVE  Older(memory[k]) \in [holds : Held, version : ObjectVersions, left : 0..Ttl]
    <3>1. memory[k] \in [holds : Held, version : ObjectVersions, left : 0..Ttl]
      BY <1>2
    <3>2. CASE memory[k].left > 0
      <4>1. memory[k].left - 1 \in 0..Ttl
        BY <3>1, <3>2
      <4> QED BY <3>1, <3>2, <4>1 DEF Older
    <3>3. CASE ~(memory[k].left > 0)
      BY <1>2, <3>3 DEF Older, Unknown, Held
    <3> QED BY <3>2, <3>3
  <2>3. memory' \in [ObjectKeys -> [holds : Held, version : ObjectVersions, left : 0..Ttl]]
    BY <1>1, <2>2
  <2>4. NotTold \in [status : {0, 200, 206, 304, 307, 404}, key : ObjectKeys, version : ObjectVersions]
    BY <1>2 DEF NotTold
  <2> QED BY <1>1, <2>1, <2>3, <2>4 DEF Served, SingleTypeOK
<1>7. Rising'
  <2> SUFFICES ASSUME NEW k \in ObjectKeys, NEW w \in ObjectVersions, Known(k, w),
                      NEW i \in 0..Ttl, NEW v \in recent'[k][i], v # 0, v < w
               PROVE  Had(k, i, w)'
    BY <1>1, <1>3, <1>5 DEF Rising, Served
  <2>1. /\ bucket[k] # 0 => w <= bucket[k]
        /\ \A j \in 0..Ttl : \A x \in recent[k][j] : x # 0 /\ x < w => Had(k, j, w)
    BY DEF Served, Rising
  <2>2. CASE i = 0
    <3>1. v = bucket[k] /\ bucket[k] \in Nat /\ w \in Nat
      BY <1>2, <1>3, <2>2 DEF ObjectVersions
    <3> QED BY <2>1, <3>1
  <2>3. CASE i # 0
    <3>1. i - 1 \in 0..(Ttl - 1) /\ i - 1 \in 0..Ttl /\ (i - 1) + 1 = i /\ i \in 1..Ttl
      BY <2>3
    <3>2. Had(k, i - 1, w)
      BY <1>3, <2>1, <3>1
    <3>3. Had(k, (i - 1) + 1, w)'
      BY <1>4, <3>1, <3>2
    <3> QED BY <3>1, <3>3
  <2> QED BY <2>2, <2>3
<1>8. Lived'
  <2> SUFFICES ASSUME NEW k \in ObjectKeys, memory'[k].holds # "absent"
               PROVE  /\ setting.caches
                      /\ Had(k, Ttl - memory[k].left, memory[k].version)'
                      /\ memory'[k].holds = "missing" <=> memory'[k].version = 0
    BY <1>1 DEF Lived
  <2>1. memory[k].left \in 0..Ttl
    BY <1>2
  <2>2. /\ memory[k].left > 0 /\ memory'[k].left = memory[k].left - 1
        /\ memory'[k].holds = memory[k].holds /\ memory'[k].version = memory[k].version
    BY <1>1, <1>2 DEF Older, Unknown
  <2>3. /\ setting.caches /\ Had(k, Ttl - memory[k].left, memory[k].version)
        /\ memory[k].holds = "missing" <=> memory[k].version = 0
    BY <2>2 DEF Served, Lived
  <2>4. PICK n \in 0..(Ttl - 1), v \in ObjectVersions :
            /\ n = Ttl - memory[k].left /\ n + 1 = Ttl - memory'[k].left
            /\ v = memory[k].version
    BY <1>2, <2>1, <2>2
  <2>5. Had(k, n + 1, v)'
    BY <1>4, <2>3, <2>4
  <2>6. Had(k, Ttl - memory[k].left, memory[k].version)'
    BY <2>2, <2>4, <2>5
  <2> QED BY <2>2, <2>3, <2>6
<1>9. Visiting' /\ Bounded'
  BY <1>1 DEF Visiting, Bounded, NotTold
<1> QED BY <1>6, <1>7, <1>8, <1>9 DEF Served

-----------------------------------------------------------------------------
(* Visitors.                                                               *)
Environment == <<setting, bucket, recent, writes>>
ItemType == [ObjectKeys -> [holds : Held, version : ObjectVersions, left : 0..Ttl]]
VisitType == [Visitors -> [step : {"away", "cache", "fetch", "keep", "renew"}, key : ObjectKeys,
                           partial : BOOLEAN, got : ObjectVersions, fell : BOOLEAN]]

(* The cache forgets an item, or holds what was there in this tick.        *)
Refreshed(k) ==
    memory'[k].holds # "absent" =>
        /\ setting.caches /\ memory'[k].version \in recent[k][0]
        /\ memory'[k].holds = "missing" <=> memory'[k].version = 0

CacheStep == memory' \in ItemType /\ \A k \in ObjectKeys : memory'[k] = memory[k] \/ Refreshed(k)

LEMMA CacheStays ==
    ASSUME Served, CacheStep, UNCHANGED Environment
    PROVE  /\ Lived'
           /\ \A u \in Visitors : visit'[u] = visit[u] /\ copy'[u] = copy[u] /\ visit[u].step # "away" =>
                  AtMinio(u)'
<1> USE SingleAssumption DEF Environment
<1>1. Lived'
  <2> SUFFICES ASSUME NEW k \in ObjectKeys, memory'[k].holds # "absent"
               PROVE  /\ setting.caches
                      /\ Had(k, Ttl - memory'[k].left, memory'[k].version)
                      /\ memory'[k].holds = "missing" <=> memory'[k].version = 0
    BY HadStays DEF Lived
  <2>1. CASE memory'[k] = memory[k]
    BY <2>1 DEF Served, Lived
  <2>2. CASE Refreshed(k)
    <3>1. 0 \in 0..(Ttl - memory'[k].left)
      BY DEF CacheStep, ItemType
    <3> QED BY <2>2, <3>1 DEF Refreshed, Had
  <2> QED BY <2>1, <2>2 DEF CacheStep
<1>2. ASSUME NEW u \in Visitors, visit'[u] = visit[u], copy'[u] = copy[u], visit[u].step # "away"
      PROVE  AtMinio(u)'
  <2>1. visit[u].key \in ObjectKeys /\ AtMinio(u)
    BY <1>2 DEF Served, SingleTypeOK, Visiting
  <2>2. Copy(u)' = Copy(u)
    BY <1>2 DEF Copy
  <2>3. CASE memory'[visit[u].key] = memory[visit[u].key]
    BY <1>2, <2>1, <2>2, <2>3 DEF AtMinio
  <2>4. CASE Refreshed(visit[u].key)
    BY <1>2, <2>1, <2>2, <2>4 DEF AtMinio, Refreshed
  <2> QED BY <2>1, <2>3, <2>4 DEF CacheStep
<1> QED BY <1>1, <1>2

LEMMA Steady ==
    ASSUME Served, UNCHANGED Environment, SingleTypeOK', CacheStep, Visiting', Bounded',
           \A k \in ObjectKeys, w \in ObjectVersions : Known(k, w)' => Known(k, w)
    PROVE  Served'
<1>1. Rising'
  BY HadStays DEF Served, Rising, Environment
<1> QED BY <1>1, CacheStays DEF Served

(* An answer of what the key had within the age allowed.                   *)
LEMMA ServedTell ==
    ASSUME Served, UNCHANGED Environment, CacheStep, NEW u \in Visitors, visit[u].step # "away",
           NEW status \in {200, 206, 304, 307, 404}, NEW x \in ObjectVersions,
           Had(visit[u].key, Age, x), Tell(u, status, x)
    PROVE  Served'
<1> USE SingleAssumption
<1> DEFINE k == visit[u].key
           t == [status |-> status, key |-> k, version |-> x]
           c == [key |-> k, version |-> x]
<1>1. /\ told' = [told EXCEPT ![u] = t]
      /\ copy' = [copy EXCEPT ![u] = IF status = 200 THEN c ELSE @]
      /\ visit' = [visit EXCEPT ![u] = Away]
      /\ UNCHANGED <<setting, bucket, recent, writes>>
  BY DEF Tell, Environment
<1>2. /\ visit \in VisitType /\ k \in ObjectKeys
      /\ told \in [Visitors -> [status : {0, 200, 206, 304, 307, 404}, key : ObjectKeys, version : ObjectVersions]]
      /\ copy \in [Visitors -> [key : ObjectKeys, version : ObjectVersions]]
  BY DEF Served, SingleTypeOK, VisitType
<1>3. /\ t.status = status /\ t.key = k /\ t.version = x /\ c.key = k /\ c.version = x
      /\ t \in [status : {0, 200, 206, 304, 307, 404}, key : ObjectKeys, version : ObjectVersions]
      /\ c \in [key : ObjectKeys, version : ObjectVersions]
  BY <1>2
<1>4. Away \in [step : {"away", "cache", "fetch", "keep", "renew"}, key : ObjectKeys,
                partial : BOOLEAN, got : ObjectVersions, fell : BOOLEAN] /\ Away.step = "away"
  BY DEF Away, ObjectKeys, ObjectVersions
<1> HIDE DEF t, c
<1>5. SingleTypeOK'
  <2>1. told' \in [Visitors -> [status : {0, 200, 206, 304, 307, 404}, key : ObjectKeys, version : ObjectVersions]]
    BY <1>1, <1>2, <1>3
  <2>2. copy' \in [Visitors -> [key : ObjectKeys, version : ObjectVersions]]
    BY <1>1, <1>2, <1>3
  <2>3. visit' \in VisitType
    BY <1>1, <1>2, <1>4 DEF VisitType
  <2> QED BY <1>1, <2>1, <2>2, <2>3 DEF Served, SingleTypeOK, VisitType, CacheStep, ItemType
<1>6. \A v \in Visitors \ {u} : visit'[v] = visit[v] /\ copy'[v] = copy[v] /\ told'[v] = told[v]
  BY <1>1, <1>2
<1>7. visit'[u].step = "away" /\ told'[u] = t /\ copy'[u] \in {copy[u], c}
  <2>0. visit'[u] = Away /\ told'[u] = t
    BY <1>1, <1>2 DEF VisitType
  <2>1. visit'[u] = Away /\ told'[u] = t /\ copy'[u] = IF status = 200 THEN c ELSE copy[u]
    BY <1>1, <1>2, <2>0
  <2>2. CASE status = 200
    BY <1>4, <2>1, <2>2
  <2>3. CASE status # 200
    BY <1>4, <2>1, <2>3
  <2> QED BY <2>2, <2>3
<1>8. Age \in 0..Ttl /\ Age' = Age /\ IsRoute' = IsRoute
  BY <1>1, AgeIs, HadStays
<1>9. Visiting'
  BY <1>1, <1>6, <1>7, <1>8, CacheStays, HadStays DEF Served, Visiting
<1>10. Bounded'
  <2>1. k = "fallback" /\ ~IsRoute => Had("file", Age, 0)
    BY DEF Served, Visiting
  <2> QED BY <1>1, <1>3, <1>6, <1>7, <1>8, <2>1, HadStays DEF Served, Bounded
<1>11. \A l \in ObjectKeys, w \in ObjectVersions : Known(l, w)' => Known(l, w)
  <2>1. Had(k, Ttl, x)
    BY <1>8, HadMore
  <2> QED BY <1>1, <1>3, <1>6, <1>7, <2>1, HadStays DEF Known
<1> QED BY <1>5, <1>9, <1>10, <1>11, Steady

(* A request that goes on.                                                 *)
LEMMA ServedGoes ==
    ASSUME Served, UNCHANGED Environment, CacheStep, NEW u \in Visitors, visit' \in VisitType,
           UNCHANGED <<told, copy>>, \A v \in Visitors \ {u} : visit'[v] = visit[v],
           ~visit'[u].fell => visit'[u].key = "file",
           visit'[u].key = "fallback" /\ ~IsRoute => Had("file", Age, 0), AtMinio(u)'
    PROVE  Served'
<1>1. SingleTypeOK'
  BY DEF Served, SingleTypeOK, VisitType, CacheStep, ItemType, Environment
<1>2. setting' = setting /\ recent' = recent
  BY DEF Environment
<1>3. \A k \in ObjectKeys, w \in ObjectVersions : Known(k, w)' => Known(k, w)
  BY <1>2, HadStays DEF Known
<1>4. Bounded'
  BY <1>2, HadStays DEF Served, Bounded
<1>5. Visiting'
  BY <1>2, HadStays, CacheStays DEF Served, Visiting
<1> QED BY <1>1, <1>3, <1>4, <1>5, Steady

(* serveObject has found that there is no such object.                     *)
LEMMA ServedNotThere ==
    ASSUME Served, UNCHANGED Environment, CacheStep, NEW u \in Visitors, visit[u].step # "away",
           Had(visit[u].key, Age, 0), NotThere(u)
    PROVE  Served'
<1>1. CASE /\ ~visit[u].fell
           /\ visit' = [visit EXCEPT ![u].step = "cache", ![u].key = "fallback", ![u].fell = TRUE]
           /\ UNCHANGED <<told, copy>>
  <2>1. visit \in VisitType /\ visit[u].key = "file"
    BY <1>1 DEF Served, SingleTypeOK, VisitType, Visiting
  <2>2. /\ visit' \in VisitType
        /\ visit'[u].step = "cache" /\ visit'[u].key = "fallback" /\ visit'[u].fell = TRUE
        /\ \A v \in Visitors \ {u} : visit'[v] = visit[v]
    BY <1>1, <2>1 DEF VisitType, ObjectKeys
  <2>3. AtMinio(u)'
    BY <2>2 DEF AtMinio
  <2> QED BY <1>1, <2>1, <2>2, <2>3, ServedGoes
<1>2. CASE Tell(u, 404, 0)
  <2>1. 0 \in ObjectVersions
    BY SingleAssumption DEF ObjectVersions
  <2> QED BY <1>2, <2>1, ServedTell
<1> QED BY <1>1, <1>2 DEF NotThere

LEMMA ServedAsk ==
    ASSUME Served, NEW u \in Visitors, NEW partial \in BOOLEAN, Ask(u, partial)
    PROVE  Served'
<1> DEFINE to == [step |-> "cache", partial |-> partial, got |-> 0,
                  key |-> IF IsRoute THEN "fallback" ELSE "file", fell |-> IsRoute]
<1>1. /\ visit' = [visit EXCEPT ![u] = to]
      /\ told' = [told EXCEPT ![u] = NotTold]
      /\ UNCHANGED <<setting, bucket, recent, writes, memory, copy>>
  BY DEF Ask
<1>2. IsRoute \in BOOLEAN
  BY Zenon DEF IsRoute
<1> HIDE DEF to
<1>3. /\ to \in [step : {"away", "cache", "fetch", "keep", "renew"}, key : ObjectKeys,
                 partial : BOOLEAN, got : ObjectVersions, fell : BOOLEAN]
       /\ to.step = "cache" /\ to.fell = IsRoute /\ to.key = IF IsRoute THEN "fallback" ELSE "file"
  <2>1. 0 \in ObjectVersions /\ "file" \in ObjectKeys /\ "fallback" \in ObjectKeys
    BY SingleAssumption DEF ObjectVersions, ObjectKeys
  <2>2. \A r \in BOOLEAN : \A k \in ObjectKeys :
          LET it == [step |-> "cache", key |-> k, partial |-> partial, got |-> 0, fell |-> r]
          IN  /\ it \in [step : {"away", "cache", "fetch", "keep", "renew"}, key : ObjectKeys,
                          partial : BOOLEAN, got : ObjectVersions, fell : BOOLEAN]
              /\ it.step = "cache" /\ it.fell = r /\ it.key = k
    BY <2>1
  <2>3. (IF IsRoute THEN "fallback" ELSE "file") \in ObjectKeys
    BY <2>1
  <2> QED BY <1>2, <2>2, <2>3, Zenon DEF to
<1>4. /\ visit \in VisitType
      /\ told \in [Visitors -> [status : {0, 200, 206, 304, 307, 404}, key : ObjectKeys, version : ObjectVersions]]
  BY DEF Served, SingleTypeOK, VisitType
<1>5. /\ visit' \in VisitType /\ visit'[u] = to
      /\ \A v \in Visitors \ {u} : visit'[v] = visit[v] /\ told'[v] = told[v]
      /\ told'[u] = NotTold
  BY <1>1, <1>3, <1>4 DEF VisitType
<1>6. NotTold \in [status : {0, 200, 206, 304, 307, 404}, key : ObjectKeys, version : ObjectVersions]
  BY SingleAssumption DEF NotTold, ObjectKeys, ObjectVersions
<1>7. SingleTypeOK'
  <2>1. told' \in [Visitors -> [status : {0, 200, 206, 304, 307, 404}, key : ObjectKeys, version : ObjectVersions]]
    BY <1>1, <1>4, <1>6
  <2> QED BY <1>1, <1>5, <2>1 DEF Served, SingleTypeOK, VisitType
<1>8. CacheStep
  BY <1>1 DEF CacheStep, ItemType, Served, SingleTypeOK
<1>9. \A k \in ObjectKeys, w \in ObjectVersions : Known(k, w)' => Known(k, w)
  BY <1>1, HadStays DEF Known
<1>10. AtMinio(u)'
  BY <1>3, <1>5 DEF AtMinio
<1>11. Visiting'
  BY <1>1, <1>3, <1>5, <1>8, <1>10, CacheStays, HadStays DEF Environment, Served, Visiting
<1>12. Bounded'
  BY <1>1, <1>5, HadStays DEF Served, Bounded, NotTold
<1> QED BY <1>1, <1>7, <1>8, <1>9, <1>11, <1>12, Steady DEF Environment

LEMMA ServedLookInCache ==
    ASSUME Served, NEW u \in Visitors, LookInCache(u)
    PROVE  Served'
<1> USE SingleAssumption
<1> DEFINE k == visit[u].key
           item == memory[k]
<1>1. /\ visit[u].step = "cache" /\ UNCHANGED Environment /\ memory' = memory
      /\ \/ item.holds = "absent" /\ Goes(u, "fetch")
         \/ item.holds = "missing" /\ NotThere(u)
         \/ item.holds \notin {"absent", "missing"} /\ Tell(u, 307, item.version)
         \/ item.holds \notin {"absent", "missing"} /\ Unmodified(u, item) /\ Tell(u, 304, Copy(u))
         \/ item.holds \notin {"absent", "missing"} /\ Tell(u, IF visit[u].partial THEN 206 ELSE 200, item.version)
         \/ ~Unmodified(u, item) /\ Goes(u, "fetch")
  BY DEF LookInCache, Environment
<1>2. /\ k \in ObjectKeys /\ visit \in VisitType /\ item.version \in ObjectVersions
      /\ item.left \in 0..Ttl /\ Copy(u) \in ObjectVersions
  BY DEF Served, SingleTypeOK, VisitType, Copy, ObjectVersions
<1>3. CacheStep
  BY <1>1 DEF CacheStep, ItemType, Served, SingleTypeOK
<1>4. item.holds # "absent" =>
          /\ Had(k, Ttl - item.left, item.version) /\ Age = Ttl
          /\ item.holds = "missing" <=> item.version = 0
  BY <1>2, AgeIs DEF Served, Lived
<1>5. item.holds # "absent" => Had(k, Age, item.version)
  BY <1>2, <1>4, HadMore
<1>6. ASSUME Goes(u, "fetch"), item.holds = "absent" \/ ~Unmodified(u, item)
      PROVE  Served'
  <2>1. /\ visit' = [visit EXCEPT ![u].step = "fetch"] /\ UNCHANGED <<told, copy>>
    BY <1>6 DEF Goes
  <2>2. /\ visit' \in VisitType /\ visit'[u].step = "fetch" /\ visit'[u].key = k
        /\ visit'[u].fell = visit[u].fell
        /\ \A v \in Visitors \ {u} : visit'[v] = visit[v]
    BY <1>2, <2>1 DEF VisitType
  <2>3. Copy(u)' = Copy(u)
    BY <2>1, <2>2 DEF Copy
  <2>4. AtMinio(u)'
    <3>1. item.holds # "absent" /\ Copy(u) # 0 => Copy(u) < item.version
      BY <1>2, <1>6 DEF Unmodified, ObjectVersions
    <3> QED BY <1>1, <2>2, <2>3, <3>1 DEF AtMinio
  <2> QED BY <1>1, <1>3, <2>1, <2>2, <2>4, ServedGoes DEF Served, Visiting
<1>7. ASSUME item.holds \notin {"absent", "missing"}, Unmodified(u, item)
      PROVE  Had(k, Age, Copy(u))
  <2>1. /\ Copy(u) # 0 /\ item.version <= Copy(u) /\ item.version # 0
        /\ copy[u].key = k /\ copy[u].version = Copy(u)
    BY <1>4, <1>7 DEF Unmodified, Copy
  <2>2. Known(k, Copy(u))
    BY <2>1 DEF Known
  <2>3. PICK i \in 0..(Ttl - item.left) : item.version \in recent[k][i]
    BY <1>4, <1>7 DEF Had
  <2>4. i \in 0..Ttl /\ i \in Nat
    BY <1>2
  <2>5. item.version < Copy(u) => Had(k, i, Copy(u))
    BY <1>2, <2>1, <2>2, <2>3, <2>4 DEF Served, Rising
  <2>6. CASE item.version < Copy(u)
    BY <1>4, <1>7, <2>4, <2>5, <2>6, HadMore
  <2>7. CASE item.version = Copy(u)
    BY <1>5, <1>7, <2>7
  <2> QED BY <1>2, <2>1, <2>6, <2>7 DEF ObjectVersions
<1> HIDE DEF item
<1>8. CASE item.holds = "missing" /\ NotThere(u)
  BY <1>1, <1>3, <1>4, <1>5, <1>8, ServedNotThere
<1>9. CASE item.holds \notin {"absent", "missing"} /\ Tell(u, 307, item.version)
  BY <1>1, <1>2, <1>3, <1>5, <1>9, ServedTell
<1>10. CASE item.holds \notin {"absent", "missing"} /\ Unmodified(u, item) /\ Tell(u, 304, Copy(u))
  BY <1>1, <1>2, <1>3, <1>7, <1>10, ServedTell
<1>11. CASE item.holds \notin {"absent", "missing"}
            /\ Tell(u, IF visit[u].partial THEN 206 ELSE 200, item.version)
  BY <1>1, <1>2, <1>3, <1>5, <1>11, ServedTell
<1> QED BY <1>1, <1>6, <1>8, <1>9, <1>10, <1>11

LEMMA ServedAskMinio ==
    ASSUME Served, NEW u \in Visitors, AskMinio(u)
    PROVE  Served'
<1> USE SingleAssumption
<1> DEFINE k == visit[u].key
           to == IF ~setting.redirects /\ Copy(u) # 0 /\ Copy(u) = bucket[k] THEN "renew" ELSE "keep"
<1>1. /\ visit[u].step = "fetch" /\ UNCHANGED Environment /\ memory' = memory
      /\ \/ /\ visit' = [visit EXCEPT ![u].step = to, ![u].got = bucket[k]]
            /\ UNCHANGED <<told, copy>>
         \/ Tell(u, 404, bucket[k])
  BY DEF AskMinio, Environment
<1>2. /\ k \in ObjectKeys /\ visit \in VisitType /\ bucket[k] \in ObjectVersions
      /\ memory[k].version \in ObjectVersions /\ memory[k].left \in 0..Ttl
      /\ bucket[k] \in recent[k][0]
  BY DEF Served, SingleTypeOK, VisitType, Rising
<1>3. CacheStep
  BY <1>1 DEF CacheStep, ItemType, Served, SingleTypeOK
<1>4. CASE Tell(u, 404, bucket[k])
  <2>1. 0 \in 0..Age
    BY AgeIs
  <2>2. Had(k, Age, bucket[k])
    BY <1>2, <2>1 DEF Had
  <2> QED BY <1>1, <1>2, <1>3, <1>4, <2>2, ServedTell
<1>5. CASE /\ visit' = [visit EXCEPT ![u].step = to, ![u].got = bucket[k]]
           /\ UNCHANGED <<told, copy>>
  <2>1. /\ visit' \in VisitType /\ visit'[u].step = to /\ visit'[u].key = k
        /\ visit'[u].fell = visit[u].fell /\ visit'[u].got = bucket[k]
        /\ \A v \in Visitors \ {u} : visit'[v] = visit[v]
    BY <1>2, <1>5 DEF VisitType
  <2>2. ASSUME to = "renew", memory[k].holds # "absent" PROVE memory[k].version \in recent[k][0]
    <3>1. ~setting.redirects /\ Copy(u) # 0 /\ Copy(u) = bucket[k]
      BY <2>2
    <3>2. memory[k].version \in recent[k][0] \/ Copy(u) < memory[k].version
      BY <1>1, <2>2, <3>1 DEF Served, Visiting, AtMinio
    <3>3. Had(k, Ttl - memory[k].left, memory[k].version)
      BY <1>2, <2>2 DEF Served, Lived
    <3>4. Had(k, Ttl, memory[k].version)
      BY <1>2, <3>3, HadMore
    <3>5. memory[k].version <= bucket[k]
      BY <1>2, <3>1, <3>4 DEF Served, Rising, Known
    <3> QED BY <1>2, <3>1, <3>2, <3>5 DEF ObjectVersions
  <2>3. AtMinio(u)'
    BY <1>1, <1>2, <2>1, <2>2 DEF AtMinio, Environment
  <2> QED BY <1>1, <1>3, <1>5, <2>1, <2>3, ServedGoes DEF Served, Visiting
<1> QED BY <1>1, <1>4, <1>5

(* What MinIO has said stays true of this tick.                            *)
LEMMA ServedKeep ==
    ASSUME Served, NEW u \in Visitors, Keep(u)
    PROVE  Served'
<1> USE SingleAssumption
<1> DEFINE k == visit[u].key
           v == visit[u].got
           none == [holds |-> "missing", version |-> 0, left |-> 1]
           some(h) == [holds |-> h, version |-> v, left |-> Ttl]
           st == IF setting.redirects THEN 307 ELSE IF visit[u].partial THEN 206 ELSE 200
<1>1. /\ visit[u].step = "keep" /\ UNCHANGED Environment
      /\ \/ v = 0 /\ NotThere(u) /\ Remember(u, none)
         \/ /\ v # 0 /\ Tell(u, st, v)
            /\ memory' = memory \/ \E h \in {"metadata", "body"} : Remember(u, some(h))
  BY DEF Keep, Environment
<1>2. /\ k \in ObjectKeys /\ v \in ObjectVersions /\ v \in recent[k][0] /\ memory \in ItemType
  BY <1>1 DEF Served, SingleTypeOK, Visiting, AtMinio, ItemType
<1>3. Had(k, Age, v)
  <2>1. 0 \in 0..Age
    BY AgeIs
  <2> QED BY <1>2, <2>1 DEF Had
<1>4. ASSUME NEW e \in [holds : Held, version : ObjectVersions, left : 0..Ttl], e.version = v,
             e.holds = "missing" <=> v = 0, memory' = memory \/ Remember(u, e)
      PROVE  CacheStep
  <2>1. CASE memory' = memory
    BY <1>2, <2>1 DEF CacheStep
  <2>2. CASE setting.caches /\ memory' = [memory EXCEPT ![k] = e]
    <3>1. memory' \in ItemType /\ memory'[k] = e /\ \A l \in ObjectKeys \ {k} : memory'[l] = memory[l]
      BY <1>2, <2>2 DEF ItemType
    <3> QED BY <1>2, <1>4, <2>2, <3>1 DEF CacheStep, Refreshed
  <2> QED BY <1>4, <2>1, <2>2 DEF Remember
<1>5. CASE v = 0 /\ NotThere(u) /\ Remember(u, none)
  <2>1. /\ none \in [holds : Held, version : ObjectVersions, left : 0..Ttl]
        /\ none.version = 0 /\ none.holds = "missing"
    BY DEF Held, ObjectVersions
  <2> HIDE DEF none
  <2>2. CacheStep
    BY <1>4, <1>5, <2>1
  <2> QED BY <1>1, <1>3, <1>5, <2>2, ServedNotThere
<1>6. CASE /\ v # 0 /\ Tell(u, st, v)
           /\ memory' = memory \/ \E h \in {"metadata", "body"} : Remember(u, some(h))
  <2>1. ASSUME NEW h \in {"metadata", "body"}
        PROVE  /\ some(h) \in [holds : Held, version : ObjectVersions, left : 0..Ttl]
               /\ some(h).version = v /\ some(h).holds # "missing"
    BY <1>2 DEF Held
  <2> HIDE DEF some
  <2>2. CacheStep
    BY <1>2, <1>4, <1>6, <2>1 DEF CacheStep
  <2>3. st \in {200, 206, 304, 307, 404}
    OBVIOUS
  <2> HIDE DEF st
  <2> QED BY <1>1, <1>2, <1>3, <1>6, <2>2, <2>3, ServedTell
<1> HIDE DEF none, some, st
<1> QED BY <1>1, <1>5, <1>6

LEMMA ServedRenew ==
    ASSUME Served, NEW u \in Visitors, Renew(u)
    PROVE  Served'
<1> USE SingleAssumption
<1> DEFINE k == visit[u].key
           v == visit[u].got
           item == memory[k]
<1>1. /\ visit[u].step = "renew" /\ UNCHANGED Environment /\ Tell(u, 304, v)
      /\ memory' = [memory EXCEPT ![k] = IF item.holds = "absent" THEN item ELSE [item EXCEPT !.left = Ttl]]
  BY DEF Renew, Environment
<1>2. /\ k \in ObjectKeys /\ v \in ObjectVersions /\ v \in recent[k][0] /\ memory \in ItemType
      /\ item.holds # "absent" => item.version \in recent[k][0]
  BY <1>1 DEF Served, SingleTypeOK, Visiting, AtMinio, ItemType
<1>3. Had(k, Age, v)
  <2>1. 0 \in 0..Age
    BY AgeIs
  <2> QED BY <1>2, <2>1 DEF Had
<1>4. CacheStep
  <2>1. memory' \in ItemType /\ \A l \in ObjectKeys \ {k} : memory'[l] = memory[l]
    BY <1>1, <1>2 DEF ItemType
  <2>2. CASE item.holds = "absent"
    BY <1>1, <1>2, <2>1, <2>2 DEF CacheStep, ItemType
  <2>3. CASE item.holds # "absent"
    <3>1. memory'[k].holds = item.holds /\ memory'[k].version = item.version
      BY <1>1, <1>2, <2>3 DEF ItemType
    <3>2. Refreshed(k)
      BY <1>2, <2>3, <3>1 DEF Refreshed, Served, Lived
    <3> QED BY <2>1, <3>2 DEF CacheStep
  <2> QED BY <2>2, <2>3
<1> QED BY <1>1, <1>2, <1>3, <1>4, ServedTell

LEMMA ServedEvict ==
    ASSUME Served, NEW k \in ObjectKeys, EvictOldest(k)
    PROVE  Served'
<1>1. /\ memory' = [memory EXCEPT ![k] = Unknown]
      /\ UNCHANGED <<setting, bucket, recent, writes, visit, told, copy>>
  BY DEF EvictOldest
<1>2. CacheStep
  <2>1. memory \in ItemType /\ Unknown.holds = "absent"
        /\ Unknown \in [holds : Held, version : ObjectVersions, left : 0..Ttl]
    BY SingleAssumption DEF Served, SingleTypeOK, ItemType, Unknown, Held, ObjectVersions
  <2>2. memory' \in ItemType /\ memory'[k] = Unknown /\ \A l \in ObjectKeys \ {k} : memory'[l] = memory[l]
    BY <1>1, <2>1 DEF ItemType
  <2> QED BY <2>1, <2>2 DEF CacheStep, Refreshed
<1>3. SingleTypeOK'
  BY <1>1, <1>2 DEF Served, SingleTypeOK, CacheStep, ItemType
<1>4. Visiting' /\ Bounded'
  BY <1>1, <1>2, CacheStays, HadStays DEF Environment, Served, Visiting, Bounded
<1>5. \A l \in ObjectKeys, w \in ObjectVersions : Known(l, w)' => Known(l, w)
  BY <1>1, HadStays DEF Known
<1> QED BY <1>1, <1>2, <1>3, <1>4, <1>5, Steady DEF Environment

(* The invariant holds, whatever is asked and written.                     *)
LEMMA ServedAlways == SingleSpec => []Served
<1>1. Served /\ [SingleNext]_singleVars => Served'
  <2> SUFFICES ASSUME Served, [SingleNext]_singleVars PROVE Served'
    OBVIOUS
  <2>1. ASSUME NEW k \in ObjectKeys, WriteObject(k, writes + 1) \/ WriteObject(k, 0) \/ EvictOldest(k)
        PROVE  Served'
    BY <2>1, ServedWrite, ServedEvict
  <2>2. ASSUME NEW u \in Visitors, LookInCache(u) \/ AskMinio(u) \/ Keep(u) \/ Renew(u)
        PROVE  Served'
    BY <2>2, ServedLookInCache, ServedAskMinio, ServedKeep, ServedRenew
  <2>3. ASSUME NEW u \in Visitors, NEW partial \in BOOLEAN, Ask(u, partial) PROVE Served'
    BY <2>3, ServedAsk
  <2>4. CASE UNCHANGED singleVars
    <3>1. SingleTypeOK' /\ CacheStep
      BY <2>4 DEF singleVars, Served, SingleTypeOK, CacheStep, ItemType
    <3>2. Visiting' /\ Bounded'
      BY <2>4, <3>1, CacheStays, HadStays DEF singleVars, Environment, Served, Visiting, Bounded
    <3>3. \A l \in ObjectKeys, w \in ObjectVersions : Known(l, w)' => Known(l, w)
      BY <2>4, HadStays DEF singleVars, Known
    <3> QED BY <2>4, <3>1, <3>2, <3>3, Steady DEF singleVars, Environment
  <2> QED BY <2>1, <2>2, <2>3, <2>4, ServedTick DEF SingleNext
<1> QED BY <1>1, ServedInit, PTL DEF SingleSpec

(* Every state of the cache, the visits and the browsers is well typed.    *)
THEOREM SingleTypeCorrect == SingleSpec => []SingleTypeOK
<1>1. Served => SingleTypeOK
  BY DEF Served
<1> QED BY <1>1, ServedAlways, PTL

(* Nothing that a visitor is told, from the cache, by a copy that is said  *)
(* to be good, or after the fallback, is older than cache_ttl, whatever    *)
(* requests overlap and whatever their answers overtake.                   *)
THEOREM StalenessIsBounded == SingleSpec => []BoundedStaleness
<1>1. Served => BoundedStaleness
  BY BoundedIs DEF Served
<1> QED BY <1>1, ServedAlways, PTL

-----------------------------------------------------------------------------
(* What the console shows of the counts.                                   *)
LoadType == [step : CallSteps, quiet : BOOLEAN, first : Nat, twice : Nat, moved : Int,
             answer : SUBSET Reading]

ShownTyped ==
    /\ call \in [Loads -> LoadType] /\ view \in Views /\ usage \subseteq Reading
    /\ loadingUsage \in BOOLEAN /\ refreshing \in BOOLEAN /\ complaint \in BOOLEAN

(* A load that has read the row has read of it no more than has been moved *)
(* there by now, but for what a flush half done has there twice; an answer *)
(* lies between what it should.                                            *)
Near(readings) == \A r \in readings : r.low <= r.used /\ r.used <= r.high

ReadsTrue ==
    /\ \A l \in Loads :
          /\ call[l].step = "flushed" =>
                call[l].moved = call[l].first - call[l].twice /\ call[l].moved <= Moved
          /\ Near(call[l].answer)
    /\ Near(usage)

(* A spinner turns for a call under way; the summary's, for one that the   *)
(* user sees.                                                              *)
Spins ==
    /\ loadingUsage \/ refreshing => \E l \in Loads : Under(l)
    /\ view = "summary" =>
          /\ ~refreshing
          /\ loadingUsage => \E l \in Loads : Under(l) /\ ~call[l].quiet

Pictured(u) == Tallied(u) /\ ShownTyped /\ ReadsTrue /\ Spins

(* What has been moved out of the hash is in the row, or lost.             *)
LEMMA MovedIs ==
    ASSUME NEW u, OneFlusher(u), Tallied(u)
    PROVE  /\ Moved = db["requests"] - Both(u, "requests") + lost["requests"]
           /\ Moved \in Int /\ Counted \in Nat
           /\ Both(u, "requests") \in Nat /\ db["requests"] \in Nat /\ statsHash["requests"] \in Nat
           /\ lost["requests"] \in Nat
<1>1. /\ Both(u, "requests") \in Nat /\ db["requests"] \in Nat /\ statsHash["requests"] \in Nat
      /\ lost["requests"] \in Nat /\ Both(u, "requests") <= statsHash["requests"]
      /\ missed["requests"] \in Nat /\ accepted \in Nat /\ channel \in Nat /\ taken \in Nat
  BY AnalyticsConstants DEF Tallied, AnalyticsTypeOK, Covered, Both, Fields, OneFlusher
<1>2. accepted = channel + taken + statsHash["requests"] + db["requests"] - Both(u, "requests")
                 + missed["requests"] + lost["requests"]
  BY <1>1 DEF Tallied, Balance, Fields
<1> QED BY <1>1, <1>2 DEF Moved, Counted

LEMMA IdleLoadIs ==
    /\ IdleLoad \in LoadType /\ IdleLoad.step = "idle" /\ IdleLoad.answer = {}
    /\ IdleLoad.quiet = FALSE
BY DEF IdleLoad, LoadType, CallSteps, Reading

LEMMA PicturedInit ==
    ASSUME NEW u, OneFlusher(u), AnalyticsInit, UsageInit
    PROVE  Pictured(u)
<1> DEFINE sent == [IdleLoad EXCEPT !.step = "sent"]
<1>1. /\ IdleLoad \in LoadType /\ IdleLoad.step = "idle" /\ IdleLoad.answer = {}
      /\ sent \in LoadType /\ sent.step = "sent" /\ ~sent.quiet /\ sent.answer = {}
  BY IdleLoadIs DEF LoadType, CallSteps
<1>2. First(Loads) \in Loads
  BY UsageConstants DEF First
<1> HIDE DEF sent
<1>3. call = [l \in Loads |-> IF l = First(Loads) THEN sent ELSE IdleLoad]
  BY DEF UsageInit, sent
<1>4. Tallied(u)
  BY TalliedInit
<1>5. ShownTyped
  BY <1>1, <1>3 DEF UsageInit, ShownTyped
<1>6. ReadsTrue
  BY <1>1, <1>3 DEF UsageInit, ReadsTrue, Near
<1>7. Spins
  BY <1>1, <1>2, <1>3 DEF UsageInit, Spins, Under
<1> QED BY <1>4, <1>5, <1>6, <1>7 DEF Pictured

(* The blob server counts and flushes.                                     *)
LEMMA PicturedServe ==
    ASSUME NEW u, OneFlusher(u), Pictured(u), Serve, UNCHANGED usageVars
    PROVE  Pictured(u)'
<1>1. Tallied(u)'
  BY TalliedStep DEF Pictured, Serve, AnalyticsNext, Work
<1>2. Moved' >= Moved
  <2>1. /\ Moved = db["requests"] - Both(u, "requests") + lost["requests"] /\ Moved \in Int
        /\ Both(u, "requests") \in Nat /\ db["requests"] \in Nat /\ statsHash["requests"] \in Nat
        /\ lost["requests"] \in Nat
    BY MovedIs DEF Pictured
  <2>2. Moved' = db'["requests"] - Both(u, "requests")' + lost'["requests"]
    BY <1>1 DEF Tallied, AnalyticsTypeOK, Balance, Covered, Both, Fields, Moved, Counted, OneFlusher
  <2>3. CASE Record \/ TakeEvent \/ CountRequest \/ CountClass \/ ReadHash(u) \/ FailUpsert(u)
    <3>1. UNCHANGED <<db, lost>>
      BY <2>3 DEF Record, TakeEvent, CountRequest, CountClass, ReadHash, FailUpsert, hash, pool
    <3>2. Both(u, "requests")' = Both(u, "requests")
      BY <2>3 DEF Record, TakeEvent, CountRequest, CountClass, ReadHash, FailUpsert, hash, pool,
                  Both, Pictured, Tallied, AnalyticsTypeOK, OneFlusher, Rest
    <3> QED BY <2>1, <2>2, <3>1, <3>2
  <2>4. CASE Upsert(u)
    <3>1. /\ flushStep[u] = "upsert" /\ flushStep'[u] = "reset" /\ snap' = snap /\ lost' = lost
          /\ db'["requests"] = db["requests"] + snap[u]["requests"] /\ snap[u]["requests"] \in Nat
      BY <2>4 DEF Upsert, Added, Fields, Pictured, Tallied, AnalyticsTypeOK, OneFlusher
    <3> QED BY <2>1, <2>2, <3>1 DEF Both
  <2>5. CASE Reset(u)
    <3>1. /\ flushStep[u] = "reset" /\ flushStep'[u] # "reset" /\ db' = db /\ snap[u]["requests"] \in Nat
          /\ lost'["requests"] = lost["requests"] + (statsHash["requests"] - snap[u]["requests"])
      BY <2>5 DEF Reset, Rest, Fields, Pictured, Tallied, AnalyticsTypeOK, OneFlusher
    <3> QED BY <2>1, <2>2, <3>1 DEF Both
  <2> QED BY <2>3, <2>4, <2>5 DEF Serve, Flush, OneFlusher
<1>3. ShownTyped' /\ Spins'
  BY DEF Pictured, ShownTyped, Spins, Under, usageVars
<1>4. ReadsTrue'
  <2>1. Moved \in Int /\ Moved' \in Int
    <3>1. Moved' \in Int
      BY <1>1 DEF Tallied, AnalyticsTypeOK, Fields, Moved, Counted
    <3> QED BY <3>1, MovedIs DEF Pictured
  <2>2. \A l \in Loads : call[l].moved \in Int
    BY DEF Pictured, ShownTyped, LoadType
  <2> HIDE DEF Moved
  <2> QED BY <1>2, <2>1, <2>2 DEF Pictured, ReadsTrue, Near, usageVars
<1> QED BY <1>1, <1>3, <1>4 DEF Pictured

(* Of a load's steps: the blob server stays as it is.                      *)
LEMMA TalliedStays ==
    ASSUME NEW u, OneFlusher(u), Tallied(u), UNCHANGED analyticsVars
    PROVE  Tallied(u)' /\ Moved' = Moved
BY TalliedStep DEF Moved, Counted, analyticsVars

LEMMA PicturedStart ==
    ASSUME NEW u, OneFlusher(u), Pictured(u), UNCHANGED analyticsVars,
           NEW l \in Loads, NEW quiet \in BOOLEAN, StartLoad(l, quiet)
    PROVE  Pictured(u)'
<1> DEFINE to == [IdleLoad EXCEPT !.step = "sent", !.quiet = quiet]
<1>1. to \in LoadType /\ to.step = "sent" /\ to.quiet = quiet /\ to.answer = {}
  BY IdleLoadIs DEF LoadType, CallSteps
<1>2. /\ call' = [call EXCEPT ![l] = to] /\ UNCHANGED <<view, usage>> /\ complaint' = FALSE
      /\ loadingUsage' = (loadingUsage \/ ~quiet)
      /\ refreshing' = (refreshing \/ (quiet /\ view # "summary"))
      /\ ~Under(l)
  BY DEF StartLoad
<1> HIDE DEF to
<1>3. loadingUsage' \in BOOLEAN /\ refreshing' \in BOOLEAN
  BY <1>2, Zenon
<1>4. ShownTyped'
  BY <1>1, <1>2, <1>3 DEF Pictured, ShownTyped
<1>5. call'[l] = to /\ \A k \in Loads \ {l} : call'[k] = call[k]
  BY <1>2 DEF Pictured, ShownTyped
<1>6. ReadsTrue'
  BY <1>1, <1>2, <1>5, TalliedStays DEF Pictured, ReadsTrue, Near
<1>7. Spins'
  <2>1. Under(l)' /\ (call'[l].quiet <=> quiet)
    BY <1>1, <1>5 DEF Under
  <2>2. \A k \in Loads : Under(k) => k # l /\ Under(k)' /\ call'[k] = call[k]
    BY <1>2, <1>5 DEF Under
  <2> QED BY <1>2, <2>1, <2>2 DEF Pictured, Spins
<1> QED BY <1>4, <1>6, <1>7, TalliedStays DEF Pictured

(* The two reads.                                                          *)
LEMMA PicturedOn ==
    ASSUME NEW u, OneFlusher(u), Pictured(u), UNCHANGED analyticsVars,
           UNCHANGED <<view, usage, loadingUsage, refreshing, complaint>>,
           NEW l \in Loads, Under(l), NEW to \in LoadType, call' = [call EXCEPT ![l] = to],
           to.step # "idle", to.quiet = call[l].quiet, Near(to.answer),
           to.step = "flushed" => to.moved = to.first - to.twice /\ to.moved <= Moved
    PROVE  Pictured(u)'
<1>1. call'[l] = to /\ \A k \in Loads \ {l} : call'[k] = call[k]
  BY DEF Pictured, ShownTyped
<1>2. ShownTyped'
  BY DEF Pictured, ShownTyped
<1>3. ReadsTrue'
  BY <1>1, TalliedStays DEF Pictured, ReadsTrue, Near
<1>4. Spins'
  <2>1. \A k \in Loads : (Under(k)' <=> Under(k)) /\ call'[k].quiet = call[k].quiet
    BY <1>1 DEF Under
  <2> QED BY <2>1 DEF Pictured, Spins
<1> QED BY <1>2, <1>3, <1>4, TalliedStays DEF Pictured

LEMMA PicturedReadFlushed ==
    ASSUME NEW u, OneFlusher(u), Pictured(u), UNCHANGED analyticsVars,
           NEW l \in Loads, ReadFlushed(l)
    PROVE  Pictured(u)'
<1> DEFINE n == db["requests"]
           b == Twice("requests")
           m == Moved - lost["requests"]
           to == [call[l] EXCEPT !.step = "flushed", !.first = n, !.twice = b, !.moved = m]
<1>1. /\ n \in Nat /\ b \in Nat /\ m \in Int /\ m = n - b /\ m <= Moved
  BY MovedIs, TwiceIsBoth DEF Pictured, Fields
<1>2. call[l] \in LoadType /\ Near(call[l].answer) /\ call \in [Loads -> LoadType]
  BY DEF Pictured, ShownTyped, ReadsTrue
<1>3. call' = [call EXCEPT ![l] = to] /\ call[l].step = "sent"
      /\ UNCHANGED <<view, usage, loadingUsage, refreshing, complaint>>
  BY <1>2 DEF ReadFlushed, Reads
<1> HIDE DEF n, b, m
<1>4. /\ to \in LoadType /\ to.step = "flushed" /\ to.quiet = call[l].quiet
      /\ to.answer = call[l].answer /\ to.moved = m /\ to.first = n /\ to.twice = b
  BY <1>1, <1>2 DEF LoadType, CallSteps
<1> HIDE DEF to
<1> QED BY <1>1, <1>2, <1>3, <1>4, PicturedOn DEF Under

LEMMA PicturedReadLive ==
    ASSUME NEW u, OneFlusher(u), Pictured(u), UNCHANGED analyticsVars,
           NEW l \in Loads, ReadLive(l)
    PROVE  Pictured(u)'
<1> DEFINE n == call[l].first + statsHash["requests"]
           lo == Counted - (Moved - call[l].moved)
           hi == Counted + call[l].twice
           r == [used |-> n, low |-> lo, high |-> hi]
           a == {r}
           to == [IdleLoad EXCEPT !.step = "answered", !.quiet = call[l].quiet, !.answer = a]
<1>1. call[l] \in LoadType /\ call \in [Loads -> LoadType] /\ call[l].step = "flushed"
  BY DEF Pictured, ShownTyped, ReadLive
<1>2. call[l].moved = call[l].first - call[l].twice /\ call[l].moved <= Moved
  BY <1>1 DEF Pictured, ReadsTrue
<1>3. n \in Nat /\ lo \in Int /\ hi \in Nat /\ lo <= n /\ n <= hi
  <2>1. /\ call[l].first \in Nat /\ call[l].twice \in Nat /\ call[l].moved \in Int
    BY <1>1 DEF LoadType
  <2>2. Counted \in Nat /\ Moved \in Int /\ statsHash["requests"] \in Nat
    BY MovedIs DEF Pictured
  <2>3. Counted = Moved + statsHash["requests"]
    <3>1. Moved = Counted - statsHash["requests"]
      BY DEF Moved
    <3> HIDE DEF Moved, Counted
    <3> QED BY <2>2, <3>1
  <2> HIDE DEF Moved, Counted
  <2> QED BY <1>2, <2>1, <2>2, <2>3
<1>4. /\ call' = [call EXCEPT ![l] = to]
      /\ UNCHANGED <<view, usage, loadingUsage, refreshing, complaint>>
  BY <1>1 DEF ReadLive, Reads, Total
<1> HIDE DEF n, lo, hi
<1>5. r \in Reading /\ Near(a)
  BY <1>3 DEF Reading, Near
<1> HIDE DEF r
<1>6. a \in SUBSET Reading
  BY <1>5
<1> HIDE DEF a
<1>7. to \in LoadType /\ to.step = "answered" /\ to.quiet = call[l].quiet /\ to.answer = a
  BY <1>1, <1>6, IdleLoadIs DEF LoadType, CallSteps
<1> HIDE DEF to
<1> QED BY <1>1, <1>4, <1>5, <1>7, PicturedOn DEF Under

LEMMA PicturedEnd ==
    ASSUME NEW u, OneFlusher(u), Pictured(u), UNCHANGED analyticsVars,
           NEW l \in Loads, Show(l) \/ FailLoad(l)
    PROVE  Pictured(u)'
<1>1. /\ IdleLoad \in LoadType /\ IdleLoad.step = "idle" /\ IdleLoad.answer = {}
  BY IdleLoadIs
<1>2. /\ call' = [call EXCEPT ![l] = IdleLoad] /\ view' = view
      /\ loadingUsage' = IF view = "summary" /\ call[l].quiet THEN loadingUsage ELSE FALSE
      /\ refreshing' = FALSE
      /\ usage' = usage \/ usage' = call[l].answer
  BY DEF Show, FailLoad, Stopped
<1>3. call'[l] = IdleLoad /\ \A k \in Loads \ {l} : call'[k] = call[k]
  BY <1>2 DEF Pictured, ShownTyped
<1>4. ShownTyped'
  <2>1. complaint' \in BOOLEAN
    <3>1. CASE Show(l) BY <3>1 DEF Show, Pictured, ShownTyped
    <3>2. CASE FailLoad(l)
      <4>1. complaint' = (complaint \/ (view = "tab" /\ ~call[l].quiet))
        BY <3>2 DEF FailLoad
      <4> QED BY <4>1, Zenon
    <3> QED BY <3>1, <3>2
  <2>2. call[l].answer \subseteq Reading /\ call' \in [Loads -> LoadType]
    BY <1>1, <1>2 DEF Pictured, ShownTyped, LoadType
  <2>3. loadingUsage' \in BOOLEAN
    BY <1>2 DEF Pictured, ShownTyped
  <2> QED BY <1>2, <2>1, <2>2, <2>3 DEF Pictured, ShownTyped
<1>5. ReadsTrue'
  BY <1>1, <1>2, <1>3, TalliedStays DEF Pictured, ReadsTrue, Near
<1>6. Spins'
  <2>1. \A k \in Loads \ {l} : (Under(k)' <=> Under(k)) /\ call'[k].quiet = call[k].quiet
    BY <1>3 DEF Under
  <2>2. loadingUsage' => view = "summary" /\ call[l].quiet /\ loadingUsage
    BY <1>2
  <2> QED BY <1>2, <2>1, <2>2 DEF Pictured, Spins
<1> QED BY <1>4, <1>5, <1>6, TalliedStays DEF Pictured

(* Whatever loads overlap, fail and answer late, the console shows a sum   *)
(* that misses at most what was moved between its two reads, and has at    *)
(* most twice what a flush was moving; and no spinner turns for nothing.   *)
THEOREM UsageStaysNear ==
    ASSUME NEW u, OneFlusher(u)
    PROVE  UsageSpec => []UsageIsNear
<1>1. AnalyticsInit /\ UsageInit => Pictured(u)
  BY PicturedInit
<1>2. Pictured(u) /\ [UsageNext]_<<analyticsVars, usageVars>> => Pictured(u)'
  <2> SUFFICES ASSUME Pictured(u), [UsageNext]_<<analyticsVars, usageVars>> PROVE Pictured(u)'
    OBVIOUS
  <2>1. CASE UNCHANGED <<analyticsVars, usageVars>>
    <3>1. ShownTyped' /\ Spins'
      BY <2>1 DEF Pictured, ShownTyped, Spins, Under, usageVars
    <3>2. ReadsTrue'
      BY <2>1, TalliedStays DEF Pictured, ReadsTrue, Near, usageVars
    <3> QED BY <2>1, <3>1, <3>2, TalliedStays DEF Pictured
  <2>2. ASSUME NEW l \in Loads, LoadStep(l), UNCHANGED analyticsVars PROVE Pictured(u)'
    <3>1. ASSUME NEW quiet \in BOOLEAN, StartLoad(l, quiet) PROVE Pictured(u)'
      BY <2>2, <3>1, PicturedStart
    <3> QED BY <2>2, <3>1, PicturedReadFlushed, PicturedReadLive, PicturedEnd DEF LoadStep
  <2> QED BY <2>1, <2>2, PicturedServe DEF UsageNext
<1>3. Pictured(u) => UsageIsNear
  BY DEF Pictured, ReadsTrue, Near, NearlyAll, Spins, SpinnersStop, UsageIsNear
<1> QED BY <1>1, <1>2, <1>3, PTL DEF UsageSpec

-----------------------------------------------------------------------------
(* The LRU: what its items add up to.                                      *)

SumsTo(s, N, f) == f = [n \in 0..N |-> IF n = 0 THEN 0 ELSE f[n - 1] + s[n].size]

LEMMA SumsAre ==
    ASSUME NEW s \in Seq(EntryRecords)
    PROVE  /\ Sums(s)[0] = 0
           /\ \A n \in 1..Len(s) : Sums(s)[n] = Sums(s)[n - 1] + s[n].size
<1> DEFINE T == {N \in 0..Len(s) : \E f : SumsTo(s, N, f)}
<1>1. 0 \in T
  <2> DEFINE f == [n \in 0..0 |-> 0]
  <2>1. SumsTo(s, 0, f)
    BY DEF SumsTo
  <2> QED BY <2>1
<1>2. \A N \in 0..Len(s) : N \in T /\ N < Len(s) => N + 1 \in T
  <2> SUFFICES ASSUME NEW N \in 0..Len(s), N < Len(s), NEW f, SumsTo(s, N, f)
               PROVE  \E g : SumsTo(s, N + 1, g)
    OBVIOUS
  <2> DEFINE g == [n \in 0..(N + 1) |-> IF n = N + 1 THEN f[N] + s[N + 1].size ELSE f[n]]
  <2>1. \A n \in 0..N : f[n] = IF n = 0 THEN 0 ELSE f[n - 1] + s[n].size
    BY DEF SumsTo
  <2>2. \A n \in 0..(N + 1) : g[n] = IF n = 0 THEN 0 ELSE g[n - 1] + s[n].size
    BY <2>1
  <2>3. g = [n \in 0..(N + 1) |-> g[n]]
    OBVIOUS
  <2> HIDE DEF g
  <2>4. SumsTo(s, N + 1, g)
    BY <2>2, <2>3 DEF SumsTo
  <2> QED BY <2>4
<1>3. PICK f : SumsTo(s, Len(s), f)
  <2> HIDE DEF T
  <2>1. Len(s) \in Nat /\ Len(s) \in 0..Len(s)
    OBVIOUS
  <2>2. Len(s) \in T
    BY <1>1, <1>2, <2>1, Reaches
  <2> QED BY <2>2 DEF T
<1>4. SumsTo(s, Len(s), Sums(s))
  BY <1>3 DEF Sums, SumsTo
<1> QED BY <1>4 DEF SumsTo

LEMMA SizesTyped ==
    ASSUME NEW s \in Seq(EntryRecords)
    PROVE  \A n \in 1..Len(s) : s[n] \in EntryRecords /\ s[n].size \in Nat
<1> SUFFICES ASSUME NEW n \in 1..Len(s) PROVE s[n] \in EntryRecords /\ s[n].size \in Nat
  OBVIOUS
<1>1. s[n] \in EntryRecords
  OBVIOUS
<1> QED BY <1>1, LruAssumption DEF EntryRecords

LEMMA SumsTyped ==
    ASSUME NEW s \in Seq(EntryRecords) PROVE \A n \in 0..Len(s) : Sums(s)[n] \in Nat
<1> DEFINE T == {n \in 0..Len(s) : Sums(s)[n] \in Nat}
<1>1. 0 \in T
  BY SumsAre
<1>2. \A n \in 0..Len(s) : n \in T /\ n < Len(s) => n + 1 \in T
  <2> SUFFICES ASSUME NEW n \in 0..Len(s), Sums(s)[n] \in Nat, n < Len(s)
               PROVE  Sums(s)[n + 1] \in Nat
    OBVIOUS
  <2>1. n + 1 \in 1..Len(s) /\ n + 1 - 1 = n
    OBVIOUS
  <2>2. s[n + 1].size \in Nat
    BY <2>1, SizesTyped
  <2>3. Sums(s)[n + 1] = Sums(s)[n] + s[n + 1].size
    BY <2>1, SumsAre
  <2> QED BY <2>2, <2>3
<1> HIDE DEF T
<1>3. \A n \in 0..Len(s) : n \in T
  <2>1. Len(s) \in Nat
    OBVIOUS
  <2> QED BY <1>1, <1>2, <2>1, Reaches
<1> QED BY <1>3 DEF T

(* Stretches of the same sizes have the same sum.                          *)
SameSizes(s, a, t, b, m) == \A i \in 1..m : s[a + i].size = t[b + i].size

LEMMA SumsAgree ==
    ASSUME NEW s \in Seq(EntryRecords), NEW t \in Seq(EntryRecords),
           NEW a \in Nat, NEW b \in Nat, NEW m \in Nat, NEW c \in 0..Len(s), NEW d \in 0..Len(t),
           SameSizes(s, a, t, b, m), c = a + m, d = b + m
    PROVE  Sums(s)[c] - Sums(s)[a] = Sums(t)[d] - Sums(t)[b]
<1>0. m \in Nat /\ a + m = c /\ b + m = d /\ a + m <= Len(s) /\ b + m <= Len(t)
  OBVIOUS
<1> DEFINE T == {i \in 0..m : Sums(s)[a + i] - Sums(s)[a] = Sums(t)[b + i] - Sums(t)[b]}
<1>1. 0 \in T
  <2>1. a \in 0..Len(s) /\ b \in 0..Len(t)
    BY <1>0
  <2>2. Sums(s)[a] \in Nat /\ Sums(t)[b] \in Nat
    BY <2>1, SumsTyped
  <2> QED BY <1>0, <2>2
<1>2. \A i \in 0..m : i \in T /\ i < m => i + 1 \in T
  <2> SUFFICES ASSUME NEW i \in 0..m, i < m, Sums(s)[a + i] - Sums(s)[a] = Sums(t)[b + i] - Sums(t)[b]
               PROVE  Sums(s)[a + (i + 1)] - Sums(s)[a] = Sums(t)[b + (i + 1)] - Sums(t)[b]
    BY <1>0
  <2> HIDE DEF T
  <2>1. /\ a + (i + 1) \in 1..Len(s) /\ a + (i + 1) - 1 = a + i /\ a + i \in 0..Len(s)
        /\ b + (i + 1) \in 1..Len(t) /\ b + (i + 1) - 1 = b + i /\ b + i \in 0..Len(t)
        /\ a \in 0..Len(s) /\ b \in 0..Len(t)
    BY <1>0
  <2>2. /\ Sums(s)[a + (i + 1)] = Sums(s)[a + i] + s[a + (i + 1)].size
        /\ Sums(t)[b + (i + 1)] = Sums(t)[b + i] + t[b + (i + 1)].size
    BY <2>1, SumsAre
  <2>3. s[a + (i + 1)].size = t[b + (i + 1)].size /\ s[a + (i + 1)].size \in Nat
    <3>1. i + 1 \in 1..m
      BY <1>0
    <3> QED BY <2>1, <3>1, SizesTyped DEF SameSizes
  <2>4. Sums(s)[a + i] \in Nat /\ Sums(t)[b + i] \in Nat /\ Sums(s)[a] \in Nat /\ Sums(t)[b] \in Nat
    BY <2>1, SumsTyped
  <2> DEFINE x == Sums(s)[a + i]
             y == Sums(t)[b + i]
             z == s[a + (i + 1)].size
             x1 == Sums(s)[a + (i + 1)]
             y1 == Sums(t)[b + (i + 1)]
             x0 == Sums(s)[a]
             y0 == Sums(t)[b]
  <2>5. /\ x1 = x + z /\ y1 = y + z /\ x - x0 = y - y0
        /\ x \in Nat /\ y \in Nat /\ z \in Nat /\ x0 \in Nat /\ y0 \in Nat
    BY <2>2, <2>3, <2>4
  <2> HIDE DEF x, y, z, x1, y1, x0, y0
  <2>6. x1 - x0 = y1 - y0
    BY <2>5
  <2> QED BY <2>6 DEF x, y, z, x1, y1, x0, y0
<1> HIDE DEF T
<1>3. m \in T
  <2>1. \A i \in 0..m : i \in T
    BY <1>0, <1>1, <1>2, Reaches
  <2> QED BY <1>0, <2>1
<1> QED BY <1>0, <1>3 DEF T

LEMMA BytesOfAppend ==
    ASSUME NEW s \in Seq(EntryRecords), NEW e \in EntryRecords
    PROVE  BytesOf(s) \in Nat /\ BytesOf(Append(s, e)) = BytesOf(s) + e.size
<1> DEFINE t == Append(s, e)
<1>1. /\ t \in Seq(EntryRecords) /\ Len(t) = Len(s) + 1 /\ t[Len(t)] = e
      /\ \A i \in 1..Len(s) : t[i] = s[i]
  OBVIOUS
<1> HIDE DEF t
<1>2. Len(s) \in Nat
  OBVIOUS
<1>3. Sums(s)[Len(s)] - Sums(s)[0] = Sums(t)[Len(s)] - Sums(t)[0]
  <2>1. /\ 0 \in Nat /\ Len(s) \in 0..Len(s) /\ Len(s) \in 0..Len(t)
        /\ SameSizes(s, 0, t, 0, Len(s)) /\ Len(s) = 0 + Len(s)
    BY <1>1, <1>2 DEF SameSizes
  <2> QED BY <1>1, <1>2, <2>1, SumsAgree
<1>4. /\ Sums(s)[0] = 0 /\ Sums(t)[0] = 0 /\ Sums(s)[Len(s)] \in Nat /\ Sums(t)[Len(s)] \in Nat
      /\ Sums(t)[Len(t)] = Sums(t)[Len(s)] + e.size
  BY <1>1, <1>2, SumsAre, SumsTyped
<1>5. BytesOf(t) = BytesOf(s) + e.size
  BY <1>2, <1>3, <1>4 DEF BytesOf
<1> QED BY <1>4, <1>5 DEF BytesOf, t

LEMMA BytesOfSplit ==
    ASSUME NEW s \in Seq(EntryRecords), NEW n \in 0..Len(s)
    PROVE  /\ SubSeq(s, 1, n) \in Seq(EntryRecords) /\ SubSeq(s, n + 1, Len(s)) \in Seq(EntryRecords)
           /\ BytesOf(SubSeq(s, 1, n)) \in Nat
           /\ BytesOf(SubSeq(s, n + 1, Len(s))) = BytesOf(s) - BytesOf(SubSeq(s, 1, n))
<1> DEFINE p == SubSeq(s, 1, n)
           r == SubSeq(s, n + 1, Len(s))
<1>1. /\ p \in Seq(EntryRecords) /\ Len(p) = n /\ \A i \in 1..n : p[i] = s[i]
      /\ r \in Seq(EntryRecords) /\ Len(r) = Len(s) - n /\ \A i \in 1..Len(r) : r[i] = s[n + i]
      /\ n \in Nat /\ Len(s) \in Nat /\ Len(s) - n \in Nat
  OBVIOUS
<1> HIDE DEF p, r
<1>2. Sums(p)[n] - Sums(p)[0] = Sums(s)[n] - Sums(s)[0]
  <2>1. /\ 0 \in Nat /\ n \in 0..Len(s) /\ n \in 0..Len(p)
        /\ SameSizes(p, 0, s, 0, n) /\ n = 0 + n
    BY <1>1 DEF SameSizes
  <2> QED BY <1>1, <2>1, SumsAgree
<1>3. Sums(r)[Len(r)] - Sums(r)[0] = Sums(s)[Len(s)] - Sums(s)[n]
  <2>1. /\ 0 \in Nat /\ Len(r) \in 0..Len(r) /\ Len(s) \in 0..Len(s)
        /\ Len(r) = 0 + Len(r) /\ Len(s) = n + Len(r) /\ Len(r) \in Nat
    BY <1>1
  <2>2. SameSizes(r, 0, s, n, Len(r))
    BY <1>1 DEF SameSizes
  <2> DEFINE m == Len(r)
  <2>3. /\ m \in Nat /\ m \in 0..Len(r) /\ Len(s) \in 0..Len(s) /\ SameSizes(r, 0, s, n, m)
        /\ m = 0 + m /\ Len(s) = n + m /\ 0 \in Nat
    BY <2>1, <2>2
  <2> HIDE DEF m
  <2>4. Sums(r)[m] - Sums(r)[0] = Sums(s)[Len(s)] - Sums(s)[n]
    BY <1>1, <2>3, SumsAgree
  <2> QED BY <2>4 DEF m
<1>4. /\ Sums(p)[0] = 0 /\ Sums(r)[0] = 0 /\ Sums(s)[0] = 0
      /\ Sums(p)[n] \in Nat /\ Sums(s)[n] \in Nat /\ Sums(s)[Len(s)] \in Nat /\ Sums(r)[Len(r)] \in Nat
  BY <1>1, SumsAre, SumsTyped
<1>5. BytesOf(r) = BytesOf(s) - BytesOf(p)
  BY <1>1, <1>2, <1>3, <1>4 DEF BytesOf
<1> QED BY <1>1, <1>4, <1>5 DEF BytesOf, p, r

LEMMA BytesOfRemoved ==
    ASSUME NEW s \in Seq(EntryRecords), NEW p \in 1..Len(s)
    PROVE  LET t == RemoveAt(s, p) IN
           /\ t \in Seq(EntryRecords) /\ Len(t) = Len(s) - 1
           /\ \A i \in 1..Len(t) : t[i] = IF i < p THEN s[i] ELSE s[i + 1]
           /\ s[p].size \in Nat /\ BytesOf(t) = BytesOf(s) - s[p].size
<1> DEFINE t == RemoveAt(s, p)
<1>1. /\ t \in Seq(EntryRecords) /\ Len(t) = Len(s) - 1
      /\ \A i \in 1..Len(t) : t[i] = IF i < p THEN s[i] ELSE s[i + 1]
  <2> DEFINE u == SubSeq(s, 1, p - 1)
             v == SubSeq(s, p + 1, Len(s))
  <2>1. /\ u \in Seq(EntryRecords) /\ Len(u) = p - 1 /\ \A i \in 1..Len(u) : u[i] = s[i]
        /\ v \in Seq(EntryRecords) /\ Len(v) = Len(s) - p /\ \A i \in 1..Len(v) : v[i] = s[p + i]
    OBVIOUS
  <2>2. t = u \o v
    BY DEF RemoveAt
  <2> HIDE DEF u, v, t
  <2>3. /\ t \in Seq(EntryRecords) /\ Len(t) = Len(s) - 1
        /\ \A i \in 1..Len(t) : t[i] = IF i <= Len(u) THEN u[i] ELSE v[i - Len(u)]
    <3>1. t \in Seq(EntryRecords) /\ Len(t) = Len(u) + Len(v)
      BY <2>1, <2>2, ConcatProperties
    <3>2. \A i \in 1..(Len(u) + Len(v)) : t[i] = IF i <= Len(u) THEN u[i] ELSE v[i - Len(u)]
      BY <2>1, <2>2, ConcatProperties
    <3>3. Len(u) + Len(v) = Len(s) - 1
      BY <2>1
    <3> QED BY <3>1, <3>2, <3>3
  <2>4. \A i \in 1..Len(t) : t[i] = IF i < p THEN s[i] ELSE s[i + 1]
    <3> SUFFICES ASSUME NEW i \in 1..Len(t) PROVE t[i] = IF i < p THEN s[i] ELSE s[i + 1]
      OBVIOUS
    <3>1. CASE i < p
      <4>1. i <= Len(u) /\ i \in 1..Len(u)
        BY <2>1, <3>1
      <4>2. t[i] = u[i] /\ u[i] = s[i]
        BY <2>1, <2>3, <4>1
      <4> QED BY <3>1, <4>2
    <3>2. CASE ~(i < p)
      <4>1. i - Len(u) \in 1..Len(v) /\ p + (i - Len(u)) = i + 1 /\ ~(i <= Len(u))
        BY <2>1, <2>3, <3>2
      <4>2. t[i] = v[i - Len(u)] /\ v[i - Len(u)] = s[i + 1]
        BY <2>1, <2>3, <4>1
      <4> QED BY <3>2, <4>2
    <3> QED BY <3>1, <3>2
  <2> QED BY <2>3, <2>4
<1> HIDE DEF t
<1>2. p - 1 \in Nat /\ p \in Nat /\ Len(s) - p \in Nat /\ Len(s) \in Nat
  OBVIOUS
<1>3. Sums(s)[p - 1] - Sums(s)[0] = Sums(t)[p - 1] - Sums(t)[0]
  <2>1. SameSizes(s, 0, t, 0, p - 1)
    BY <1>1, <1>2 DEF SameSizes
  <2>2. 0 \in Nat /\ p - 1 \in 0..Len(s) /\ p - 1 \in 0..Len(t) /\ p - 1 = 0 + (p - 1)
    BY <1>1, <1>2
  <2> QED BY <1>1, <1>2, <2>1, <2>2, SumsAgree
<1>4. Sums(s)[Len(s)] - Sums(s)[p] = Sums(t)[Len(t)] - Sums(t)[p - 1]
  <2>1. SameSizes(s, p, t, p - 1, Len(s) - p)
    <3> SUFFICES ASSUME NEW i \in 1..(Len(s) - p) PROVE s[p + i].size = t[(p - 1) + i].size
      BY DEF SameSizes
    <3>1. (p - 1) + i \in 1..Len(t) /\ ~((p - 1) + i < p) /\ (p - 1) + i + 1 = p + i
      BY <1>1, <1>2
    <3> QED BY <1>1, <3>1
  <2>2. Len(s) \in 0..Len(s) /\ Len(t) \in 0..Len(t) /\ Len(s) = p + (Len(s) - p) /\ Len(t) = (p - 1) + (Len(s) - p)
    BY <1>1, <1>2
  <2> QED BY <1>1, <1>2, <2>1, <2>2, SumsAgree
<1>5. /\ Sums(s)[0] = 0 /\ Sums(t)[0] = 0 /\ Sums(s)[p] = Sums(s)[p - 1] + s[p].size
      /\ Sums(s)[p - 1] \in Nat /\ Sums(t)[p - 1] \in Nat /\ Sums(s)[p] \in Nat
      /\ Sums(s)[Len(s)] \in Nat /\ Sums(t)[Len(t)] \in Nat
  BY <1>1, <1>2, SumsAre, SumsTyped
<1>6. s[p].size \in Nat
  BY SizesTyped
<1>7. BytesOf(t) = BytesOf(s) - s[p].size
  <2> DEFINE before == Sums(s)[p - 1]
             upTo == Sums(s)[p]
             all == Sums(s)[Len(s)]
             z == s[p].size
             rest == Sums(t)[Len(t)]
             same == Sums(t)[p - 1]
  <2>1. /\ before - 0 = same - 0 /\ all - upTo = rest - same /\ upTo = before + z
        /\ before \in Nat /\ same \in Nat /\ upTo \in Nat /\ all \in Nat /\ rest \in Nat /\ z \in Nat
    BY <1>3, <1>4, <1>5, <1>6
  <2> HIDE DEF before, upTo, all, z, rest, same
  <2>2. rest = all - z
    BY <2>1
  <2> QED BY <2>2 DEF BytesOf, all, z, rest
<1> QED BY <1>1, <1>6, <1>7 DEF t

-----------------------------------------------------------------------------
(* The LRU: the order of its items.                                        *)

Lone(s) == \A i, j \in 1..Len(s) : s[i].key = s[j].key => i = j
Aged(s, uses) == \A i, j \in 1..Len(s) : i < j => <<s[j].key, s[i].key>> \in uses
Lacks(s, k) == \A i \in 1..Len(s) : s[i].key # k

UsesAfter(uses, k) == {p \in uses : p[2] # k} \cup {<<k, l>> : l \in LruKeys \ {k}}

(* The items are in the order of their use, each once, and their sizes     *)
(* add up.                                                                 *)
LruSafe ==
    /\ entries \in Seq(EntryRecords)
    /\ WithinBudget
    /\ Lone(entries) /\ Aged(entries, later)

LEMMA KeysTyped ==
    ASSUME NEW s \in Seq(EntryRecords) PROVE \A i \in 1..Len(s) : s[i].key \in LruKeys
<1> SUFFICES ASSUME NEW i \in 1..Len(s) PROVE s[i].key \in LruKeys
  OBVIOUS
<1>1. s[i] \in EntryRecords
  OBVIOUS
<1> QED BY <1>1 DEF EntryRecords

LEMMA OneRemoved ==
    ASSUME NEW s \in Seq(EntryRecords), Lone(s), NEW uses, Aged(s, uses), NEW p \in 1..Len(s)
    PROVE  LET t == RemoveAt(s, p) IN
           /\ Lone(t) /\ Aged(t, uses) /\ Lacks(t, s[p].key)
           /\ \A i \in 1..Len(s) : i # p => \E h \in 1..Len(t) : t[h].key = s[i].key
<1> DEFINE t == RemoveAt(s, p)
           At(i) == IF i < p THEN i ELSE i + 1
<1>0. Len(s) \in Nat /\ p \in Nat
  OBVIOUS
<1>1. Len(t) = Len(s) - 1
  BY BytesOfRemoved
<1>2. \A i \in 1..Len(t) : At(i) \in 1..Len(s) /\ At(i) # p /\ t[i] = s[At(i)]
  <2>1. \A i \in 1..Len(t) : t[i] = IF i < p THEN s[i] ELSE s[i + 1]
    BY BytesOfRemoved
  <2> HIDE DEF t
  <2> SUFFICES ASSUME NEW i \in 1..Len(t)
               PROVE  At(i) \in 1..Len(s) /\ At(i) # p /\ t[i] = s[At(i)]
    OBVIOUS
  <2>2. CASE i < p
    BY <1>0, <1>1, <2>1, <2>2
  <2>3. CASE ~(i < p)
    BY <1>0, <1>1, <2>1, <2>3
  <2> QED BY <2>2, <2>3
<1>3. \A i, j \in 1..Len(t) : (At(i) = At(j) => i = j) /\ (i < j => At(i) < At(j))
  BY <1>1
<1>4. \A i \in 1..Len(s) : i # p => \E h \in 1..Len(t) : At(h) = i
  <2> SUFFICES ASSUME NEW i \in 1..Len(s), i # p PROVE \E h \in 1..Len(t) : At(h) = i
    OBVIOUS
  <2>1. CASE i < p
    <3>1. i \in 1..Len(t) /\ At(i) = i
      BY <1>1, <2>1
    <3> QED BY <3>1
  <2>2. CASE ~(i < p)
    <3>1. i - 1 \in 1..Len(t) /\ At(i - 1) = i
      BY <1>1, <2>2
    <3> QED BY <3>1
  <2> QED BY <2>1, <2>2
<1> HIDE DEF t, At
<1>5. Lone(t)
  BY <1>2, <1>3 DEF Lone
<1>6. Aged(t, uses)
  BY <1>2, <1>3 DEF Aged
<1>7. Lacks(t, s[p].key)
  BY <1>2 DEF Lone, Lacks
<1>8. \A i \in 1..Len(s) : i # p => \E h \in 1..Len(t) : t[h].key = s[i].key
  BY <1>2, <1>4
<1> QED BY <1>5, <1>6, <1>7, <1>8 DEF t

LEMMA OldestCut ==
    ASSUME NEW s \in Seq(EntryRecords), Lone(s), NEW uses, Aged(s, uses), NEW k, Lacks(s, k),
           NEW n \in 0..Len(s)
    PROVE  LET r == SubSeq(s, n + 1, Len(s)) IN
           /\ Len(r) = Len(s) - n /\ \A i \in 1..Len(r) : r[i] = s[n + i]
           /\ Lone(r) /\ Aged(r, uses) /\ Lacks(r, k)
<1> DEFINE r == SubSeq(s, n + 1, Len(s))
<1>1. /\ Len(r) = Len(s) - n /\ n \in Nat /\ Len(s) \in Nat /\ Len(r) \in Nat
      /\ \A i \in 1..Len(r) : r[i] = s[n + i]
  OBVIOUS
<1> HIDE DEF r
<1>2. /\ \A i \in 1..Len(r) : n + i \in 1..Len(s)
      /\ \A i, j \in 1..Len(r) : (n + i = n + j => i = j) /\ (i < j => n + i < n + j)
  BY <1>1
<1>3. Lone(r)
  BY <1>1, <1>2 DEF Lone
<1>4. Aged(r, uses)
  BY <1>1, <1>2 DEF Aged
<1>5. Lacks(r, k)
  BY <1>1, <1>2 DEF Lacks
<1> QED BY <1>1, <1>3, <1>4, <1>5 DEF r

LEMMA NewestAppended ==
    ASSUME NEW s \in Seq(EntryRecords), Lone(s), NEW uses, Aged(s, uses),
           NEW e \in EntryRecords, Lacks(s, e.key)
    PROVE  Lone(Append(s, e)) /\ Aged(Append(s, e), UsesAfter(uses, e.key))
<1> DEFINE t == Append(s, e)
           k == e.key
<1>1. /\ Len(t) = Len(s) + 1 /\ Len(s) \in Nat /\ t[Len(t)] = e
      /\ \A i \in 1..Len(s) : t[i] = s[i]
  OBVIOUS
<1>2. \A i \in 1..Len(t) : i \in 1..Len(s) \/ i = Len(t)
  BY <1>1
<1>3. k \in LruKeys /\ \A i \in 1..Len(s) : s[i].key \in LruKeys
  BY KeysTyped DEF EntryRecords
<1> HIDE DEF t
<1>4. Lone(t)
  BY <1>1, <1>2 DEF Lone, Lacks
<1>5. Aged(t, UsesAfter(uses, k))
  <2> SUFFICES ASSUME NEW i \in 1..Len(t), NEW j \in 1..Len(t), i < j
               PROVE  <<t[j].key, t[i].key>> \in UsesAfter(uses, k)
    BY DEF Aged
  <2>1. i \in 1..Len(s) /\ t[i] = s[i] /\ s[i].key # k /\ s[i].key \in LruKeys
    BY <1>1, <1>3 DEF Lacks
  <2>2. CASE j \in 1..Len(s)
    <3>1. <<s[j].key, s[i].key>> \in uses
      BY <2>1, <2>2 DEF Aged
    <3> QED BY <1>1, <2>1, <2>2, <3>1 DEF UsesAfter
  <2>3. CASE j = Len(t)
    <3>1. t[j].key = k
      BY <1>1, <2>3
    <3> QED BY <2>1, <3>1 DEF UsesAfter
  <2> QED BY <1>2, <2>2, <2>3
<1> QED BY <1>4, <1>5 DEF t

(* What is there besides an item.                                          *)
LEMMA OthersAre ==
    ASSUME LruSafe, NEW k \in LruKeys
    PROVE  /\ Others(k) \in Seq(EntryRecords) /\ Len(Others(k)) \in Nat
           /\ Len(Others(k)) <= Len(entries)
           /\ BytesWithout(k) = BytesOf(Others(k)) /\ BytesWithout(k) \in Nat
           /\ BytesWithout(k) <= bytes /\ bytes \in Nat
           /\ Lone(Others(k)) /\ Aged(Others(k), later) /\ Lacks(Others(k), k)
           /\ \A i \in 1..Len(entries) : entries[i].key # k =>
                 \E h \in 1..Len(Others(k)) : Others(k)[h].key = entries[i].key
           /\ IsHeld(k) => /\ PlaceOf(k) \in 1..Len(entries) /\ entries[PlaceOf(k)] \in EntryRecords
                           /\ entries[PlaceOf(k)].key = k
                           /\ Len(Others(k)) = Len(entries) - 1
                           /\ bytes = BytesWithout(k) + entries[PlaceOf(k)].size
<1> DEFINE p == PlaceOf(k)
<1>1. /\ entries \in Seq(EntryRecords) /\ bytes = BytesOf(entries) /\ Lone(entries) /\ Aged(entries, later)
      /\ DOMAIN entries = 1..Len(entries) /\ Len(entries) \in Nat
  BY DEF LruSafe, WithinBudget
<1>2. bytes \in Nat
  BY <1>1, LruAssumption, BytesOfSplit, SumsTyped DEF BytesOf
<1>3. CASE IsHeld(k)
  <2>1. p \in 1..Len(entries) /\ entries[p].key = k
    BY <1>1, <1>3 DEF IsHeld, PlaceOf
  <2>2. Others(k) = RemoveAt(entries, p) /\ BytesWithout(k) = bytes - entries[p].size
    BY <1>3 DEF Others, BytesWithout
  <2>3. \A i \in 1..Len(entries) : entries[i].key # k => i # p
    BY <2>1
  <2>4. entries[p] \in EntryRecords
    BY <1>1, <2>1
  <2> DEFINE t == RemoveAt(entries, p)
             z == entries[p].size
  <2>5. /\ t \in Seq(EntryRecords) /\ Len(t) = Len(entries) - 1 /\ z \in Nat /\ BytesOf(t) = BytesOf(entries) - z
    BY <1>1, <2>1, BytesOfRemoved
  <2>6. /\ Lone(t) /\ Aged(t, later) /\ Lacks(t, entries[p].key)
        /\ \A i \in 1..Len(entries) : i # p => \E h \in 1..Len(t) : t[h].key = entries[i].key
    BY <1>1, <2>1, OneRemoved
  <2>7. BytesOf(t) \in Nat
    BY <2>5, SumsTyped DEF BytesOf
  <2> HIDE DEF p, t, z
  <2>8. Len(t) \in Nat /\ Len(t) <= Len(entries)
    BY <1>1, <2>1, <2>5
  <2>9. Others(k) = t /\ BytesWithout(k) = bytes - z /\ bytes - z = BytesOf(t)
    BY <1>1, <2>2, <2>5 DEF t, z
  <2>10. bytes - z <= bytes /\ bytes = (bytes - z) + z
    BY <1>2, <2>5
  <2> QED BY <1>2, <1>3, <2>1, <2>3, <2>4, <2>5, <2>6, <2>7, <2>8, <2>9, <2>10 DEF p, z
<1>4. CASE ~IsHeld(k)
  <2>1. Others(k) = entries /\ BytesWithout(k) = bytes
    BY <1>4 DEF Others, BytesWithout
  <2>2. Lacks(entries, k)
    BY <1>1, <1>4 DEF Lacks, IsHeld
  <2>3. \A i \in 1..Len(entries) : \E h \in 1..Len(entries) : entries[h].key = entries[i].key
    OBVIOUS
  <2>4. bytes <= bytes /\ Len(entries) <= Len(entries)
    BY <1>1, <1>2
  <2> QED BY <1>1, <1>2, <1>4, <2>1, <2>2, <2>3, <2>4
<1> QED BY <1>3, <1>4

LEMMA EvictionsFit ==
    ASSUME NEW s \in Seq(EntryRecords), NEW total, NEW size
    PROVE  LET n == Evictions(s, total, size) IN
           /\ n \in 0..Len(s)
           /\ \/ n = Len(s)
              \/ /\ Len(s) - n < LruCapacity
                 /\ MaxBytes = 0 \/ total - BytesOf(SubSeq(s, 1, n)) + size <= MaxBytes
<1> DEFINE Suffices(m) ==
               \/ m = Len(s)
               \/ /\ Len(s) - m < LruCapacity
                  /\ MaxBytes = 0 \/ total - BytesOf(SubSeq(s, 1, m)) + size <= MaxBytes
           D == {m \in 0..Len(s) : Suffices(m)}
<1>1. Len(s) \in D /\ D \subseteq Nat /\ D \subseteq 0..Len(s)
  OBVIOUS
<1>2. Evictions(s, total, size) =
          CHOOSE n \in 0..Len(s) : Suffices(n) /\ \A m \in 0..(n - 1) : ~Suffices(m)
  BY DEF Evictions
<1>3. \A m \in 0..Len(s) : m \in D <=> Suffices(m)
  OBVIOUS
<1> HIDE DEF D, Suffices
<1>4. PICK x \in D : \A y \in D : ~(y < x)
  BY <1>1, LeastOf
<1>5. x \in 0..Len(s) /\ Suffices(x)
  BY <1>1, <1>3
<1>6. \A m \in 0..(x - 1) : ~Suffices(m)
  <2> SUFFICES ASSUME NEW m \in 0..(x - 1), Suffices(m) PROVE FALSE
    OBVIOUS
  <2>1. m \in 0..Len(s) /\ m < x
    BY <1>5
  <2> QED BY <1>3, <1>4, <2>1
<1>7. Evictions(s, total, size) \in 0..Len(s) /\ Suffices(Evictions(s, total, size))
  BY <1>2, <1>5, <1>6
<1> QED BY <1>7 DEF Suffices

(* What is stored: every older item of the key, and the oldest of the      *)
(* others, are gone.                                                       *)
LEMMA Stored ==
    ASSUME LruSafe, NEW k \in LruKeys, NEW size \in Sizes, SetItem(k, size)
    PROVE  /\ LruSafe'
           /\ \A l, m \in LruKeys \ {k} :
                 IsHeld(m) /\ ~IsHeld(m)' /\ IsHeld(l)' => <<l, m>> \in later
<1> DEFINE o == Others(k)
           n == Evictions(o, BytesWithout(k), size)
           r == SubSeq(o, n + 1, Len(o))
           e == [key |-> k, size |-> size, expired |-> FALSE]
           gone == BytesOf(SubSeq(o, 1, n))
<1>1. /\ o \in Seq(EntryRecords) /\ Len(o) \in Nat
      /\ BytesWithout(k) = BytesOf(o) /\ BytesWithout(k) \in Nat
      /\ Lone(o) /\ Aged(o, later) /\ Lacks(o, k)
      /\ \A i \in 1..Len(entries) : entries[i].key # k => \E h \in 1..Len(o) : o[h].key = entries[i].key
  BY OthersAre
<1>2. e \in EntryRecords /\ e.key = k /\ e.size = size /\ size \in Nat
  BY LruAssumption DEF EntryRecords
<1>3. entries' = Append(r, e) /\ bytes' = BytesWithout(k) - gone + size /\ later' = UsesAfter(later, k)
  BY DEF SetItem, Uses, UsesAfter
<1> HIDE DEF o
<1>4. /\ n \in 0..Len(o)
      /\ \/ n = Len(o)
         \/ /\ Len(o) - n < LruCapacity
            /\ MaxBytes = 0 \/ BytesWithout(k) - gone + size <= MaxBytes
  BY <1>1, EvictionsFit
<1> HIDE DEF n
<1>5. r \in Seq(EntryRecords) /\ gone \in Nat /\ BytesOf(r) = BytesOf(o) - gone
  BY <1>1, <1>4, BytesOfSplit
<1>6. /\ Len(r) = Len(o) - n /\ \A i \in 1..Len(r) : r[i] = o[n + i]
      /\ Lone(r) /\ Aged(r, later) /\ Lacks(r, k)
  BY <1>1, <1>4, OldestCut
<1> HIDE DEF r, e, gone
<1>7. entries' \in Seq(EntryRecords) /\ Len(entries') = Len(r) + 1
  BY <1>2, <1>3, <1>5
<1>8. Lone(entries') /\ Aged(entries', later')
  BY <1>2, <1>3, <1>5, <1>6, NewestAppended
<1>9. bytes' = BytesOf(entries')
  <2>1. BytesOf(entries') = BytesOf(r) + size
    BY <1>2, <1>3, <1>5, BytesOfAppend
  <2> QED BY <1>1, <1>3, <1>5, <2>1
<1>10. Len(entries') <= LruCapacity /\ (MaxBytes > 0 /\ Len(entries') > 1 => bytes' <= MaxBytes)
  BY <1>1, <1>3, <1>4, <1>6, <1>7, LruAssumption
<1>11. LruSafe'
  <2>1. WithinBudget'
    BY <1>9, <1>10 DEF WithinBudget, BytesOf
  <2> QED BY <1>7, <1>8, <2>1 DEF LruSafe, Lone, Aged
<1>12. ASSUME NEW l \in LruKeys \ {k}, NEW m \in LruKeys \ {k}, IsHeld(m), ~IsHeld(m)', IsHeld(l)'
       PROVE  <<l, m>> \in later
  <2>0. /\ DOMAIN entries = 1..Len(entries) /\ DOMAIN entries' = 1..Len(entries')
        /\ entries'[Len(entries')] = e /\ \A i \in 1..Len(r) : entries'[i] = r[i] /\ i \in 1..Len(entries')
        /\ \A i \in 1..Len(entries') : i \in 1..Len(r) \/ i = Len(entries')
    BY <1>2, <1>3, <1>5, <1>7 DEF LruSafe
  <2>1. PICK i \in 1..Len(entries) : entries[i].key = m
    BY <1>12, <2>0 DEF IsHeld
  <2>2. PICK h \in 1..Len(o) : o[h].key = m
    BY <1>1, <2>1
  <2>3. PICK j \in 1..Len(entries') : entries'[j].key = l
    BY <1>12, <2>0 DEF IsHeld
  <2>4. j \in 1..Len(r) /\ o[n + j].key = l
    BY <1>2, <1>6, <2>0, <2>3
  <2>5. ~(n < h)
    <3> SUFFICES ASSUME n < h PROVE FALSE
      OBVIOUS
    <3>1. h - n \in 1..Len(r) /\ n + (h - n) = h
      BY <1>1, <1>4, <1>6
    <3>2. entries'[h - n].key = m /\ h - n \in 1..Len(entries')
      BY <1>6, <2>0, <2>2, <3>1
    <3> QED BY <1>12, <2>0, <3>2 DEF IsHeld
  <2>6. h < n + j /\ n + j \in 1..Len(o)
    BY <1>1, <1>4, <1>6, <2>4, <2>5
  <2> QED BY <1>1, <2>2, <2>4, <2>6 DEF Aged
<1> QED BY <1>11, <1>12

(* A hit, or an item that has lapsed and goes.                             *)
LEMMA Got ==
    ASSUME LruSafe, NEW k \in LruKeys, GetItem(k) PROVE LruSafe'
<1> DEFINE o == Others(k)
           e == entries[PlaceOf(k)]
<1>1. /\ o \in Seq(EntryRecords) /\ Len(o) = Len(entries) - 1 /\ Len(o) \in Nat /\ Len(entries) \in Nat
      /\ BytesWithout(k) = BytesOf(o) /\ BytesWithout(k) \in Nat /\ BytesWithout(k) <= bytes
      /\ bytes = BytesOf(o) + e.size /\ bytes \in Nat
      /\ Lone(o) /\ Aged(o, later) /\ Lacks(o, k) /\ e \in EntryRecords /\ e.key = k
  BY OthersAre DEF GetItem, LruSafe
<1>2. Len(entries) <= LruCapacity /\ (MaxBytes > 0 /\ Len(entries) > 1 => bytes <= MaxBytes)
  BY DEF LruSafe, WithinBudget
<1>3. CASE e.expired
  <2>1. entries' = o /\ bytes' = BytesWithout(k) /\ later' = later
    BY <1>3 DEF GetItem
  <2> HIDE DEF o, e
  <2>2. Len(entries') <= LruCapacity /\ (MaxBytes > 0 /\ Len(entries') > 1 => bytes' <= MaxBytes)
    BY <1>1, <1>2, <2>1, LruAssumption
  <2>3. WithinBudget'
    BY <1>1, <2>1, <2>2 DEF WithinBudget, BytesOf
  <2> QED BY <1>1, <2>1, <2>3 DEF LruSafe, Lone, Aged
<1>4. CASE ~e.expired
  <2>1. entries' = Append(o, e) /\ bytes' = bytes /\ later' = UsesAfter(later, k)
    BY <1>4 DEF GetItem, ToFront, Uses, UsesAfter
  <2> HIDE DEF o, e
  <2>2. entries' \in Seq(EntryRecords) /\ Len(entries') = Len(entries)
    BY <1>1, <2>1
  <2>3. BytesOf(entries') = bytes'
    BY <1>1, <2>1, BytesOfAppend
  <2>4. Lone(entries') /\ Aged(entries', later')
    BY <1>1, <2>1, NewestAppended
  <2>5. WithinBudget'
    BY <1>2, <2>1, <2>2, <2>3 DEF WithinBudget, BytesOf
  <2> QED BY <2>2, <2>4, <2>5 DEF LruSafe, Lone, Aged
<1> QED BY <1>3, <1>4

LEMMA Deleted ==
    ASSUME LruSafe, NEW k \in LruKeys, DeleteItem(k) PROVE LruSafe'
<1> DEFINE o == Others(k)
<1>1. /\ o \in Seq(EntryRecords) /\ Len(o) <= Len(entries) /\ Len(o) \in Nat /\ Len(entries) \in Nat
      /\ BytesWithout(k) = BytesOf(o) /\ BytesWithout(k) \in Nat /\ BytesWithout(k) <= bytes
      /\ bytes \in Nat /\ Lone(o) /\ Aged(o, later)
  BY OthersAre DEF LruSafe
<1>2. Len(entries) <= LruCapacity /\ (MaxBytes > 0 /\ Len(entries) > 1 => bytes <= MaxBytes)
  BY DEF LruSafe, WithinBudget
<1>3. entries' = o /\ bytes' = BytesWithout(k) /\ later' = later
  BY DEF DeleteItem
<1> HIDE DEF o
<1>4. Len(entries') <= LruCapacity /\ (MaxBytes > 0 /\ Len(entries') > 1 => bytes' <= MaxBytes)
  BY <1>1, <1>2, <1>3, LruAssumption
<1>5. WithinBudget'
  BY <1>1, <1>3, <1>4 DEF WithinBudget, BytesOf
<1> QED BY <1>1, <1>3, <1>5 DEF LruSafe, Lone, Aged

LEMMA ExpiredItem ==
    ASSUME NEW e \in EntryRecords
    PROVE  LET x == [e EXCEPT !.expired = TRUE] IN
           x \in EntryRecords /\ x.key = e.key /\ x.size = e.size
BY DEF EntryRecords

LEMMA Lapsed ==
    ASSUME LruSafe, NEW k \in LruKeys, LapseItem(k) PROVE LruSafe'
<1> DEFINE p == PlaceOf(k)
<1>1. p \in 1..Len(entries) /\ entries \in Seq(EntryRecords) /\ Len(entries) \in Nat
  BY OthersAre DEF LapseItem, LruSafe
<1>2. entries[p] \in EntryRecords
  BY <1>1
<1>3. /\ entries' = [entries EXCEPT ![p].expired = TRUE] /\ bytes' = bytes /\ later' = later
  BY DEF LapseItem
<1> HIDE DEF p
<1>4. /\ entries' \in Seq(EntryRecords) /\ Len(entries') = Len(entries)
      /\ \A i \in 1..Len(entries) : entries'[i].key = entries[i].key /\ entries'[i].size = entries[i].size
  <2> DEFINE e == [entries[p] EXCEPT !.expired = TRUE]
  <2>1. e \in EntryRecords
    BY <1>2, ExpiredItem
  <2>2. e.key = entries[p].key /\ e.size = entries[p].size
    BY <1>2, ExpiredItem
  <2>3. entries' = [entries EXCEPT ![p] = e]
    BY <1>3
  <2> HIDE DEF e
  <2>5. /\ entries' \in Seq(EntryRecords) /\ Len(entries') = Len(entries)
        /\ \A i \in 1..Len(entries) : entries'[i] = IF i = p THEN e ELSE entries[i]
    BY <1>1, <2>1, <2>3
  <2> QED BY <2>2, <2>5
<1>5. BytesOf(entries') = BytesOf(entries)
  <2> DEFINE t == entries'
  <2>1. t \in Seq(EntryRecords) /\ Len(t) = Len(entries) /\ SameSizes(t, 0, entries, 0, Len(entries))
    BY <1>1, <1>4 DEF SameSizes
  <2> HIDE DEF t
  <2>2. Sums(t)[Len(t)] - Sums(t)[0] = Sums(entries)[Len(entries)] - Sums(entries)[0]
    BY <1>1, <2>1, SumsAgree
  <2>3. /\ Sums(t)[0] = 0 /\ Sums(entries)[0] = 0
        /\ Sums(t)[Len(t)] \in Nat /\ Sums(entries)[Len(entries)] \in Nat
    BY <1>1, <2>1, SumsAre, SumsTyped
  <2>4. BytesOf(t) = BytesOf(entries)
    BY <2>2, <2>3 DEF BytesOf
  <2> QED BY <2>4 DEF t
<1>6. WithinBudget'
  BY <1>3, <1>4, <1>5 DEF LruSafe, WithinBudget, BytesOf
<1>7. Lone(entries') /\ Aged(entries', later')
  BY <1>3, <1>4 DEF LruSafe, Lone, Aged
<1> QED BY <1>4, <1>6, <1>7 DEF LruSafe, Lone, Aged

(* After any sequence of stores, hits, lapses, deletions and evictions the *)
(* counter is what the items amount to, the limits hold, and nothing is    *)
(* evicted while something used longer ago stays.                          *)
THEOREM OldestAreEvicted == LruSpec => OldestGoFirst
<1>1. LruInit => LruSafe
  <2> SUFFICES ASSUME LruInit PROVE LruSafe
    OBVIOUS
  <2>1. entries = <<>> /\ bytes = 0 /\ Len(entries) = 0 /\ entries \in Seq(EntryRecords)
    BY DEF LruInit
  <2>2. BytesOf(entries) = 0
    BY <2>1, SumsAre DEF BytesOf
  <2>3. WithinBudget
    BY <2>1, <2>2, LruAssumption DEF WithinBudget
  <2>4. Lone(entries) /\ Aged(entries, later)
    BY <2>1 DEF Lone, Aged
  <2> QED BY <2>1, <2>3, <2>4 DEF LruSafe
<1>2. LruSafe /\ [LruNext]_lruVars => LruSafe'
  <2> SUFFICES ASSUME LruSafe, [LruNext]_lruVars PROVE LruSafe'
    OBVIOUS
  <2>1. CASE LruNext
    BY <2>1, Got, Deleted, Lapsed, Stored DEF LruNext
  <2>2. CASE UNCHANGED lruVars
    BY <2>2 DEF lruVars, LruSafe, WithinBudget, Lone, Aged, BytesOf
  <2> QED BY <2>1, <2>2
<1>3. LruSafe /\ LruSafe' => WithinBudget' /\ EvictsOldest
  <2> SUFFICES ASSUME LruSafe, LruSafe' PROVE WithinBudget' /\ EvictsOldest
    OBVIOUS
  <2>1. ASSUME NEW k \in LruKeys, NEW l \in LruKeys, IsHeld(k), ~IsHeld(k)', IsHeld(l)', <<l, k>> \notin later,
               NEW j \in LruKeys \ {k, l}, NEW size \in Sizes, SetItem(j, size)
        PROVE  FALSE
    <3>1. j \in LruKeys /\ k \in LruKeys \ {j} /\ l \in LruKeys \ {j}
      OBVIOUS
    <3> QED BY <2>1, <3>1, Stored
  <2> QED BY <2>1 DEF EvictsOldest, LruSafe
<1>4. LruSpec => []LruSafe
  BY <1>1, <1>2, PTL DEF LruSpec
<1>5. LruSafe /\ LruSafe' => [WithinBudget' /\ (entries' # entries => EvictsOldest)]_lruVars
  BY <1>3
<1> QED BY <1>4, <1>5, PTL DEF OldestGoFirst

-----------------------------------------------------------------------------
(* Paths: what they lose of their ends and of their slashes.               *)

Lies(q, p, a) ==
    /\ a + Len(q) <= Len(p)
    /\ \A i \in 1..Len(q) : q[i] = p[a + i]

LEMMA TrimIs ==
    ASSUME NEW p \in Seq(Tokens), NEW drop
    PROVE  /\ TrimBoth(p, drop) \in Seq(Tokens)
           /\ \E a \in 0..Len(p) : Lies(TrimBoth(p, drop), p, a)
           /\ TrimBoth(p, drop) # <<>> =>
                 /\ TrimBoth(p, drop)[1] \notin drop
                 /\ TrimBoth(p, drop)[Len(TrimBoth(p, drop))] \notin drop
<1> DEFINE kept == {i \in DOMAIN p : p[i] \notin drop}
           q == TrimBoth(p, drop)
<1>0. Len(p) \in Nat /\ DOMAIN p = 1..Len(p)
  OBVIOUS
<1>1. q = IF kept = {} THEN <<>> ELSE SubSeq(p, Min(kept), Max(kept))
  BY DEF TrimBoth
<1>2. CASE kept = {}
  <2>1. q = <<>> /\ Len(q) = 0 /\ q \in Seq(Tokens)
    BY <1>1, <1>2
  <2> HIDE DEF q, kept
  <2>2. Lies(q, p, 0)
    BY <1>0, <2>1 DEF Lies
  <2> QED BY <1>0, <2>1, <2>2 DEF q
<1>3. CASE kept # {}
  <2> DEFINE m == Min(kept)
             n == Max(kept)
  <2>1. kept \in SUBSET Nat /\ kept \in SUBSET (0..Len(p))
    BY <1>0
  <2>2. \A i \in kept : i \in 1..Len(p) /\ p[i] \notin drop
    BY <1>0
  <2> HIDE DEF kept
  <2>3. m \in kept /\ \A y \in kept : m <= y
    BY <1>3, <2>1, LeastIs
  <2>4. n \in kept /\ \A y \in kept : y <= n
    BY <1>0, <1>3, <2>1, GreatestExists
  <2>5. q = SubSeq(p, m, n)
    BY <1>1, <1>3
  <2> HIDE DEF m, n, q
  <2>6. m \in 1..Len(p) /\ n \in 1..Len(p) /\ m <= n /\ p[m] \notin drop /\ p[n] \notin drop
    BY <2>2, <2>3, <2>4
  <2>7. /\ q \in Seq(Tokens) /\ Len(q) = n - m + 1
        /\ \A i \in 1..(n - m + 1) : q[i] = p[m + i - 1]
    <3>1. m \in Nat /\ n \in Nat /\ 1 <= m /\ m <= n + 1 /\ n <= Len(p)
      BY <1>0, <2>6
    <3> QED BY <2>5, <3>1, PartOf
  <2>8. m - 1 \in 0..Len(p) /\ Lies(q, p, m - 1)
    <3>1. m - 1 \in 0..Len(p) /\ (m - 1) + (n - m + 1) <= Len(p)
      BY <1>0, <2>6
    <3>2. \A i \in 1..(n - m + 1) : m + i - 1 = (m - 1) + i
      BY <2>6
    <3> QED BY <2>7, <3>1, <3>2 DEF Lies
  <2>9. q[1] = p[m] /\ q[Len(q)] = p[n]
    <3>1. 1 \in 1..(n - m + 1) /\ m + 1 - 1 = m /\ n - m + 1 \in 1..(n - m + 1) /\ m + (n - m + 1) - 1 = n
      BY <1>0, <2>6
    <3> QED BY <2>7, <3>1
  <2> QED BY <2>6, <2>7, <2>8, <2>9 DEF q
<1> QED BY <1>2, <1>3

LEMMA TrimSame ==
    ASSUME NEW p \in Seq(Tokens), NEW drop, p # <<>>, p[1] \notin drop, p[Len(p)] \notin drop
    PROVE  TrimBoth(p, drop) = p
<1> DEFINE kept == {i \in DOMAIN p : p[i] \notin drop}
<1>0. Len(p) \in Nat /\ Len(p) > 0 /\ DOMAIN p = 1..Len(p)
  OBVIOUS
<1>1. TrimBoth(p, drop) = IF kept = {} THEN <<>> ELSE SubSeq(p, Min(kept), Max(kept))
  BY DEF TrimBoth
<1>2. kept \subseteq 1..Len(p) /\ 1 \in kept /\ Len(p) \in kept
  BY <1>0
<1> HIDE DEF kept
<1> DEFINE m == Min(kept)
           n == Max(kept)
<1>3. m = 1
  <2>1. m \in kept /\ \A y \in kept : m <= y
    <3>1. kept \in SUBSET Nat /\ kept # {}
      BY <1>2
    <3> QED BY <3>1, LeastIs
  <2> HIDE DEF m
  <2>2. m \in 1..Len(p) /\ m <= 1
    BY <1>2, <2>1
  <2> QED BY <1>0, <2>2
<1>4. n = Len(p)
  <2>1. n \in kept /\ \A y \in kept : y <= n
    <3>1. kept \in SUBSET (0..Len(p)) /\ kept # {}
      BY <1>2
    <3> QED BY <1>0, <3>1, GreatestExists
  <2> HIDE DEF n
  <2>2. n \in 1..Len(p) /\ Len(p) <= n
    BY <1>2, <2>1
  <2> DEFINE l == Len(p)
  <2>3. l \in Nat
    BY <1>0
  <2>4. n \in 1..l /\ l <= n
    BY <2>2
  <2> HIDE DEF l
  <2>5. n = l
    BY <2>3, <2>4
  <2> QED BY <2>5 DEF l
<1>5. TrimBoth(p, drop) = SubSeq(p, 1, Len(p))
  BY <1>1, <1>2, <1>3, <1>4
<1> QED BY <1>5

LEMMA HeadIs ==
    ASSUME NEW p \in Seq(Tokens), NEW token
    PROVE  LET q == WithoutHead(p, token) IN
           /\ q \in Seq(Tokens)
           /\ \/ q = p /\ (p # <<>> => p[1] # token)
              \/ p # <<>> /\ p[1] = token /\ Len(q) = Len(p) - 1 /\ Lies(q, p, 1)
<1>1. CASE p # <<>> /\ Head(p) = token
  <2> DEFINE q == Tail(p)
  <2>1. q \in Seq(Tokens) /\ Len(q) = Len(p) - 1 /\ \A i \in 1..Len(q) : q[i] = p[i + 1]
    BY <1>1
  <2>2. p[1] = token /\ Len(p) \in Nat
    BY <1>1
  <2>3. WithoutHead(p, token) = q
    BY <1>1 DEF WithoutHead
  <2> HIDE DEF q
  <2>4. Lies(q, p, 1)
    <3>1. 1 + Len(q) <= Len(p) /\ \A i \in 1..Len(q) : 1 + i = i + 1
      BY <2>1, <2>2
    <3> QED BY <2>1, <3>1 DEF Lies
  <2> QED BY <1>1, <2>1, <2>2, <2>3, <2>4
<1>2. CASE ~(p # <<>> /\ Head(p) = token)
  <2>1. WithoutHead(p, token) = p
    BY <1>2 DEF WithoutHead
  <2>2. p # <<>> => p[1] # token
    BY <1>2
  <2> QED BY <2>1, <2>2
<1> QED BY <1>1, <1>2

(* A normal form, which is its own.                                        *)
Clean(q) ==
    /\ q \in Seq(Tokens) /\ q # <<>>
    /\ q[1] # "/" /\ q[1] \notin Blanks /\ q[Len(q)] \notin Blanks
    /\ \A i \in 1..Len(q) : q[i] \notin Escapes
    /\ \A i \in 1..(Len(q) - 1) : q[i] = "/" => q[i + 1] # "/"

LEMMA JoinSame ==
    ASSUME NEW p \in Seq(Tokens), \A i \in 1..(Len(p) - 1) : p[i] = "/" => p[i + 1] # "/"
    PROVE  JoinSlashes(p) = p
<1> DEFINE places == {i \in DOMAIN p : ~(i > 1 /\ p[i] = "/" /\ p[i - 1] = "/")}
           g == [k \in 1..Len(p) |-> k]
<1>0. Len(p) \in Nat /\ DOMAIN p = 1..Len(p)
  OBVIOUS
<1>1. places = 1..Len(p)
  <2> SUFFICES ASSUME NEW i \in 1..Len(p), i > 1, p[i] = "/", p[i - 1] = "/" PROVE FALSE
    BY <1>0
  <2>1. i - 1 \in 1..(Len(p) - 1) /\ (i - 1) + 1 = i
    BY <1>0
  <2> QED BY <2>1
<1>2. JoinSlashes(p) = Picked(p, places)
  BY DEF JoinSlashes
<1>3. \A k \in 1..Len(p) : g[k] = k
  OBVIOUS
<1> HIDE DEF places, g
<1>4. Enumerates(g, Len(p), Len(p), places)
  BY <1>0, <1>1, <1>3 DEF Enumerates
<1> DEFINE q == Picked(p, places)
<1>5. q \in Seq(Tokens) /\ Len(q) = Len(p) /\ \A k \in 1..Len(p) : q[k] = p[g[k]]
  BY <1>0, <1>4, PickedIs
<1> HIDE DEF q
<1>6. q = p
  BY <1>0, <1>3, <1>5
<1> QED BY <1>2, <1>6 DEF q

LEMMA CleanStays == ASSUME NEW q, Clean(q) PROVE NormalizePath(q) = q /\ q # Invalid
<1>0. /\ q \in Seq(Tokens) /\ q # <<>>
      /\ q[1] # "/" /\ q[1] \notin Blanks /\ q[Len(q)] \notin Blanks
      /\ \A i \in 1..Len(q) : q[i] \notin Escapes
      /\ \A i \in 1..(Len(q) - 1) : q[i] = "/" => q[i + 1] # "/"
  BY DEF Clean
<1>1. TrimBoth(q, Blanks) = q
  BY <1>0, TrimSame
<1>2. WithoutHead(q, "/") = q
  BY <1>0 DEF WithoutHead
<1>3. JoinSlashes(q) = q
  BY <1>0, JoinSame
<1>4. ToSet(q) \cap Escapes = {}
  <2>1. DOMAIN q = 1..Len(q)
    BY <1>0
  <2> QED BY <1>0, <2>1 DEF ToSet
<1>5. q # Invalid
  <2>1. q[1] \in Tokens
    BY <1>0
  <2>2. "invalid" \notin Tokens
    BY DEF Tokens, Blanks, Escapes, Extensions
  <2>3. Invalid[1] = "invalid"
    BY DEF Invalid
  <2> QED BY <2>1, <2>2, <2>3
<1> QED BY <1>0, <1>1, <1>2, <1>3, <1>4, <1>5 DEF NormalizePath

(* What is dropped between two slashes that are kept is slashes.           *)
Doubled(p, i) == i > 1 /\ p[i] = "/" /\ p[i - 1] = "/"

LEMMA JoinIs ==
    ASSUME NEW p \in Seq(Tokens), Firm(p), p # <<>>
    PROVE  LET j == JoinSlashes(p) IN
           /\ j \in Seq(Tokens) /\ j # <<>> /\ j[1] = p[1]
           /\ j[Len(j)] = p[Len(p)] \/ j[Len(j)] = "/"
           /\ \A k \in 1..Len(j) : \E i \in 1..Len(p) : j[k] = p[i]
           /\ \A k \in 1..(Len(j) - 1) : j[k] = "/" => j[k + 1] # "/" /\ j[k + 1] \notin Blanks
<1> DEFINE places == {i \in DOMAIN p : ~(i > 1 /\ p[i] = "/" /\ p[i - 1] = "/")}
           j == JoinSlashes(p)
           n == Len(p)
<1>0. n \in Nat /\ n >= 1 /\ DOMAIN p = 1..n
  OBVIOUS
<1>1. \A i \in 1..n : i \in places <=> ~Doubled(p, i)
  BY <1>0 DEF Doubled
<1>2. j = Picked(p, places)
  BY DEF JoinSlashes
<1> HIDE DEF places, j
<1>3. PICK m \in Nat : \E g :
         /\ Enumerates(g, m, n, places)
         /\ j \in Seq(Tokens) /\ Len(j) = m
         /\ \A k \in 1..m : j[k] = p[g[k]] /\ g[k] \in 1..n
  BY <1>2, PickedAre
<1>4. PICK g :
         /\ Enumerates(g, m, n, places)
         /\ j \in Seq(Tokens) /\ Len(j) = m
         /\ \A k \in 1..m : j[k] = p[g[k]] /\ g[k] \in 1..n
  BY <1>3
<1> HIDE DEF n
<1>5. /\ \A k \in 1..m : g[k] \in 1..n /\ ~Doubled(p, g[k])
      /\ \A k, l \in 1..m : k < l => g[k] < g[l]
      /\ \A i \in 1..n : ~Doubled(p, i) => \E k \in 1..m : g[k] = i
  BY <1>1, <1>4 DEF Enumerates
<1>6. m >= 1 /\ j # <<>> /\ j[1] = p[1]
  <2>1. 1 \in 1..n /\ ~Doubled(p, 1)
    BY <1>0 DEF Doubled
  <2>2. PICK k \in 1..m : g[k] = 1
    BY <1>5, <2>1
  <2>3. k = 1
    <3> SUFFICES ASSUME 1 < k PROVE FALSE
      OBVIOUS
    <3>1. 1 \in 1..m /\ g[1] < g[k] /\ g[1] \in 1..n
      BY <1>5
    <3> QED BY <1>0, <2>2, <3>1
  <2>4. m >= 1 /\ j[1] = p[1]
    BY <1>4, <2>2, <2>3
  <2> QED BY <1>4, <2>4
<1>7. j[m] = p[n] \/ j[m] = "/"
  <2> DEFINE a == g[m]
  <2>1. a \in 1..n /\ j[m] = p[a]
    BY <1>4, <1>6
  <2>2. \A k \in 1..m : g[k] <= a
    <3> SUFFICES ASSUME NEW k \in 1..m PROVE g[k] <= a
      OBVIOUS
    <3>1. m \in 1..m /\ g[k] \in 1..n /\ (k < m => g[k] < g[m]) /\ (k = m \/ k < m)
      BY <1>5, <1>6
    <3> QED BY <2>1, <3>1
  <2> HIDE DEF a
  <2>3. CASE a = n
    BY <2>1, <2>3
  <2>4. CASE a # n
    <3>1. a + 1 \in 1..n /\ (a + 1) - 1 = a /\ ~(a + 1 <= a)
      BY <1>0, <2>1, <2>4
    <3>2. Doubled(p, a + 1)
      BY <1>5, <2>2, <3>1
    <3> QED BY <2>1, <3>1, <3>2 DEF Doubled
  <2> QED BY <2>3, <2>4
<1>8. ASSUME NEW k \in 1..(m - 1), j[k] = "/" PROVE j[k + 1] # "/" /\ j[k + 1] \notin Blanks
  <2> DEFINE a == g[k]
             b == g[k + 1]
  <2>1. k \in 1..m /\ k + 1 \in 1..m /\ k < k + 1
    OBVIOUS
  <2>2. a \in 1..n /\ b \in 1..n /\ a < b /\ ~Doubled(p, b) /\ p[a] = "/" /\ j[k + 1] = p[b]
    BY <1>4, <1>5, <1>8, <2>1
  <2>3. \A l \in 1..m : g[l] <= a \/ b <= g[l]
    <3> SUFFICES ASSUME NEW l \in 1..m PROVE g[l] <= a \/ b <= g[l]
      OBVIOUS
    <3>1. (l < k => g[l] < g[k]) /\ (k + 1 < l => g[k + 1] < g[l]) /\ g[l] \in 1..n
      BY <1>5, <2>1
    <3>2. l < k \/ l = k \/ l = k + 1 \/ k + 1 < l
      OBVIOUS
    <3> QED BY <2>2, <3>1, <3>2
  <2> HIDE DEF a, b
  <2>4. p[b - 1] = "/"
    <3>1. CASE b = a + 1
      <4>1. b - 1 = a
        BY <2>2, <3>1
      <4> QED BY <2>2, <4>1
    <3>2. CASE b # a + 1
      <4>1. b - 1 \in 1..n /\ ~(b - 1 <= a) /\ ~(b <= b - 1)
        <5>1. a \in 1..n /\ b \in 1..n /\ a < b
          BY <2>2
        <5> QED BY <1>0, <3>2, <5>1
      <4>2. Doubled(p, b - 1)
        BY <1>5, <2>3, <4>1
      <4> QED BY <4>2 DEF Doubled
    <3> QED BY <3>1, <3>2
  <2>5. b > 1 /\ b - 1 \in 1..(n - 1) /\ (b - 1) + 1 = b
    BY <1>0, <2>2
  <2>6. p[b] # "/"
    BY <2>2, <2>4, <2>5 DEF Doubled
  <2>7. p[b] \notin Blanks
    <3>1. \A i \in 1..(n - 1) : p[i] = "/" => p[i + 1] \notin Blanks
      BY DEF Firm, n
    <3> QED BY <2>4, <2>5, <3>1
  <2> QED BY <2>2, <2>6, <2>7
<1>9. \A k \in 1..m : \E i \in 1..n : j[k] = p[i]
  BY <1>4
<1>10. j \in Seq(Tokens) /\ Len(j) = m
  BY <1>4
<1> QED BY <1>6, <1>7, <1>8, <1>9, <1>10 DEF n, j

(* Of a firm path the first normalization is the last.                     *)
LEMMA NormalForm ==
    ASSUME NEW p \in Seq(Tokens), Firm(p), NormalizePath(p) # Invalid, NormalizePath(p) # <<>>
    PROVE  Clean(NormalizePath(p))
<1> DEFINE t == TrimBoth(p, Blanks)
           bare == WithoutHead(t, "/")
           j == JoinSlashes(bare)
           q == WithoutHead(j, "/")
<1>1. NormalizePath(p) = q /\ ToSet(bare) \cap Escapes = {}
  BY DEF NormalizePath
<1>2. /\ t \in Seq(Tokens)
      /\ \E a \in 0..Len(p) : Lies(t, p, a)
      /\ t # <<>> => t[1] \notin Blanks /\ t[Len(t)] \notin Blanks
  BY TrimIs
<1> HIDE DEF t
<1>3. /\ bare \in Seq(Tokens)
      /\ \/ bare = t /\ (t # <<>> => t[1] # "/")
         \/ t # <<>> /\ t[1] = "/" /\ Len(bare) = Len(t) - 1 /\ Lies(bare, t, 1)
  BY <1>2, HeadIs
<1> HIDE DEF bare
<1>4. Firm(t)
  <2> SUFFICES ASSUME NEW i \in 1..(Len(t) - 1), t[i] = "/" PROVE t[i + 1] \notin Blanks
    BY DEF Firm
  <2>1. PICK a \in 0..Len(p) : Lies(t, p, a)
    BY <1>2
  <2>2. Len(t) \in Nat /\ Len(p) \in Nat /\ i \in 1..Len(t) /\ i + 1 \in 1..Len(t)
    BY <1>2
  <2>3. a + Len(t) <= Len(p) /\ t[i] = p[a + i] /\ t[i + 1] = p[a + (i + 1)]
    BY <2>1, <2>2 DEF Lies
  <2>4. a + i \in 1..(Len(p) - 1) /\ (a + i) + 1 = a + (i + 1)
    BY <2>2, <2>3
  <2>5. p[(a + i) + 1] \notin Blanks
    BY <2>3, <2>4 DEF Firm
  <2> QED BY <2>3, <2>4, <2>5
<1>5. Firm(bare)
  <2>1. CASE bare = t
    BY <1>4, <2>1
  <2>2. CASE t # <<>> /\ t[1] = "/" /\ Len(bare) = Len(t) - 1 /\ Lies(bare, t, 1)
    <3> SUFFICES ASSUME NEW i \in 1..(Len(bare) - 1), bare[i] = "/" PROVE bare[i + 1] \notin Blanks
      BY DEF Firm
    <3>1. Len(t) \in Nat /\ Len(bare) \in Nat /\ i \in 1..Len(bare) /\ i + 1 \in 1..Len(bare)
      BY <1>2, <1>3
    <3>2. bare[i] = t[1 + i] /\ bare[i + 1] = t[1 + (i + 1)]
      BY <2>2, <3>1 DEF Lies
    <3>3. 1 + i \in 1..(Len(t) - 1) /\ (1 + i) + 1 = 1 + (i + 1)
      BY <2>2, <3>1
    <3>4. t[(1 + i) + 1] \notin Blanks
      BY <1>4, <3>2, <3>3 DEF Firm
    <3> QED BY <3>2, <3>3, <3>4
  <2> QED BY <1>3, <2>1, <2>2
<1>6. bare # <<>>
  <2> SUFFICES ASSUME bare = <<>> PROVE FALSE
    OBVIOUS
  <2>1. JoinSlashes(<<>>) = <<>>
    <3>1. <<>> \in Seq(Tokens) /\ \A i \in 1..(Len(<<>>) - 1) : <<>>[i] = "/" => <<>>[i + 1] # "/"
      OBVIOUS
    <3> QED BY <3>1, JoinSame
  <2>2. WithoutHead(<<>>, "/") = <<>>
    BY DEF WithoutHead
  <2> QED BY <1>1, <2>1, <2>2
<1>7. bare[1] \notin Blanks /\ bare[Len(bare)] \notin Blanks
  <2>1. CASE bare = t
    BY <1>2, <1>6, <2>1
  <2>2. CASE t # <<>> /\ t[1] = "/" /\ Len(bare) = Len(t) - 1 /\ Lies(bare, t, 1)
    <3>1. Len(t) \in Nat /\ Len(bare) \in Nat /\ Len(bare) >= 1
      BY <1>2, <1>3, <1>6
    <3>2. 1 \in 1..Len(bare) /\ Len(bare) \in 1..Len(bare) /\ 1 + Len(bare) = Len(t) /\ 1 \in 1..(Len(t) - 1)
      BY <2>2, <3>1
    <3>3. bare[1] = t[1 + 1] /\ bare[Len(bare)] = t[Len(t)]
      BY <2>2, <3>2 DEF Lies
    <3>4. t[1 + 1] \notin Blanks
      BY <1>4, <2>2, <3>2 DEF Firm
    <3> QED BY <1>2, <2>2, <3>3, <3>4
  <2> QED BY <1>3, <2>1, <2>2
<1>8. \A i \in 1..Len(bare) : bare[i] \notin Escapes
  <2>1. DOMAIN bare = 1..Len(bare)
    BY <1>3
  <2> QED BY <1>1, <2>1 DEF ToSet
<1>9. /\ j \in Seq(Tokens) /\ j # <<>> /\ j[1] = bare[1]
      /\ j[Len(j)] = bare[Len(bare)] \/ j[Len(j)] = "/"
      /\ \A k \in 1..Len(j) : \E i \in 1..Len(bare) : j[k] = bare[i]
      /\ \A k \in 1..(Len(j) - 1) : j[k] = "/" => j[k + 1] # "/" /\ j[k + 1] \notin Blanks
  BY <1>3, <1>5, <1>6, JoinIs
<1> HIDE DEF j
<1>10. j[1] \notin Blanks /\ j[Len(j)] \notin Blanks /\ \A k \in 1..Len(j) : j[k] \notin Escapes
  <2>1. "/" \notin Blanks
    BY DEF Blanks
  <2> QED BY <1>7, <1>8, <1>9, <2>1
<1>11. /\ q \in Seq(Tokens)
       /\ \/ q = j /\ (j # <<>> => j[1] # "/")
          \/ j # <<>> /\ j[1] = "/" /\ Len(q) = Len(j) - 1 /\ Lies(q, j, 1)
  BY <1>9, HeadIs
<1>12. q # <<>>
  BY <1>1
<1> HIDE DEF q
<1>13. Clean(q)
  <2>1. CASE q = j /\ j[1] # "/"
    BY <1>9, <1>10, <2>1 DEF Clean
  <2>2. CASE j[1] = "/" /\ Len(q) = Len(j) - 1 /\ Lies(q, j, 1)
    <3>1. Len(j) \in Nat /\ Len(q) \in Nat /\ Len(q) >= 1
      BY <1>9, <1>11, <1>12
    <3>2. \A i \in 1..Len(q) : q[i] = j[1 + i] /\ 1 + i \in 1..Len(j)
      BY <2>2, <3>1 DEF Lies
    <3>3. q[1] # "/" /\ q[1] \notin Blanks
      <4>1. 1 \in 1..Len(q) /\ 1 \in 1..(Len(j) - 1)
        BY <2>2, <3>1
      <4>2. j[1 + 1] # "/" /\ j[1 + 1] \notin Blanks
        BY <1>9, <2>2, <4>1
      <4> QED BY <3>2, <4>1, <4>2
    <3>4. q[Len(q)] \notin Blanks
      <4>1. Len(q) \in 1..Len(q) /\ 1 + Len(q) = Len(j)
        BY <2>2, <3>1
      <4> QED BY <1>10, <3>2, <4>1
    <3>5. \A i \in 1..Len(q) : q[i] \notin Escapes
      BY <1>10, <3>2
    <3>6. \A i \in 1..(Len(q) - 1) : q[i] = "/" => q[i + 1] # "/"
      <4> SUFFICES ASSUME NEW i \in 1..(Len(q) - 1), q[i] = "/" PROVE q[i + 1] # "/"
        OBVIOUS
      <4>1. i \in 1..Len(q) /\ i + 1 \in 1..Len(q) /\ 1 + i \in 1..(Len(j) - 1) /\ (1 + i) + 1 = 1 + (i + 1)
        BY <2>2, <3>1
      <4>2. q[i] = j[1 + i] /\ q[i + 1] = j[1 + (i + 1)]
        BY <3>2, <4>1
      <4>3. j[(1 + i) + 1] # "/"
        BY <1>9, <4>1, <4>2
      <4> QED BY <4>1, <4>2, <4>3
    <3> QED BY <1>11, <1>12, <3>3, <3>4, <3>5, <3>6 DEF Clean
  <2> QED BY <1>9, <1>11, <2>1, <2>2
<1> QED BY <1>1, <1>13

LEMMA PlainClean ==
    ASSUME NEW p \in Seq(Tokens), p # <<>>, Plain(p)
    PROVE  Clean(p) /\ p[Len(p)] # "/"
<1>1. /\ TrimBoth(p, {"/"} \cup Blanks) = p
      /\ ToSet(p) \cap Escapes = {}
      /\ ~\E i \in 1..(Len(p) - 1) : p[i] = "/" /\ p[i + 1] \in {"/", " "}
  BY DEF Plain
<1>2. p[1] \notin {"/"} \cup Blanks /\ p[Len(p)] \notin {"/"} \cup Blanks
  BY <1>1, TrimIs
<1>3. \A i \in 1..Len(p) : p[i] \notin Escapes
  <2>1. DOMAIN p = 1..Len(p)
    OBVIOUS
  <2> QED BY <1>1, <2>1 DEF ToSet
<1>4. \A i \in 1..(Len(p) - 1) : p[i] = "/" => p[i + 1] # "/"
  BY <1>1
<1> QED BY <1>2, <1>3, <1>4 DEF Clean

(* A variant's name: of a plain path it is plain, of a firm one firm.      *)
VariantSuffixes == {".br", ".gz", ".webp"}

LEMMA Suffixed ==
    ASSUME NEW p \in Seq(Tokens), p # <<>>, NEW s \in VariantSuffixes
    PROVE  LET q == Append(p, s) IN
           /\ q \in Seq(Tokens) /\ q # <<>>
           /\ Firm(p) => Firm(q)
           /\ Clean(p) /\ p[Len(p)] # "/" => Clean(q)
<1> DEFINE q == Append(p, s)
<1>1. s \in Tokens /\ s # "/" /\ s \notin Blanks /\ s \notin Escapes
  BY DEF VariantSuffixes, Tokens, Extensions, Blanks, Escapes
<1>2. Len(p) \in Nat /\ Len(p) >= 1
  OBVIOUS
<1>3. /\ q \in Seq(Tokens) /\ q # <<>> /\ Len(q) = Len(p) + 1
      /\ \A i \in 1..Len(p) : q[i] = p[i]
      /\ q[Len(p) + 1] = s
  BY <1>1
<1> HIDE DEF q
<1>4. \A i \in 1..(Len(q) - 1) : i \in 1..Len(p) /\ (i + 1 \in 1..Len(p) \/ i = Len(p))
  BY <1>2, <1>3
<1>5. ASSUME Firm(p) PROVE Firm(q)
  <2> SUFFICES ASSUME NEW i \in 1..(Len(q) - 1), q[i] = "/" PROVE q[i + 1] \notin Blanks
    BY DEF Firm
  <2>1. CASE i = Len(p)
    BY <1>1, <1>3, <2>1
  <2>2. CASE i # Len(p)
    <3>1. i \in 1..Len(p) /\ i + 1 \in 1..Len(p) /\ i \in 1..(Len(p) - 1)
      BY <1>2, <1>4, <2>2
    <3>2. q[i] = p[i] /\ q[i + 1] = p[i + 1]
      BY <1>3, <3>1
    <3> QED BY <1>5, <3>1, <3>2 DEF Firm
  <2> QED BY <2>1, <2>2
<1>6. ASSUME Clean(p), p[Len(p)] # "/" PROVE Clean(q)
  <2>0. /\ p[1] # "/" /\ p[1] \notin Blanks
        /\ \A i \in 1..Len(p) : p[i] \notin Escapes
        /\ \A i \in 1..(Len(p) - 1) : p[i] = "/" => p[i + 1] # "/"
    BY <1>6 DEF Clean
  <2>1. q[1] # "/" /\ q[1] \notin Blanks
    <3>1. 1 \in 1..Len(p)
      BY <1>2
    <3> QED BY <1>3, <2>0, <3>1
  <2>2. q[Len(q)] \notin Blanks
    BY <1>1, <1>3
  <2>3. \A i \in 1..Len(q) : q[i] \notin Escapes
    <3>1. \A i \in 1..Len(q) : i \in 1..Len(p) \/ i = Len(p) + 1
      BY <1>2, <1>3
    <3> QED BY <1>1, <1>3, <2>0, <3>1
  <2>4. \A i \in 1..(Len(q) - 1) : q[i] = "/" => q[i + 1] # "/"
    <3> SUFFICES ASSUME NEW i \in 1..(Len(q) - 1), q[i] = "/" PROVE q[i + 1] # "/"
      OBVIOUS
    <3>1. CASE i = Len(p)
      BY <1>1, <1>3, <3>1
    <3>2. CASE i # Len(p)
      <4>1. i \in 1..Len(p) /\ i + 1 \in 1..Len(p) /\ i \in 1..(Len(p) - 1)
        BY <1>2, <1>4, <3>2
      <4>2. q[i] = p[i] /\ q[i + 1] = p[i + 1]
        BY <1>3, <4>1
      <4> QED BY <2>0, <4>1, <4>2
    <3> QED BY <3>1, <3>2
  <2> QED BY <1>3, <2>1, <2>2, <2>3, <2>4 DEF Clean
<1> QED BY <1>3, <1>5, <1>6 DEF q

LEMMA SuffixTells ==
    ASSUME NEW p \in Seq(Tokens), NEW r \in Seq(Tokens), NEW s, NEW t, Append(p, s) = Append(r, t)
    PROVE  p = r /\ s = t
<1>1. /\ Len(Append(p, s)) = Len(p) + 1 /\ Append(p, s)[Len(p) + 1] = s
      /\ \A i \in 1..Len(p) : Append(p, s)[i] = p[i]
  OBVIOUS
<1>2. /\ Len(Append(r, t)) = Len(r) + 1 /\ Append(r, t)[Len(r) + 1] = t
      /\ \A i \in 1..Len(r) : Append(r, t)[i] = r[i]
  OBVIOUS
<1>3. Len(p) = Len(r)
  BY <1>1, <1>2
<1> QED BY <1>1, <1>2, <1>3

-----------------------------------------------------------------------------
(* The list and its tree.                                                  *)

AllPlain == \A i \in DOMAIN listed : Plain(listed[i].path)

Listable == listed \in Seq(ListedFile) /\ \A i \in DOMAIN listed : Firm(listed[i].path)

Accepted ==
    \A i, j \in DOMAIN listed :
        listed[i].path # <<>> /\ (listed[i].path = listed[j].path => i = j)

TreeRight ==
    /\ \A e \in treeRows : e[1] \in Seq(Tokens) /\ e[1] # <<>> /\ Firm(e[1])
    /\ UniquePaths(treeRows)
    /\ \A i \in DOMAIN listed : <<listed[i].path, <<i, "">>>> \in treeRows
    /\ listed = <<>> => treeRows = {}
    /\ AllPlain => \A e \in treeRows : Clean(e[1])

LEMMA PathsListed ==
    ASSUME Listable
    PROVE  /\ \A i \in DOMAIN listed : listed[i].path \in Seq(Tokens) /\ listed[i].path \in PathsOf(listed)
           /\ \A p \in PathsOf(listed) : \E i \in DOMAIN listed : p = listed[i].path
<1>1. \A i \in DOMAIN listed : listed[i] \in ListedFile
  BY DEF Listable
<1> QED BY <1>1 DEF ListedFile, PathsOf

LEMMA AcceptedByCount ==
    ASSUME Listable, Cardinality(PathsOf(listed)) = Len(listed)
    PROVE  \A i, j \in DOMAIN listed : listed[i].path = listed[j].path => i = j
<1> DEFINE n == Len(listed)
           f == [i \in 1..n |-> listed[i].path]
           T == PathsOf(listed)
<1>1. n \in Nat /\ DOMAIN listed = 1..n
  BY DEF Listable
<1>2. \A i \in 1..n : f[i] = listed[i].path /\ f[i] \in T
  BY <1>1, PathsListed
<1>3. \A t \in T : \E i \in 1..n : f[i] = t
  BY <1>1, PathsListed
<1>4. f \in [1..n -> T]
  BY <1>2
<1>5. Cardinality(T) = n
  OBVIOUS
<1> HIDE DEF n, f, T
<1>6. f \in Surjection(1..n, T)
  BY <1>3, <1>4 DEF Surjection
<1>7. IsFiniteSet(1..n) /\ Cardinality(1..n) = n
  BY <1>1, FS_Interval
<1>8. f \in Injection(1..n, T)
  BY <1>5, <1>6, <1>7, FS_Surjection
<1>9. \A i, j \in 1..n : f[i] = f[j] => i = j
  BY <1>8 DEF Injection, IsInjective
<1> QED BY <1>1, <1>2, <1>9

LEMMA MadeAre == ASSUME NEW p PROVE MadeOf(p) \subseteq VariantSuffixes
BY DEF MadeOf, VariantSuffixes

(* A row is a file's, or that of a variant with a name of its own.         *)
OfFile(e, i) == e = <<listed[i].path, <<i, "">>>>
OfVariant(e, i, s) ==
    /\ Append(listed[i].path, s) \notin PathsOf(listed)
    /\ e = <<Append(listed[i].path, s), <<i, s>>>>

LEMMA ExpandedAre ==
    ASSUME Listable, NEW failed, ExpandList(failed)
    PROVE  /\ \A e \in treeRows' : \E i \in DOMAIN listed :
                 OfFile(e, i) \/ \E s \in VariantSuffixes : OfVariant(e, i, s)
           /\ \A i \in DOMAIN listed : <<listed[i].path, <<i, "">>>> \in treeRows'
           /\ listed = <<>> => treeRows' = {}
<1> DEFINE base == {<<listed[i].path, <<i, "">>>> : i \in DOMAIN listed}
           made(i) == {s \in MadeOf(listed[i].path) \ failed : Claimable(Append(listed[i].path, s))}
           of(i) == {<<Append(listed[i].path, s), <<i, s>>>> : s \in made(i)}
<1>1. treeRows' = base \cup UNION {of(i) : i \in DOMAIN listed}
  BY DEF ExpandList
<1>2. \A i \in DOMAIN listed : \A s \in made(i) :
         s \in VariantSuffixes /\ Append(listed[i].path, s) \notin PathsOf(listed)
  BY MadeAre DEF Claimable
<1>3. \A i \in DOMAIN listed : \A e \in of(i) : \E s \in VariantSuffixes : OfVariant(e, i, s)
  BY <1>2 DEF OfVariant
<1>4. \A e \in base : \E i \in DOMAIN listed : OfFile(e, i)
  BY DEF OfFile
<1>5. \A i \in DOMAIN listed : <<listed[i].path, <<i, "">>>> \in base
  OBVIOUS
<1>6. listed = <<>> => DOMAIN listed = {}
  BY DEF Listable
<1>7. DOMAIN listed = {} => base = {}
  OBVIOUS
<1> HIDE DEF base, made, of
<1> QED BY <1>1, <1>3, <1>4, <1>5, <1>6, <1>7

LEMMA ExpandRight ==
    ASSUME Listable, Accepted, NEW failed, ExpandList(failed), UNCHANGED listed
    PROVE  TreeRight'
<1>0. /\ \A e \in treeRows' : \E i \in DOMAIN listed :
             OfFile(e, i) \/ \E s \in VariantSuffixes : OfVariant(e, i, s)
      /\ \A i \in DOMAIN listed : <<listed[i].path, <<i, "">>>> \in treeRows'
      /\ listed = <<>> => treeRows' = {}
  BY ExpandedAre
<1>1. \A i \in DOMAIN listed : /\ listed[i].path \in Seq(Tokens) /\ listed[i].path \in PathsOf(listed)
                               /\ listed[i].path # <<>> /\ Firm(listed[i].path)
  BY PathsListed DEF Accepted, Listable
<1>2. \A i \in DOMAIN listed : \A s \in VariantSuffixes :
         LET q == Append(listed[i].path, s) IN
         /\ q \in Seq(Tokens) /\ q # <<>> /\ Firm(q)
         /\ AllPlain => Clean(q)
  <2> SUFFICES ASSUME NEW i \in DOMAIN listed, NEW s \in VariantSuffixes
               PROVE  LET q == Append(listed[i].path, s) IN
                      /\ q \in Seq(Tokens) /\ q # <<>> /\ Firm(q)
                      /\ AllPlain => Clean(q)
    OBVIOUS
  <2> DEFINE p == listed[i].path
  <2>1. p \in Seq(Tokens) /\ p # <<>> /\ Firm(p)
    BY <1>1
  <2>2. AllPlain => Plain(p)
    BY DEF AllPlain
  <2> HIDE DEF p
  <2>3. AllPlain => Clean(p) /\ p[Len(p)] # "/"
    BY <2>1, <2>2, PlainClean
  <2>4. LET q == Append(p, s) IN
        /\ q \in Seq(Tokens) /\ q # <<>>
        /\ Firm(p) => Firm(q)
        /\ Clean(p) /\ p[Len(p)] # "/" => Clean(q)
    BY <2>1, Suffixed
  <2> QED BY <2>1, <2>3, <2>4 DEF p
<1>3. AllPlain => \A i \in DOMAIN listed : Clean(listed[i].path)
  BY <1>1, PlainClean DEF AllPlain
<1>4. \A e \in treeRows' : e[1] \in Seq(Tokens) /\ e[1] # <<>> /\ Firm(e[1]) /\ (AllPlain => Clean(e[1]))
  <2> SUFFICES ASSUME NEW e \in treeRows'
               PROVE  e[1] \in Seq(Tokens) /\ e[1] # <<>> /\ Firm(e[1]) /\ (AllPlain => Clean(e[1]))
    OBVIOUS
  <2>1. PICK i \in DOMAIN listed : OfFile(e, i) \/ \E s \in VariantSuffixes : OfVariant(e, i, s)
    BY <1>0
  <2>2. CASE OfFile(e, i)
    <3>1. e[1] = listed[i].path
      BY <2>2 DEF OfFile
    <3> QED BY <1>1, <1>3, <3>1
  <2>3. ASSUME NEW s \in VariantSuffixes, OfVariant(e, i, s)
        PROVE  e[1] \in Seq(Tokens) /\ e[1] # <<>> /\ Firm(e[1]) /\ (AllPlain => Clean(e[1]))
    <3>1. e[1] = Append(listed[i].path, s)
      BY <2>3 DEF OfVariant
    <3> QED BY <1>2, <3>1
  <2> QED BY <2>1, <2>2, <2>3
<1>5. ASSUME NEW e \in treeRows', NEW f \in treeRows', e[1] = f[1] PROVE e = f
  <2>1. PICK i \in DOMAIN listed : OfFile(e, i) \/ \E s \in VariantSuffixes : OfVariant(e, i, s)
    BY <1>0
  <2>2. PICK j \in DOMAIN listed : OfFile(f, j) \/ \E s \in VariantSuffixes : OfVariant(f, j, s)
    BY <1>0
  <2>3. listed[i].path = listed[j].path => i = j
    BY DEF Accepted
  <2>4. listed[i].path \in PathsOf(listed) /\ listed[j].path \in PathsOf(listed)
    BY <1>1
  <2>5. CASE OfFile(e, i) /\ OfFile(f, j)
    <3>1. e[1] = listed[i].path /\ f[1] = listed[j].path
      BY <2>5 DEF OfFile
    <3>2. i = j
      BY <1>5, <2>3, <3>1
    <3> QED BY <2>5, <3>2 DEF OfFile
  <2>6. ASSUME OfFile(e, i), NEW t \in VariantSuffixes, OfVariant(f, j, t) PROVE FALSE
    <3>1. e[1] = listed[i].path /\ f[1] = Append(listed[j].path, t) /\ f[1] \notin PathsOf(listed)
      BY <2>6 DEF OfFile, OfVariant
    <3> QED BY <1>5, <2>4, <3>1
  <2>7. ASSUME NEW s \in VariantSuffixes, OfVariant(e, i, s), OfFile(f, j) PROVE FALSE
    <3>1. f[1] = listed[j].path /\ e[1] = Append(listed[i].path, s) /\ e[1] \notin PathsOf(listed)
      BY <2>7 DEF OfFile, OfVariant
    <3> QED BY <1>5, <2>4, <3>1
  <2>8. ASSUME NEW s \in VariantSuffixes, OfVariant(e, i, s), NEW t \in VariantSuffixes, OfVariant(f, j, t)
        PROVE  e = f
    <3>1. /\ e[1] = Append(listed[i].path, s) /\ f[1] = Append(listed[j].path, t)
          /\ e = <<Append(listed[i].path, s), <<i, s>>>> /\ f = <<Append(listed[j].path, t), <<j, t>>>>
      BY <2>8 DEF OfVariant
    <3>2. listed[i].path = listed[j].path /\ s = t
      <4>1. Append(listed[i].path, s) = Append(listed[j].path, t)
        BY <1>5, <3>1
      <4>2. listed[i].path \in Seq(Tokens) /\ listed[j].path \in Seq(Tokens)
        BY <1>1
      <4> DEFINE p == listed[i].path
                 r == listed[j].path
      <4> HIDE DEF p, r
      <4>3. p = r /\ s = t
        <5>1. p \in Seq(Tokens) /\ r \in Seq(Tokens) /\ Append(p, s) = Append(r, t)
          BY <4>1, <4>2 DEF p, r
        <5> QED BY <5>1, SuffixTells
      <4> QED BY <4>3 DEF p, r
    <3>3. i = j
      BY <2>3, <3>2
    <3> QED BY <3>1, <3>2, <3>3
  <2> QED BY <2>1, <2>2, <2>5, <2>6, <2>7, <2>8
<1>6. AllPlain' <=> AllPlain
  BY DEF AllPlain
<1> QED BY <1>0, <1>4, <1>5, <1>6 DEF TreeRight, UniquePaths

-----------------------------------------------------------------------------
(* The manifest.                                                           *)

Speaks(files) ==
    /\ \A p \in DOMAIN files : Clean(p)
    /\ \A i \in DOMAIN listed :
          /\ NormalizePath(listed[i].path) \in DOMAIN files
          /\ files[NormalizePath(listed[i].path)] = <<i, "">>

LEMMA NormalizedIs ==
    ASSUME NEW rows
    PROVE  /\ \A e \in rows : <<NormalizePath(e[1]), e[2]>> \in Normalized(rows)
           /\ \A x \in Normalized(rows) : \E e \in rows : x = <<NormalizePath(e[1]), e[2]>>
BY DEF Normalized

LEMMA FilesAre ==
    ASSUME NEW rows, UniquePaths(rows), NEW e \in rows
    PROVE  e[1] \in DOMAIN FilesOf(rows) /\ FilesOf(rows)[e[1]] = e[2]
<1> DEFINE d == CHOOSE f \in rows : f[1] = e[1]
<1>1. d \in rows /\ d[1] = e[1]
  OBVIOUS
<1>2. d = e
  BY <1>1 DEF UniquePaths
<1>3. e[1] \in {f[1] : f \in rows}
  OBVIOUS
<1> HIDE DEF d
<1> QED BY <1>2, <1>3 DEF FilesOf, d

LEMMA FilesDomain == ASSUME NEW rows PROVE \A p \in DOMAIN FilesOf(rows) : \E e \in rows : p = e[1]
BY DEF FilesOf

(* Rows under normal paths that differ: valid, and as they will be read.   *)
Settled(rows) ==
    /\ \A e \in rows : Clean(e[1]) /\ e = <<e[1], e[2]>>
    /\ UniquePaths(rows)

LEMMA SettledStays ==
    ASSUME NEW rows, Settled(rows)
    PROVE  AllValid(rows) /\ Normalized(rows) = rows
<1>1. \A e \in rows : NormalizePath(e[1]) = e[1] /\ NormalizePath(e[1]) # Invalid
  BY CleanStays DEF Settled
<1>2. AllValid(rows)
  BY <1>1 DEF AllValid, Settled, UniquePaths
<1>3. \A e \in rows : <<NormalizePath(e[1]), e[2]>> = e
  BY <1>1 DEF Settled
<1>4. Normalized(rows) = rows
  <2>1. \A x \in Normalized(rows) : x \in rows
    BY <1>3 DEF Normalized
  <2>2. \A e \in rows : e \in Normalized(rows)
    BY <1>3, NormalizedIs
  <2> QED BY <2>1, <2>2
<1> QED BY <1>2, <1>4

LEMMA PublishSettles ==
    ASSUME TreeRight, AllValid(treeRows), AllValid(Normalized(treeRows))
    PROVE  Settled(Normalized(treeRows))
<1> DEFINE rows == Normalized(treeRows)
<1>1. \A x \in rows : \E e \in treeRows : x = <<NormalizePath(e[1]), e[2]>>
  BY NormalizedIs
<1>2. AllValid(rows)
  OBVIOUS
<1> HIDE DEF rows
<1>3. \A x \in rows : NormalizePath(x[1]) # Invalid
  BY <1>2 DEF AllValid
<1>4. ASSUME NEW x \in rows PROVE Clean(x[1]) /\ x = <<x[1], x[2]>>
  <2>1. PICK e \in treeRows : x = <<NormalizePath(e[1]), e[2]>>
    BY <1>1
  <2>2. x[1] = NormalizePath(e[1]) /\ x = <<x[1], x[2]>>
    BY <2>1
  <2>3. NormalizePath(<<>>) = Invalid
    BY DEF NormalizePath
  <2>4. NormalizePath(e[1]) # <<>>
    BY <1>3, <2>2, <2>3
  <2>5. NormalizePath(e[1]) # Invalid
    BY DEF AllValid
  <2>6. e[1] \in Seq(Tokens) /\ Firm(e[1])
    BY DEF TreeRight
  <2>7. Clean(NormalizePath(e[1]))
    BY <2>4, <2>5, <2>6, NormalForm
  <2> QED BY <2>2, <2>7
<1>5. ASSUME NEW x \in rows, NEW y \in rows, x[1] = y[1] PROVE x = y
  <2>1. PICK e \in treeRows : x = <<NormalizePath(e[1]), e[2]>>
    BY <1>1
  <2>2. PICK f \in treeRows : y = <<NormalizePath(f[1]), f[2]>>
    BY <1>1
  <2>3. NormalizePath(e[1]) = NormalizePath(f[1])
    BY <1>5, <2>1, <2>2
  <2>4. e = f
    BY <2>3 DEF AllValid
  <2> QED BY <2>1, <2>2, <2>4
<1> QED BY <1>4, <1>5 DEF Settled, UniquePaths, rows

LEMMA PublishSpeaks ==
    ASSUME TreeRight, AllValid(treeRows), AllValid(Normalized(treeRows))
    PROVE  Speaks(FilesOf(Normalized(Normalized(treeRows))))
<1> DEFINE rows == Normalized(treeRows)
<1>1. Settled(rows)
  BY PublishSettles
<1>2. \A e \in treeRows : <<NormalizePath(e[1]), e[2]>> \in rows
  BY NormalizedIs
<1> HIDE DEF rows
<1>3. Normalized(rows) = rows
  BY <1>1, SettledStays
<1>4. \A p \in DOMAIN FilesOf(rows) : Clean(p)
  BY <1>1, FilesDomain DEF Settled
<1>5. ASSUME NEW i \in DOMAIN listed
      PROVE  /\ NormalizePath(listed[i].path) \in DOMAIN FilesOf(rows)
             /\ FilesOf(rows)[NormalizePath(listed[i].path)] = <<i, "">>
  <2> DEFINE q == NormalizePath(listed[i].path)
             e == <<q, <<i, "">>>>
  <2>1. e \in rows
    <3>1. <<listed[i].path, <<i, "">>>> \in treeRows
      BY DEF TreeRight
    <3>2. <<listed[i].path, <<i, "">>>>[1] = listed[i].path /\ <<listed[i].path, <<i, "">>>>[2] = <<i, "">>
      OBVIOUS
    <3> QED BY <1>2, <3>1, <3>2
  <2>2. e[1] = q /\ e[2] = <<i, "">>
    OBVIOUS
  <2> HIDE DEF e, q
  <2>3. e[1] \in DOMAIN FilesOf(rows) /\ FilesOf(rows)[e[1]] = e[2]
    BY <1>1, <2>1, FilesAre DEF Settled
  <2> QED BY <2>2, <2>3 DEF q
<1> QED BY <1>3, <1>4, <1>5 DEF Speaks, rows

(* What the API has written the blob server reads as it is.                *)
LEMMA ReadAsWritten ==
    ASSUME NEW files, Speaks(files)
    PROVE  AllValid(PairsOf(files)) /\ Speaks(FilesOf(Normalized(PairsOf(files))))
<1> DEFINE rows == PairsOf(files)
<1>1. /\ \A p \in DOMAIN files : <<p, files[p]>> \in rows
      /\ \A e \in rows : \E p \in DOMAIN files : e = <<p, files[p]>>
  BY DEF PairsOf
<1> HIDE DEF rows
<1>2. Settled(rows)
  <2>1. \A e \in rows : e[1] \in DOMAIN files /\ e = <<e[1], e[2]>> /\ e = <<e[1], files[e[1]]>>
    BY <1>1
  <2>2. \A e \in rows : Clean(e[1])
    BY <2>1 DEF Speaks
  <2>3. \A e, f \in rows : e[1] = f[1] => e = f
    BY <2>1
  <2> QED BY <2>1, <2>2, <2>3 DEF Settled, UniquePaths
<1>3. AllValid(rows) /\ Normalized(rows) = rows
  BY <1>2, SettledStays
<1>4. \A p \in DOMAIN FilesOf(rows) : Clean(p)
  BY <1>2, FilesDomain DEF Settled
<1>5. ASSUME NEW i \in DOMAIN listed
      PROVE  /\ NormalizePath(listed[i].path) \in DOMAIN FilesOf(rows)
             /\ FilesOf(rows)[NormalizePath(listed[i].path)] = <<i, "">>
  <2> DEFINE q == NormalizePath(listed[i].path)
             e == <<q, files[q]>>
  <2>1. q \in DOMAIN files /\ files[q] = <<i, "">>
    BY DEF Speaks
  <2>2. e \in rows /\ e[1] = q /\ e[2] = files[q]
    BY <1>1, <2>1
  <2> HIDE DEF e, q
  <2>3. e[1] \in DOMAIN FilesOf(rows) /\ FilesOf(rows)[e[1]] = e[2]
    BY <1>2, <2>2, FilesAre DEF Settled
  <2> QED BY <2>1, <2>2, <2>3 DEF q
<1> QED BY <1>3, <1>4, <1>5 DEF Speaks, rows

-----------------------------------------------------------------------------
(* Requests.                                                               *)

LEMMA TrimSlash ==
    ASSUME NEW p \in Seq(Tokens), p # <<>>, p[1] # "/", p[Len(p)] # "/"
    PROVE  TrimBoth(<<"/">> \o p, {"/"}) = p
<1> DEFINE url == <<"/">> \o p
           kept == {i \in DOMAIN url : url[i] \notin {"/"}}
           n == Len(p)
<1>0. n \in Nat /\ n >= 1
  OBVIOUS
<1>1. "/" \in Tokens
  BY DEF Tokens
<1>2. /\ url \in Seq(Tokens) /\ Len(url) = n + 1
      /\ url[1] = "/" /\ \A i \in 1..n : url[i + 1] = p[i]
  <2>1. <<"/">> \in Seq(Tokens) /\ Len(<<"/">>) = 1 /\ <<"/">>[1] = "/"
    BY <1>1
  <2>2. /\ url \in Seq(Tokens) /\ Len(url) = 1 + n
        /\ \A i \in 1..(1 + n) : url[i] = IF i <= 1 THEN <<"/">>[i] ELSE p[i - 1]
    BY <2>1, ConcatProperties
  <2> HIDE DEF url
  <2>3. 1 + n = n + 1 /\ 1 \in 1..(1 + n) /\ 1 <= 1
    BY <1>0
  <2>4. \A i \in 1..n : i + 1 \in 1..(1 + n) /\ ~(i + 1 <= 1) /\ (i + 1) - 1 = i
    BY <1>0
  <2>5. url[1] = "/"
    BY <2>1, <2>2, <2>3
  <2>6. \A i \in 1..n : url[i + 1] = p[i]
    BY <2>2, <2>4
  <2> QED BY <2>2, <2>3, <2>5, <2>6
<1>3. TrimBoth(url, {"/"}) = IF kept = {} THEN <<>> ELSE SubSeq(url, Min(kept), Max(kept))
  BY DEF TrimBoth
<1> HIDE DEF url
<1>4. /\ kept \subseteq 2..(n + 1)
      /\ 2 \in kept /\ n + 1 \in kept
  <2>1. DOMAIN url = 1..(n + 1)
    BY <1>2
  <2>2. 2 \in 1..(n + 1) /\ n + 1 \in 1..(n + 1) /\ 1 \in 1..n /\ n \in 1..n /\ 1 + 1 = 2
    BY <1>0
  <2>3. url[2] # "/" /\ url[n + 1] # "/"
    BY <1>2, <2>2
  <2>4. \A i \in kept : i \in 1..(n + 1) /\ i # 1
    BY <1>2, <2>1
  <2>5. 2 \in kept /\ n + 1 \in kept
    BY <2>1, <2>2, <2>3
  <2> HIDE DEF kept, n
  <2>6. \A i \in kept : i \in 2..(n + 1)
    BY <1>0, <2>4
  <2> QED BY <2>5, <2>6
<1> HIDE DEF kept
<1> DEFINE a == Min(kept)
           b == Max(kept)
<1>5. a = 2
  <2>1. a \in kept /\ \A y \in kept : a <= y
    <3>1. kept \in SUBSET Nat /\ kept # {}
      BY <1>4
    <3> QED BY <3>1, LeastIs
  <2> HIDE DEF a, n
  <2>2. a \in 2..(n + 1) /\ a <= 2
    BY <1>4, <2>1
  <2> QED BY <1>0, <2>2
<1>6. b = n + 1
  <2>1. b \in kept /\ \A y \in kept : y <= b
    <3>1. kept \in SUBSET (0..(n + 1)) /\ kept # {} /\ n + 1 \in Nat
      BY <1>0, <1>4
    <3> QED BY <3>1, GreatestExists
  <2> HIDE DEF b, n
  <2>2. b \in 2..(n + 1) /\ n + 1 <= b
    BY <1>4, <2>1
  <2> QED BY <1>0, <2>2
<1>7. TrimBoth(url, {"/"}) = SubSeq(url, 2, n + 1)
  BY <1>3, <1>4, <1>5, <1>6
<1> DEFINE q == SubSeq(url, 2, n + 1)
<1>8. q \in Seq(Tokens) /\ Len(q) = n /\ \A i \in 1..n : q[i] = url[i + 1]
  <2> HIDE DEF n
  <2>1. 2 \in Nat /\ n + 1 \in Nat /\ 1 <= 2 /\ 2 <= (n + 1) + 1 /\ n + 1 <= Len(url) /\ (n + 1) - 2 + 1 = n
    BY <1>0, <1>2
  <2>2. /\ q \in Seq(Tokens) /\ Len(q) = (n + 1) - 2 + 1
        /\ \A i \in 1..((n + 1) - 2 + 1) : q[i] = url[2 + i - 1]
    BY <1>2, <2>1, PartOf
  <2> HIDE DEF q
  <2>3. \A i \in 1..n : 2 + i - 1 = i + 1
    BY <1>0
  <2> QED BY <2>1, <2>2, <2>3
<1> HIDE DEF q
<1>9. q = p
  <2>1. \A i \in 1..n : q[i] = p[i]
    BY <1>2, <1>8
  <2> QED BY <1>8, <2>1
<1> QED BY <1>7, <1>9 DEF q, url

LEMMA FilterOne ==
    ASSUME NEW p \in Seq(Tokens), NEW D, p \in D
    PROVE  Filter(<<p>>, D) # <<>> /\ Head(Filter(<<p>>, D)) = p
<1> DEFINE s == <<p>>
           t == Filter(s, D)
<1>1. s \in Seq(Seq(Tokens)) /\ Len(s) = 1 /\ s[1] = p
  OBVIOUS
<1> HIDE DEF s
<1>2. t \in Seq(Seq(Tokens)) /\ \E m \in Nat : \E g : Keeps(g, m, s, D, t)
  BY <1>1, FilterIs
<1> HIDE DEF t
<1>3. PICK m \in Nat : \E g : Keeps(g, m, s, D, t)
  BY <1>2
<1>4. PICK g : Keeps(g, m, s, D, t)
  BY <1>3
<1>5. Len(t) = m /\ \A k \in 1..m : t[k] = s[g[k]] /\ g[k] \in 1..Len(s)
  BY <1>4 DEF Keeps
<1>6. \E k \in 1..m : g[k] = 1
  <2>1. 1 \in 1..Len(s) /\ s[1] \in D
    BY <1>1
  <2> QED BY <1>4, <2>1 DEF Keeps
<1>7. 1 \in 1..m /\ g[1] = 1
  <2>1. 1 \in 1..m
    BY <1>6
  <2>2. g[1] \in 1..1
    BY <1>1, <1>5, <2>1
  <2> QED BY <2>1, <2>2
<1>8. t # <<>> /\ t[1] = p
  BY <1>1, <1>2, <1>5, <1>7
<1>9. Head(t) = p
  BY <1>2, <1>8
<1> QED BY <1>8, <1>9 DEF t, s

LEMMA Gets ==
    ASSUME Listable, Accepted, Speaks(served), NEW i \in DOMAIN listed,
           Plain(listed[i].path), ExtensionOf(listed[i].path) # ""
    PROVE  FileFor(<<"/">> \o listed[i].path) = <<i, "">>
<1> DEFINE p == listed[i].path
           url == <<"/">> \o p
<1>1. p \in Seq(Tokens) /\ p # <<>> /\ Plain(p) /\ ExtensionOf(p) # ""
  BY PathsListed DEF Accepted
<1>2. NormalizePath(p) \in DOMAIN served /\ served[NormalizePath(p)] = <<i, "">>
  BY DEF Speaks
<1> HIDE DEF p
<1>3. Clean(p) /\ p[Len(p)] # "/"
  BY <1>1, PlainClean
<1>4. p \in DOMAIN served /\ served[p] = <<i, "">>
  BY <1>2, <1>3, CleanStays
<1>5. TrimBoth(url, {"/"}) = p
  <2>1. p[1] # "/"
    BY <1>3 DEF Clean
  <2> QED BY <1>1, <1>3, <2>1, TrimSlash
<1> HIDE DEF url
<1>6. RequestPaths(url) = <<p>>
  BY <1>1, <1>5 DEF RequestPaths
<1>7. Filter(<<p>>, DOMAIN served) # <<>> /\ Head(Filter(<<p>>, DOMAIN served)) = p
  BY <1>1, <1>4, FilterOne
<1>8. FileFor(url) = served[p]
  BY <1>6, <1>7 DEF FileFor
<1> QED BY <1>4, <1>8 DEF url, p

-----------------------------------------------------------------------------
Publishing ==
    /\ Listable /\ PublishTypeOK /\ standing # "broken"
    /\ origin \in {"cli", "build"} /\ (origin = "build" => Accepted)
    /\ standing \in {"accepted", "expanded", "published", "served"} => Accepted
    /\ standing = "failed" => listed = <<>> \/ ~AllPlain
    /\ standing = "expanded" => TreeRight
    /\ standing = "published" => Speaks(published)
    /\ standing = "served" => Speaks(served)

LEMMA PublishingInit == PublishInit => Publishing
<1> SUFFICES ASSUME PublishInit PROVE Publishing
  OBVIOUS
<1>1. listed \in CliLists \cup BuildLists /\ (origin = "build" => listed \in BuildLists)
  BY DEF PublishInit
<1>2. Listable
  BY <1>1, PublishAssumption DEF Listable
<1>3. origin = "build" => Accepted
  BY <1>1, PublishAssumption DEF Accepted
<1>4. standing = "listed" /\ origin \in {"cli", "build"} /\ treeRows = {}
  BY DEF PublishInit
<1> QED BY <1>2, <1>3, <1>4 DEF Publishing, PublishTypeOK

(* A step that leaves the tree and the manifests alone.                    *)
LEMMA SamePublish ==
    ASSUME UNCHANGED <<listed, origin>>
    PROVE  /\ Listable' <=> Listable
           /\ Accepted' <=> Accepted
           /\ AllPlain' <=> AllPlain
BY DEF Listable, Accepted, AllPlain

LEMMA PublishingStep == Publishing /\ [PublishNext]_publishVars => Publishing'
<1> SUFFICES ASSUME Publishing, [PublishNext]_publishVars PROVE Publishing'
  OBVIOUS
<1>1. CASE UNCHANGED publishVars
  <2>1. UNCHANGED <<listed, origin, standing, treeRows, published, served>>
    BY <1>1 DEF publishVars
  <2>2. /\ (TreeRight' <=> TreeRight) /\ (Speaks(published)' <=> Speaks(published))
        /\ (Speaks(served)' <=> Speaks(served)) /\ (PublishTypeOK' <=> PublishTypeOK)
    BY <2>1 DEF TreeRight, Speaks, AllPlain, PublishTypeOK
  <2> QED BY <2>1, <2>2, SamePublish DEF Publishing
<1> SUFFICES ASSUME PublishNext PROVE Publishing'
  BY <1>1
<1>2. UNCHANGED <<listed, origin>>
  BY DEF PublishNext
<1>3. Listable' /\ origin' \in {"cli", "build"} /\ (origin' = "build" => Accepted')
  BY <1>2, SamePublish DEF Publishing
<1>3a. /\ origin \in {"cli", "build"} /\ \A e \in treeRows : e[1] \in Seq(Tokens)
       /\ origin' = origin
  BY <1>2 DEF Publishing, PublishTypeOK
<1>4. CASE PrepareList
  <2>1. standing' \in {"accepted", "refused"}
    BY <1>4 DEF PrepareList
  <2>2. standing' = "accepted" => Accepted
    <3> SUFFICES ASSUME standing' = "accepted" PROVE Accepted
      OBVIOUS
    <3>1. /\ \A i \in DOMAIN listed : InSchema(listed[i])
          /\ Cardinality(PathsOf(listed)) = Len(listed)
      BY <1>4 DEF PrepareList
    <3>2. \A i \in DOMAIN listed : listed[i].path # <<>>
      BY <3>1 DEF InSchema
    <3>3. \A i, j \in DOMAIN listed : listed[i].path = listed[j].path => i = j
      BY <3>1, AcceptedByCount DEF Publishing
    <3> QED BY <3>2, <3>3 DEF Accepted
  <2>3. PublishTypeOK'
    BY <1>4, <1>3a, <2>1 DEF PrepareList, PublishTypeOK
  <2> QED BY <1>2, <1>3, <2>1, <2>2, <2>3, SamePublish DEF Publishing
<1>5. CASE CheckOutput
  <2>1. standing' \in {"accepted", "refused"} /\ Accepted
    BY <1>5 DEF CheckOutput, Publishing
  <2>2. PublishTypeOK'
    BY <1>5, <1>3a, <2>1 DEF CheckOutput, PublishTypeOK
  <2> QED BY <1>2, <1>3, <2>1, <2>2, SamePublish DEF Publishing
<1>6. ASSUME NEW failed, ExpandList(failed) PROVE Publishing'
  <2>1. standing = "accepted" /\ standing' = "expanded"
    BY <1>6 DEF ExpandList
  <2>2. Accepted
    BY <2>1 DEF Publishing
  <2>3. TreeRight'
    BY <1>2, <1>6, <2>2, ExpandRight DEF Publishing
  <2>4. PublishTypeOK'
    BY <1>3a, <2>1, <2>3 DEF TreeRight, PublishTypeOK
  <2> QED BY <1>2, <1>3, <2>1, <2>2, <2>3, <2>4, SamePublish DEF Publishing
<1>7. CASE PublishTree
  <2>1. standing = "expanded" /\ TreeRight /\ Accepted
    BY <1>7 DEF PublishTree, Publishing
  <2>2. CASE treeRows # {} /\ UniquePaths(treeRows) /\ AllValid(treeRows) /\ AllValid(Normalized(treeRows))
    <3>1. standing' = "published" /\ published' = FilesOf(Normalized(Normalized(treeRows)))
      BY <1>7, <2>2 DEF PublishTree
    <3>2. Speaks(published')
      BY <2>1, <2>2, <3>1, PublishSpeaks
    <3>3. Speaks(published)'
      BY <1>2, <3>2 DEF Speaks
    <3>4. PublishTypeOK'
      BY <1>7, <1>3a, <2>2, <3>1 DEF PublishTree, PublishTypeOK
    <3> QED BY <1>2, <1>3, <2>1, <3>1, <3>3, <3>4, SamePublish DEF Publishing
  <2>3. CASE ~(treeRows # {} /\ UniquePaths(treeRows) /\ AllValid(treeRows) /\ AllValid(Normalized(treeRows)))
    <3>1. standing' = "failed"
      BY <1>7, <2>3 DEF PublishTree, Refuse
    <3>2. listed = <<>> \/ ~AllPlain
      <4> SUFFICES ASSUME listed # <<>>, AllPlain PROVE FALSE
        OBVIOUS
      <4>1. treeRows # {}
        <5>1. 1 \in DOMAIN listed
          BY DEF Publishing, Listable
        <5> QED BY <2>1, <5>1 DEF TreeRight
      <4>2. \A e \in treeRows : NormalizePath(e[1]) = e[1] /\ NormalizePath(e[1]) # Invalid
        BY <2>1, CleanStays DEF TreeRight
      <4>3. UniquePaths(treeRows) /\ AllValid(treeRows)
        BY <2>1, <4>2 DEF TreeRight, UniquePaths, AllValid
      <4>4. AllValid(Normalized(treeRows))
        <5>1. \A x \in Normalized(treeRows) : \E e \in treeRows : x = <<e[1], e[2]>>
          BY <4>2, NormalizedIs
        <5>2. \A x \in Normalized(treeRows) : \E e \in treeRows : x[1] = e[1] /\ x = <<e[1], e[2]>>
          BY <5>1
        <5>3. \A x \in Normalized(treeRows) : NormalizePath(x[1]) = x[1] /\ NormalizePath(x[1]) # Invalid
          BY <4>2, <5>2
        <5>4. ASSUME NEW x \in Normalized(treeRows), NEW y \in Normalized(treeRows), x[1] = y[1] PROVE x = y
          <6>1. PICK e \in treeRows : x[1] = e[1] /\ x = <<e[1], e[2]>>
            BY <5>2
          <6>2. PICK f \in treeRows : y[1] = f[1] /\ y = <<f[1], f[2]>>
            BY <5>2
          <6>3. e = f
            BY <4>3, <5>4, <6>1, <6>2 DEF UniquePaths
          <6> QED BY <6>1, <6>2, <6>3
        <5> QED BY <5>3, <5>4 DEF AllValid
      <4> QED BY <2>3, <4>1, <4>3, <4>4
    <3>3. PublishTypeOK'
      BY <1>7, <1>3a, <2>3, <3>1 DEF PublishTree, Refuse, PublishTypeOK
    <3> QED BY <1>2, <1>3, <3>1, <3>2, <3>3, SamePublish DEF Publishing
  <2> QED BY <2>2, <2>3
<1>8. CASE LoadPublished
  <2>1. standing = "published" /\ Speaks(published) /\ Accepted
    BY <1>8 DEF LoadPublished, Publishing
  <2>2. AllValid(PairsOf(published)) /\ Speaks(FilesOf(Normalized(PairsOf(published))))
    BY <2>1, ReadAsWritten
  <2>3. standing' = "served" /\ served' = FilesOf(Normalized(PairsOf(published)))
    BY <1>8, <2>2 DEF LoadPublished
  <2>4. Speaks(served)'
    <3>1. Speaks(served')
      BY <2>2, <2>3
    <3> QED BY <1>2, <3>1 DEF Speaks
  <2>5. PublishTypeOK'
    BY <1>8, <1>3a, <2>2, <2>3 DEF LoadPublished, PublishTypeOK
  <2> QED BY <1>2, <1>3, <2>1, <2>3, <2>4, <2>5, SamePublish DEF Publishing
<1> QED BY <1>4, <1>5, <1>6, <1>7, <1>8 DEF PublishNext

LEMMA PublishingSays == Publishing => PublishTypeOK /\ PublishedIsServed
<1> SUFFICES ASSUME Publishing PROVE PublishTypeOK /\ PublishedIsServed
  OBVIOUS
<1>1. standing = "failed" => listed = <<>> \/ \E p \in PathsOf(listed) : ~Plain(p)
  BY PathsListed DEF Publishing, AllPlain
<1>2. ASSUME standing = "served", NEW i \in DOMAIN listed
      PROVE  /\ <<i, "">> \in {served[p] : p \in DOMAIN served}
             /\ Plain(listed[i].path) /\ ExtensionOf(listed[i].path) # "" =>
                    FileFor(<<"/">> \o listed[i].path) = <<i, "">>
  <2>1. Listable /\ Accepted /\ Speaks(served)
    BY <1>2 DEF Publishing
  <2>2. <<i, "">> \in {served[p] : p \in DOMAIN served}
    BY <2>1 DEF Speaks
  <2> QED BY <2>1, <2>2, Gets
<1>3. standing # "broken"
  BY DEF Publishing
<1>4. PublishTypeOK
  BY DEF Publishing
<1> QED BY <1>1, <1>2, <1>3, <1>4 DEF PublishedIsServed

(* What the API accepts and publishes every blob server serves: whatever   *)
(* the list, provided no slash of a path is followed by a blank, and       *)
(* whichever variants could not be made, no manifest is refused by the     *)
(* blob server that the API has written, and each file is there as given.  *)
THEOREM FilesAreServed == PublishSpec => [](PublishTypeOK /\ PublishedIsServed)
<1> QED BY PublishingInit, PublishingStep, PublishingSays, PTL DEF PublishSpec
=============================================================================
