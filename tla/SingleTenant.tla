---------------------------- MODULE SingleTenant ----------------------------
(***************************************************************************)
(* A blob server without a base domain: it serves the objects of a bucket  *)
(* by their keys, which whoever owns the bucket replaces and removes, and  *)
(* keeps what MinIO has told it for cache_ttl                              *)
(* (services/blob-server/src/handler.go, plugin.go).                       *)
(*                                                                         *)
(* Time goes by in ticks; a tick is what a missing object is remembered    *)
(* for.  A request takes less, but the owner may act in the middle of it.  *)
(* Versions are numbered as they are written: the ETag of an object is its *)
(* version, and its Last-Modified comes in the same order.                 *)
(***************************************************************************)
EXTENDS Naturals

CONSTANTS
    Visitors,
    Ttl,            \* cache_ttl
    MaxWrites,      \* bound: writes and removals of the owner
    Services        \* bound: settings and paths that are played

ObjectKeys == {"file", "fallback"}
ObjectVersions == 0..MaxWrites                  \* 0: no such object
Held == {"absent", "missing", "metadata", "body"}

(* What the server is configured for, and what is asked for: a path that   *)
(* has no extension, has one, or has one of fallback_except.               *)
Settings == [path : {"route", "page", "asset"}, fallback : BOOLEAN,
             caches : BOOLEAN, redirects : BOOLEAN, large : BOOLEAN]

ASSUME SingleAssumption ==
    Ttl \in Nat \ {0} /\ MaxWrites \in Nat /\ Services \subseteq Settings

VARIABLES
    setting,
    bucket,     \* version of each object
    recent,     \* history: versions each had in this tick and the last Ttl
    writes,
    memory,     \* the LRU: what it holds of each key, and for how long yet
    visit,      \* of each visitor: its step, the key, what MinIO has answered
    told,       \* what it was last told
    copy        \* the version of "file" or "fallback" its browser keeps

singleVars == <<setting, bucket, recent, writes, memory, visit, told, copy>>

Unknown == [holds |-> "absent", version |-> 0, left |-> 0]
NotTold == [status |-> 0, key |-> "file", version |-> 0]
Away == [step |-> "away", key |-> "file", partial |-> FALSE, got |-> 0, fell |-> FALSE]

SingleTypeOK ==
    /\ setting \in Services
    /\ bucket \in [ObjectKeys -> ObjectVersions]
    /\ recent \in [ObjectKeys -> [0..Ttl -> SUBSET ObjectVersions]]
    /\ writes \in 0..MaxWrites
    /\ memory \in [ObjectKeys -> [holds : Held, version : ObjectVersions, left : 0..Ttl]]
    /\ visit \in [Visitors -> [step : {"away", "cache", "fetch", "keep", "renew"}, key : ObjectKeys,
                               partial : BOOLEAN, got : ObjectVersions, fell : BOOLEAN]]
    /\ told \in [Visitors -> [status : {0, 200, 206, 304, 307, 404}, key : ObjectKeys,
                              version : ObjectVersions]]
    /\ copy \in [Visitors -> [key : ObjectKeys, version : ObjectVersions]]

SingleInit ==
    /\ setting \in Services
    /\ bucket = [k \in ObjectKeys |-> 0]
    /\ recent = [k \in ObjectKeys |-> [n \in 0..Ttl |-> {0}]]
    /\ writes = 0
    /\ memory = [k \in ObjectKeys |-> Unknown]
    /\ visit = [u \in Visitors |-> Away]
    /\ told = [u \in Visitors |-> NotTold]
    /\ copy = [u \in Visitors |-> [key |-> "file", version |-> 0]]

-----------------------------------------------------------------------------
(* The owner, and time.                                                    *)

WriteObject(k, version) ==
    /\ writes < MaxWrites /\ version # bucket[k]
    /\ writes' = writes + 1
    /\ bucket' = [bucket EXCEPT ![k] = version]
    /\ recent' = [recent EXCEPT ![k][0] = @ \cup {version}]
    /\ UNCHANGED <<setting, memory, visit, told, copy>>

Older(e) == IF e.left > 0 THEN [e EXCEPT !.left = @ - 1] ELSE Unknown

Tick ==
    /\ \A u \in Visitors : visit[u].step = "away"
    /\ recent' = [k \in ObjectKeys |->
                     [n \in 0..Ttl |-> IF n = 0 THEN {bucket[k]} ELSE recent[k][n - 1]]]
    /\ memory' = [k \in ObjectKeys |-> Older(memory[k])]
    /\ told' = [u \in Visitors |-> NotTold]
    /\ UNCHANGED <<setting, bucket, writes, visit, copy>>

EvictOldest(k) ==
    /\ memory[k].holds # "absent"
    /\ memory' = [memory EXCEPT ![k] = Unknown]
    /\ UNCHANGED <<setting, bucket, recent, writes, visit, told, copy>>

-----------------------------------------------------------------------------
(* ServeHTTP, single-tenant: a route is the fallback at once, a file that  *)
(* is not there is the fallback unless its extension excludes it.          *)

IsRoute == setting.fallback /\ setting.path = "route"
MayFallBack == setting.fallback /\ setting.path = "page"

Ask(u, partial) ==
    /\ visit[u].step = "away"
    /\ visit' = [visit EXCEPT ![u] = [step |-> "cache", partial |-> partial, got |-> 0,
                                      key |-> IF IsRoute THEN "fallback" ELSE "file",
                                      fell |-> IsRoute]]
    /\ told' = [told EXCEPT ![u] = NotTold]
    /\ UNCHANGED <<setting, bucket, recent, writes, memory, copy>>

Tell(u, status, version) ==
    LET k == visit[u].key IN
    /\ told' = [told EXCEPT ![u] = [status |-> status, key |-> k, version |-> version]]
    /\ copy' = [copy EXCEPT ![u] = IF status = 200 THEN [key |-> k, version |-> version] ELSE @]
    /\ visit' = [visit EXCEPT ![u] = Away]

(* serveObject ends with an error that says the object is not there.       *)
NotThere(u) ==
    IF MayFallBack /\ ~visit[u].fell
    THEN /\ visit' = [visit EXCEPT ![u].step = "cache", ![u].key = "fallback", ![u].fell = TRUE]
         /\ UNCHANGED <<told, copy>>
    ELSE Tell(u, 404, 0)

Goes(u, step) == visit' = [visit EXCEPT ![u].step = step] /\ UNCHANGED <<told, copy>>

-----------------------------------------------------------------------------
(* serveObject                                                             *)

Copy(u) == IF copy[u].key = visit[u].key THEN copy[u].version ELSE 0

(* checkConditionalHeaders: the copy is the item, or no older.             *)
BugUnmodified(u, item) == Copy(u) # 0
Unmodified(u, item) == Copy(u) # 0 /\ item.version <= Copy(u)

LookInCache(u) ==
    LET item == memory[visit[u].key] IN
    /\ visit[u].step = "cache"
    /\ IF item.holds = "absent" THEN Goes(u, "fetch")
       ELSE IF item.holds = "missing" THEN NotThere(u)
       ELSE IF setting.redirects THEN Tell(u, 307, item.version)
       ELSE IF Unmodified(u, item) THEN Tell(u, 304, Copy(u))
       ELSE IF item.holds = "body"
       THEN Tell(u, IF visit[u].partial THEN 206 ELSE 200, item.version)
       ELSE Goes(u, "fetch")
    /\ UNCHANGED <<setting, bucket, recent, writes, memory>>

(* HeadObject or GetObject.  An error of MinIO is a 404 to the visitor,    *)
(* though the object may be there.                                         *)
AskMinio(u) ==
    /\ visit[u].step = "fetch"
    /\ \/ visit' = [visit EXCEPT ![u].step = IF ~setting.redirects /\ Copy(u) # 0
                                                /\ Copy(u) = bucket[visit[u].key]
                                             THEN "renew" ELSE "keep",
                                 ![u].got = bucket[visit[u].key]]
          /\ UNCHANGED <<told, copy>>
       \/ Tell(u, 404, bucket[visit[u].key])
    /\ UNCHANGED <<setting, bucket, recent, writes, memory>>

Remember(u, e) == memory' = IF setting.caches THEN [memory EXCEPT ![visit[u].key] = e] ELSE memory

(* What MinIO has answered is kept, a part of a body excepted.             *)
Keep(u) ==
    LET v == visit[u].got IN
    /\ visit[u].step = "keep"
    /\ IF v = 0
       THEN NotThere(u) /\ Remember(u, [holds |-> "missing", version |-> 0, left |-> 1])
       ELSE /\ Tell(u, IF setting.redirects THEN 307 ELSE IF visit[u].partial THEN 206 ELSE 200, v)
            /\ IF visit[u].partial /\ ~setting.redirects THEN UNCHANGED memory
               ELSE Remember(u, [holds |-> IF setting.redirects \/ setting.large THEN "metadata" ELSE "body",
                                 version |-> v, left |-> Ttl])
    /\ UNCHANGED <<setting, bucket, recent, writes>>

(* MinIO has answered 304: the item that is there by now lives on.         *)
Renew(u) ==
    /\ visit[u].step = "renew"
    /\ memory' = [memory EXCEPT ![visit[u].key] = IF @.holds = "absent" THEN @ ELSE [@ EXCEPT !.left = Ttl]]
    /\ Tell(u, 304, visit[u].got)
    /\ UNCHANGED <<setting, bucket, recent, writes>>

-----------------------------------------------------------------------------
SingleNext ==
    \/ \E k \in ObjectKeys : WriteObject(k, writes + 1) \/ WriteObject(k, 0) \/ EvictOldest(k)
    \/ Tick
    \/ \E u \in Visitors :
           \/ \E partial \in BOOLEAN : Ask(u, partial)
           \/ LookInCache(u) \/ AskMinio(u) \/ Keep(u) \/ Renew(u)

SingleSpec == SingleInit /\ [][SingleNext]_singleVars

-----------------------------------------------------------------------------
(* Versions a key had within the last n ticks.                             *)
Within(k, n) == UNION {recent[k][i] : i \in 0..n}

(* cache_ttl bounds what a cache may do: whatever a visitor is told of an  *)
(* object, a body, a redirect, that the copy it keeps is good, was true of *)
(* the bucket within cache_ttl, and so was the absence of a file that the  *)
(* fallback stands in for; without a cache, during the request.  Writes in *)
(* the middle of requests, and answers of MinIO that overtake one another, *)
(* included.  (A minute does not bound a 404: Renew may find one.)         *)
BoundedStaleness ==
    \A u \in Visitors :
        LET t == told[u]
            age == IF setting.caches THEN Ttl ELSE 0
        IN  /\ t.status # 0 => t.version \in Within(t.key, age)
            /\ t.key = "fallback" /\ ~IsRoute => 0 \in Within("file", age)
=============================================================================
