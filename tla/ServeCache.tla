----------------------------- MODULE ServeCache -----------------------------
(***************************************************************************)
(* One site as its visitors see it: the blob servers that resolve a path   *)
(* of it through their LRU, Redis and PostgreSQL, the activations that     *)
(* switch it and the deletion that ends it                                 *)
(* (services/blob-server/src/handler.go and manifest.go).                  *)
(*                                                                         *)
(* A visit is one request; it takes one step per remote call and one for   *)
(* the local work between two.  What an answer is made of is abstracted to *)
(* the deployment it comes from, 0 for a 404; a path's body, cached under  *)
(* the same key and for the same time as its hash, goes with the hash.     *)
(* That the blobs are there is BlobGC's matter, that activations of one    *)
(* page take turns Activation's.                                           *)
(***************************************************************************)
EXTENDS Naturals

CONSTANTS
    Servers,
    Visits,         \* visitors, who come again and again
    ServerOf,       \* [Visits -> Servers]
    Empty,          \* no entry in a cache
    MaxVersion,     \* bound: deployments are numbered 1..MaxVersion
    MaxSwitches,    \* bound: activations
    Seed,           \* deployments 1..Seed were made before; Seed is live
    Warm,           \* Redis has the keys that Seed activations wrote, and
                    \* has not lost them
    Mishaps         \* sets of Mishap: what may happen in one behaviour

(* The page is deleted; a server's calls to Redis fail; a server carries   *)
(* what it read from PostgreSQL past a whole activation before it writes   *)
(* it to Redis.                                                            *)
Mishap == {"deletion", "redisError", "slowFill"}

Deployments == 1..MaxVersion
Answers == 0..MaxVersion

(* Values of site_version:{siteId}; 0 stands for a missing key.            *)
SiteVersions == 0..(Seed + MaxSwitches)

(* What site:{subdomain} and its LRU entry say.                            *)
SiteEntries == {"id", "NOT_FOUND"}

VisitSteps == {"idle", "siteGet", "siteDb", "siteFill", "version", "verGet",
               "verPut", "path", "actGet", "actDb", "actFill", "actPut",
               "resolve", "respond"}
SwitchSteps == {"idle", "setActive", "incr", "dropSite"}
DeleteSteps ==
    {"live", "site", "dropSite", "dropActive", "dropVersion", "gone"}

ASSUME ConstantsAssumption ==
    /\ ServerOf \in [Visits -> Servers]
    /\ MaxVersion \in Nat \ {0} /\ MaxSwitches \in Nat
    /\ Seed \in 0..MaxVersion /\ Warm \in BOOLEAN
    /\ Empty \notin Answers /\ Empty \notin SiteVersions
    /\ Empty \notin SiteEntries
    /\ Mishaps \subseteq SUBSET Mishap

VARIABLES
    mishap,         \* what may happen in this behaviour
    made,           \* deployments made so far
    live,           \* the row with is_active, 0 if there is none
    open,           \* sites.active
    switch,         \* [step, to, isRollback] of the activation under way
    delete,         \* next step of deletePage
    rSite,          \* Redis site:{subdomain}
    rActive,        \* Redis active_deployment:{siteId}
    rVersion,       \* Redis site_version:{siteId}
    lSite,          \* {subdomain}:__site__ of each server
    lVersion,       \* {subdomain}:__version__
    lActive,        \* {siteId}:__active__:{version}
    lPath,          \* {subdomain}:{version}:{path} and its body
    pc,             \* next step of each visit
    ver,            \* the version it goes by
    got             \* the deployment it has resolved, at last its answer

pg == <<made, live, open>>
api == <<switch, delete>>
redis == <<rSite, rActive, rVersion>>
lru == <<lSite, lVersion, lActive, lPath>>
visit == <<pc, ver, got>>
vars == <<mishap, pg, api, redis, lru, visit>>

Idle == [step |-> "idle", to |-> 0, isRollback |-> FALSE]

Init ==
    /\ mishap \in Mishaps
    /\ made = Seed /\ live = Seed /\ open = TRUE
    /\ switch = Idle /\ delete = "live"
    /\ rSite = Empty
    /\ rActive = IF Warm /\ Seed > 0 THEN Seed ELSE Empty
    /\ rVersion = IF Warm THEN Seed ELSE 0
    /\ lSite = [s \in Servers |-> Empty]
    /\ lVersion = [s \in Servers |-> Empty]
    /\ lActive = [s \in Servers |-> [v \in SiteVersions |-> Empty]]
    /\ lPath = [s \in Servers |-> [v \in SiteVersions |-> Empty]]
    /\ pc = [x \in Visits |-> "idle"]
    /\ ver = [x \in Visits |-> 0]
    /\ got = [x \in Visits |-> 0]

RedisFails == "redisError" \in mishap

Goto(x, step) == pc' = [pc EXCEPT ![x] = step]
Move(x, from, to) == pc[x] = from /\ Goto(x, to)

(* A 404, on the spot.                                                     *)
NotFound(x) ==
    /\ Goto(x, "respond")
    /\ got' = [got EXCEPT ![x] = 0]

-----------------------------------------------------------------------------
(* resolveSiteID.                                                          *)

LookUpSite(x) ==
    /\ pc[x] = "idle"
    /\ LET here == lSite[ServerOf[x]] IN
       \/ here = "id" /\ Goto(x, "version") /\ UNCHANGED got
       \/ here = "NOT_FOUND" /\ NotFound(x)
       \/ here = Empty /\ Goto(x, "siteGet") /\ UNCHANGED got
    /\ UNCHANGED <<mishap, pg, api, redis, lru, ver>>

(* A miss in Redis means the backend has invalidated: site and version go. *)
GetSite(x) ==
    /\ pc[x] = "siteGet"
    /\ lSite' = [lSite EXCEPT ![ServerOf[x]] = rSite]
    /\ \/ rSite = "id" /\ Goto(x, "version") /\ UNCHANGED <<lVersion, got>>
       \/ rSite = "NOT_FOUND" /\ NotFound(x) /\ UNCHANGED lVersion
       \/ /\ rSite = Empty
          /\ lVersion' = [lVersion EXCEPT ![ServerOf[x]] = Empty]
          /\ Goto(x, "siteDb")
          /\ UNCHANGED got
    /\ UNCHANGED <<mishap, pg, api, redis, lActive, lPath, ver>>

FailSite(x) ==
    /\ RedisFails
    /\ Move(x, "siteGet", "siteDb")
    /\ UNCHANGED <<mishap, pg, api, redis, lru, ver, got>>

(* got holds 1 if there is an active site.                                 *)
BugQuerySite(x) ==
    /\ Move(x, "siteDb", "siteFill")
    /\ got' = [got EXCEPT ![x] = 1]
    /\ UNCHANGED <<mishap, pg, api, redis, lru, ver>>

QuerySite(x) ==
    /\ Move(x, "siteDb", "siteFill")
    /\ got' = [got EXCEPT ![x] = IF open THEN 1 ELSE 0]
    /\ UNCHANGED <<mishap, pg, api, redis, lru, ver>>

(* What a SET leaves: the error is not looked at.                          *)
Written(old, new) == IF RedisFails THEN {old, new} ELSE {new}

FillSite(x) ==
    /\ Move(x, "siteFill", IF got[x] = 1 THEN "version" ELSE "respond")
    /\ LET found == IF got[x] = 1 THEN "id" ELSE "NOT_FOUND" IN
        /\ rSite' \in Written(rSite, found)
        /\ lSite' = [lSite EXCEPT ![ServerOf[x]] = found]
    /\ got' = [got EXCEPT ![x] = 0]
    /\ UNCHANGED <<mishap, pg, api, rActive, rVersion, lVersion, lActive, lPath,
                   ver>>

-----------------------------------------------------------------------------
(* resolveSiteVersion.                                                     *)

LookUpVersion(x) ==
    /\ pc[x] = "version"
    /\ LET here == lVersion[ServerOf[x]] IN
       \/ here # Empty /\ Goto(x, "path") /\ ver' = [ver EXCEPT ![x] = here]
       \/ here = Empty /\ Goto(x, "verGet") /\ UNCHANGED ver
    /\ UNCHANGED <<mishap, pg, api, redis, lru, got>>

(* "0" if the key is missing or the call fails.                            *)
GetVersion(x) ==
    /\ Move(x, "verGet", "verPut")
    /\ \E v \in {rVersion} \cup (IF RedisFails THEN {0} ELSE {}) :
        ver' = [ver EXCEPT ![x] = v]
    /\ UNCHANGED <<mishap, pg, api, redis, lru, got>>

PutVersion(x) ==
    /\ Move(x, "verPut", "path")
    /\ lVersion' = [lVersion EXCEPT ![ServerOf[x]] = ver[x]]
    /\ UNCHANGED <<mishap, pg, api, redis, lSite, lActive, lPath, ver, got>>

-----------------------------------------------------------------------------
(* ServeHTTP's path cache, and resolveActiveDeploymentID.                  *)

(* activeDeploymentL1Key: under the version the visit goes by.             *)
BugScope(v) == 0
Scope(v) == v

Found(x, d, next) ==
    /\ Goto(x, next)
    /\ got' = [got EXCEPT ![x] = d]

LookUpPath(x) ==
    /\ pc[x] = "path"
    /\ LET path == lPath[ServerOf[x]][ver[x]]
           active == lActive[ServerOf[x]][Scope(ver[x])]
       IN \/ path # Empty /\ Found(x, path, "respond")
          \/ path = Empty /\ active # Empty /\ Found(x, active, "resolve")
          \/ /\ path = Empty /\ active = Empty
             /\ Goto(x, "actGet")
             /\ UNCHANGED got
    /\ UNCHANGED <<mishap, pg, api, redis, lru, ver>>

GetActive(x) ==
    /\ pc[x] = "actGet"
    /\ \/ rActive # Empty /\ Found(x, rActive, "actPut")
       \/ /\ rActive = Empty \/ RedisFails
          /\ Goto(x, "actDb")
          /\ UNCHANGED got
    /\ UNCHANGED <<mishap, pg, api, redis, lru, ver>>

QueryActive(x) ==
    /\ Move(x, "actDb", IF live = 0 THEN "actPut" ELSE "actFill")
    /\ got' = [got EXCEPT ![x] = live]
    /\ UNCHANGED <<mishap, pg, api, redis, lru, ver>>

(* SET without a TTL.                                                      *)
FillActive(x) ==
    /\ Move(x, "actFill", "actPut")
    /\ rActive' \in Written(rActive, got[x])
    /\ UNCHANGED <<mishap, pg, api, rSite, rVersion, lru, ver, got>>

PutActive(x) ==
    /\ Move(x, "actPut", "resolve")
    /\ lActive' = [lActive EXCEPT ![ServerOf[x]][Scope(ver[x])] = got[x]]
    /\ UNCHANGED <<mishap, pg, api, redis, lSite, lVersion, lPath, ver, got>>

(* loadManifest and serveBlob: a manifest never changes.                   *)
Resolve(x) ==
    /\ Move(x, "resolve", "respond")
    /\ lPath' = [lPath EXCEPT ![ServerOf[x]][ver[x]] = got[x]]
    /\ UNCHANGED <<mishap, pg, api, redis, lSite, lVersion, lActive, ver, got>>

(* The response is out, and the visitor may come again.                    *)
Respond(x) ==
    /\ Move(x, "respond", "idle")
    /\ ver' = [ver EXCEPT ![x] = 0]
    /\ got' = [got EXCEPT ![x] = 0]
    /\ UNCHANGED <<mishap, pg, api, redis, lru>>

-----------------------------------------------------------------------------
(* The end of commitBlobTreeDeploy and of rollbackToDeployment.            *)

(* No visit is between PostgreSQL and Redis with a deployment in hand.     *)
NoFillPending == \A x \in Visits : pc[x] # "actFill"

(* The activation transaction: a new deployment or an old one goes live.   *)
Activate(d) ==
    /\ switch.step = "idle" /\ delete = "live"
    /\ rVersion < Seed + MaxSwitches
    /\ d <= made + 1 /\ d # live
    /\ "slowFill" \in mishap \/ NoFillPending
    /\ made' = IF d > made THEN d ELSE made
    /\ live' = d
    /\ switch' = [step |-> "setActive", to |-> d, isRollback |-> d <= made]
    /\ UNCHANGED <<mishap, open, delete, redis, lru, visit>>

SwitchTo(from, to) ==
    /\ switch.step = from
    /\ switch' = [switch EXCEPT !.step = to]

BugSetActive ==
    /\ SwitchTo("setActive", "incr")
    /\ UNCHANGED <<mishap, redis, pg, delete, lru, visit>>

SetActive ==
    /\ SwitchTo("setActive", "incr")
    /\ rActive' = switch.to
    /\ UNCHANGED <<mishap, pg, delete, rSite, rVersion, lru, visit>>

IncrVersion ==
    /\ SwitchTo("incr", "dropSite")
    /\ rVersion' = rVersion + 1
    /\ UNCHANGED <<mishap, pg, delete, rSite, rActive, lru, visit>>

(* A rollback drops site:{project_name}, a key no visitor's name maps to.  *)
DropSite ==
    /\ switch.step = "dropSite"
    /\ switch' = Idle
    /\ rSite' = IF switch.isRollback THEN rSite ELSE Empty
    /\ UNCHANGED <<mishap, pg, delete, rActive, rVersion, lru, visit>>

-----------------------------------------------------------------------------
(* deletePage.                                                             *)

DeleteTo(from, to) == delete = from /\ delete' = to

(* The row of the page goes and takes its deployments along.               *)
DeleteRows ==
    /\ "deletion" \in mishap
    /\ DeleteTo("live", "site")
    /\ live' = 0
    /\ UNCHANGED <<mishap, made, open, switch, redis, lru, visit>>

DeactivateSite ==
    /\ DeleteTo("site", "dropSite")
    /\ open' = FALSE
    /\ UNCHANGED <<mishap, made, live, switch, redis, lru, visit>>

DeleteSiteKey ==
    /\ DeleteTo("dropSite", "dropActive")
    /\ rSite' = Empty
    /\ UNCHANGED <<mishap, pg, switch, rActive, rVersion, lru, visit>>

DeleteActiveKey ==
    /\ DeleteTo("dropActive", "dropVersion")
    /\ rActive' = Empty
    /\ UNCHANGED <<mishap, pg, switch, rSite, rVersion, lru, visit>>

DeleteVersionKey ==
    /\ DeleteTo("dropVersion", "gone")
    /\ rVersion' = 0
    /\ UNCHANGED <<mishap, pg, switch, rSite, rActive, lru, visit>>

-----------------------------------------------------------------------------
(* Entries run out, or make room for others.                               *)

LapseRedisSite ==
    /\ rSite # Empty
    /\ rSite' = Empty
    /\ UNCHANGED <<mishap, pg, api, rActive, rVersion, lru, visit>>

LapseSite(s) ==
    /\ lSite[s] # Empty
    /\ lSite' = [lSite EXCEPT ![s] = Empty]
    /\ UNCHANGED <<mishap, pg, api, redis, lVersion, lActive, lPath, visit>>

LapseVersion(s) ==
    /\ lVersion[s] # Empty
    /\ lVersion' = [lVersion EXCEPT ![s] = Empty]
    /\ UNCHANGED <<mishap, pg, api, redis, lSite, lActive, lPath, visit>>

LapseActive(s, v) ==
    /\ lActive[s][v] # Empty
    /\ lActive' = [lActive EXCEPT ![s][v] = Empty]
    /\ UNCHANGED <<mishap, pg, api, redis, lSite, lVersion, lPath, visit>>

LapsePath(s, v) ==
    /\ lPath[s][v] # Empty
    /\ lPath' = [lPath EXCEPT ![s][v] = Empty]
    /\ UNCHANGED <<mishap, pg, api, redis, lSite, lVersion, lActive, visit>>

-----------------------------------------------------------------------------
Proceed(x) ==
    \/ GetSite(x) \/ FailSite(x) \/ QuerySite(x) \/ FillSite(x)
    \/ LookUpVersion(x) \/ GetVersion(x) \/ PutVersion(x)
    \/ LookUpPath(x) \/ GetActive(x) \/ QueryActive(x) \/ FillActive(x)
    \/ PutActive(x) \/ Resolve(x) \/ Respond(x)

Publish == SetActive \/ IncrVersion \/ DropSite
Delete ==
    DeactivateSite \/ DeleteSiteKey \/ DeleteActiveKey \/ DeleteVersionKey

Lapses(s) ==
    \/ LapseSite(s) \/ LapseVersion(s)
    \/ \E v \in SiteVersions : LapseActive(s, v) \/ LapsePath(s, v)

Next ==
    \/ \E x \in Visits : LookUpSite(x) \/ Proceed(x)
    \/ \E d \in Deployments : Activate(d)
    \/ Publish
    \/ DeleteRows \/ Delete
    \/ LapseRedisSite
    \/ \E s \in Servers : Lapses(s)

Spec == Init /\ [][Next]_vars

(* Requests and handlers run on, and every TTL runs out: a hit renews no   *)
(* entry.                                                                  *)
Fairness ==
    /\ \A x \in Visits : WF_vars(Proceed(x))
    /\ WF_vars(Publish) /\ WF_vars(Delete)
    /\ WF_vars(LapseRedisSite)
    /\ \A s \in Servers :
        /\ WF_vars(LapseSite(s)) /\ WF_vars(LapseVersion(s))
        /\ \A v \in SiteVersions :
            /\ WF_vars(LapseActive(s, v))
            /\ WF_vars(LapsePath(s, v))

FairSpec == Spec /\ Fairness

-----------------------------------------------------------------------------
(* Properties.                                                             *)

CacheOf(values) == [Servers -> values \cup {Empty}]
ScopedCache == [Servers -> [SiteVersions -> Answers \cup {Empty}]]

(* The type of every variable.                                             *)
TypeOK ==
    /\ mishap \in Mishaps
    /\ made \in Answers /\ live \in 0..made /\ open \in BOOLEAN
    /\ switch \in [step : SwitchSteps, to : Answers, isRollback : BOOLEAN]
    /\ delete \in DeleteSteps
    /\ rSite \in SiteEntries \cup {Empty}
    /\ rActive \in Deployments \cup {Empty}
    /\ rVersion \in SiteVersions
    /\ lSite \in CacheOf(SiteEntries)
    /\ lVersion \in CacheOf(SiteVersions)
    /\ lActive \in ScopedCache /\ lPath \in ScopedCache
    /\ pc \in [Visits -> VisitSteps]
    /\ ver \in [Visits -> SiteVersions]
    /\ got \in [Visits -> Answers]

(* What a cache holds under the current site_version is what the table     *)
(* says, once no activation is under way: a version, once bumped, is never *)
(* filled with what was live before.                                       *)
CurrentVersionFresh ==
    switch.step \in {"idle", "dropSite"} /\ delete = "live" =>
        \A s \in Servers : \A cache \in {lActive, lPath} :
            cache[s][rVersion] \in {live, Empty}

(* What visitors ought to see.                                             *)
Truth == IF open THEN live ELSE 0

(* When activations and deletions have come to rest, every visitor comes   *)
(* to see the live deployment, and nothing once the page is deleted.       *)
Converges == <>[](\A x \in Visits : pc[x] = "respond" => got[x] = Truth)

(* active_deployment:{siteId} comes to agree with the table.               *)
RedisConverges == <>[](rActive \in {live, Empty} \/ ~open)
=============================================================================
