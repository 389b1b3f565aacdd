---------------------------- MODULE Idempotency ----------------------------
(***************************************************************************)
(* One idempotency key of one page: the prepare requests that carry it,    *)
(* the commit requests that carry the deploy token of the same name, other *)
(* deploys of the page, and what they share: the row of idempotency_keys,  *)
(* the Redis token, the deployment lock and the deployments.               *)
(*                                                                         *)
(* What a commit does between its base check and its activation is left to *)
(* Activation.                                                             *)
(***************************************************************************)
EXTENDS Naturals, FiniteSets, DeploymentLock

CONSTANTS
    Prepares,       \* prepare requests with the key
    Commits,        \* commit requests with the token
    Rivals,         \* other deploys of the page, each with a holder of its own
    Key,            \* the key, the token and the lock holder: one string
    Bodies,         \* what a prepare may ask to deploy
    Body,           \* [Prepares -> Bodies]
    None,           \* no token
    MaxVersion,     \* bound: deployments are numbered 1..MaxVersion
    DoubleSubmits,  \* the client may send a request before a commit has
                    \* ended, and a commit before a prepare has
    Lapsing,        \* which of "lock" and "token" may reach its TTL
    Collects,       \* GC may take deployments but the newest
    FaultAt         \* where an exception or a crash may strike

Versions == 1..MaxVersion

PrepareSteps == {"insert", "read", "revive", "reread", "replay",
                 "getToken", "lock", "setToken", "undo", "fail"}
Guarded == {"check", "create", "activate", "complete", "delToken", "release"}
CommitSteps == Guarded \cup {"acquire"}

(* What the token carries: the base version and what to deploy.            *)
Payload == [base : 0..MaxVersion, body : Bodies]

(* How a prepare may end: refused, with a token or with a deployment.      *)
Outcomes == {"none", "token", "completed"}

ASSUME ConstantsAssumption ==
    /\ Prepares \cap Commits = {}
    /\ Rivals \cap (Prepares \cup Commits) = {}
    /\ Body \in [Prepares -> Bodies]
    /\ Key \notin Rivals /\ Free \notin Rivals \cup {Key}
    /\ None \notin Payload
    /\ Bodies \cap {"rival", "none"} = {}
    /\ MaxVersion \in Nat
    /\ DoubleSubmits \in BOOLEAN
    /\ Lapsing \subseteq {"lock", "token"} /\ Collects \in BOOLEAN
    /\ FaultAt \subseteq PrepareSteps \cup CommitSteps

VARIABLES
    status,         \* status of the row, "absent" if there is none
    resource,       \* resource_id, 0 for NULL
    token,          \* deploy:token:{Key}: a Payload, or None
    made,           \* the deployments made so far are 1..made
    owner,          \* [Versions -> Bodies \cup {"rival", "none"}]: whose
    lived,          \* the deployments that have gone live
    gone,           \* the deployments GC took
    pc,             \* next step of each request
    isNew,          \* checkAndReserveIdempotencyKey answered isNew
    base,           \* baseVersion of each prepare
    load,           \* the payload each commit has loaded
    dep,            \* the deployment a request found or made, or 0
    outcome         \* the answer of each prepare

row == <<status, resource>>
page == <<made, owner, lived, gone>>
local == <<isNew, base, load, dep, outcome>>
vars == <<row, token, lock, page, pc, local>>

Requests == Prepares \cup Commits

Init ==
    /\ status = "absent" /\ resource = 0
    /\ token = None
    /\ lock = Free
    /\ made = 0 /\ lived = {} /\ gone = {}
    /\ owner = [v \in Versions |-> "none"]
    /\ pc = [r \in Requests \cup Rivals |-> "idle"]
    /\ isNew = [p \in Prepares |-> FALSE]
    /\ base = [p \in Prepares |-> 0]
    /\ load = [c \in Commits |-> None]
    /\ dep = [r \in Requests |-> 0]
    /\ outcome = [p \in Prepares |-> "none"]

Goto(r, step) == pc' = [pc EXCEPT ![r] = step]
Move(r, from, to) == pc[r] = from /\ Goto(r, to)

(* A patient client waits for answers.                                     *)
MaySend(others) == DoubleSubmits \/ \A r \in others : pc[r] \in {"idle", "done"}

-----------------------------------------------------------------------------
(* prepareDeploy and checkAndReserveIdempotencyKey.                        *)

(* currentMaxVersion, before the key is looked at.                         *)
ReadBase(p) ==
    /\ Move(p, "idle", "insert")
    /\ MaySend(Commits)
    /\ base' = [base EXCEPT ![p] = made]
    /\ UNCHANGED <<row, token, lock, page, isNew, load, dep, outcome>>

Reserve(p) ==
    /\ status' = "in_progress" /\ resource' = 0
    /\ isNew' = [isNew EXCEPT ![p] = TRUE]
    /\ Goto(p, "lock")
    /\ UNCHANGED <<token, lock, page, base, load, dep, outcome>>

(* INSERT ... ON CONFLICT DO NOTHING.                                      *)
InsertKey(p) ==
    /\ pc[p] = "insert"
    /\ \/ status = "absent" /\ Reserve(p)
       \/ /\ status # "absent"
          /\ Goto(p, "read")
          /\ UNCHANGED <<row, token, lock, page, local>>

(* A completed row leads to its deployment, another to the token.          *)
Settled(p, otherwise) ==
    IF status = "completed" /\ resource # 0
    THEN Goto(p, "replay") /\ dep' = [dep EXCEPT ![p] = resource]
    ELSE Goto(p, otherwise) /\ UNCHANGED dep

ReadKey(p) ==
    /\ pc[p] = "read"
    /\ Settled(p, IF status = "failed" THEN "revive" ELSE "getToken")
    /\ UNCHANGED <<row, token, lock, page, isNew, base, load, outcome>>

(* UPDATE ... WHERE status = 'failed', and the re-read of who lost.        *)
BugRevivable == TRUE
Revivable == status = "failed"

Revive(p) ==
    /\ pc[p] = "revive"
    /\ \/ Revivable /\ Reserve(p)
       \/ /\ ~Revivable
          /\ Goto(p, "reread")
          /\ UNCHANGED <<row, token, lock, page, local>>

Reread(p) ==
    /\ pc[p] = "reread"
    /\ Settled(p, "getToken")
    /\ UNCHANGED <<row, token, lock, page, isNew, base, load, outcome>>

Answer(p, what) ==
    /\ Goto(p, "done")
    /\ outcome' = [outcome EXCEPT ![p] = what]
    /\ UNCHANGED <<row, token, lock, page, isNew, base, load, dep>>

(* The deployment is looked up; if it is gone the prepare goes on.         *)
Replay(p) ==
    /\ pc[p] = "replay"
    /\ \/ dep[p] \notin gone /\ Answer(p, "completed")
       \/ /\ dep[p] \in gone
          /\ Goto(p, "getToken")
          /\ UNCHANGED <<row, token, lock, page, local>>

GetToken(p) ==
    /\ pc[p] = "getToken"
    /\ \/ token # None /\ Answer(p, "token")
       \/ /\ token = None
          /\ Goto(p, "lock")
          /\ UNCHANGED <<row, token, lock, page, local>>

LockForToken(p) ==
    /\ pc[p] = "lock"
    /\ \/ Acquire(Key) /\ Goto(p, "setToken")
       \/ Refused(Key) /\ Goto(p, IF isNew[p] THEN "fail" ELSE "done")
    /\ UNCHANGED <<row, token, page, local>>

SetToken(p) ==
    /\ Move(p, "setToken", "done")
    /\ token' = [base |-> base[p], body |-> Body[p]]
    /\ outcome' = [outcome EXCEPT ![p] = "token"]
    /\ UNCHANGED <<row, lock, page, isNew, base, load, dep>>

(* The catch around it: release, then failIdempotencyKey.                  *)
Undo(p) ==
    /\ Move(p, "undo", IF isNew[p] THEN "fail" ELSE "done")
    /\ ReleaseLock(Key)
    /\ UNCHANGED <<row, token, page, local>>

(* Only a row still in progress is marked failed.                          *)
BugFailable == TRUE
Failable == status = "in_progress"

FailKey(p) ==
    /\ Move(p, "fail", "done")
    /\ status' = IF Failable THEN "failed" ELSE status
    /\ UNCHANGED <<resource, token, lock, page, local>>

-----------------------------------------------------------------------------
(* commitDeploy.                                                           *)

LoadToken(c) ==
    /\ Move(c, "idle", "acquire")
    /\ MaySend(Requests)
    /\ token # None
    /\ load' = [load EXCEPT ![c] = token]
    /\ UNCHANGED <<row, token, lock, page, isNew, base, dep, outcome>>

AcquireLock(c) ==
    /\ pc[c] = "acquire"
    /\ \/ Acquire(Key) /\ Goto(c, "check")
       \/ Refused(Key) /\ Goto(c, "done")
    /\ UNCHANGED <<row, token, page, local>>

BugStale(c) == FALSE
Stale(c) == made > load[c].base

CheckBase(c) ==
    /\ Move(c, "check", IF Stale(c) THEN "release" ELSE "create")
    /\ UNCHANGED <<row, token, lock, page, local>>

MakeDeployment(who) ==
    /\ made < MaxVersion
    /\ made' = made + 1
    /\ owner' = [owner EXCEPT ![made + 1] = who]

CreateRow(c) ==
    /\ Move(c, "create", "activate")
    /\ MakeDeployment(load[c].body)
    /\ dep' = [dep EXCEPT ![c] = made + 1]
    /\ UNCHANGED <<row, token, lock, lived, gone, isNew, base, load, outcome>>

(* It must be the newest, with the lock still in hand.                     *)
MayActivate(c) == dep[c] = made /\ IsHeldBy(Key)

ActivateRow(c) ==
    /\ pc[c] = "activate"
    /\ \/ /\ MayActivate(c)
          /\ lived' = lived \cup {dep[c]}
          /\ Goto(c, "complete")
       \/ ~MayActivate(c) /\ Goto(c, "release") /\ UNCHANGED lived
    /\ UNCHANGED <<row, token, lock, made, owner, gone, local>>

(* completeIdempotencyKey, whatever the status.                            *)
BugResource(c) == load[c].base
Resource(c) == dep[c]

CompleteKey(c) ==
    /\ Move(c, "complete", "delToken")
    /\ status' = "completed" /\ resource' = Resource(c)
    /\ UNCHANGED <<token, lock, page, local>>

DeleteToken(c) ==
    /\ Move(c, "delToken", "release")
    /\ token' = None
    /\ UNCHANGED <<row, lock, page, local>>

Release(c) ==
    /\ Move(c, "release", "done")
    /\ ReleaseLock(Key)
    /\ UNCHANGED <<row, token, page, local>>

-----------------------------------------------------------------------------
(* Failure, the clock, and the rest of the page.                           *)

Handler(r) ==
    IF pc[r] = "setToken" THEN "undo"
    ELSE IF pc[r] \in Guarded \ {"release"} THEN "release"
    ELSE "done"

(* A call throws, or the process dies and no handler runs.                 *)
Throw(r) ==
    /\ pc[r] \in FaultAt
    /\ Goto(r, Handler(r)) \/ Goto(r, "done")
    /\ UNCHANGED <<row, token, lock, page, local>>

(* A commit and a rival renew the lock; the lock of a token just runs out. *)
LapseGuard ==
    /\ "lock" \in Lapsing
    /\ lock = Key /\ \A c \in Commits : pc[c] \notin Guarded

TtlLapse ==
    /\ LapseGuard
    /\ Lapse
    /\ UNCHANGED <<row, token, page, pc, local>>

TokenLapse ==
    /\ "token" \in Lapsing
    /\ token # None
    /\ token' = None
    /\ UNCHANGED <<row, lock, page, pc, local>>

RivalBegin(x) ==
    /\ Move(x, "idle", "deploy")
    /\ Acquire(x)
    /\ UNCHANGED <<row, token, page, local>>

RivalDeploy(x) ==
    /\ Move(x, "deploy", "release")
    /\ MakeDeployment("rival")
    /\ lived' = lived \cup {made + 1}
    /\ UNCHANGED <<row, token, lock, gone, local>>

RivalEnd(x) ==
    /\ Move(x, "release", "done")
    /\ ReleaseLock(x)
    /\ UNCHANGED <<row, token, page, local>>

(* GC: anything but the newest deployment may be past retention.           *)
Collect(v) ==
    /\ Collects
    /\ v < made /\ v \notin gone
    /\ gone' = gone \cup {v}
    /\ UNCHANGED <<row, token, lock, made, owner, lived, pc, local>>

-----------------------------------------------------------------------------
PrepareStep(p) ==
    \/ ReadBase(p) \/ InsertKey(p) \/ ReadKey(p) \/ Revive(p) \/ Reread(p) \/ Replay(p)
    \/ GetToken(p) \/ LockForToken(p) \/ SetToken(p) \/ Undo(p) \/ FailKey(p)

CommitStep(c) ==
    \/ LoadToken(c) \/ AcquireLock(c) \/ CheckBase(c) \/ CreateRow(c)
    \/ ActivateRow(c) \/ CompleteKey(c) \/ DeleteToken(c) \/ Release(c)

Next ==
    \/ \E p \in Prepares : PrepareStep(p)
    \/ \E c \in Commits : CommitStep(c)
    \/ \E r \in Requests : Throw(r)
    \/ \E x \in Rivals : RivalBegin(x) \/ RivalDeploy(x) \/ RivalEnd(x)
    \/ \E v \in Versions : Collect(v)
    \/ TtlLapse \/ TokenLapse

Spec == Init /\ [][Next]_vars

-----------------------------------------------------------------------------
(* Properties.                                                             *)

(* The type of every variable.                                             *)
TypeOK ==
    /\ status \in {"absent", "in_progress", "completed", "failed"}
    /\ resource \in 0..MaxVersion
    /\ token \in Payload \cup {None}
    /\ lock \in {Free, Key} \cup Rivals
    /\ made \in 0..MaxVersion
    /\ owner \in [Versions -> Bodies \cup {"rival", "none"}]
    /\ lived \subseteq Versions /\ gone \subseteq Versions
    /\ pc \in [Requests \cup Rivals ->
                  PrepareSteps \cup CommitSteps \cup {"idle", "deploy", "done"}]
    /\ isNew \in [Prepares -> BOOLEAN]
    /\ base \in [Prepares -> 0..MaxVersion]
    /\ load \in [Commits -> Payload \cup {None}]
    /\ dep \in [Requests -> 0..MaxVersion]
    /\ outcome \in [Prepares -> Outcomes]

OfKey(v) == owner[v] \in Bodies

(* All the requests of one key together put at most one deployment live.   *)
AtMostOnce == Cardinality({v \in lived : OfKey(v)}) <= 1

(* The one who reserved the key works alone on the reservation: of several *)
(* prepares that see the key absent or failed exactly one wins.            *)
Reserving(p) == isNew[p] /\ pc[p] \in {"lock", "setToken", "undo", "fail"}
OneReservation == \A p, q \in Prepares : Reserving(p) /\ Reserving(q) => p = q

(* A completed key names a deployment that one of its commits has put      *)
(* live, and only a completed key names one.                               *)
CompletedIsTrue ==
    /\ status = "completed" <=> resource # 0
    /\ resource # 0 => resource \in lived /\ OfKey(resource)

(* Once completed always completed: late failures of other requests do not *)
(* reopen the key.                                                         *)
CompletedForGood == [][status = "completed" => status' = "completed"]_vars
=============================================================================
