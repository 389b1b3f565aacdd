----------------------------- MODULE ManifestLoad -----------------------------
(***************************************************************************)
(* Requests of one blob server that need the manifest of one deployment:   *)
(* the negative cache of failed loads, the LRU, and the single flight that *)
(* lets one request load for all that wait                                 *)
(* (services/blob-server/src/manifest.go).                                 *)
(*                                                                         *)
(* A request takes one step per access to something shared.  Redis, MinIO  *)
(* and the validation of what they give are one load that succeeds or      *)
(* fails; it fails also when the request it runs for is given up.          *)
(***************************************************************************)
EXTENDS Naturals, FiniteSets

CONSTANTS
    Requests,       \* requests at once; each comes again and again
    Groups,         \* identities of manifestLoadGroup, used again when free
    NoGroup,
    MaxFailures     \* bound: loads that fail

ASSUME LoadConstants ==
    /\ IsFiniteSet(Requests) /\ IsFiniteSet(Groups)
    /\ Cardinality(Groups) > Cardinality(Requests)
    /\ NoGroup \notin Groups
    /\ MaxFailures \in Nat

LoadSteps == {"away", "forget", "lookUp", "join", "enter", "load", "store",
              "delete", "close", "wait"}

VARIABLES
    at,         \* next step of each request
    mine,       \* the group it has got from LoadOrStore
    loading,    \* manifestLoading's entry
    flight,     \* of each group: whether its once has begun and done is closed
    outcome,    \* of each group: its err
    negative,   \* manifestErrors' entry
    inLru,      \* the LRU has the manifest
    failures

shared == <<loading, flight, outcome>>
loadVars == <<at, mine, loading, flight, outcome, negative, inLru, failures>>

LoadTypeOK ==
    /\ at \in [Requests -> LoadSteps]
    /\ mine \in [Requests -> Groups \cup {NoGroup}]
    /\ loading \in Groups \cup {NoGroup}
    /\ flight \in [Groups -> {"new", "running", "done"}]
    /\ outcome \in [Groups -> {"ok", "error"}]
    /\ negative \in {"none", "fresh", "expired"}
    /\ inLru \in BOOLEAN
    /\ failures \in 0..MaxFailures

LoadInit ==
    /\ at = [r \in Requests |-> "away"]
    /\ mine = [r \in Requests |-> NoGroup]
    /\ loading = NoGroup
    /\ flight = [g \in Groups |-> "new"]
    /\ outcome = [g \in Groups |-> "ok"]
    /\ negative = "none" /\ inLru = FALSE
    /\ failures = 0

Step(r, from, to) == at[r] = from /\ at' = [at EXCEPT ![r] = to]

-----------------------------------------------------------------------------
(* loadManifest: a fresh failure is the answer at once, an expired one     *)
(* is removed, by key, whatever is there by then.  What changes nothing is *)
(* no step.                                                                *)

CheckNegative(r) ==
    /\ negative # "fresh"
    /\ Step(r, "away", IF negative = "expired" THEN "forget" ELSE "lookUp")
    /\ UNCHANGED <<mine, shared, negative, inLru, failures>>

ForgetFailure(r) ==
    /\ Step(r, "forget", "lookUp")
    /\ negative' = "none"
    /\ UNCHANGED <<mine, shared, inLru, failures>>

LookUp(r) ==
    /\ Step(r, "lookUp", IF inLru THEN "away" ELSE "join")
    /\ UNCHANGED <<mine, shared, negative, inLru, failures>>

-----------------------------------------------------------------------------
(* loadManifestCoalesced                                                   *)

Free == {g \in Groups : g # loading /\ \A r \in Requests : mine[r] # g}

(* The pointer of a new group: one that nobody holds.                      *)
NewGroup(r) ==
    LET g == CHOOSE g \in Free : TRUE IN
        /\ mine' = [mine EXCEPT ![r] = g]
        /\ loading' = g
        /\ flight' = [flight EXCEPT ![g] = "new"]
        /\ outcome' = [outcome EXCEPT ![g] = "ok"]

JoinGroup(r) ==
    /\ mine' = [mine EXCEPT ![r] = loading]
    /\ UNCHANGED shared

BugLoadOrStore(r) == NewGroup(r)
LoadOrStore(r) == IF loading = NoGroup THEN NewGroup(r) ELSE JoinGroup(r)

Join(r) ==
    /\ Step(r, "join", "enter")
    /\ LoadOrStore(r)
    /\ UNCHANGED <<negative, inLru, failures>>

Remembered == negative = "fresh"

(* once.Do: the first to come loads, unless another load has failed since  *)
(* it looked; then the group keeps that error and stays where it is.       *)
Enter(r) ==
    /\ at[r] = "enter"
    /\ IF flight[mine[r]] # "new"
       THEN Step(r, "enter", "wait") /\ UNCHANGED <<flight, outcome>>
       ELSE /\ flight' = [flight EXCEPT ![mine[r]] = "running"]
            /\ IF Remembered
               THEN /\ Step(r, "enter", "close")
                    /\ outcome' = [outcome EXCEPT ![mine[r]] = "error"]
               ELSE Step(r, "enter", "load") /\ UNCHANGED outcome
    /\ UNCHANGED <<mine, loading, negative, inLru, failures>>

Load(r) ==
    /\ Step(r, "load", "store")
    /\ \/ UNCHANGED <<outcome, failures>>
       \/ /\ failures < MaxFailures
          /\ failures' = failures + 1
          /\ outcome' = [outcome EXCEPT ![mine[r]] = "error"]
    /\ UNCHANGED <<mine, loading, flight, negative, inLru>>

Store(r) ==
    /\ Step(r, "store", "delete")
    /\ IF outcome[mine[r]] = "error"
       THEN negative' = "fresh" /\ UNCHANGED inLru
       ELSE inLru' = TRUE /\ UNCHANGED negative
    /\ UNCHANGED <<mine, shared, failures>>

(* Of the group that has loaded only.                                      *)
DeleteGroup(r) ==
    /\ Step(r, "delete", "close")
    /\ loading' = NoGroup
    /\ UNCHANGED <<mine, flight, outcome, negative, inLru, failures>>

(* A close that is not deferred is missed by the early return.             *)
Close(r) ==
    /\ Step(r, "close", "wait")
    /\ flight' = [flight EXCEPT ![mine[r]] = "done"]
    /\ UNCHANGED <<mine, loading, outcome, negative, inLru, failures>>

(* The group's error or manifest is the answer.                            *)
Answer(r) ==
    /\ at[r] = "wait" /\ flight[mine[r]] = "done"
    /\ Step(r, "wait", "away")
    /\ mine' = [mine EXCEPT ![r] = NoGroup]
    /\ UNCHANGED <<shared, negative, inLru, failures>>

-----------------------------------------------------------------------------
Expire ==
    /\ negative = "fresh"
    /\ negative' = "expired"
    /\ UNCHANGED <<at, mine, shared, inLru, failures>>

Evict ==
    /\ inLru
    /\ inLru' = FALSE
    /\ UNCHANGED <<at, mine, shared, negative, failures>>

GoOn(r) == ForgetFailure(r) \/ LookUp(r) \/ Join(r) \/ Enter(r) \/ Load(r) \/ Store(r)
               \/ DeleteGroup(r) \/ Close(r) \/ Answer(r)

LoadNext == (\E r \in Requests : CheckNegative(r) \/ GoOn(r)) \/ Expire \/ Evict

LoadSpec == LoadInit /\ [][LoadNext]_loadVars

(* Goroutines run on, calls return, and ten seconds pass.                  *)
LoadFairSpec ==
    /\ LoadSpec
    /\ \A r \in Requests : WF_loadVars(GoOn(r))
    /\ WF_loadVars(Expire)

-----------------------------------------------------------------------------
(* "Single flight": of the requests that miss the caches at once, one      *)
(* loads the manifest.                                                     *)
SingleFlight ==
    \A r, q \in Requests : at[r] = "load" /\ at[q] = "load" => r = q

(* No load is under way while a failed one is remembered.                  *)
FailureAbsorbs == negative = "fresh" => \A r \in Requests : at[r] # "load"

(* A request that waits for a load has one that is under way, in the hands *)
(* of a request of its group, or over: no return leaves it waiting.        *)
NoneWaitsInVain ==
    \A r \in Requests : at[r] = "wait" /\ flight[mine[r]] # "done" =>
        \E q \in Requests : mine[q] = mine[r] /\ at[q] \in {"load", "store", "delete", "close"}

(* "A missing or corrupt manifest cannot stampede MinIO": however requests *)
(* overlap, one loads at a time and none while a failure is remembered;    *)
(* and none that has joined is left waiting.                               *)
Sheltered == SingleFlight /\ FailureAbsorbs /\ NoneWaitsInVain

(* "negative-cache 10s": once loads fail no more, requests that find no    *)
(* fresh failure come to be answered without an error.                     *)
ErrorAnswer(r) == Answer(r) /\ outcome[mine[r]] = "error"

Heals == <>[][\A r \in Requests : ~ErrorAnswer(r)]_loadVars
===============================================================================
