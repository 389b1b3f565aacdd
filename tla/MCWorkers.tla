------------------------------ MODULE MCWorkers ------------------------------
(***************************************************************************)
(* What works in the background, side by side: the build queue and its     *)
(* worker (BuildQueue), a build's log on its way to the console            *)
(* (BuildStream), the token of the console's calls (TokenCache), and in a  *)
(* blob server the loading of a manifest (ManifestLoad) and the count of   *)
(* requests (Analytics).  They share no state: a behaviour is one of one   *)
(* part, and leaves the others as they began.                              *)
(***************************************************************************)
EXTENDS BuildQueue, BuildStream, TokenCache, ManifestLoad, Analytics

VARIABLE part

allVars == <<part, buildVars, streamVars, tokenVars, loadVars, analyticsVars>>
Play(name) == part = name /\ UNCHANGED part

WorkersInit ==
    /\ part \in {"queue", "stream", "token", "load", "count"}
    /\ BuildInit /\ StreamInit /\ TokenInit /\ LoadInit /\ AnalyticsInit
    /\ part # "stream" => hasJob

WorkersNext ==
    \/ /\ Play("queue") /\ BuildNext
       /\ UNCHANGED <<streamVars, tokenVars, loadVars, analyticsVars>>
    \/ /\ Play("stream") /\ StreamNext
       /\ UNCHANGED <<buildVars, tokenVars, loadVars, analyticsVars>>
    \/ /\ Play("token") /\ TokenNext
       /\ UNCHANGED <<buildVars, streamVars, loadVars, analyticsVars>>
    \/ /\ Play("load") /\ LoadNext
       /\ UNCHANGED <<buildVars, streamVars, tokenVars, analyticsVars>>
    \/ /\ Play("count") /\ AnalyticsNext
       /\ UNCHANGED <<buildVars, streamVars, tokenVars, loadVars>>

WorkersSpec == WorkersInit /\ [][WorkersNext]_allVars

(* The fairness of BuildFairSpec and StreamSpec, each of its own part.     *)
WorkersFairSpec ==
    /\ WorkersSpec
    /\ \A b \in Builds : /\ WF_buildVars(part = "queue" /\ RunJob(b))
                         /\ WF_buildVars(part = "queue" /\ OrphanEnds(b))
    /\ WF_buildVars(part = "queue" /\ LeaseLapse)
    /\ \A p \in Polls : WF_streamVars(part = "stream" /\ PollStep(p))
    /\ WF_streamVars(part = "stream" /\ Arrive)
==============================================================================
