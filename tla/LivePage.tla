------------------------------ MODULE LivePage ------------------------------
(***************************************************************************)
(* What a page promises its visitors, whatever happens to the locks, the   *)
(* workers and the requests behind it: at every moment it serves at most   *)
(* one deployment, only deployments with a persisted manifest are ever     *)
(* served, and once a first deployment is live the page never goes dark.   *)
(***************************************************************************)
EXTENDS Naturals

CONSTANT MaxVersion     \* deployments of the page are numbered 1..MaxVersion

VARIABLES
    live,               \* the version being served, 0 before the first
    ready               \* the versions whose manifest is persisted

Init ==
    /\ ready \subseteq 1..MaxVersion
    /\ live \in {0} \cup ready

(* The immutable manifest of a version is persisted.                       *)
Finalise(v) ==
    /\ v \notin ready
    /\ ready' = ready \cup {v}
    /\ UNCHANGED live

(* Some deployment or rollback switches the page in one step.              *)
GoLive(v) ==
    /\ v \in ready
    /\ live' = v
    /\ UNCHANGED ready

Next == \E v \in 1..MaxVersion : Finalise(v) \/ GoLive(v)

Spec == Init /\ [][Next]_<<live, ready>>
=============================================================================
