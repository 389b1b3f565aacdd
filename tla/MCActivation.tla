---------------------------- MODULE MCActivation ----------------------------
(***************************************************************************)
(* The instances of Activation that TLC checks.                            *)
(***************************************************************************)
EXTENDS Activation, TLC

CONSTANTS p1, u1, u2, b1, b2, r1     \* ops
CONSTANTS t1, k1                     \* a deploy token, a build id

KindOf ==
    p1 :> "prepare" @@ u1 :> "upload" @@ u2 :> "upload" @@ b1 :> "build"
        @@ b2 :> "build" @@ r1 :> "rollback"

MCKind == [o \in Ops |-> KindOf[o]]

(* b1 and b2 are two attempts of one build job.                            *)
RetryRef == [o \in Ops |-> IF MCKind[o] = "build" THEN k1 ELSE t1]

Anywhere == Running
(* everywhere but between the database commit and the Redis write after it *)
BeforeSwitch == Running \ {"setActive"}
SomeFaults == {"prepToken", "tree", "txWrite", "errSelect"}
=============================================================================
