------------------------------- MODULE MCBlobGC -------------------------------
(***************************************************************************)
(* Instances of BlobGC.  Page "p" has three deployments, the newest live;  *)
(* page "q" has one.  "a" is a source all share, "c" its variant, "b" a    *)
(* source only the oldest and the ops to come use, "n" one nobody has yet. *)
(***************************************************************************)
EXTENDS BlobGC

MCHashes == {"a", "b", "c", "n"}
MCVariants == {"c"}
MCPages == {"p", "q"}
MCSeeds == {"s1", "s2", "s3", "t1"}
MCSeedBorn == [s \in MCSeeds |->
                  IF s = "s1" THEN 1 ELSE IF s = "s2" THEN 2 ELSE IF s = "s3" THEN 3 ELSE 4]

MCContent == [d \in Deps |->
    IF d = "s1" THEN {"b"}
    ELSE IF d \in {"s2", "s3"} THEN {"a", "c"}
    ELSE IF d = "t1" THEN {"a"}
    ELSE IF d = "u" THEN {"b", "n"}
    ELSE {"n", "c"}]

(* Everything happens on "p", but for the upload "v" on "q", which stores   *)
(* the new blob "n" that "u" stores too.                                   *)
MCPageOf == [o \in Ops \cup Seeds |-> IF o \in {"t1", "v"} THEN "q" ELSE "p"]

(* Deploys fail anywhere while nothing collects.                           *)
Serial == [ops |-> {"u", "v", "r"}, alone |-> TRUE,
           faults |-> {"store", "insert", "tree", "manifest", "record", "activate"},
           gcFaults |-> {"select", "judge"}]

(* Collectors run whenever they like and lose MinIO's answers.             *)
Crossed == [ops |-> {"m", "r"}, alone |-> FALSE,
            faults |-> {}, gcFaults |-> {"blobs"}]

(* A rollback overtakes the collector; nothing fails.                      *)
Overtaken == [ops |-> {"u", "r"}, alone |-> FALSE, faults |-> {}, gcFaults |-> {}]

SerialOrCrossed == {Serial, Crossed}
OnlyOvertaken == {Overtaken}
===============================================================================
