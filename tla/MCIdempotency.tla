---------------------------- MODULE MCIdempotency ----------------------------
(***************************************************************************)
(* Instances of Idempotency: prepares "p*" that repeat one request, but    *)
(* for "q", which reuses the key for another body.                         *)
(***************************************************************************)
EXTENDS Idempotency

MCBodies == {"site", "other"}
MCBody == [p \in Prepares |-> IF p = "q" THEN "other" ELSE "site"]
==============================================================================
