----------------------------- MODULE MCBlobServe -----------------------------
(***************************************************************************)
(* An instance of BlobServe: a page that two browsers of one kind visit,   *)
(* and that is rolled back.                                                *)
(***************************************************************************)
EXTENDS BlobServe

MCAccepts == [b \in Browsers |-> {"br", "gzip", "webp"}]
RolledBack == {[kind |-> "page", browsers |-> Browsers, activations |-> MaxActivations]}
==============================================================================
