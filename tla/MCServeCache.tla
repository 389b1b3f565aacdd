---------------------------- MODULE MCServeCache ----------------------------
(***************************************************************************)
(* Instances of ServeCache: all visits on one server.                      *)
(***************************************************************************)
EXTENDS ServeCache

MCServers == {"s"}
MCServerOf == [x \in Visits |-> "s"]
=============================================================================
