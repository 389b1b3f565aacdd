---------------------------- MODULE MCManifestLoad ----------------------------
(***************************************************************************)
(* The instance of ManifestLoad that TLC checks on its own.                *)
(***************************************************************************)
EXTENDS ManifestLoad
===============================================================================
