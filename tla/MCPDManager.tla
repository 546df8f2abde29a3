---------------------------- MODULE MCPDManager ----------------------------
(***************************************************************************)
(* Small instances of PDManager.                                           *)
(***************************************************************************)
EXTENDS PDManager
=============================================================================
