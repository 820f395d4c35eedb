---------------------------- MODULE MCThreadTable ----------------------------
(* Small instances of ThreadTable for TLC. *)
EXTENDS ThreadTable
==============================================================================
