----------------------------- MODULE MCSlabSweep ------------------------------
(* Small instances of SlabSweep for TLC. *)
EXTENDS SlabSweep
==============================================================================
