---------------------------- MODULE MCRememberSet ------------------------------
(* Small instances of RememberSet for TLC. *)
EXTENDS RememberSet, TLC

Symmetry == Permutations(Cells \ {Env}) \cup Permutations(Threads)
==============================================================================
