------------------------------ MODULE MCSharedBag ------------------------------
(* Small instances of SharedBag for TLC.                                   *)
EXTENDS SharedBag, TLC

MCMessages == {<<1>>, <<2, 5>>}
Symmetry == Permutations(Threads)
==============================================================================
