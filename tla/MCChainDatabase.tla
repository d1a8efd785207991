-------------------------- MODULE MCChainDatabase --------------------------
(* Instances of ChainDatabase for TLC: the bobservers are interchangeable. *)
EXTENDS ChainDatabase

Symmetry == Permutations(Producer)
=============================================================================
