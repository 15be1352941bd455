--------------------------- MODULE MCMemoryCgroup ---------------------------
(* Instances of MemoryCgroup for TLC. *)
EXTENDS MemoryCgroup, TLC

\* The blocks are interchangeable.
Symmetry == Permutations(Block)
=============================================================================
