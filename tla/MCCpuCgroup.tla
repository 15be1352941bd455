---------------------------- MODULE MCCpuCgroup ----------------------------
(* Instances of CpuCgroup for TLC. *)
EXTENDS CpuCgroup, TLC

\* The threads are interchangeable in the safety runs.
Symmetry == Permutations(Thread)
=============================================================================
