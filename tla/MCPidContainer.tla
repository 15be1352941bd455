--------------------------- MODULE MCPidContainer ---------------------------
(* Small instances of PidContainer for TLC. *)
EXTENDS PidContainer, TLC

\* Threads and child containers are interchangeable.
Symmetry == Permutations(Thread) \cup Permutations(Child)
=============================================================================
