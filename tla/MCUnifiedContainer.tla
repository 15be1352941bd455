------------------------- MODULE MCUnifiedContainer -------------------------
(* Instances of UnifiedContainer for TLC. *)
EXTENDS UnifiedContainer, TLC

\* Threads and containers are interchangeable.
Symmetry == Permutations(Thread) \cup Permutations(Container)

\* Three kinds of container: one that enter() fails in at its end, one it cannot
\* fail in, one whose PID namespace refuses a thread and whose cgroup a member of
\* another.  MNT and NET behave as UTS here.
Few == {{"uts", "io"}, {"uts", "ipc"}, {"pid", "cgroup"}}
=============================================================================
