----------------------------- MODULE MCIoCgroup -----------------------------
(* Instances of IoCgroup for TLC. *)
EXTENDS IoCgroup, TLC

\* Groups and threads are interchangeable.
Symmetry == Permutations(Group) \cup Permutations(Thread)

\* No action reads both the weights of threads and the windows of groups: threads
\* come and go only where no window has moved.
Apart ==
  \A g \in Group, h \in Group :
    share[g] = NoShare \/ (elapsed[h] = 0 /\ bytes[h] = 0 /\ recent[h] = Quiet)
=============================================================================
