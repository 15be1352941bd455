-------------------------- MODULE MCIpcNamespace --------------------------
(* Small instances of IpcNamespace for TLC. *)
EXTENDS IpcNamespace, TLC

\* Threads are interchangeable, and so are the addresses of child namespaces.
Symmetry == Permutations(Thread) \cup Permutations(Child)
=============================================================================
