--------------------------- MODULE MCMntNamespace ---------------------------
(* Small instances of MntNamespace for TLC. *)
EXTENDS MntNamespace

\* The addresses of child namespaces are interchangeable.
Symmetry == Permutations(Child)

\* One mount point, and two of which one is below the other.
Single == {<<"a">>}
Nested == {<<"a">>, <<"a", "b">>}

\* Bound for MntSelection, whose properties are about opens: only these are moved
\* in the middle.  MntNamespaceProofs has no such restriction.
OnlyOpensMoved == \A t \in Thread : ev[t].moved => ev[t].op = "open"
=============================================================================
