--------------------------- MODULE MCTagHierarchy ---------------------------
(* TagHierarchy on small instances.  Client ids other than "root" are      *)
(* interchangeable.                                                        *)
EXTENDS TagHierarchy, TLC

Symmetry == Permutations(ClientIds \ {RootId})

\* Bound on the archive for the run with duplicate ids: TLC does not go
\* on from a state whose archive holds a vertex beyond the second allocated.
SmallArchive == DOMAIN saved.bundle \subseteq 1..2
=============================================================================
