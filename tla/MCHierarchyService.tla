------------------------- MODULE MCHierarchyService -------------------------
(* HierarchyService on small instances; the configurations give the bounds. *)
EXTENDS HierarchyService
=============================================================================
