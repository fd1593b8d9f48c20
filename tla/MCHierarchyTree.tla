--------------------------- MODULE MCHierarchyTree ---------------------------
(* HierarchyTree on every graph of four assets with few relations.         *)
EXTENDS HierarchyTree, TLC

CONSTANTS d1, d2, s1, i1

MCAsset == {d1, d2, s1, i1}
MCDomain == {d1, d2}
MCSymmetry == Permutations({d1, d2}) \cup Permutations({s1, i1})
=============================================================================
