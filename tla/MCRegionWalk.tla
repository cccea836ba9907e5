---------------------------- MODULE MCRegionWalk ----------------------------
(* RegionWalk on trees of a few nodes, enough for a cycle, for a code that   *)
(* occurs twice and for a chain that needs the last round of the walk.       *)
EXTENDS RegionWalk, TLC
CONSTANTS a, b, c
Names == Permutations(Name)
=============================================================================
