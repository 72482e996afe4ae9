---------------------------- MODULE MCBlueprintBuild ----------------------------
(* BlueprintBuild for TLC: the names of columns are interchangeable.               *)
EXTENDS BlueprintBuild, TLC

Symmetry == Permutations(Names)

===============================================================================
