------------------------- MODULE MCConnectionSession -------------------------
(* Small instances of ConnectionSession for TLC.                                *)
EXTENDS ConnectionSession, TLC

(* Statements are told apart by their identity only.                            *)
Symmetry == Permutations(Queries)

===============================================================================
