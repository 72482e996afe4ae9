---------------------------- MODULE MCSelectCache ----------------------------
(* Small instances of SelectCache for TLC.                                      *)
EXTENDS SelectCache, TLC

Symmetry == Permutations(Clients)

===============================================================================
