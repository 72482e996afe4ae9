--------------------------- MODULE MCSessionPretend ---------------------------
(* Small instances of SessionPretend for TLC.                                   *)
EXTENDS SessionPretend, TLC

Symmetry == Permutations(Queries)

===============================================================================
