-------------------------- MODULE MCTransactionCall --------------------------
(* Small instances of TransactionCall for TLC.                                  *)
EXTENDS TransactionCall, TLC

(* Statements are told apart by their identity only.                            *)
Symmetry == Permutations(Queries)

===============================================================================
