--------------------------- MODULE MCDatabaseManager ---------------------------
(* DatabaseManager for TLC: calls and connections are interchangeable.            *)
EXTENDS DatabaseManager, TLC

Symmetry == Permutations(Calls) \union Permutations(Connections)

===============================================================================
