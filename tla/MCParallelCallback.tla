-------------------------- MODULE MCParallelCallback --------------------------
(* Small instances of ParallelCallback for TLC.                                 *)
EXTENDS ParallelCallback, TLC

(* The branches of a callback run the same program.                             *)
Symmetry == Permutations(Branches)

===============================================================================
