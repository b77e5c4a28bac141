--------------------------- MODULE MCParallelStack --------------------------
(* Instances of ParallelStack for TLC.                                     *)
EXTENDS ParallelStack, TLC

(* Threads and addresses are interchangeable (safety runs only).           *)
Symmetry == Permutations(Threads) \cup Permutations(Nodes)
=============================================================================
