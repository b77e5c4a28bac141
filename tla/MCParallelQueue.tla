--------------------------- MODULE MCParallelQueue --------------------------
(* Instances of ParallelQueue for TLC.                                     *)
EXTENDS ParallelQueue, TLC

(* Threads and addresses are interchangeable (safety runs only).           *)
Symmetry == Permutations(Threads) \cup Permutations(Nodes)
=============================================================================
