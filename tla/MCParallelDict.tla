---------------------------- MODULE MCParallelDict --------------------------
(* Instances of ParallelDict for TLC.                                      *)
EXTENDS ParallelDict, TLC

CONSTANTS AA, AB, S,  \* keys: two with the first character A, one alone
          t1, t2

TestKeys == {AA, AB, S}
FirstChar == [k \in TestKeys |-> IF k = S THEN 1 ELSE 0]

(* As in dict-tests.cc, one thread writes each key, and only keys that are *)
(* alone in their bucket are removed; but any thread removes and reads.    *)
OwnKeys == [k \in TestKeys |-> IF k = AB THEN {t2} ELSE {t1}]

AllKeys == [k \in TestKeys |-> {t1, t2}]

Symmetry == Permutations(Nodes)
=============================================================================
