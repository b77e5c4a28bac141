----------------------------- MODULE LinkedList -----------------------------
(***************************************************************************)
(* Singly linked lists as the C programs of this repository build them: a  *)
(* pointer to the first node and a "next" pointer in each node, with NULL  *)
(* behind the last one.  The operators are bounded by the size of the heap *)
(* so that they are total: on a cyclic list they stop after one lap.       *)
(***************************************************************************)
EXTENDS Naturals, Sequences, FiniteSets

CONSTANTS Nodes,   \* the addresses malloc can return
          NULL     \* the null pointer

ASSUME ListAssumption == NULL \notin Nodes /\ IsFiniteSet(Nodes)

(* The node k hops behind first, NULL when the list is shorter.            *)
Hop(first, next, k) ==
  LET at[i \in 0..k] == IF i = 0 THEN first
                        ELSE IF at[i - 1] = NULL THEN NULL ELSE next[at[i - 1]]
  IN  at[k]

(* The nodes reached from first, as a sequence.                            *)
Chain(first, next) ==
  LET limit == Cardinality(Nodes)
      len == Cardinality({k \in 0..limit - 1 : Hop(first, next, k) # NULL})
  IN  [i \in 1..len |-> Hop(first, next, i - 1)]

(* The same nodes as a set.                                                *)
Reachable(first, next) ==
  {Hop(first, next, k) : k \in 0..Cardinality(Nodes)} \ {NULL}
=============================================================================
