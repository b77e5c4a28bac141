-------------------------- MODULE LinkedListProofs --------------------------
(***************************************************************************)
(* Facts about the lists of LinkedList, for any heap: what Chain and       *)
(* Reachable return, and what becomes of a list when a node is added at    *)
(* either end, when the first one is removed, and when other nodes change. *)
(* They rest on induction, stated for sets of numbers.                     *)
(***************************************************************************)
EXTENDS LinkedList, Integers, Functions, WellFoundedInduction, FiniteSetTheorems,
        SequenceTheorems, TLAPS

USE ListAssumption

(* Every set of natural numbers that is not empty has a least element.     *)
LEMMA Least ==
  ASSUME NEW T, T \subseteq Nat, T # {}
  PROVE  \E x \in T : \A y \in T : x <= y
<1>1. IsWellFoundedOn(OpToRel(<, Nat), Nat)
  BY NatLessThanWellFounded
<1>2. PICK x \in T : \A y \in T : ~ (<<y, x>> \in OpToRel(<, Nat))
  BY <1>1, WFMin
<1>3. \A a, b \in Nat : a < b => <<a, b>> \in OpToRel(<, Nat)
  BY DEF OpToRel
<1>4. ASSUME NEW y \in T PROVE x <= y
  <2>1. x \in Nat /\ y \in Nat
    OBVIOUS
  <2>2. ~(y < x)
    BY <1>2, <1>3, <2>1
  <2> QED BY <2>1, <2>2
<1> QED BY <1>4

(* A set of numbers that holds 0, and n + 1 whenever it holds n.           *)
LEMMA Induction ==
  ASSUME NEW S, 0 \in S, \A n \in Nat : n \in S => n + 1 \in S
  PROVE  Nat \subseteq S
<1> SUFFICES ASSUME NEW n \in Nat, n \notin S PROVE FALSE
  OBVIOUS
<1>1. PICK m \in Nat \ S : \A y \in Nat \ S : m <= y
  BY Least
<1>2. m # 0 /\ m - 1 \in Nat /\ m - 1 \in S
  BY <1>1
<1>3. (m - 1) + 1 = m
  OBVIOUS
<1> QED BY <1>1, <1>2, <1>3
-----------------------------------------------------------------------------
(* The i-th node of a list c, NULL behind its end.                         *)
NodeAt(c, i) == IF i \in 1..Len(c) THEN c[i] ELSE NULL

(* c is the list that begins at first.                                     *)
ListFrom(c, first, next) == /\ c \in Seq(Nodes) /\ first = NodeAt(c, 1)
                            /\ \A i \in 1..Len(c) : next[c[i]] = NodeAt(c, i + 1)

LEMMA AtNull == ASSUME NEW c \in Seq(Nodes), NEW i \in Nat \ {0}
                PROVE  /\ i <= Len(c) => NodeAt(c, i) = c[i] /\ NodeAt(c, i) \in Nodes
                       /\ NodeAt(c, i) = NULL <=> i > Len(c)
BY DEF NodeAt

(* The node k hops from the first is the one at place k + 1.               *)
LEMMA HopIsAt ==
  ASSUME NEW c, NEW first, NEW next, ListFrom(c, first, next), NEW k \in Nat
  PROVE  Hop(first, next, k) = NodeAt(c, k + 1)
<1> DEFINE Steps(at) ==
             at = [i \in 0..k |-> IF i = 0 THEN first
                                  ELSE IF at[i - 1] = NULL THEN NULL ELSE next[at[i - 1]]]
           here == [i \in 0..k |-> NodeAt(c, i + 1)]
<1>1. c \in Seq(Nodes)
  BY DEF ListFrom
<1>2. Steps(here)
  <2> SUFFICES ASSUME NEW i \in 0..k
               PROVE  here[i] = IF i = 0 THEN first
                                ELSE IF here[i - 1] = NULL THEN NULL ELSE next[here[i - 1]]
    OBVIOUS
  <2>1. CASE i = 0
    BY <2>1 DEF ListFrom
  <2>2. CASE i # 0
    <3>1. i \in Nat /\ i - 1 \in 0..k /\ (i - 1) + 1 = i /\ here[i - 1] = NodeAt(c, i)
      BY <2>2
    <3>2. CASE i <= Len(c)
      BY <1>1, <2>2, <3>1, <3>2, AtNull DEF ListFrom
    <3>3. CASE i > Len(c)
      <4>1. NodeAt(c, i) = NULL /\ NodeAt(c, i + 1) = NULL
        BY <1>1, <2>2, <3>1, <3>3 DEF NodeAt
      <4> QED BY <2>2, <3>1, <4>1
    <3> QED BY <1>1, <3>1, <3>2, <3>3
  <2> QED BY <2>1, <2>2
<1>3. ASSUME NEW at, Steps(at) PROVE at[k] = here[k]
  <2> DEFINE Same == {i \in Nat : i <= k => at[i] = here[i]}
  <2>1. 0 \in Same
    <3>1. 0 \in 0..k
      OBVIOUS
    <3>2. at[0] = first /\ here[0] = first
      BY <1>2, <1>3, <3>1
    <3> QED BY <3>2
  <2>2. ASSUME NEW n \in Nat, n \in Same PROVE n + 1 \in Same
    <3> SUFFICES ASSUME n + 1 <= k PROVE at[n + 1] = here[n + 1]
      OBVIOUS
    <3>1. n + 1 \in 0..k /\ n + 1 # 0 /\ (n + 1) - 1 = n
      OBVIOUS
    <3>2. at[n + 1] = IF at[n] = NULL THEN NULL ELSE next[at[n]]
      BY <1>3, <3>1
    <3>3. here[n + 1] = IF here[n] = NULL THEN NULL ELSE next[here[n]]
      BY <1>2, <3>1
    <3>4. at[n] = here[n]
      BY <2>2
    <3> QED BY <3>2, <3>3, <3>4
  <2> HIDE DEF Same
  <2>3. k \in Same
    BY <2>1, <2>2, Induction
  <2>4. k <= k
    OBVIOUS
  <2> QED BY <2>3, <2>4 DEF Same
<1>4. Hop(first, next, k) = (CHOOSE at : Steps(at))[k]
  BY DEF Hop
<1> HIDE DEF Steps, here
<1>5. Steps(CHOOSE at : Steps(at))
  BY <1>2
<1>6. Hop(first, next, k) = here[k]
  BY <1>3, <1>4, <1>5
<1> QED BY <1>6 DEF here

LEMMA Counting ==
  ASSUME NEW n \in Nat
  PROVE  Cardinality(1..n) = n /\ Cardinality(0..(n - 1)) = n
<1>1. /\ Cardinality(1..n) = IF 1 > n THEN 0 ELSE n - 1 + 1
      /\ Cardinality(0..(n - 1)) = IF 0 > n - 1 THEN 0 ELSE (n - 1) - 0 + 1
  BY FS_Interval, 1 \in Int, 0 \in Int, n \in Int, n - 1 \in Int
<1> QED BY <1>1

(* No node stands at two places of a list, so it fits into the heap.       *)
LEMMA NoNodeTwice ==
  ASSUME NEW c, NEW first, NEW next, ListFrom(c, first, next)
  PROVE  /\ \A i, j \in 1..Len(c) : c[i] = c[j] => i = j
         /\ Len(c) <= Cardinality(Nodes)
<1>1. c \in Seq(Nodes) /\ Len(c) \in Nat
  BY DEF ListFrom
<1>2. ASSUME NEW i \in 1..Len(c), NEW j \in 1..Len(c), c[i] = c[j], i < j
      PROVE  FALSE
  <2> DEFINE Same == {d \in Nat : NodeAt(c, i + d) = NodeAt(c, j + d)}
  <2>1. 0 \in Same
    BY <1>1, <1>2 DEF NodeAt
  <2>2. ASSUME NEW d \in Nat, d \in Same PROVE d + 1 \in Same
    <3>1. NodeAt(c, i + d) = NodeAt(c, j + d) /\ i + d \in Nat \ {0} /\ j + d \in Nat \ {0}
      BY <2>2
    <3>2. CASE j + d <= Len(c)
      <4>1. i + d \in 1..Len(c) /\ j + d \in 1..Len(c) /\ c[i + d] = c[j + d]
        BY <1>1, <1>2, <3>1, <3>2 DEF NodeAt
      <4>2. NodeAt(c, (i + d) + 1) = NodeAt(c, (j + d) + 1)
        BY <4>1 DEF ListFrom
      <4> QED BY <4>2, <1>1
    <3>3. CASE j + d > Len(c)
      <4>1. i + d > Len(c)
        BY <1>1, <3>1, <3>3, AtNull
      <4>2. i + (d + 1) > Len(c) /\ j + (d + 1) > Len(c)
        BY <1>1, <3>3, <4>1
      <4> QED BY <1>1, <4>2 DEF NodeAt
    <3> QED BY <1>1, <3>2, <3>3
  <2> DEFINE last == Len(c) - j + 1
  <2>3. last \in Nat
    BY <1>1
  <2> HIDE DEF Same
  <2>4. last \in Same
    BY <2>1, <2>2, <2>3, Induction
  <2>5. NodeAt(c, i + last) = NodeAt(c, j + last)
    BY <2>4 DEF Same
  <2>6. i + last \in 1..Len(c) /\ j + last > Len(c)
    BY <1>1, <1>2
  <2> QED BY <1>1, <2>5, <2>6 DEF NodeAt
<1>3. ASSUME NEW i \in 1..Len(c), NEW j \in 1..Len(c), c[i] = c[j] PROVE i = j
  BY <1>1, <1>2, <1>3
<1>4. c \in Injection(1..Len(c), Nodes)
  BY <1>1, <1>3 DEF Injection, IsInjective
<1>5. Cardinality(1..Len(c)) <= Cardinality(Nodes)
  BY <1>4, FS_Injection
<1>6. Cardinality(1..Len(c)) = Len(c)
  BY <1>1, Counting
<1> QED BY <1>3, <1>5, <1>6

(* Chain is the list itself, whichever way it was found; Reachable is the  *)
(* set of its nodes.                                                       *)
LEMMA ChainIsList ==
  ASSUME NEW c, NEW first, NEW next, ListFrom(c, first, next)
  PROVE  Chain(first, next) = c
<1> DEFINE limit == Cardinality(Nodes)
           places == {k \in 0..limit - 1 : Hop(first, next, k) # NULL}
<1>1. c \in Seq(Nodes) /\ Len(c) \in Nat /\ Len(c) <= limit /\ limit \in Nat
  BY NoNodeTwice, FS_CardinalityType DEF ListFrom
<1>2. \A k \in Nat : Hop(first, next, k) = NodeAt(c, k + 1)
  BY HopIsAt
<1>3. places = 0..(Len(c) - 1)
  <2>1. ASSUME NEW k \in 0..limit - 1
        PROVE  Hop(first, next, k) # NULL <=> k + 1 <= Len(c)
    <3>1. k + 1 \in Nat \ {0} /\ Hop(first, next, k) = NodeAt(c, k + 1)
      BY <1>1, <1>2
    <3>2. NodeAt(c, k + 1) = NULL <=> k + 1 > Len(c)
      BY <1>1, <3>1, AtNull
    <3> QED BY <1>1, <3>1, <3>2
  <2> QED BY <1>1, <2>1
<1>4. Cardinality(places) = Len(c)
  BY <1>1, <1>3, Counting
<1>5. Chain(first, next) = [i \in 1..Len(c) |-> Hop(first, next, i - 1)]
  BY <1>4 DEF Chain
<1>6. \A i \in 1..Len(c) : Hop(first, next, i - 1) = c[i]
  BY <1>1, <1>2 DEF NodeAt
<1>7. c = [i \in 1..Len(c) |-> c[i]]
  BY <1>1
<1> QED BY <1>5, <1>6, <1>7

NodesOf(c) == {c[i] : i \in 1..Len(c)}

LEMMA ReachableIsList ==
  ASSUME NEW c, NEW first, NEW next, ListFrom(c, first, next)
  PROVE  Reachable(first, next) = NodesOf(c)
<1>1. c \in Seq(Nodes) /\ Len(c) \in Nat /\ Len(c) <= Cardinality(Nodes)
      /\ Cardinality(Nodes) \in Nat
  BY NoNodeTwice, FS_CardinalityType DEF ListFrom
<1>2. \A k \in Nat : Hop(first, next, k) = NodeAt(c, k + 1)
  BY HopIsAt
<1>3. ASSUME NEW n \in NodesOf(c) PROVE n \in Reachable(first, next)
  <2>1. PICK i \in 1..Len(c) : n = c[i]
    BY DEF NodesOf
  <2>2. i - 1 \in 0..Cardinality(Nodes) /\ Hop(first, next, i - 1) = n /\ n # NULL
    BY <1>1, <1>2, <2>1 DEF NodeAt
  <2> QED BY <2>2 DEF Reachable
<1>4. ASSUME NEW n \in Reachable(first, next) PROVE n \in NodesOf(c)
  <2>1. PICK k \in 0..Cardinality(Nodes) : n = Hop(first, next, k) /\ n # NULL
    BY DEF Reachable
  <2>2. n = NodeAt(c, k + 1) /\ k + 1 \in 1..Len(c)
    BY <1>1, <1>2, <2>1 DEF NodeAt
  <2> QED BY <2>2 DEF NodesOf, NodeAt
<1> QED BY <1>3, <1>4
-----------------------------------------------------------------------------
(* An empty list, and one that is not.                                     *)
LEMMA ListEmpty ==
  /\ \A next : ListFrom(<<>>, NULL, next)
  /\ \A c, first, next : ListFrom(c, first, next) =>
       /\ first = NULL <=> c = <<>>
       /\ first # NULL => first \in Nodes /\ first \in NodesOf(c) /\ Head(c) = first
BY DEF ListFrom, NodeAt, NodesOf

(* Removing the first node.                                                *)
LEMMA ListTail ==
  ASSUME NEW c, NEW first, NEW next, ListFrom(c, first, next), first # NULL
  PROVE  /\ ListFrom(Tail(c), next[first], next)
         /\ NodesOf(Tail(c)) = NodesOf(c) \ {first}
<1>1. c \in Seq(Nodes) /\ Len(c) \in Nat \ {0} /\ c[1] = first
  BY DEF ListFrom, NodeAt
<1>2. /\ Tail(c) \in Seq(Nodes) /\ Len(Tail(c)) = Len(c) - 1
      /\ \A i \in 1..Len(Tail(c)) : Tail(c)[i] = c[i + 1]
  BY <1>1
<1>3. \A i \in Nat \ {0} : NodeAt(Tail(c), i) = NodeAt(c, i + 1)
  BY <1>1, <1>2 DEF NodeAt
<1>4. ListFrom(Tail(c), next[first], next)
  <2>1. next[first] = NodeAt(c, 1 + 1)
    BY <1>1 DEF ListFrom
  <2>2. ASSUME NEW i \in 1..Len(Tail(c)) PROVE next[Tail(c)[i]] = NodeAt(Tail(c), i + 1)
    <3>1. i + 1 \in 1..Len(c) /\ Tail(c)[i] = c[i + 1]
      BY <1>1, <1>2
    <3>2. next[c[i + 1]] = NodeAt(c, (i + 1) + 1)
      BY <3>1 DEF ListFrom
    <3> QED BY <1>3, <3>1, <3>2
  <2> QED BY <1>2, <1>3, <2>1, <2>2 DEF ListFrom
<1>5. NodesOf(Tail(c)) \subseteq NodesOf(c) \ {first}
  <2> SUFFICES ASSUME NEW i \in 1..Len(Tail(c)) PROVE Tail(c)[i] \in NodesOf(c) \ {first}
    BY DEF NodesOf
  <2>1. i + 1 \in 1..Len(c) /\ 1 \in 1..Len(c) /\ i + 1 # 1
    BY <1>1, <1>2
  <2> QED BY <1>1, <1>2, <2>1, NoNodeTwice DEF NodesOf
<1>6. NodesOf(c) \ {first} \subseteq NodesOf(Tail(c))
  <2> SUFFICES ASSUME NEW i \in 1..Len(c), c[i] # first PROVE c[i] \in NodesOf(Tail(c))
    BY DEF NodesOf
  <2>1. i - 1 \in 1..Len(Tail(c)) /\ Tail(c)[i - 1] = c[i]
    BY <1>1, <1>2
  <2> QED BY <2>1 DEF NodesOf
<1> QED BY <1>4, <1>5, <1>6

(* Adding a node in front of the first one.                                *)
LEMMA ListCons ==
  ASSUME NEW c, NEW first, NEW next, ListFrom(c, first, next), NEW n \in Nodes, next[n] = first
  PROVE  /\ ListFrom(<<n>> \o c, n, next)
         /\ NodesOf(<<n>> \o c) = NodesOf(c) \cup {n}
<1> DEFINE d == <<n>> \o c
<1>1. c \in Seq(Nodes) /\ Len(c) \in Nat
  BY DEF ListFrom
<1>2. /\ d \in Seq(Nodes) /\ Len(d) = Len(c) + 1 /\ d[1] = n
      /\ \A i \in 1..Len(c) : d[i + 1] = c[i]
  BY <1>1
<1> HIDE DEF d
<1>3. \A i \in Nat \ {0} : NodeAt(d, i + 1) = NodeAt(c, i)
  BY <1>1, <1>2 DEF NodeAt
<1>4. \A i \in 1..Len(d) : i = 1 \/ (i - 1 \in 1..Len(c) /\ (i - 1) + 1 = i)
  BY <1>1, <1>2
<1>5. ListFrom(d, n, next)
  <2>1. n = NodeAt(d, 1)
    BY <1>1, <1>2 DEF NodeAt
  <2>2. ASSUME NEW i \in 1..Len(d) PROVE next[d[i]] = NodeAt(d, i + 1)
    <3>1. CASE i = 1
      BY <1>2, <1>3, <3>1 DEF ListFrom
    <3>2. CASE i - 1 \in 1..Len(c) /\ (i - 1) + 1 = i
      <4>1. d[i] = c[i - 1] /\ next[c[i - 1]] = NodeAt(c, (i - 1) + 1) /\ i \in Nat \ {0}
        BY <1>2, <3>2 DEF ListFrom
      <4> QED BY <1>3, <3>2, <4>1
    <3> QED BY <1>4, <3>1, <3>2
  <2> QED BY <1>2, <2>1, <2>2 DEF ListFrom
<1>6. NodesOf(d) = NodesOf(c) \cup {n}
  <2>1. ASSUME NEW i \in 1..Len(c) PROVE c[i] \in NodesOf(d)
    <3>1. i + 1 \in 1..Len(d) /\ d[i + 1] = c[i]
      BY <1>1, <1>2
    <3> QED BY <3>1 DEF NodesOf
  <2>2. n \in NodesOf(d)
    BY <1>1, <1>2 DEF NodesOf
  <2>3. ASSUME NEW i \in 1..Len(d) PROVE d[i] \in NodesOf(c) \cup {n}
    <3>1. CASE i = 1
      BY <1>2, <3>1
    <3>2. CASE i - 1 \in 1..Len(c) /\ (i - 1) + 1 = i
      <4>1. d[i] = c[i - 1]
        BY <1>2, <3>2
      <4> QED BY <3>2, <4>1 DEF NodesOf
    <3> QED BY <1>4, <3>1, <3>2
  <2> QED BY <2>1, <2>2, <2>3 DEF NodesOf
<1> QED BY <1>5, <1>6 DEF d

(* Adding a node behind the last one.                                      *)
LEMMA ListAppend ==
  ASSUME NEW c, NEW first, NEW next, ListFrom(c, first, next),
         NEW last, last \in NodesOf(c), next[last] = NULL,
         NEW n \in Nodes, n \notin NodesOf(c),
         NEW after, after[last] = n, after[n] = NULL,
         \A m \in NodesOf(c) \ {last} : after[m] = next[m]
  PROVE  /\ ListFrom(Append(c, n), first, after)
         /\ NodesOf(Append(c, n)) = NodesOf(c) \cup {n}
<1> DEFINE d == Append(c, n)
<1>1. c \in Seq(Nodes) /\ Len(c) \in Nat
  BY DEF ListFrom
<1>2. /\ d \in Seq(Nodes) /\ Len(d) = Len(c) + 1 /\ d[Len(c) + 1] = n
      /\ \A i \in 1..Len(c) : d[i] = c[i]
  BY <1>1
<1> HIDE DEF d
<1>3. PICK k \in 1..Len(c) : c[k] = last
  BY DEF NodesOf
<1>4. k = Len(c)
  <2>1. next[c[k]] = NodeAt(c, k + 1)
    BY <1>3 DEF ListFrom
  <2> QED BY <1>1, <1>3, <2>1, AtNull
<1>5. ListFrom(d, first, after)
  <2>1. first = NodeAt(d, 1)
    BY <1>1, <1>2, <1>3 DEF ListFrom, NodeAt
  <2>2. ASSUME NEW i \in 1..Len(d) PROVE after[d[i]] = NodeAt(d, i + 1)
    <3>1. CASE i = Len(c) + 1
      BY <1>1, <1>2, <3>1 DEF NodeAt
    <3>2. CASE i = Len(c)
      <4>1. d[i] = last /\ NodeAt(d, i + 1) = n
        BY <1>1, <1>2, <1>3, <1>4, <3>2 DEF NodeAt
      <4> QED BY <4>1
    <3>3. CASE i \in 1..(Len(c) - 1)
      <4>1. i \in 1..Len(c) /\ i + 1 \in 1..Len(c) /\ i # k
        BY <1>1, <1>4, <3>3
      <4>2. d[i] = c[i] /\ c[i] \in NodesOf(c) \ {last}
        BY <1>2, <1>3, <4>1, NoNodeTwice DEF NodesOf
      <4>3. next[c[i]] = c[i + 1] /\ NodeAt(d, i + 1) = c[i + 1]
        BY <1>1, <1>2, <4>1 DEF ListFrom, NodeAt
      <4> QED BY <4>2, <4>3
    <3> QED BY <1>1, <1>2, <3>1, <3>2, <3>3
  <2> QED BY <1>2, <2>1, <2>2 DEF ListFrom
<1>6. NodesOf(d) = NodesOf(c) \cup {n}
  <2>1. \A i \in 1..Len(d) : i \in 1..Len(c) \/ i = Len(c) + 1
    BY <1>1, <1>2
  <2>2. \A i \in 1..Len(c) : i \in 1..Len(d)
    BY <1>1, <1>2
  <2>3. Len(c) + 1 \in 1..Len(d)
    BY <1>1, <1>2
  <2> QED BY <1>2, <2>1, <2>2, <2>3 DEF NodesOf
<1> QED BY <1>5, <1>6 DEF d

(* Writing to the next field of a node that is not in the list.            *)
LEMMA ListFrame ==
  ASSUME NEW c, NEW first, NEW next, ListFrom(c, first, next),
         NEW after, \A n \in NodesOf(c) : after[n] = next[n]
  PROVE  ListFrom(c, first, after)
BY DEF ListFrom, NodesOf

(* There is one list only from each node.                                  *)
LEMMA OneList ==
  ASSUME NEW c, NEW d, NEW first, NEW next, ListFrom(c, first, next), ListFrom(d, first, next)
  PROVE  c = d
BY ChainIsList
-----------------------------------------------------------------------------
(* What a field of the nodes holds, in the order of the list.              *)
ReadOff(c, field) == [i \in 1..Len(c) |-> field[c[i]]]

LEMMA ChainRead ==
  ASSUME NEW c, NEW first, NEW next, NEW field, ListFrom(c, first, next)
  PROVE  [i \in DOMAIN Chain(first, next) |-> field[Chain(first, next)[i]]] = ReadOff(c, field)
<1>1. Chain(first, next) = c /\ c \in Seq(Nodes)
  BY ChainIsList DEF ListFrom
<1>2. DOMAIN c = 1..Len(c)
  BY <1>1
<1> QED BY <1>1, <1>2 DEF ReadOff

LEMMA ReadSeq ==
  ASSUME NEW S, NEW field \in [Nodes -> S], NEW c \in Seq(Nodes)
  PROVE  /\ ReadOff(c, field) \in Seq(S) /\ Len(ReadOff(c, field)) = Len(c)
         /\ ReadOff(c, field) = <<>> <=> c = <<>>
BY DEF ReadOff

LEMMA ReadTail ==
  ASSUME NEW S, NEW field \in [Nodes -> S], NEW c \in Seq(Nodes), c # <<>>
  PROVE  /\ Head(ReadOff(c, field)) = field[Head(c)]
         /\ ReadOff(Tail(c), field) = Tail(ReadOff(c, field))
<1>1. /\ Tail(c) \in Seq(Nodes) /\ Len(Tail(c)) = Len(c) - 1 /\ Len(c) \in Nat \ {0}
      /\ \A i \in 1..Len(Tail(c)) : Tail(c)[i] = c[i + 1]
  OBVIOUS
<1>2. /\ ReadOff(c, field) \in Seq(S) /\ Len(ReadOff(c, field)) = Len(c) /\ ReadOff(c, field) # <<>>
      /\ ReadOff(Tail(c), field) \in Seq(S) /\ Len(ReadOff(Tail(c), field)) = Len(c) - 1
  BY <1>1, ReadSeq
<1>3. /\ Tail(ReadOff(c, field)) \in Seq(S) /\ Len(Tail(ReadOff(c, field))) = Len(c) - 1
      /\ \A i \in 1..(Len(c) - 1) : Tail(ReadOff(c, field))[i] = ReadOff(c, field)[i + 1]
  BY <1>2, HeadTailProperties
<1>4. \A i \in 1..(Len(c) - 1) : ReadOff(Tail(c), field)[i] = Tail(ReadOff(c, field))[i]
  BY <1>1, <1>3 DEF ReadOff
<1>5. ReadOff(Tail(c), field) = Tail(ReadOff(c, field))
  BY <1>2, <1>3, <1>4, SeqEqual
<1>6. Head(ReadOff(c, field)) = field[Head(c)]
  BY <1>1, <1>2 DEF ReadOff
<1> QED BY <1>5, <1>6

LEMMA ReadCons ==
  ASSUME NEW S, NEW field \in [Nodes -> S], NEW c \in Seq(Nodes), NEW n \in Nodes
  PROVE  ReadOff(<<n>> \o c, field) = <<field[n]>> \o ReadOff(c, field)
<1>0. field[n] \in S
  OBVIOUS
<1>1. /\ <<n>> \in Seq(Nodes) /\ Len(<<n>>) = 1 /\ <<field[n]>> \in Seq(S)
      /\ Len(<<field[n]>>) = 1 /\ Len(c) \in Nat
      /\ ReadOff(c, field) \in Seq(S) /\ Len(ReadOff(c, field)) = Len(c)
  <2>1. /\ <<n>> \in Seq(Nodes) /\ Len(<<n>>) = 1 /\ <<field[n]>> \in Seq(S)
        /\ Len(<<field[n]>>) = 1 /\ Len(c) \in Nat
    BY <1>0
  <2>2. ReadOff(c, field) \in Seq(S) /\ Len(ReadOff(c, field)) = Len(c)
    BY ReadSeq
  <2> QED BY <2>1, <2>2
<1>2. /\ <<n>> \o c \in Seq(Nodes) /\ Len(<<n>> \o c) = 1 + Len(c)
      /\ \A i \in 1..(1 + Len(c)) : (<<n>> \o c)[i] = IF i <= 1 THEN <<n>>[i] ELSE c[i - 1]
  BY <1>1, ConcatProperties
<1>3. /\ <<field[n]>> \o ReadOff(c, field) \in Seq(S)
      /\ Len(<<field[n]>> \o ReadOff(c, field)) = 1 + Len(c)
      /\ \A i \in 1..(1 + Len(c)) : (<<field[n]>> \o ReadOff(c, field))[i] =
                                   IF i <= 1 THEN <<field[n]>>[i] ELSE ReadOff(c, field)[i - 1]
  BY <1>1, ConcatProperties
<1>4. /\ ReadOff(<<n>> \o c, field) \in Seq(S) /\ Len(ReadOff(<<n>> \o c, field)) = 1 + Len(c)
  BY <1>2, ReadSeq
<1>5. ASSUME NEW i \in 1..(1 + Len(c))
      PROVE  ReadOff(<<n>> \o c, field)[i] = (<<field[n]>> \o ReadOff(c, field))[i]
  <2>1. ReadOff(<<n>> \o c, field)[i] = field[(<<n>> \o c)[i]]
    BY <1>2 DEF ReadOff
  <2>2. CASE i = 1
    BY <1>1, <1>2, <1>3, <2>1, <2>2
  <2>3. CASE i # 1
    <3>1. i - 1 \in 1..Len(c) /\ ~(i <= 1)
      BY <1>1, <2>3
    <3>2. ReadOff(c, field)[i - 1] = field[c[i - 1]]
      BY <3>1 DEF ReadOff
    <3> QED BY <1>2, <1>3, <2>1, <3>1, <3>2
  <2> QED BY <2>2, <2>3
<1> QED BY <1>3, <1>4, <1>5, SeqEqual

LEMMA ReadAppend ==
  ASSUME NEW S, NEW field \in [Nodes -> S], NEW c \in Seq(Nodes), NEW n \in Nodes
  PROVE  ReadOff(Append(c, n), field) = Append(ReadOff(c, field), field[n])
<1>0. Len(c) \in Nat /\ field[n] \in S
  OBVIOUS
<1>1. ReadOff(c, field) \in Seq(S) /\ Len(ReadOff(c, field)) = Len(c)
  BY ReadSeq
<1>2. /\ Append(c, n) \in Seq(Nodes) /\ Len(Append(c, n)) = Len(c) + 1
      /\ \A i \in 1..Len(c) : Append(c, n)[i] = c[i]
      /\ Append(c, n)[Len(c) + 1] = n
  BY <1>0, AppendProperties
<1>3. /\ Append(ReadOff(c, field), field[n]) \in Seq(S)
      /\ Len(Append(ReadOff(c, field), field[n])) = Len(c) + 1
      /\ \A i \in 1..Len(c) : Append(ReadOff(c, field), field[n])[i] = ReadOff(c, field)[i]
      /\ Append(ReadOff(c, field), field[n])[Len(c) + 1] = field[n]
  BY <1>0, <1>1, AppendProperties
<1>4. /\ ReadOff(Append(c, n), field) \in Seq(S) /\ Len(ReadOff(Append(c, n), field)) = Len(c) + 1
  BY <1>2, ReadSeq
<1>5. ASSUME NEW i \in 1..(Len(c) + 1)
      PROVE  ReadOff(Append(c, n), field)[i] = Append(ReadOff(c, field), field[n])[i]
  <2>1. ReadOff(Append(c, n), field)[i] = field[Append(c, n)[i]]
    BY <1>2 DEF ReadOff
  <2>2. CASE i = Len(c) + 1
    BY <1>2, <1>3, <2>1, <2>2
  <2>3. CASE i # Len(c) + 1
    <3>1. i \in 1..Len(c)
      BY <1>0, <2>3
    <3>2. ReadOff(c, field)[i] = field[c[i]]
      BY <3>1 DEF ReadOff
    <3> QED BY <1>2, <1>3, <2>1, <3>1, <3>2
  <2> QED BY <2>2, <2>3
<1> QED BY <1>3, <1>4, <1>5, SeqEqual

(* Writing to nodes that are not in the list.                              *)
LEMMA ReadSame ==
  ASSUME NEW c \in Seq(Nodes), NEW field, NEW after, \A n \in NodesOf(c) : after[n] = field[n]
  PROVE  ReadOff(c, after) = ReadOff(c, field)
BY DEF ReadOff, NodesOf
=============================================================================
