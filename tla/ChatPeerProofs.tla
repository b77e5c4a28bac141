--------------------------- MODULE ChatPeerProofs ---------------------------
(***************************************************************************)
(* Proofs about one process of p2pchat, for any number of connections and  *)
(* threads: the list of connections and what is sent along it.             *)
(***************************************************************************)
EXTENDS ChatPeer, FiniteSetTheorems, WellFoundedInduction, TLAPS

Started(c) == pc[c] # "none"
Forwarding(t) == pc[t] \in {"walk", "write", "advance"}

Elements(l) == {l[i] : i \in DOMAIN l}
Distinct(l) == \A i, j \in DOMAIN l : l[i] = l[j] => i = j
Before(l, a, b) == \E i, j \in DOMAIN l : l[i] = a /\ l[j] = b /\ i < j

(* An open descriptor belongs to one connection, the one whose node holds  *)
(* it.                                                                     *)
Descriptors ==
  /\ pc[UI] \notin {"none", "closing", "ended"}
  /\ \A c \in Conns :
       /\ pc[c] = "none" => nodeFd[c] = NULL
       /\ fd[c] = IF pc[c] = "ended" THEN NULL ELSE nodeFd[c]
       /\ \A d \in Conns \ {c} : fd[c] = fd[d] => fd[c] = NULL

(* The list has as many nodes as threads serve a connection; only among    *)
(* those whose accept failed can they be others' nodes.                    *)
Listing ==
  /\ Distinct(plist)
  /\ IsFiniteSet(Served) /\ Len(plist) = Cardinality(Served)
  /\ \A c \in Elements(plist) : Started(c)
  /\ \A c \in Conns : nodeFd[c] # NULL => (c \in Elements(plist) <=> c \in Served)

Walker(t) ==
  /\ Forwarding(t) => count[t] # 0
  /\ pc[t] = "walk" => curr[t] = NULL \/ Started(curr[t])
  /\ pc[t] \in {"write", "advance"} => curr[t] # NULL /\ Started(curr[t])
  /\ pc[t] = "write" => ~IsSender(t, curr[t]) /\ out[t] = nodeFd[curr[t]]
Walks == \A t \in Threads : Walker(t)

(* What a thread last sent on a connection: the part before the next one   *)
(* while it writes there; else the end of a message, and not of the one it *)
(* forwards if the connection is still ahead of it in the list.            *)
Ahead(t, c) == /\ Forwarding(t)
               /\ Before(plist, curr[t], c) \/ (pc[t] = "walk" /\ curr[t] = c)
Writing(t, c) == pc[t] = "write" /\ curr[t] = c
Last(s, t, i) == /\ i \in DOMAIN s /\ s[i][1] = t
                 /\ \A j \in DOMAIN s : s[j][1] = t => j <= i

SentBy(t, c) ==
  /\ Writing(t, c) =>
       /\ (\A i \in DOMAIN wire[c] : wire[c][i][1] # t) => part[t] = 1
       /\ \A i \in DOMAIN wire[c] :
            Last(wire[c], t, i) => Continues(<<t, count[t], part[t]>>, wire[c][i])
  /\ ~Writing(t, c) => \A i \in DOMAIN wire[c] : Last(wire[c], t, i) =>
       /\ wire[c][i][3] = 3 /\ wire[c][i][2] <= count[t]
       /\ wire[c][i][2] = count[t] => ~Ahead(t, c)

Sent == \A c \in Conns : /\ nodeFd[c] = NULL => wire[c] = <<>>
                         /\ Sole(c) /\ fd[c] # NULL => \A t \in Threads : SentBy(t, c)

PeerInv == TypeOK /\ Descriptors /\ Listing /\ Walks /\ Sent /\ PartsInOrder
-----------------------------------------------------------------------------
USE PeerAssumption DEF Threads

LEMMA Domain == ASSUME NEW S, NEW l \in Seq(S) PROVE DOMAIN l = 1..Len(l) /\ Len(l) \in Nat
OBVIOUS

LEMMA Least ==
  ASSUME NEW T, T \subseteq Nat, T # {}
  PROVE  \E x \in T : \A y \in T : x <= y
<1>1. IsWellFoundedOn(OpToRel(<, Nat), Nat)
  BY NatLessThanWellFounded
<1>2. PICK x \in T : \A y \in T : ~ (<<y, x>> \in OpToRel(<, Nat))
  BY <1>1, WFMin
<1>3. \A a, b \in Nat : a < b => <<a, b>> \in OpToRel(<, Nat)
  BY DEF OpToRel
<1>4. ASSUME NEW y \in T PROVE x <= y
  <2>1. x \in Nat /\ y \in Nat
    OBVIOUS
  <2>2. ~(y < x)
    BY <1>2, <1>3, <2>1
  <2> QED BY <2>1, <2>2
<1> QED BY <1>4

LEMMA ListedElements == Listed = Elements(plist)
BY DEF Listed, Elements, Seqs!ToSet

(* As many elements as places.                                             *)
LEMMA Counted ==
  ASSUME NEW S, NEW l \in Seq(S), Distinct(l)
  PROVE  IsFiniteSet(Elements(l)) /\ Cardinality(Elements(l)) = Len(l)
<1>1. l \in [1..Len(l) -> Elements(l)] /\ Len(l) \in Nat
  BY DEF Elements
<1>2. l \in Bijection(1..Len(l), Elements(l))
  <2>1. \A i, j \in 1..Len(l) : l[i] = l[j] => i = j
    BY DEF Distinct
  <2>2. \A e \in Elements(l) : \E i \in 1..Len(l) : l[i] = e
    BY DEF Elements
  <2> QED BY <1>1, <2>1, <2>2 DEF Bijection, Injection, Surjection, IsInjective
<1>3. ExistsBijection(1..Len(l), Elements(l))
  BY <1>2 DEF ExistsBijection
<1> QED BY <1>1, <1>3, FS_CountingElements, FS_NatBijection

LEMMA Pushing ==
  ASSUME NEW S, NEW l \in Seq(S), NEW c \in S, Distinct(l), c \notin Elements(l)
  PROVE  LET m == <<c>> \o l
         IN  /\ m \in Seq(S) /\ Len(m) = Len(l) + 1 /\ Distinct(m)
             /\ Elements(m) = Elements(l) \cup {c}
             /\ \A a, b : Before(m, a, b) => a = c \/ Before(l, a, b)
<1>1. PICK m : m = <<c>> \o l
  OBVIOUS
<1>2. /\ m \in Seq(S) /\ Len(m) = Len(l) + 1 /\ DOMAIN m = 1..(Len(l) + 1)
      /\ \A i \in 1..(Len(l) + 1) : m[i] = IF i = 1 THEN c ELSE l[i - 1]
      /\ Len(l) \in Nat /\ DOMAIN l = 1..Len(l)
  BY <1>1
<1>3. \A i \in DOMAIN l : i + 1 \in DOMAIN m /\ m[i + 1] = l[i]
  BY <1>2
<1>4. \A i \in DOMAIN m : i = 1 \/ (i - 1 \in DOMAIN l /\ m[i] = l[i - 1])
  BY <1>2
<1>5. 1 \in DOMAIN m /\ m[1] = c
  BY <1>2
<1>6. Elements(m) = Elements(l) \cup {c}
  BY <1>3, <1>4, <1>5 DEF Elements
<1>7. Distinct(m)
  <2> SUFFICES ASSUME NEW i \in DOMAIN m, NEW j \in DOMAIN m, m[i] = m[j] PROVE i = j
    BY DEF Distinct
  <2>1. \A k \in DOMAIN l : l[k] # c
    BY DEF Elements
  <2>2. i \in Int /\ j \in Int
    BY <1>2
  <2>3. CASE i = 1 \/ j = 1
    BY <1>4, <1>5, <2>1, <2>3
  <2>4. CASE i # 1 /\ j # 1
    <3>1. i - 1 = j - 1
      BY <1>4, <2>4 DEF Distinct
    <3> QED BY <2>2, <3>1
  <2> QED BY <2>3, <2>4
<1>8. ASSUME NEW a, NEW b, Before(m, a, b), a # c PROVE Before(l, a, b)
  <2>1. PICK i, j \in DOMAIN m : m[i] = a /\ m[j] = b /\ i < j
    BY <1>8 DEF Before
  <2>2. i # 1 /\ j # 1 /\ i \in Int /\ j \in Int
    BY <1>2, <1>5, <1>8, <2>1
  <2>3. i - 1 \in DOMAIN l /\ j - 1 \in DOMAIN l /\ l[i - 1] = a /\ l[j - 1] = b /\ i - 1 < j - 1
    BY <1>4, <2>1, <2>2
  <2> QED BY <2>3 DEF Before
<1> QED BY <1>1, <1>2, <1>6, <1>7, <1>8

LEMMA Striking ==
  ASSUME NEW S, NEW l \in Seq(S), NEW k \in DOMAIN l, Distinct(l)
  PROVE  LET m == Seqs!RemoveAt(l, k)
         IN  /\ m \in Seq(S) /\ Len(m) = Len(l) - 1 /\ Distinct(m)
             /\ Elements(m) = Elements(l) \ {l[k]}
             /\ \A a, b : Before(m, a, b) => Before(l, a, b)
<1>1. PICK m : m = Seqs!RemoveAt(l, k)
  OBVIOUS
<1>2. /\ m \in Seq(S) /\ Len(m) = Len(l) - 1 /\ DOMAIN m = 1..(Len(l) - 1)
      /\ Len(l) \in Nat /\ DOMAIN l = 1..Len(l) /\ k \in Int
      /\ \A i \in 1..(Len(l) - 1) : m[i] = IF i < k THEN l[i] ELSE l[i + 1]
  <2>1. Len(l) \in Nat /\ DOMAIN l = 1..Len(l) /\ k \in 1..Len(l)
    OBVIOUS
  <2>2. PICK p, q : p = SubSeq(l, 1, k - 1) /\ q = SubSeq(l, k + 1, Len(l))
    OBVIOUS
  <2>3. p \in Seq(S) /\ Len(p) = k - 1 /\ \A i \in 1..(k - 1) : p[i] = l[i]
    BY <2>1, <2>2
  <2>4. q \in Seq(S) /\ Len(q) = Len(l) - k /\ \A i \in 1..(Len(l) - k) : q[i] = l[k + i]
    BY <2>1, <2>2
  <2>5. m = p \o q
    BY <1>1, <2>2 DEF Seqs!RemoveAt
  <2>6. m \in Seq(S) /\ Len(m) = Len(l) - 1 /\ DOMAIN m = 1..(Len(l) - 1)
    <3>1. m \in Seq(S) /\ Len(m) = Len(p) + Len(q)
      <4>1. p \in Seq(S) /\ q \in Seq(S)
        BY <2>3, <2>4
      <4> QED BY ONLY <2>5, <4>1
    <3>2. Len(p) + Len(q) = Len(l) - 1
      BY <2>1, <2>3, <2>4
    <3> QED BY <3>1, <3>2
  <2>7. ASSUME NEW i \in 1..(Len(l) - 1) PROVE m[i] = IF i < k THEN l[i] ELSE l[i + 1]
    <3>1. CASE i < k
      BY <2>1, <2>3, <2>4, <2>5, <3>1
    <3>2. CASE i >= k
      <4>1. m[i] = q[i - (k - 1)] /\ i - (k - 1) \in 1..(Len(l) - k)
        BY <2>1, <2>3, <2>4, <2>5, <3>2
      <4>2. k + (i - (k - 1)) = i + 1
        BY <2>1
      <4> QED BY <2>1, <2>4, <3>2, <4>1, <4>2
    <3> QED BY <2>1, <3>1, <3>2
  <2> QED BY <2>1, <2>6, <2>7
<1>3. PICK at : at = [i \in DOMAIN m |-> IF i < k THEN i ELSE i + 1]
  OBVIOUS
<1>4. /\ \A i \in DOMAIN m : i \in Int /\ at[i] \in DOMAIN l \ {k} /\ m[i] = l[at[i]]
      /\ \A i, j \in DOMAIN m : i < j <=> at[i] < at[j]
      /\ \A i, j \in DOMAIN m : at[i] = at[j] => i = j
  BY <1>2, <1>3
<1>5. ASSUME NEW i \in DOMAIN l, i # k PROVE \E j \in DOMAIN m : at[j] = i
  <2>1. CASE i < k
    BY <1>2, <1>3, <2>1
  <2>2. CASE i > k
    <3>1. i - 1 \in DOMAIN m /\ at[i - 1] = i
      BY <1>2, <1>3, <2>2
    <3> QED BY <3>1
  <2> QED BY <1>2, <1>5, <2>1, <2>2
<1>6. Elements(m) = Elements(l) \ {l[k]}
  <2>1. ASSUME NEW i \in DOMAIN m PROVE m[i] \in Elements(l) \ {l[k]}
    BY <1>4 DEF Elements, Distinct
  <2>2. ASSUME NEW i \in DOMAIN l, l[i] # l[k] PROVE l[i] \in Elements(m)
    BY <1>4, <1>5, <2>2 DEF Elements
  <2> QED BY <2>1, <2>2 DEF Elements
<1>7. Distinct(m)
  BY <1>4 DEF Distinct
<1>8. \A a, b : Before(m, a, b) => Before(l, a, b)
  BY <1>4 DEF Before
<1> QED BY <1>1, <1>2, <1>6, <1>7, <1>8

(* The walk goes from one node to the next.                                *)
LEMMA Following ==
  ASSUME TypeOK, Distinct(plist), NEW c \in Listed
  PROVE  /\ NextNode(c) \in Elements(plist) \cup {NULL}
         /\ NextNode(c) # NULL => Before(plist, c, NextNode(c))
         /\ \A d : Before(plist, NextNode(c), d) => Before(plist, c, d)
<1>1. plist \in Seq(Conns) /\ DOMAIN plist = 1..Len(plist) /\ Len(plist) \in Nat
  BY Domain DEF TypeOK
<1>2. \E j \in 1..Len(plist) : plist[j] = c
  BY <1>1, ListedElements DEF Elements
<1>3. PICK i : i = CHOOSE j \in 1..Len(plist) : plist[j] = c
  OBVIOUS
<1>4. i \in 1..Len(plist) /\ plist[i] = c
  BY <1>2, <1>3
<1>5. NextNode(c) = IF i = Len(plist) THEN NULL ELSE plist[i + 1]
  BY <1>3 DEF NextNode
<1>6. CASE i = Len(plist)
  <2>1. NextNode(c) = NULL /\ \A d : ~Before(plist, NULL, d)
    BY <1>1, <1>5, <1>6 DEF Before
  <2> QED BY <2>1
<1>7. CASE i # Len(plist)
  <2>1. i + 1 \in 1..Len(plist) /\ i < i + 1
    <3>1. i \in Nat /\ 1 <= i /\ i <= Len(plist) /\ Len(plist) \in Nat
      BY <1>1, <1>4
    <3> QED BY <1>7, <3>1
  <2>2. i + 1 \in DOMAIN plist /\ i \in DOMAIN plist
    BY <1>1, <1>4, <2>1, Zenon
  <2>3. NextNode(c) = plist[i + 1]
    BY <1>5, <1>7, Zenon
  <2>4. NextNode(c) \in Elements(plist) /\ Before(plist, c, NextNode(c))
    <3>1. PICK j \in DOMAIN plist : j = i + 1 /\ i < j
      BY <2>1, <2>2, Zenon
    <3>2. NextNode(c) = plist[j]
      BY <2>3, <3>1, Zenon
    <3> QED BY <1>4, <2>2, <3>1, <3>2, Zenon DEF Elements, Before
  <2>5. ASSUME NEW d, Before(plist, NextNode(c), d) PROVE Before(plist, c, d)
    <3>1. PICK j, k \in DOMAIN plist : plist[j] = NextNode(c) /\ plist[k] = d /\ j < k
      BY <2>5 DEF Before
    <3>2. j = i + 1
      BY <2>2, <2>3, <3>1 DEF Distinct
    <3>3. i < k
      BY <1>1, <1>4, <3>1, <3>2
    <3> QED BY <1>4, <2>2, <3>1, <3>3 DEF Before
  <2> QED BY <2>4, <2>5
<1> QED BY <1>6, <1>7
-----------------------------------------------------------------------------
LEMMA PeerInitInv == Init => PeerInv
<1> SUFFICES ASSUME Init PROVE PeerInv
  OBVIOUS
<1>1. \A c \in Conns : pc[c] = "none" /\ nodeFd[c] = NULL /\ fd[c] = NULL /\ wire[c] = <<>>
  BY DEF Init
<1>2. TypeOK
  BY DEF Init, TypeOK
<1>3. Descriptors
  BY <1>1 DEF Init, Descriptors
<1>4. Listing
  <2>1. Served = {} /\ Cardinality(Served) = 0 /\ IsFiniteSet(Served)
    BY <1>1, FS_EmptySet DEF Served
  <2>2. plist = <<>> /\ Len(plist) = 0 /\ Elements(plist) = {} /\ Distinct(plist)
    BY DEF Init, Elements, Distinct
  <2> QED BY <1>1, <2>1, <2>2 DEF Listing
<1>5. Walks
  BY DEF Init, Walks, Walker, Forwarding
<1>6. Sent /\ PartsInOrder
  BY <1>1 DEF Sent, PartsInOrder
<1> QED BY <1>2, <1>3, <1>4, <1>5, <1>6 DEF PeerInv

(* Only Accept changes a node's descriptor, so a connection that has its   *)
(* descriptor alone always had.                                            *)
LEMMA SoleBefore ==
  ASSUME Descriptors, NEW c \in Conns, nodeFd[c] # NULL, Sole(c)', nodeFd'[c] = nodeFd[c],
         \A d \in Conns : nodeFd[d] # NULL => nodeFd'[d] = nodeFd[d]
  PROVE  Sole(c)
BY DEF Sole

(* Steps that write nothing leave the order of parts alone.                *)
LEMMA SameParts ==
  ASSUME Descriptors, Sent, PartsInOrder, wire' = wire,
         \A d \in Conns : nodeFd[d] # NULL => nodeFd'[d] = nodeFd[d]
  PROVE  PartsInOrder'
<1> SUFFICES ASSUME NEW c \in Conns, Sole(c)', NEW i \in DOMAIN wire[c]
             PROVE  /\ wire[c][i][1] # c
                    /\ Earlier(c, i) = {} => wire[c][i][3] = 1
                    /\ \A j \in Earlier(c, i) :
                         (\A k \in Earlier(c, i) : k <= j) => Continues(wire[c][i], wire[c][j])
  BY DEF PartsInOrder, Earlier, Continues
<1>1. nodeFd[c] # NULL
  BY DEF Sent
<1>2. Sole(c)
  BY <1>1, SoleBefore
<1> QED BY <1>2 DEF PartsInOrder

(* What one thread sent is as before if the thread has not moved, and      *)
(* nothing new is ahead of it.                                             *)
LEMMA SameSent ==
  ASSUME NEW t \in Threads, NEW c \in Conns, SentBy(t, c), wire'[c] = wire[c],
         UNCHANGED <<pc[t], curr[t], count[t], part[t]>>, Ahead(t, c)' => Ahead(t, c)
  PROVE  SentBy(t, c)'
BY DEF SentBy, Writing, Continues
-----------------------------------------------------------------------------
LEMMA AcceptStep == ASSUME PeerInv, NEW c \in Conns, Accept(c) PROVE PeerInv'
<1>1. /\ TypeOK /\ Descriptors /\ Listing /\ Walks /\ Sent /\ PartsInOrder
      /\ pc[c] = "none" /\ pc' = [pc EXCEPT ![c] = "idle"]
      /\ plist' = <<c>> \o plist /\ UNCHANGED <<wire, count, walk>>
  BY DEF PeerInv, Accept, Goto
<1>2. PICK f \in IF FreeFds = {} THEN {NULL} ELSE FreeFds :
        fd' = [fd EXCEPT ![c] = f] /\ nodeFd' = [nodeFd EXCEPT ![c] = f]
  BY DEF Accept
<1>3. f \in Fds \cup {NULL} /\ \A d \in Conns : fd[d] = f => f = NULL
  BY <1>2 DEF FreeFds
<1>4. /\ nodeFd[c] = NULL /\ fd[c] = NULL /\ wire[c] = <<>> /\ c \notin Served
      /\ c \notin Elements(plist) /\ c # UI /\ c # NULL
  BY <1>1 DEF Descriptors, Sent, Listing, Started, Served
<1>5. /\ pc'[c] = "idle" /\ fd'[c] = f /\ nodeFd'[c] = f
      /\ \A u \in Threads \ {c} : pc'[u] = pc[u]
      /\ \A d \in Conns \ {c} : fd'[d] = fd[d] /\ nodeFd'[d] = nodeFd[d]
  BY <1>1, <1>2 DEF TypeOK
<1>6. /\ plist' \in Seq(Conns) /\ Len(plist') = Len(plist) + 1 /\ Distinct(plist')
      /\ Elements(plist') = Elements(plist) \cup {c}
      /\ \A a, b : Before(plist', a, b) => a = c \/ Before(plist, a, b)
  BY <1>1, <1>4, Pushing DEF TypeOK, Listing
<1>7. TypeOK'
  BY <1>1, <1>2, <1>3, <1>6 DEF TypeOK, walk
<1>8. Descriptors'
  <2>1. pc'[UI] \notin {"none", "closing", "ended"}
    BY <1>1, <1>4, <1>5 DEF Descriptors
  <2>2. ASSUME NEW d \in Conns
        PROVE  /\ pc'[d] = "none" => nodeFd'[d] = NULL
               /\ fd'[d] = IF pc'[d] = "ended" THEN NULL ELSE nodeFd'[d]
    BY <1>1, <1>5 DEF Descriptors
  <2>3. ASSUME NEW d \in Conns, NEW e \in Conns \ {d}, fd'[d] = fd'[e] PROVE fd'[d] = NULL
    BY <1>1, <1>3, <1>5, <2>3 DEF Descriptors
  <2> QED BY <2>1, <2>2, <2>3 DEF Descriptors
<1>9. Listing'
  <2>1. Served' = Served \cup {c}
    BY <1>4, <1>5 DEF Served
  <2>2. IsFiniteSet(Served') /\ Cardinality(Served') = Cardinality(Served) + 1
    BY <1>1, <1>4, <2>1, FS_AddElement DEF Listing
  <2>3. Len(plist') = Cardinality(Served')
    BY <1>1, <1>6, <2>2 DEF Listing
  <2>4. \A d \in Elements(plist') : Started(d)'
    BY <1>1, <1>5, <1>6, <1>7, Domain DEF Listing, Started, Elements, TypeOK
  <2>5. \A d \in Conns : nodeFd'[d] # NULL => (d \in Elements(plist') <=> d \in Served')
    BY <1>1, <1>5, <1>6, <2>1 DEF Listing
  <2> QED BY <1>6, <2>2, <2>3, <2>4, <2>5 DEF Listing, Elements, Distinct
<1>10. ASSUME NEW u \in Threads, Forwarding(u)
       PROVE  /\ u # c /\ (curr[u] # NULL => curr[u] \in Conns \ {c})
              /\ pc[u] # "walk" => curr[u] # NULL
  BY <1>1, <1>10 DEF Forwarding, Walks, Walker, Started, TypeOK
<1>11. Walks'
  <2> SUFFICES ASSUME NEW u \in Threads PROVE Walker(u)'
    BY DEF Walks
  <2>1. CASE u = c
    BY <1>5, <2>1 DEF Walker, Forwarding
  <2>2. CASE u # c /\ ~Forwarding(u)
    BY <1>5, <2>2 DEF Walker, Forwarding
  <2>3. CASE u # c /\ Forwarding(u)
    <3>1. pc'[u] = pc[u] /\ curr'[u] = curr[u] /\ out'[u] = out[u] /\ count'[u] = count[u]
      BY <1>1, <1>5, <2>3 DEF walk
    <3>2. Walker(u)
      BY <1>1 DEF Walks
    <3>3. curr[u] # NULL => (Started(curr[u]) => pc'[curr[u]] # "none") /\ nodeFd'[curr[u]] = nodeFd[curr[u]]
      BY <1>5, <1>10, <2>3 DEF Started
    <3>4. u # UI => nodeFd'[u] = nodeFd[u]
      BY <1>5, <2>3
    <3> QED BY <1>10, <2>3, <3>1, <3>2, <3>3, <3>4 DEF Walker, Forwarding, Started, IsSender
  <2> QED BY <2>1, <2>2, <2>3
<1>12. Sent'
  <2>1. \A d \in Conns : nodeFd'[d] = NULL => wire'[d] = <<>>
    BY <1>1, <1>4, <1>5 DEF Sent
  <2>2. ASSUME NEW d \in Conns, Sole(d)', fd'[d] # NULL, NEW u \in Threads PROVE SentBy(u, d)'
    <3>1. CASE d = c
      <4>1. ~Writing(u, c)' /\ wire'[c] = <<>>
        BY <1>1, <1>4, <1>5, <1>10 DEF Writing, Forwarding, walk
      <4> QED BY <3>1, <4>1 DEF SentBy
    <3>2. CASE d # c
      <4>1. nodeFd[d] # NULL /\ fd[d] # NULL
        BY <1>1, <1>5, <2>2, <3>2 DEF Descriptors
      <4>2. Sole(d)
        BY <1>1, <1>4, <1>5, <2>2, <3>2, <4>1, SoleBefore
      <4>3. SentBy(u, d)
        BY <1>1, <4>1, <4>2 DEF Sent
      <4>4. CASE Forwarding(u)
        <5>1. Ahead(u, d)' => Ahead(u, d)
          BY <1>1, <1>4, <1>5, <1>6, <1>10, <4>4 DEF Ahead, Forwarding, walk
        <5> QED BY <1>1, <1>5, <1>10, <4>3, <4>4, <5>1, SameSent DEF walk
      <4>5. CASE ~Forwarding(u)
        <5>1. ~Writing(u, d) /\ ~Writing(u, d)' /\ ~Ahead(u, d)'
          BY <1>5, <4>5 DEF Writing, Ahead, Forwarding
        <5> QED BY <1>1, <4>3, <5>1 DEF SentBy
      <4> QED BY <4>4, <4>5
    <3> QED BY <3>1, <3>2
  <2> QED BY <2>1, <2>2 DEF Sent
<1>13. PartsInOrder'
  BY <1>1, <1>4, <1>5, SameParts
<1> QED BY <1>7, <1>8, <1>9, <1>11, <1>12, <1>13 DEF PeerInv
-----------------------------------------------------------------------------
(* Steps by which connections end leave all walks alone.                   *)
LEMMA Ending ==
  ASSUME PeerInv, NEW c \in Conns, pc[c] \in {"idle", "closing"}, pc'[c] \in {"closing", "ended"},
         \A u \in Threads \ {c} : pc'[u] = pc[u],
         \A a, b : Before(plist', a, b) => Before(plist, a, b),
         \A d \in Conns : fd'[d] # NULL => fd[d] # NULL,
         UNCHANGED <<nodeFd, wire, count, walk>>
  PROVE  Walks' /\ Sent' /\ PartsInOrder'
<1>1. TypeOK /\ Descriptors /\ Walks /\ Sent /\ PartsInOrder
  BY DEF PeerInv
<1>2. \A u \in Threads : Forwarding(u)' => u # c /\ Forwarding(u)
  BY DEF Forwarding
<1>3. \A d \in Conns : Started(d) => pc'[d] # "none"
  BY DEF Started
<1>4. Walks'
  <2> SUFFICES ASSUME NEW u \in Threads PROVE Walker(u)'
    BY DEF Walks
  <2>1. CASE u = c
    BY <2>1 DEF Walker, Forwarding
  <2>2. CASE u # c
    <3>1. Walker(u) /\ pc'[u] = pc[u] /\ (Forwarding(u) => curr[u] \in Conns \cup {NULL})
      BY <1>1, <2>2 DEF Walks, TypeOK
    <3> QED BY <1>3, <3>1 DEF Walker, Forwarding, Started, IsSender, walk
  <2> QED BY <2>1, <2>2
<1>5. ASSUME NEW u \in Threads, NEW d \in Conns, SentBy(u, d) PROVE SentBy(u, d)'
  <2>1. Ahead(u, d)' => Ahead(u, d)
    BY <1>2 DEF Ahead, Forwarding, walk
  <2>2. Writing(u, d)' <=> Writing(u, d)
    BY DEF Writing, walk
  <2> QED BY <1>5, <2>1, <2>2 DEF SentBy, Continues, walk
<1>6. Sent'
  BY <1>1, <1>5 DEF Sent, Sole
<1> QED BY <1>1, <1>4, <1>6, SameParts

(* remove_peer finds a node with the descriptor: its own, or any of those  *)
(* whose accept failed.                                                    *)
LEMMA Struck ==
  ASSUME PeerInv, NEW c \in Conns, Remove(c)
  PROVE  \E i \in DOMAIN plist : /\ plist' = Seqs!RemoveAt(plist, i)
                                 /\ nodeFd[plist[i]] = nodeFd[c]
                                 /\ nodeFd[c] # NULL => plist[i] = c
<1>1. /\ TypeOK /\ Descriptors /\ Listing /\ c \in Served
      /\ plist \in Seq(Conns) /\ DOMAIN plist = 1..Len(plist) /\ Len(plist) \in Nat
  BY Domain DEF PeerInv, TypeOK, Remove, Goto, Served
<1>2. PICK found : found = {j \in 1..Len(plist) : nodeFd[plist[j]] = nodeFd[c]}
  OBVIOUS
<1>3. found # {}
  <2>1. CASE nodeFd[c] # NULL
    <3>1. c \in Elements(plist)
      BY <1>1, <2>1 DEF Listing
    <3> QED BY <1>1, <1>2, <3>1 DEF Elements
  <2>2. CASE nodeFd[c] = NULL
    <3>1. SUFFICES ASSUME \A e \in Elements(plist) : nodeFd[e] # NULL PROVE FALSE
      BY <1>1, <1>2, <2>2 DEF Elements
    <3>2. Elements(plist) \subseteq Served \ {c}
      BY <1>1, <2>2, <3>1 DEF Listing, Elements
    <3>3. Cardinality(Elements(plist)) = Cardinality(Served) /\ IsFiniteSet(Served)
      BY <1>1, Counted DEF Listing
    <3>4. Elements(plist) = Served
      BY <3>2, <3>3, FS_Subset
    <3> QED BY <1>1, <3>2, <3>4
  <2> QED BY <2>1, <2>2
<1>4. PICK i \in found : \A j \in found : i <= j
  <2>1. found \subseteq Nat
    BY <1>2
  <2> QED BY <1>3, <2>1, Least
<1>5. i \in 1..Len(plist) /\ nodeFd[plist[i]] = nodeFd[c]
  BY <1>2, <1>4
<1>6. \A k \in 1..(i - 1) : nodeFd[plist[k]] # nodeFd[c]
  BY <1>1, <1>2, <1>4
<1>7. PICK j : j = CHOOSE h \in 1..Len(plist) :
                     /\ nodeFd[plist[h]] = nodeFd[c]
                     /\ \A k \in 1..(h - 1) : nodeFd[plist[k]] # nodeFd[c]
  OBVIOUS
<1>8. j \in 1..Len(plist) /\ nodeFd[plist[j]] = nodeFd[c]
  BY <1>5, <1>6, <1>7
<1>9. plist' = Seqs!RemoveAt(plist, j)
  BY <1>7 DEF Remove
<1>10. nodeFd[c] # NULL => plist[j] = c
  <2> SUFFICES ASSUME nodeFd[c] # NULL PROVE plist[j] = c
    OBVIOUS
  <2>1. plist[j] \in Conns /\ plist[j] \in Elements(plist)
    BY <1>1, <1>8 DEF Elements
  <2>2. plist[j] \in Served
    BY <1>1, <1>8, <2>1 DEF Listing
  <2> QED BY <1>1, <1>8, <2>1, <2>2 DEF Descriptors, Served
<1> QED BY <1>1, <1>8, <1>9, <1>10

LEMMA RemoveStep == ASSUME PeerInv, NEW c \in Conns, Remove(c) PROVE PeerInv'
<1>1. /\ TypeOK /\ Descriptors /\ Listing
      /\ pc[c] = "idle" /\ pc' = [pc EXCEPT ![c] = "closing"] /\ c # UI
      /\ UNCHANGED <<nodeFd, fd, wire, count, walk>>
  BY DEF PeerInv, Remove, Goto
<1>2. PICK i \in DOMAIN plist : /\ plist' = Seqs!RemoveAt(plist, i)
                                /\ nodeFd[plist[i]] = nodeFd[c]
                                /\ nodeFd[c] # NULL => plist[i] = c
  BY Struck
<1>3. /\ plist' \in Seq(Conns) /\ Len(plist') = Len(plist) - 1 /\ Distinct(plist')
      /\ Elements(plist') = Elements(plist) \ {plist[i]}
      /\ \A a, b : Before(plist', a, b) => Before(plist, a, b)
  BY <1>1, <1>2, Striking DEF TypeOK, Listing
<1>4. pc'[c] = "closing" /\ \A u \in Threads \ {c} : pc'[u] = pc[u]
  BY <1>1 DEF TypeOK
<1>5. TypeOK'
  BY <1>1, <1>3 DEF TypeOK, walk
<1>6. Descriptors'
  BY <1>1, <1>4 DEF Descriptors
<1>7. Listing'
  <2>1. Served' = Served \ {c} /\ c \in Served
    BY <1>1, <1>4 DEF Served
  <2>2. IsFiniteSet(Served') /\ Cardinality(Served') = Cardinality(Served) - 1
    BY <1>1, <2>1, FS_RemoveElement DEF Listing
  <2>3. Len(plist') = Cardinality(Served')
    BY <1>1, <1>3, <2>2 DEF Listing
  <2>4. ASSUME NEW d \in Elements(plist') PROVE Started(d)'
    <3>1. Elements(plist) \subseteq Conns
      BY <1>1, Domain DEF Elements, TypeOK
    <3>2. d \in Elements(plist) /\ d \in Conns
      BY <1>3, <3>1
    <3> QED BY <1>1, <1>4, <3>2 DEF Listing, Started
  <2>5. \A d \in Conns : nodeFd'[d] # NULL => (d \in Elements(plist') <=> d \in Served')
    BY <1>1, <1>2, <1>3, <2>1 DEF Listing
  <2> QED BY <1>3, <2>2, <2>3, <2>4, <2>5 DEF Listing, Elements, Distinct
<1>8. Walks' /\ Sent' /\ PartsInOrder'
  BY <1>1, <1>3, <1>4, Ending
<1> QED BY <1>5, <1>6, <1>7, <1>8 DEF PeerInv

LEMMA CloseStep == ASSUME PeerInv, NEW c \in Conns, Close(c) PROVE PeerInv'
<1>1. /\ TypeOK /\ Descriptors /\ Listing
      /\ pc[c] = "closing" /\ pc' = [pc EXCEPT ![c] = "ended"] /\ c # UI
      /\ fd' = [fd EXCEPT ![c] = NULL] /\ UNCHANGED <<plist, nodeFd, wire, count, walk>>
  BY DEF PeerInv, Close, Goto
<1>2. /\ pc'[c] = "ended" /\ \A u \in Threads \ {c} : pc'[u] = pc[u]
      /\ fd'[c] = NULL /\ \A d \in Conns \ {c} : fd'[d] = fd[d]
  BY <1>1 DEF TypeOK
<1>3. TypeOK'
  BY <1>1 DEF TypeOK, walk
<1>4. Descriptors'
  BY <1>1, <1>2 DEF Descriptors
<1>5. Listing'
  <2>1. Served' = Served
    BY <1>1, <1>2 DEF Served
  <2>2. \A d \in Conns : Started(d) => Started(d)'
    BY <1>1, <1>2 DEF Started
  <2>3. Elements(plist) \subseteq Conns
    BY <1>1, Domain DEF Elements, TypeOK
  <2> QED BY <1>1, <2>1, <2>2, <2>3 DEF Listing, Elements, Distinct
<1>6. Walks' /\ Sent' /\ PartsInOrder'
  BY <1>1, <1>2, Ending
<1> QED BY <1>3, <1>4, <1>5, <1>6 DEF PeerInv
-----------------------------------------------------------------------------
(* A step of one thread's walk that writes nothing.                        *)
LEMMA Walking ==
  ASSUME PeerInv, NEW t \in Threads, TypeOK', UNCHANGED <<plist, nodeFd, fd, wire>>,
         pc[t] \in {"idle", "walk", "advance"}, pc'[t] \in {"idle", "walk", "write"},
         \A u \in Threads \ {t} : UNCHANGED <<pc[u], count[u], curr[u], out[u], part[u]>>,
         Walker(t)', \A c \in Conns : SentBy(t, c) => SentBy(t, c)'
  PROVE  PeerInv'
<1>1. TypeOK /\ Descriptors /\ Listing /\ Walks /\ Sent /\ PartsInOrder
  BY DEF PeerInv
<1>2. \A d \in Conns : /\ pc'[d] \in {"none", "closing", "ended"} <=> pc[d] \in {"none", "closing", "ended"}
                       /\ pc'[d] = "none" <=> pc[d] = "none"
                       /\ pc'[d] = "ended" <=> pc[d] = "ended"
  OBVIOUS
<1>3. Descriptors'
  <2>1. pc'[UI] \notin {"none", "closing", "ended"}
    BY <1>1 DEF Descriptors
  <2> QED BY <1>1, <1>2, <2>1 DEF Descriptors
<1>4. Listing'
  <2>1. Served' = Served
    BY <1>2 DEF Served
  <2>2. Elements(plist) \subseteq Conns
    BY <1>1, Domain DEF Elements, TypeOK
  <2>3. \A c \in Elements(plist) : Started(c)'
    BY <1>1, <1>2, <2>2 DEF Listing, Started
  <2> QED BY <1>1, <2>1, <2>3 DEF Listing, Elements, Distinct
<1>5. Walks'
  <2> SUFFICES ASSUME NEW u \in Threads \ {t} PROVE Walker(u)'
    BY DEF Walks
  <2>1. Walker(u) /\ (Forwarding(u) => curr[u] \in Conns \cup {NULL})
    BY <1>1 DEF Walks, TypeOK
  <2> QED BY <1>2, <2>1 DEF Walker, Forwarding, Started, IsSender
<1>6. Sent'
  <2>1. ASSUME NEW u \in Threads \ {t}, NEW c \in Conns, SentBy(u, c) PROVE SentBy(u, c)'
    <3>1. Ahead(u, c)' => Ahead(u, c)
      BY DEF Ahead, Forwarding
    <3> QED BY <2>1, <3>1, SameSent
  <2> QED BY <1>1, <2>1 DEF Sent, Sole
<1>7. PartsInOrder'
  BY <1>1, SameParts
<1> QED BY <1>3, <1>4, <1>5, <1>6, <1>7 DEF PeerInv

LEMMA BeginStep == ASSUME PeerInv, NEW t \in Threads, Begin(t) PROVE PeerInv'
<1>1. /\ TypeOK /\ Listing /\ pc[t] = "idle" /\ pc' = [pc EXCEPT ![t] = "walk"]
      /\ count' = [count EXCEPT ![t] = @ + 1] /\ curr' = [curr EXCEPT ![t] = First]
      /\ count[t] < MaxMsgs /\ UNCHANGED <<plist, nodeFd, fd, wire, out, part>>
  BY DEF PeerInv, Begin, Goto
<1>2. First \in Elements(plist) \cup {NULL}
  <2>1. plist \in Seq(Conns)
    BY <1>1 DEF TypeOK
  <2>2. CASE plist # <<>>
    <3>1. 1 \in DOMAIN plist /\ Head(plist) = plist[1]
      BY <2>1, <2>2
    <3> QED BY <2>2, <3>1 DEF First, Elements
  <2> QED BY <2>2 DEF First
<1>3. Elements(plist) \subseteq Conns
  BY <1>1, Domain DEF Elements, TypeOK
<1>4. /\ pc'[t] = "walk" /\ count'[t] = count[t] + 1 /\ curr'[t] = First /\ count[t] \in Nat
      /\ \A u \in Threads \ {t} : UNCHANGED <<pc[u], count[u], curr[u], out[u], part[u]>>
  BY <1>1 DEF TypeOK
<1>5. TypeOK'
  BY <1>1, <1>2, <1>3, PeerAssumption DEF TypeOK
<1>6. Walker(t)'
  <2>1. First # NULL => Started(First) /\ First \in Conns
    BY <1>1, <1>2, <1>3 DEF Listing
  <2>2. First # NULL => pc'[First] # "none"
    BY <1>4, <2>1 DEF Started
  <2> QED BY <1>4, <2>2 DEF Walker, Started
<1>7. ASSUME NEW c \in Conns, SentBy(t, c) PROVE SentBy(t, c)'
  <2>1. ~Writing(t, c) /\ ~Writing(t, c)'
    BY <1>1, <1>4 DEF Writing
  <2>2. \A i \in DOMAIN wire[c] : wire[c][i][2] \in Nat
    BY <1>1 DEF TypeOK
  <2> QED BY <1>1, <1>4, <1>7, <2>1, <2>2 DEF SentBy
<1> QED BY <1>1, <1>4, <1>5, <1>6, <1>7, Walking

(* Going on from a node of the list to the next.                           *)
LEMMA NextStep ==
  ASSUME PeerInv, NEW t \in Threads, pc[t] \in {"walk", "advance"}, curr[t] \in Listed,
         pc' = [pc EXCEPT ![t] = "walk"], curr' = [curr EXCEPT ![t] = NextNode(curr[t])],
         UNCHANGED <<plist, nodeFd, fd, wire, count, out, part>>
  PROVE  PeerInv'
<1>1. TypeOK /\ Listing /\ Elements(plist) \subseteq Conns
  BY Domain DEF PeerInv, Elements, TypeOK
<1>2. PICK n : n = NextNode(curr[t])
  OBVIOUS
<1>3. PICK old : old = curr[t]
  OBVIOUS
<1>4. /\ n \in Elements(plist) \cup {NULL}
      /\ n # NULL => Before(plist, old, n)
      /\ \A d : Before(plist, n, d) => Before(plist, old, d)
  BY <1>1, <1>2, <1>3, Following DEF Listing
<1>5. /\ pc'[t] = "walk" /\ curr'[t] = n
      /\ \A u \in Threads \ {t} : UNCHANGED <<pc[u], count[u], curr[u], out[u], part[u]>>
  BY <1>1, <1>2 DEF TypeOK
<1>6. TypeOK'
  BY <1>1, <1>2, <1>4 DEF TypeOK
<1>7. Walker(t)'
  <2>1. n # NULL => Started(n) /\ n \in Conns
    BY <1>1, <1>4 DEF Listing
  <2>2. n # NULL => pc'[n] # "none"
    BY <1>5, <2>1 DEF Started
  <2>3. count'[t] # 0
    BY DEF PeerInv, Walks, Walker, Forwarding
  <2> QED BY <1>5, <2>2, <2>3 DEF Walker, Started
<1>8. ASSUME NEW c \in Conns, SentBy(t, c) PROVE SentBy(t, c)'
  <2>1. ~Writing(t, c) /\ ~Writing(t, c)'
    BY <1>5 DEF Writing
  <2>2. Ahead(t, c)' => Ahead(t, c)
    BY <1>3, <1>4, <1>5 DEF Ahead, Forwarding
  <2> QED BY <1>8, <2>1, <2>2 DEF SentBy
<1> QED BY <1>5, <1>6, <1>7, <1>8, Walking

LEMMA FinishStep == ASSUME PeerInv, NEW t \in Threads, Finish(t) PROVE PeerInv'
<1>1. /\ TypeOK /\ pc[t] = "walk" /\ pc' = [pc EXCEPT ![t] = "idle"]
      /\ UNCHANGED <<plist, nodeFd, fd, wire, count, walk>>
  BY DEF PeerInv, Finish, Goto
<1>2. /\ pc'[t] = "idle"
      /\ \A u \in Threads \ {t} : UNCHANGED <<pc[u], count[u], curr[u], out[u], part[u]>>
  BY <1>1 DEF TypeOK, walk
<1>3. TypeOK'
  BY <1>1 DEF TypeOK, walk
<1>4. Walker(t)'
  BY <1>2 DEF Walker, Forwarding
<1>5. ASSUME NEW c \in Conns, SentBy(t, c) PROVE SentBy(t, c)'
  <2>1. ~Writing(t, c) /\ ~Writing(t, c)' /\ ~Ahead(t, c)'
    BY <1>1, <1>2 DEF Writing, Ahead, Forwarding
  <2> QED BY <1>1, <1>5, <2>1 DEF SentBy
<1> QED BY <1>1, <1>2, <1>3, <1>4, <1>5, Walking

LEMMA ReadFdStep == ASSUME PeerInv, NEW t \in Threads, ReadFd(t) PROVE PeerInv'
<1>1. /\ TypeOK /\ Listing /\ pc[t] = "walk" /\ pc' = [pc EXCEPT ![t] = "write"]
      /\ curr[t] \in Listed /\ ~IsSender(t, curr[t])
      /\ out' = [out EXCEPT ![t] = nodeFd[curr[t]]] /\ part' = [part EXCEPT ![t] = 1]
      /\ UNCHANGED <<plist, nodeFd, fd, wire, count, curr>>
  BY DEF PeerInv, ReadFd, Goto
<1>2. PICK n \in Conns : n = curr[t]
  BY <1>1, ListedElements, Domain DEF TypeOK, Elements
<1>3. /\ pc'[t] = "write" /\ out'[t] = nodeFd[n] /\ part'[t] = 1 /\ curr'[t] = n
      /\ \A u \in Threads \ {t} : UNCHANGED <<pc[u], count[u], curr[u], out[u], part[u]>>
  BY <1>1, <1>2 DEF TypeOK
<1>4. TypeOK'
  BY <1>1, <1>2 DEF TypeOK
<1>5. Walker(t)'
  <2>1. Started(n) /\ count[t] # 0 /\ n # NULL
    BY <1>1, <1>2 DEF PeerInv, Walks, Walker, Forwarding
  <2>2. pc'[n] # "none"
    BY <1>3, <2>1 DEF Started
  <2> QED BY <1>1, <1>2, <1>3, <2>1, <2>2 DEF Walker, Started, IsSender
<1>6. ASSUME NEW c \in Conns, SentBy(t, c) PROVE SentBy(t, c)'
  <2>1. ~Writing(t, c)
    BY <1>1 DEF Writing
  <2>2. CASE c = n
    <3>1. Ahead(t, c) /\ Writing(t, c)'
      BY <1>1, <1>2, <1>3, <2>2 DEF Ahead, Writing, Forwarding
    <3>2. \A i \in DOMAIN wire[c] : wire[c][i][2] \in Nat /\ count[t] \in Nat
      BY <1>1 DEF TypeOK
    <3>3. \A i \in DOMAIN wire[c] : Last(wire[c], t, i) =>
            wire[c][i][3] = 3 /\ wire[c][i][2] < count[t]
      BY <1>6, <2>1, <3>1, <3>2 DEF SentBy
    <3> QED BY <1>1, <1>3, <3>1, <3>3 DEF SentBy, Continues
  <2>3. CASE c # n
    <3>1. ~Writing(t, c)' /\ (Ahead(t, c)' => Ahead(t, c))
      BY <1>1, <1>2, <1>3, <2>3 DEF Ahead, Writing, Forwarding
    <3> QED BY <1>1, <1>6, <2>1, <3>1 DEF SentBy
  <2> QED BY <2>2, <2>3
<1> QED BY <1>1, <1>3, <1>4, <1>5, <1>6, Walking
-----------------------------------------------------------------------------
(* What a sequence holds once w was appended to it.                        *)
Sendable == Threads \X (1..MaxMsgs) \X (1..3)

Grown(s, w, r) ==
  /\ DOMAIN r = 1..(Len(s) + 1) /\ DOMAIN s = 1..Len(s) /\ Len(s) \in Nat
  /\ r[Len(s) + 1] = w /\ \A i \in DOMAIN s : r[i] = s[i]
  /\ \A i \in DOMAIN r : Last(r, w[1], i) => i = Len(s) + 1
  /\ \A t : \A i \in DOMAIN r : t # w[1] /\ Last(r, t, i) => i \in DOMAIN s /\ Last(s, t, i)

LEMMA Appended ==
  ASSUME NEW S, NEW s \in Seq(S), NEW w \in S, NEW r, r = Append(s, w)
  PROVE  r \in Seq(S) /\ Grown(s, w, r)
<1>2. /\ r \in Seq(S) /\ DOMAIN r = 1..(Len(s) + 1) /\ DOMAIN s = 1..Len(s) /\ Len(s) \in Nat
      /\ r[Len(s) + 1] = w /\ \A i \in DOMAIN s : r[i] = s[i]
  OBVIOUS
<1>3. \A i \in DOMAIN r : i \in DOMAIN s \/ i = Len(s) + 1
  BY <1>2
<1>4. Len(s) + 1 \in DOMAIN r /\ \A i \in DOMAIN s : i \in DOMAIN r /\ i < Len(s) + 1
  BY <1>2
<1>5. ASSUME NEW i \in DOMAIN r, Last(r, w[1], i) PROVE i = Len(s) + 1
  <2>1. Len(s) + 1 <= i
    BY <1>2, <1>4, <1>5 DEF Last
  <2> QED BY <1>2, <2>1
<1>6. ASSUME NEW i \in DOMAIN r, NEW t, t # w[1], Last(r, t, i) PROVE i \in DOMAIN s /\ Last(s, t, i)
  <2>1. i \in DOMAIN s
    BY <1>2, <1>3, <1>6 DEF Last
  <2> QED BY <1>2, <1>4, <1>6, <2>1 DEF Last
<1> QED BY <1>2, <1>5, <1>6 DEF Grown

LEMMA WriteStep == ASSUME PeerInv, NEW t \in Threads, Write(t) PROVE PeerInv'
<1>1. /\ TypeOK /\ Descriptors /\ Listing /\ Walks /\ Sent /\ PartsInOrder /\ pc[t] = "write"
      /\ wire' = [c \in Conns |-> IF fd[c] = out[t] /\ out[t] # NULL
                                  THEN Append(wire[c], <<t, count[t], part[t]>>) ELSE wire[c]]
      /\ IF part[t] < 3
         THEN pc' = pc /\ part' = [part EXCEPT ![t] = @ + 1]
         ELSE pc' = [pc EXCEPT ![t] = "advance"] /\ part' = [part EXCEPT ![t] = 1]
      /\ UNCHANGED <<plist, nodeFd, fd, count, curr, out>>
  BY DEF PeerInv, Write
<1>2. PICK n \in Conns : n = curr[t]
  BY <1>1 DEF Walks, Walker, TypeOK
<1>3. /\ out[t] = nodeFd[n] /\ Started(n) /\ t # n /\ count[t] \in 1..MaxMsgs /\ part[t] \in 1..3
  <2>1. Walker(t)
    BY <1>1 DEF Walks
  <2>2. t # n
    BY <1>1, <1>2, <2>1 DEF Walker, IsSender
  <2> QED BY <1>1, <1>2, <2>1, <2>2 DEF Walker, Forwarding, TypeOK
<1>4. PICK w : w = <<t, count[t], part[t]>>
  OBVIOUS
<1>5. w \in Sendable /\ w[1] = t /\ w[2] = count[t] /\ w[3] = part[t]
  BY <1>3, <1>4 DEF Sendable
<1>6. /\ pc'[t] = IF part[t] < 3 THEN "write" ELSE "advance"
      /\ part'[t] = IF part[t] < 3 THEN part[t] + 1 ELSE 1
      /\ \A u \in Threads \ {t} : UNCHANGED <<pc[u], count[u], curr[u], part[u]>>
  BY <1>1 DEF TypeOK
<1>7. TypeOK'
  <2>1. wire' \in [Conns -> Seq(Sendable)]
    BY <1>1, <1>4, <1>5, Appended DEF TypeOK, Sendable
  <2>2. pc' \in [Threads -> {"none", "idle", "walk", "write", "advance", "closing", "ended"}]
    <3>1. CASE part[t] < 3
      BY <1>1, <3>1 DEF TypeOK
    <3>2. CASE ~(part[t] < 3)
      BY <1>1, <3>2 DEF TypeOK
    <3> QED BY <3>1, <3>2
  <2>3. part' \in [Threads -> 1..3]
    <3>1. CASE part[t] < 3
      <4>1. part[t] + 1 \in 1..3 /\ part' = [part EXCEPT ![t] = @ + 1]
        BY <1>1, <1>3, <3>1
      <4> QED BY <1>1, <4>1 DEF TypeOK
    <3>2. CASE ~(part[t] < 3)
      <4>1. part' = [part EXCEPT ![t] = 1]
        BY <1>1, <3>2
      <4> QED BY <1>1, <4>1 DEF TypeOK
    <3> QED BY <3>1, <3>2
  <2> QED BY <1>1, <2>1, <2>2, <2>3 DEF TypeOK, Sendable
<1>8. \A d \in Conns : /\ pc'[d] \in {"none", "closing", "ended"} <=> pc[d] \in {"none", "closing", "ended"}
                       /\ pc'[d] = "none" <=> pc[d] = "none"
                       /\ pc'[d] = "ended" <=> pc[d] = "ended"
  BY <1>1, <1>6
<1>9. Descriptors'
  <2>1. pc'[UI] \notin {"none", "closing", "ended"}
    BY <1>1, <1>6 DEF Descriptors
  <2> QED BY <1>1, <1>8, <2>1 DEF Descriptors
<1>10. Listing'
  <2>1. Served' = Served
    BY <1>8 DEF Served
  <2>2. Elements(plist) \subseteq Conns
    BY <1>1, Domain DEF Elements, TypeOK
  <2>3. \A c \in Elements(plist) : Started(c)'
    BY <1>1, <1>8, <2>2 DEF Listing, Started
  <2> QED BY <1>1, <2>1, <2>3 DEF Listing, Elements, Distinct
<1>11. Walks'
  <2> SUFFICES ASSUME NEW u \in Threads PROVE Walker(u)'
    BY DEF Walks
  <2>1. Walker(u) /\ (Forwarding(u) => curr[u] \in Conns \cup {NULL})
    BY <1>1 DEF Walks, TypeOK
  <2>2. CASE u = t
    <3>1. n # NULL /\ pc'[n] # "none"
      BY <1>3, <1>8 DEF Started
    <3> QED BY <1>1, <1>2, <1>6, <2>1, <2>2, <3>1 DEF Walker, Forwarding, Started, IsSender
  <2>3. CASE u # t
    BY <1>1, <1>6, <1>8, <2>1, <2>3 DEF Walker, Forwarding, Started, IsSender
  <2> QED BY <2>2, <2>3
<1>12. ASSUME NEW u \in Threads, NEW c \in Conns, Ahead(u, c)' PROVE Ahead(u, c)
  BY <1>1, <1>6, <1>12 DEF Ahead, Forwarding
(* The part arrives at connections with the descriptor that t uses: alone   *)
(* in having it, that is the connection whose node t stands on.            *)
<1>13. ASSUME NEW c \in Conns, Sole(c), fd[c] # NULL, c # n PROVE wire'[c] = wire[c]
  BY <1>1, <1>3, <1>13 DEF Descriptors, Sole
<1>14. ASSUME fd[n] # NULL PROVE wire'[n] = Append(wire[n], w)
  BY <1>1, <1>3, <1>4, <1>14 DEF Descriptors
<1>15. ASSUME NEW c \in Conns, fd[c] = NULL PROVE wire'[c] = wire[c]
  BY <1>1, <1>15
<1>16. Sent'
  <2>1. \A c \in Conns : nodeFd'[c] = NULL => wire'[c] = <<>>
    BY <1>1, <1>15 DEF Sent, Descriptors
  <2>2. ASSUME NEW c \in Conns, Sole(c), fd[c] # NULL, NEW u \in Threads PROVE SentBy(u, c)'
    <3>1. SentBy(u, c)
      BY <1>1, <2>2 DEF Sent
    <3>2. CASE c # n
      <4>1. wire'[c] = wire[c]
        BY <1>13, <2>2, <3>2
      <4>2. CASE u = t
        <5>1. ~Writing(t, c) /\ ~Writing(t, c)'
          BY <1>1, <1>2, <3>2 DEF Writing
        <5> QED BY <1>1, <1>12, <3>1, <4>1, <4>2, <5>1 DEF SentBy
      <4>3. CASE u # t
        BY <1>6, <1>12, <3>1, <4>1, <4>3, SameSent
      <4> QED BY <4>2, <4>3
    <3>3. CASE c = n
      <4>1. PICK s \in Seq(Sendable) : s = wire[n]
        BY <1>1 DEF TypeOK, Sendable
      <4>2. PICK r : r = Append(s, w) /\ r = wire'[n]
        BY <1>14, <2>2, <3>3, <4>1
      <4>3. /\ DOMAIN r = 1..(Len(s) + 1) /\ Len(s) + 1 \in DOMAIN r /\ r[Len(s) + 1] = w
            /\ \A i \in DOMAIN s : i \in DOMAIN r /\ r[i] = s[i]
            /\ \A i \in DOMAIN r : Last(r, t, i) => i = Len(s) + 1
            /\ \A i \in DOMAIN r : u # t /\ Last(r, u, i) => i \in DOMAIN s /\ Last(s, u, i)
        <5>1. Grown(s, w, r)
          BY <1>5, <4>2, Appended
        <5> QED BY <1>5, <5>1 DEF Grown
      <4>4. CASE u = t
        <5>1. ~(\A i \in DOMAIN r : r[i][1] # t)
          BY <1>5, <4>3
        <5>2. \A i \in DOMAIN r : Last(r, t, i) => r[i] = w
          BY <4>3
        <5>3. CASE part[t] < 3
          <6>1. Writing(t, n)' /\ part'[t] = part[t] + 1 /\ part[t] + 1 # 1 /\ part[t] = part[t] + 1 - 1
            BY <1>1, <1>2, <1>3, <1>6, <5>3 DEF Writing
          <6>2. PICK v : v = <<t, count[t], part[t] + 1>>
            OBVIOUS
          <6>3. v[2] = count[t] /\ v[3] = part[t] + 1
            BY <6>2
          <6>4. Continues(v, w)
            <7>1. v[3] # 1 /\ w[3] = v[3] - 1 /\ w[2] = v[2]
              BY <1>3, <1>5, <6>3
            <7> QED BY <7>1 DEF Continues
          <6>5. v = <<t, count[t], part[t] + 1>> /\ count'[t] = count[t] /\ part'[t] = part[t] + 1
            BY <1>1, <6>1, <6>2
          <6>6. /\ (\A i \in DOMAIN r : r[i][1] # t) => part'[t] = 1
                /\ \A i \in DOMAIN r : Last(r, t, i) => Continues(v, r[i])
            BY <5>1, <5>2, <6>4
          <6> QED BY <3>3, <4>2, <4>4, <6>1, <6>5, <6>6 DEF SentBy, Continues
        <5>4. CASE ~(part[t] < 3)
          <6>1. ~Writing(t, n)' /\ w[3] = 3 /\ w[2] <= count[t]
            BY <1>3, <1>5, <1>6, <5>4 DEF Writing
          <6>2. ~Before(plist, n, n)
            BY <1>1, Domain DEF Before, Distinct, Listing, TypeOK
          <6>3. ~Ahead(t, n)'
            BY <1>1, <1>2, <1>6, <5>4, <6>2 DEF Ahead
          <6> QED BY <1>1, <3>3, <4>2, <4>4, <5>2, <6>1, <6>3 DEF SentBy
        <5> QED BY <5>3, <5>4
      <4>5. CASE u # t
        <5>1. /\ \A i \in DOMAIN r : Last(r, u, i) => i \in DOMAIN s /\ Last(s, u, i) /\ r[i] = s[i]
              /\ (\A i \in DOMAIN r : r[i][1] # u) => (\A i \in DOMAIN s : s[i][1] # u)
          BY <4>3, <4>5
        <5>2. /\ Writing(u, n)' <=> Writing(u, n)
              /\ count'[u] = count[u] /\ part'[u] = part[u]
          BY <1>1, <1>6, <4>5 DEF Writing
        <5>3. SentBy(u, n)'
          <6>1. CASE Writing(u, n)
            BY <3>1, <3>3, <4>1, <4>2, <5>1, <5>2, <6>1 DEF SentBy, Continues
          <6>2. CASE ~Writing(u, n)
            BY <1>12, <3>1, <3>3, <4>1, <4>2, <5>1, <5>2, <6>2 DEF SentBy
          <6> QED BY <6>1, <6>2
        <5> QED BY <3>3, <5>3
      <4> QED BY <4>4, <4>5
    <3> QED BY <3>2, <3>3
  <2> QED BY <1>1, <2>1, <2>2 DEF Sent, Sole
<1>17. PartsInOrder'
  <2> SUFFICES ASSUME NEW c \in Conns, Sole(c)', NEW i \in DOMAIN wire'[c]
               PROVE  /\ wire'[c][i][1] # c
                      /\ Earlier(c, i)' = {} => wire'[c][i][3] = 1
                      /\ \A j \in Earlier(c, i)' :
                           (\A k \in Earlier(c, i)' : k <= j) => Continues(wire'[c][i], wire'[c][j])
    BY DEF PartsInOrder, Earlier, Continues
  <2>0. Sole(c)
    BY <1>1 DEF Sole
  <2>1. CASE wire'[c] = wire[c]
    <3>1. Earlier(c, i)' = Earlier(c, i)
      BY <2>1 DEF Earlier
    <3>2. /\ wire[c][i][1] # c
          /\ Earlier(c, i) = {} => wire[c][i][3] = 1
          /\ \A j \in Earlier(c, i) :
               (\A k \in Earlier(c, i) : k <= j) => Continues(wire[c][i], wire[c][j])
      BY <1>1, <2>0, <2>1 DEF PartsInOrder
    <3> QED BY <2>1, <3>1, <3>2
  <2>2. CASE wire'[c] # wire[c]
    <3>1. Sole(c) /\ c = n /\ fd[n] # NULL
      BY <1>13, <1>15, <2>0, <2>2
    <3>2. PICK s \in Seq(Sendable) : s = wire[n]
      BY <1>1 DEF TypeOK, Sendable
    <3>3. PICK r : r = Append(s, w) /\ r = wire'[n]
      BY <1>14, <3>1, <3>2
    <3>4. /\ DOMAIN r = 1..(Len(s) + 1) /\ DOMAIN s = 1..Len(s) /\ Len(s) \in Nat
          /\ r[Len(s) + 1] = w /\ \A j \in DOMAIN s : r[j] = s[j]
      <4>1. Grown(s, w, r)
        BY <1>5, <3>3, Appended
      <4> QED BY <4>1 DEF Grown
    <3>5. CASE i \in DOMAIN s
      <4>1. \A j \in 1..(i - 1) : j \in DOMAIN s
        BY <3>4, <3>5
      <4>2. Earlier(c, i)' = Earlier(c, i) /\ Earlier(c, i) \subseteq DOMAIN s
        BY <3>1, <3>2, <3>3, <3>4, <3>5, <4>1 DEF Earlier
      <4>3. wire'[c][i] = wire[c][i] /\ \A j \in Earlier(c, i) : wire'[c][j] = wire[c][j]
        BY <3>1, <3>2, <3>3, <3>4, <3>5, <4>2
      <4>4. /\ wire[c][i][1] # c
            /\ Earlier(c, i) = {} => wire[c][i][3] = 1
            /\ \A j \in Earlier(c, i) :
                 (\A k \in Earlier(c, i) : k <= j) => Continues(wire[c][i], wire[c][j])
        BY <1>1, <3>1, <3>2, <3>5 DEF PartsInOrder
      <4> QED BY <4>2, <4>3, <4>4
    <3>6. CASE i \notin DOMAIN s
      <4>1. i = Len(s) + 1 /\ wire'[c][i] = w
        BY <3>1, <3>3, <3>4, <3>6
      <4>2. i - 1 = Len(s)
        BY <3>4, <4>1
      <4>3. Earlier(c, i)' = {j \in DOMAIN s : s[j][1] = t}
        BY <1>5, <3>1, <3>3, <3>4, <4>1, <4>2 DEF Earlier
      <4>4. SentBy(t, n) /\ Writing(t, n)
        BY <1>1, <1>2, <3>1 DEF Sent, Writing
      <4>5. /\ (\A j \in DOMAIN s : s[j][1] # t) => part[t] = 1
            /\ \A j \in DOMAIN s : Last(s, t, j) => Continues(w, s[j])
        BY <1>4, <3>2, <4>4 DEF SentBy
      <4>6. \A j \in Earlier(c, i)' : (\A k \in Earlier(c, i)' : k <= j) => Last(s, t, j)
        BY <4>3 DEF Last
      <4>7. \A j \in Earlier(c, i)' : wire'[c][j] = s[j]
        BY <3>1, <3>3, <3>4, <4>3
      <4>8. Earlier(c, i)' = {} => w[3] = 1
        BY <1>5, <4>3, <4>5
      <4>9. w[1] # c
        BY <1>3, <1>5, <3>1
      <4> QED BY <4>1, <4>3, <4>5, <4>6, <4>7, <4>8, <4>9
    <3> QED BY <3>5, <3>6
  <2> QED BY <2>1, <2>2
<1> QED BY <1>7, <1>9, <1>10, <1>11, <1>16, <1>17 DEF PeerInv
-----------------------------------------------------------------------------
LEMMA PeerNextInv == PeerInv /\ [Next]_vars => PeerInv'
<1> SUFFICES ASSUME PeerInv, [Next]_vars PROVE PeerInv'
  OBVIOUS
<1>1. ASSUME NEW c \in Conns, Accept(c) \/ Remove(c) \/ Close(c) PROVE PeerInv'
  BY <1>1, AcceptStep, RemoveStep, CloseStep
<1>2. ASSUME NEW t \in Threads, Skip(t) \/ Advance(t) PROVE PeerInv'
  <2>1. pc[t] \in {"walk", "advance"} /\ curr[t] \in Listed
    BY <1>2 DEF Skip, Advance, Goto
  <2>2. curr' = [curr EXCEPT ![t] = NextNode(curr[t])]
    BY <1>2 DEF Skip, Advance
  <2>3. pc' = [pc EXCEPT ![t] = "walk"] /\ UNCHANGED <<plist, nodeFd, fd, wire, count, out, part>>
    BY <1>2 DEF Skip, Advance, Goto, PeerInv, TypeOK
  <2> QED BY <2>1, <2>2, <2>3, NextStep
<1>3. ASSUME NEW t \in Threads, Begin(t) \/ ReadFd(t) \/ Write(t) \/ Finish(t) PROVE PeerInv'
  BY <1>3, BeginStep, ReadFdStep, WriteStep, FinishStep
<1>4. CASE UNCHANGED vars
  <2> USE <1>4 DEF vars, PeerInv
  <2>1. TypeOK' /\ Descriptors'
    BY DEF TypeOK, Descriptors
  <2>2. Listing'
    BY DEF Listing, Distinct, Elements, Started, Served
  <2>3. Walks'
    BY DEF Walks, Walker, Forwarding, Started, IsSender
  <2>4. Sent'
    <3>1. ASSUME NEW t \in Threads, NEW c \in Conns, SentBy(t, c) PROVE SentBy(t, c)'
      BY <3>1, SameSent DEF Ahead, Forwarding
    <3> QED BY <3>1 DEF Sent, Sole
  <2>5. PartsInOrder'
    BY SameParts
  <2> QED BY <2>1, <2>2, <2>3, <2>4, <2>5
<1> QED BY <1>1, <1>2, <1>3, <1>4 DEF Next, Step, Walk

LEMMA PeerInvariant == Spec => []PeerInv
BY PeerInitInv, PeerNextInv, PTL DEF Spec

(* For any number of connections and messages, remove_peer always finds a  *)
(* node to strike, the list keeps one for every thread that serves a       *)
(* connection, and each open connection its own, although descriptors are  *)
(* handed out again and accepts fail.                                      *)
THEOREM PeersListed == Spec => []ListedWhileServed
<1>1. PeerInv => ListedWhileServed
  <2> SUFFICES ASSUME PeerInv PROVE ListedWhileServed
    OBVIOUS
  <2>1. TypeOK /\ Descriptors /\ Listing /\ plist \in Seq(Conns) /\ DOMAIN plist = 1..Len(plist)
    BY Domain DEF PeerInv, TypeOK
  <2>2. ASSUME NEW c \in Served, nodeFd[c] # NULL PROVE c \in Listed /\ fd[c] = nodeFd[c]
    BY <2>1, <2>2, ListedElements DEF Listing, Descriptors, Served
  <2>3. ASSUME NEW i \in 1..Len(plist), NEW j \in 1..Len(plist),
               nodeFd[plist[i]] = nodeFd[plist[j]], nodeFd[plist[i]] # NULL
        PROVE  i = j
    <3>1. plist[i] \in Served /\ plist[j] \in Served
      BY <2>1, <2>3 DEF Listing, Elements
    <3>2. plist[i] = plist[j]
      BY <2>1, <2>3, <3>1 DEF Descriptors, Served
    <3> QED BY <2>1, <3>2 DEF Listing, Distinct
  <2> QED BY <2>1, <2>2, <2>3 DEF ListedWhileServed, Listing
<1> QED BY <1>1, PeerInvariant, PTL

(* Nor are the three parts of a thread's message ever torn apart by other  *)
(* parts of its own, repeated or sent back, on a connection whose          *)
(* descriptor served no other one.                                         *)
THEOREM PeerPartsInOrder == Spec => []PartsInOrder
<1>1. PeerInv => PartsInOrder
  BY DEF PeerInv
<1> QED BY <1>1, PeerInvariant, PTL
-----------------------------------------------------------------------------
(* Until a walk that began before c is done with it: c is ahead of it, or  *)
(* it is there and has sent the parts before the next one.                 *)
Got(t, c, k, i) == <<t, k, i>> \in Elements(wire[c])
Due(t, c, k) ==
  /\ Forwarding(t) /\ count[t] = k /\ fd[c] # NULL /\ c # t
  /\ \/ Before(plist, curr[t], c)
     \/ pc[t] = "walk" /\ curr[t] = c
     \/ pc[t] = "write" /\ curr[t] = c /\ \A i \in 1..3 : i < part[t] => Got(t, c, k, i)
Pending(t, c, k) == Ended # {} \/ SentTo(t, c, k) \/ Due(t, c, k)

LEMMA SentIsGot ==
  ASSUME NEW t, NEW c, NEW k
  PROVE  SentTo(t, c, k) <=> \A i \in 1..3 : Got(t, c, k, i)
BY DEF SentTo, Got, Elements, Seqs!ToSet

LEMMA EndedStays == ASSUME PeerInv, [Next]_vars, Ended # {} PROVE Ended' # {}
<1>1. PICK d \in Conns : pc[d] \in {"closing", "ended"}
  BY DEF Ended
<1>2. pc \in [Threads -> {"none", "idle", "walk", "write", "advance", "closing", "ended"}]
  BY DEF PeerInv, TypeOK
<1>3. pc'[d] \in {"closing", "ended"}
  <2>1. CASE UNCHANGED vars
    BY <1>1, <2>1 DEF vars
  <2>2. ASSUME NEW c \in Conns, Accept(c) \/ Remove(c) \/ Close(c) PROVE pc'[d] \in {"closing", "ended"}
    BY <1>1, <1>2, <2>2 DEF Accept, Remove, Close, Goto
  <2>3. ASSUME NEW t \in Threads, Step(t) PROVE pc'[d] \in {"closing", "ended"}
    BY <1>1, <1>2, <2>3 DEF Step, Walk, Begin, Skip, ReadFd, Write, Advance, Finish, Goto
  <2> QED BY <2>1, <2>2, <2>3 DEF Next
<1> QED BY <1>3 DEF Ended

LEMMA GotStays ==
  ASSUME PeerInv, [Next]_vars, NEW t, NEW c \in Conns, NEW k, NEW i, Got(t, c, k, i)
  PROVE  Got(t, c, k, i)'
<1>1. CASE wire' = wire
  BY <1>1 DEF Got, Elements
<1>2. ASSUME NEW u \in Threads, Write(u) PROVE Got(t, c, k, i)'
  <2>1. PICK s, w : s = wire[c] /\ w = <<u, count[u], part[u]>>
    OBVIOUS
  <2>2. s \in Seq(Sendable) /\ (wire'[c] = s \/ wire'[c] = Append(s, w))
    BY <1>2, <2>1 DEF Write, PeerInv, TypeOK, Sendable
  <2>3. \A x \in DOMAIN s : x \in DOMAIN wire'[c] /\ wire'[c][x] = s[x]
    BY <2>2
  <2> QED BY <2>1, <2>3 DEF Got, Elements
<1> QED BY <1>1, <1>2 DEF Next, Step, Walk, vars, walk, Accept, Remove, Close, Begin, Skip, ReadFd, Advance, Finish

(* Whoever is behind a node of the walk is the next, or behind the next.   *)
LEMMA FollowingAll ==
  ASSUME TypeOK, Distinct(plist), NEW c \in Listed, NEW d, Before(plist, c, d)
  PROVE  d = NextNode(c) \/ Before(plist, NextNode(c), d)
<1>1. plist \in Seq(Conns) /\ DOMAIN plist = 1..Len(plist) /\ Len(plist) \in Nat
  BY Domain DEF TypeOK
<1>2. PICK i, j \in DOMAIN plist : plist[i] = c /\ plist[j] = d /\ i < j
  BY DEF Before
<1>3. i = CHOOSE k \in 1..Len(plist) : plist[k] = c
  BY <1>1, <1>2 DEF Distinct
<1>4. i # Len(plist) /\ i + 1 \in DOMAIN plist /\ (j = i + 1 \/ i + 1 < j)
  BY <1>1, <1>2
<1>5. NextNode(c) = plist[i + 1]
  BY <1>3, <1>4 DEF NextNode
<1> QED BY <1>2, <1>4, <1>5 DEF Before

LEMMA BegunIsPending ==
  ASSUME PeerInv, NEW t \in Threads, NEW c \in Conns, NEW k, Begun(t, c, k)
  PROVE  Pending(t, c, k)
<1>1. plist \in Seq(Conns) /\ DOMAIN plist = 1..Len(plist) /\ Len(plist) \in Nat
  BY Domain DEF PeerInv, TypeOK
<1>2. PICK j \in DOMAIN plist : plist[j] = c
  BY ListedElements DEF Begun, Elements
<1>3. 1 \in DOMAIN plist /\ curr[t] = plist[1] /\ (j = 1 \/ 1 < j)
  BY <1>1, <1>2 DEF Begun, First
<1>4. curr[t] = c \/ Before(plist, curr[t], c)
  BY <1>2, <1>3 DEF Before
<1> QED BY <1>4 DEF Begun, Pending, Due, Forwarding

(* The walk's own steps, and those of the others.                          *)
LEMMA DueOthers ==
  ASSUME NEW t, NEW c, NEW k, Due(t, c, k), UNCHANGED <<pc[t], count[t], curr[t], part[t]>>,
         fd'[c] # NULL, Before(plist, curr[t], c) => Before(plist', curr[t], c),
         \A i \in 1..3 : Got(t, c, k, i) => Got(t, c, k, i)'
  PROVE  Due(t, c, k)'
BY DEF Due, Forwarding

LEMMA DueWalks ==
  ASSUME PeerInv, NEW t \in Threads, NEW c \in Conns, NEW k, Due(t, c, k), Ended = {},
         Skip(t) \/ Advance(t)
  PROVE  Due(t, c, k)'
<1>1. /\ pc[t] \in {"walk", "advance"} /\ pc'[t] = "walk" /\ curr[t] \in Listed
      /\ curr'[t] = NextNode(curr[t]) /\ UNCHANGED <<plist, fd, count>>
  BY DEF Skip, Advance, Goto, PeerInv, TypeOK
<1>2. ~(pc[t] = "walk" /\ curr[t] = c)
  <2> SUFFICES ASSUME pc[t] = "walk", curr[t] = c PROVE FALSE
    OBVIOUS
  <2>1. t # UI /\ nodeFd[c] = nodeFd[t] /\ t \in Conns
    BY DEF Skip, Advance, Goto, IsSender
  <2>2. fd[c] = nodeFd[c] /\ fd[t] = nodeFd[t]
    BY <2>1 DEF PeerInv, Descriptors, Ended
  <2> QED BY <2>1, <2>2 DEF PeerInv, Descriptors, Due
<1>3. Before(plist, curr[t], c)
  BY <1>1, <1>2 DEF Due
<1>4. c = NextNode(curr[t]) \/ Before(plist, NextNode(curr[t]), c)
  BY <1>1, <1>3, FollowingAll DEF PeerInv, Listing
<1> QED BY <1>1, <1>4 DEF Due, Forwarding

LEMMA DueWrites ==
  ASSUME PeerInv, NEW t \in Threads, NEW c \in Conns, NEW k, Due(t, c, k), Ended = {}, Write(t),
         \A i \in 1..3 : Got(t, c, k, i) => Got(t, c, k, i)'
  PROVE  SentTo(t, c, k)' \/ Due(t, c, k)'
<1>1. /\ pc[t] = "write" /\ UNCHANGED <<plist, nodeFd, fd, count, curr>> /\ part[t] \in 1..3
      /\ pc'[t] = IF part[t] < 3 THEN "write" ELSE "advance"
      /\ part'[t] = IF part[t] < 3 THEN part[t] + 1 ELSE 1
  BY DEF Write, PeerInv, TypeOK
<1>2. CASE Before(plist, curr[t], c)
  BY <1>1, <1>2 DEF Due, Forwarding
<1>3. CASE ~Before(plist, curr[t], c)
  <2>1. curr[t] = c /\ count[t] = k /\ \A i \in 1..3 : i < part[t] => Got(t, c, k, i)'
    BY <1>1, <1>3 DEF Due
  <2>2. out[t] = fd[c] /\ fd[c] # NULL
    <3>1. out[t] = nodeFd[c] /\ fd[c] # NULL
      BY <1>1, <2>1 DEF PeerInv, Walks, Walker, Due
    <3> QED BY <3>1 DEF PeerInv, Descriptors, Ended
  <2>3. wire'[c] = Append(wire[c], <<t, k, part[t]>>)
    BY <2>1, <2>2 DEF Write
  <2>4. PICK p \in 1..3 : p = part[t]
    BY <1>1
  <2>5. Got(t, c, k, p)'
    <3>1. PICK s, w : s = wire[c] /\ w = <<t, k, p>>
      OBVIOUS
    <3>2. s \in Seq(Sendable)
      BY <3>1 DEF PeerInv, TypeOK, Sendable
    <3>3. Len(s) + 1 \in DOMAIN Append(s, w) /\ Append(s, w)[Len(s) + 1] = w
      BY <3>2
    <3>4. wire'[c] = Append(s, w)
      BY <2>3, <2>4, <3>1
    <3>5. w \in Elements(wire'[c])
      BY <3>3, <3>4 DEF Elements
    <3> QED BY <3>1, <3>5 DEF Got, Elements
  <2>6. CASE p < 3
    <3>1. part'[t] = p + 1 /\ pc'[t] = "write" /\ fd'[c] # NULL
      BY <1>1, <2>2, <2>4, <2>6
    <3>2. \A i \in 1..3 : i < p + 1 => i < p \/ i = p
      OBVIOUS
    <3>3. \A i \in 1..3 : i < part'[t] => Got(t, c, k, i)'
      BY <2>1, <2>4, <2>5, <3>1, <3>2
    <3>4. curr'[t] = c /\ count'[t] = k /\ Forwarding(t)'
      BY <1>1, <2>1, <3>1 DEF Forwarding
    <3> QED BY <3>1, <3>3, <3>4 DEF Due
  <2>7. CASE ~(p < 3)
    <3>1. \A i \in 1..3 : i < p \/ i = p
      BY <2>7
    <3>2. \A i \in 1..3 : Got(t, c, k, i)'
      BY <2>1, <2>4, <2>5, <3>1
    <3> QED BY <3>2 DEF SentTo, Got, Elements, Seqs!ToSet
  <2> QED BY <2>6, <2>7
<1> QED BY <1>2, <1>3

LEMMA PendingStep ==
  ASSUME NEW t \in Threads, NEW c \in Conns, NEW k
  PROVE  PeerInv /\ Pending(t, c, k) /\ [Next]_vars => Pending(t, c, k)'
<1> SUFFICES ASSUME PeerInv, Pending(t, c, k), [Next]_vars PROVE Pending(t, c, k)'
  OBVIOUS
<1>1. CASE Ended # {}
  BY <1>1, EndedStays DEF Pending
<1>2. \A i \in 1..3 : Got(t, c, k, i) => Got(t, c, k, i)'
  BY GotStays
<1>3. CASE SentTo(t, c, k)
  <2>1. \A i \in 1..3 : Got(t, c, k, i)'
    BY <1>2, <1>3, SentIsGot
  <2> QED BY <2>1 DEF Pending, SentTo, Got, Elements, Seqs!ToSet
<1>4. CASE Ended = {} /\ Due(t, c, k)
  <2> SUFFICES Ended' # {} \/ SentTo(t, c, k)' \/ Due(t, c, k)'
    BY DEF Pending
  <2>1. /\ pc \in [Threads -> {"none", "idle", "walk", "write", "advance", "closing", "ended"}]
        /\ curr \in [Threads -> Conns \cup {NULL}] /\ plist \in Seq(Conns)
        /\ count \in [Threads -> 0..MaxMsgs] /\ part \in [Threads -> 1..3]
        /\ fd \in [Conns -> Fds \cup {NULL}]
    BY DEF PeerInv, TypeOK
  <2>2. ASSUME NEW d \in Conns, Accept(d) PROVE Due(t, c, k)'
    <3>1. /\ pc[d] = "none" /\ pc' = [pc EXCEPT ![d] = "idle"] /\ plist' = <<d>> \o plist
          /\ \E f : fd' = [fd EXCEPT ![d] = f]
          /\ UNCHANGED <<count, curr, part>>
      BY <2>2 DEF Accept, Goto, walk
    <3>2. d # t /\ d # c
      <4>1. pc[c] # "none"
        BY <1>4 DEF Due, PeerInv, Descriptors
      <4> QED BY <1>4, <3>1, <4>1 DEF Due, Forwarding
    <3>3. pc'[t] = pc[t] /\ fd'[c] = fd[c]
      BY <2>1, <3>1, <3>2
    <3>4. Before(plist, curr[t], c) => Before(plist', curr[t], c)
      <4> SUFFICES ASSUME Before(plist, curr[t], c) PROVE Before(plist', curr[t], c)
        OBVIOUS
      <4>1. PICK i, j \in DOMAIN plist : plist[i] = curr[t] /\ plist[j] = c /\ i < j
        BY DEF Before
      <4>2. PICK a, b : a = i + 1 /\ b = j + 1
        OBVIOUS
      <4>3. DOMAIN plist = 1..Len(plist) /\ Len(plist) \in Nat
        BY <2>1
      <4>4. a < b /\ a \in DOMAIN (<<d>> \o plist) /\ b \in DOMAIN (<<d>> \o plist)
        <5>1. DOMAIN (<<d>> \o plist) = 1..(Len(plist) + 1)
          BY <2>1
        <5>2. i \in 1..Len(plist) /\ j \in 1..Len(plist)
          BY <4>1, <4>3
        <5>3. a \in 1..(Len(plist) + 1) /\ b \in 1..(Len(plist) + 1) /\ a < b
          BY <4>1, <4>2, <4>3, <5>2
        <5> QED BY <5>1, <5>3
      <4>5. \A x \in 1..Len(plist) : (<<d>> \o plist)[x + 1] = plist[x]
        BY <2>1
      <4>6. (<<d>> \o plist)[a] = curr[t] /\ (<<d>> \o plist)[b] = c
        BY <4>1, <4>2, <4>3, <4>5
      <4> QED BY <3>1, <4>4, <4>6 DEF Before
    <3> QED BY <1>2, <1>4, <3>1, <3>3, <3>4, DueOthers DEF Due
  <2>3. ASSUME NEW d \in Conns, Remove(d) \/ Close(d) PROVE Ended' # {}
    <3>1. pc'[d] \in {"closing", "ended"}
      BY <2>1, <2>3 DEF Remove, Close, Goto
    <3> QED BY <3>1 DEF Ended
  <2>4. ASSUME NEW u \in Threads \ {t}, Step(u) PROVE Due(t, c, k)'
    <3>1. /\ UNCHANGED <<pc[t], count[t], curr[t], part[t]>> /\ UNCHANGED <<plist, fd>>
      BY <2>1, <2>4 DEF Step, Walk, Begin, Skip, ReadFd, Write, Advance, Finish, Goto, walk
    <3> QED BY <1>2, <1>4, <3>1, DueOthers DEF Due
  <2>5. CASE Begin(t)
    BY <1>4, <2>5 DEF Begin, Goto, Due, Forwarding
  <2>6. CASE Finish(t)
    <3>1. pc[t] = "walk" /\ curr[t] = NULL
      BY <2>6 DEF Finish, Goto
    <3>2. ~Before(plist, NULL, c) /\ c # NULL
      BY <2>1 DEF Before
    <3> QED BY <1>4, <3>1, <3>2 DEF Due
  <2>7. CASE ReadFd(t)
    <3>1. /\ pc[t] = "walk" /\ pc'[t] = "write" /\ part'[t] = 1 /\ UNCHANGED <<plist, fd, count, curr>>
      BY <2>1, <2>7 DEF ReadFd, Goto
    <3>2. \A i \in 1..3 : ~(i < part'[t])
      BY <3>1
    <3> QED BY <1>4, <3>1, <3>2 DEF Due, Forwarding
  <2>8. CASE Skip(t) \/ Advance(t)
    BY <1>4, <2>8, DueWalks
  <2>9. CASE Write(t)
    BY <1>2, <1>4, <2>9, DueWrites
  <2>10. CASE UNCHANGED vars
    <3>1. UNCHANGED <<pc[t], count[t], curr[t], part[t], plist, fd>>
      BY <2>10 DEF vars, walk
    <3> QED BY <1>2, <1>4, <3>1, DueOthers DEF Due
  <2> QED BY <2>2, <2>3, <2>4, <2>5, <2>6, <2>7, <2>8, <2>9, <2>10 DEF Next, Step, Walk
<1> QED BY <1>1, <1>3, <1>4 DEF Pending

LEMMA PendingIsLeftOut ==
  ASSUME NEW t, NEW c, NEW k
  PROVE  Pending(t, c, k) => NotLeftOut(t, c, k)
BY DEF Pending, Due, NotLeftOut, Forwarding

(* What Forwarded promises beyond the fairness of the threads, for any     *)
(* number of them: no walk of forward_message ends, however the list grows *)
(* under it, without having sent its message to every open connection that *)
(* was in the list at its beginning, unless a connection ends              *)
(* (p2pchat.c:82-120).                                                     *)
THEOREM PeerNobodyLeftOut ==
  ASSUME NEW t \in Speakers, NEW c \in Conns, NEW k \in 1..MaxMsgs
  PROVE  Spec => NobodyLeftOut(t, c, k)
<1>1. PeerInv /\ Begun(t, c, k) => Pending(t, c, k)
  BY BegunIsPending
<1>2. PeerInv /\ Pending(t, c, k) /\ [Next]_vars => Pending(t, c, k)'
  BY PendingStep
<1>3. Pending(t, c, k) => NotLeftOut(t, c, k)
  BY PendingIsLeftOut
<1> QED BY <1>1, <1>2, <1>3, PeerInvariant, PTL DEF Spec, NobodyLeftOut

=============================================================================
