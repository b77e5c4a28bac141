------------------------- MODULE ChatNetworkProofs --------------------------
(***************************************************************************)
(* Proofs about ChatNetwork for any number of processes, however they      *)
(* connect, leave and crash, and any number of parts in a message.  First  *)
(* the network of whole messages (MessageNetwork): whatever is shown was   *)
(* typed, no message comes back to the process where it was typed, and     *)
(* every process shows the messages of one origin in order, each once.     *)
(* Then the parts: ChatNetwork implements MessageNetwork, and so has all   *)
(* of that, for as long as it does not break.                              *)
(***************************************************************************)
EXTENDS ChatNetwork, TLAPS

Tasks == [msg : Messages \cup {<<>>}, todo : SUBSET Peers]

Types == /\ status \in [Peers -> {"off", "up", "left", "killed"}]
         /\ peers \in [Peers -> SUBSET Peers] /\ backlog \in [Peers -> SUBSET Peers]
         /\ Mail \in [Peers -> [Peers -> Seq(Messages)]]
         /\ Duty \in [Peers -> [Peers -> Tasks]]
         /\ shown \in [Peers -> [Peers -> Seq(1..MaxSays)]]

(* A message is on its way only after its origin showed it.                *)
WasTyped(m) == m[2] <= Len(shown[m[1]][m[1]])

Typed == \A p, q \in Peers :
  /\ \A i \in 1..Len(Mail[p][q]) : WasTyped(Mail[p][q][i])
  /\ Duty[p][q].todo # {} => Duty[p][q].msg \in Messages /\ WasTyped(Duty[p][q].msg)
  /\ \A i \in 1..Len(shown[p][q]) : shown[p][q][i] <= Len(shown[q][q])

(* A process that was not started has no part in anything.                 *)
Neighbours(q) == peers[q] \cup backlog[q]

NotYet == \A p \in Peers : status[p] = "off" =>
  /\ Neighbours(p) = {}
  /\ \A q \in Peers : /\ p \notin Neighbours(q)
                      /\ Mail[p][q] = <<>> /\ Mail[q][p] = <<>> /\ Duty[p][q].todo = {}
                      /\ \A r \in Peers : p \notin Duty[q][r].todo

(* Connections make a tree.  side[q][p] holds the processes on q's side of *)
(* the connection between q and p: what q writes to p comes from there.    *)
Tree(side) == \A q, p \in Peers :
  /\ p \notin side[q][p] /\ \A x \in side[q][p] : status[x] # "off"
  /\ status[p] = "off" => side[q][p] = {} /\ side[p][q] = {}
  /\ p \in Neighbours(q) => /\ q \in side[q][p]
                            /\ \A r \in Neighbours(q) \ {p} : side[r][q] \subseteq side[q][p]

Directed(side) == \A q, p \in Peers :
  /\ \A i \in 1..Len(Mail[q][p]) : Mail[q][p][i][1] \in side[q][p]
  /\ \A r \in Duty[q][p].todo : Duty[q][p].msg[1] \in side[q][r]

Sides == [Peers -> [Peers -> SUBSET Peers]]

Net(side) == Types /\ Typed /\ NotYet /\ Tree(side) /\ Directed(side)
-----------------------------------------------------------------------------
(* Order.  Number k may follow what is in s; and number k of origin o may  *)
(* come at place i of stream l, given what its reader showed before (S).   *)
Continues(s, k) == s = <<>> \/ k = s[Len(s)] + 1

Fits(l, i, o, k, S) ==
  /\ \A j \in 1..(i - 1) : l[j][1] = o => l[j][2] < k
  /\ \/ \E j \in 1..(i - 1) : l[j][1] = o /\ k = l[j][2] + 1
     \/ Continues(S[o], k) /\ \A j \in 1..(i - 1) : l[j][1] # o

FitsNext(l, o, k, S) == Fits(l, Len(l) + 1, o, k, S)
InStream(l, S) == \A i \in 1..Len(l) : Fits(l, i, l[i][1], l[i][2], S)

InOrder == \A q, p \in Peers : InStream(Mail[q][p], shown[p])

(* What q is about to write to p is the last of its origin that q showed;  *)
(* if q is not about to write anything of an origin, p is up to date.      *)
Latest(s, k) == s # <<>> /\ k = s[Len(s)]
Due(S, l, T, m) == Latest(S[m[1]], m[2]) /\ FitsNext(l, m[1], m[2], T)
Pending(q, p, o) == \E r \in Peers : p \in Duty[q][r].todo /\ Duty[q][r].msg[1] = o
UpToDate(S, l, T, o) == \A k \in Nat : Continues(S[o], k) => FitsNext(l, o, k, T)

Passing == \A q, p \in Peers : status[p] = "up" =>
  \A r \in Peers : p \in Duty[q][r].todo =>
    Due(shown[q], Mail[q][p], shown[p], Duty[q][r].msg)
Ready(side) == \A q, p \in Peers : status[p] = "up" /\ p \in peers[q] =>
  \A o \in side[q][p] : Pending(q, p, o) \/ UpToDate(shown[q], Mail[q][p], shown[p], o)

Numbered == \A p, o \in Peers : \A i \in 1..Len(shown[p][o]) :
              /\ o = p => shown[p][o][i] = i
              /\ i # 1 => shown[p][o][i] = shown[p][o][i - 1] + 1

(* The two sides of a connection have nothing in common; each end knows    *)
(* of the other; a thread passes on what comes from its own connection;    *)
(* and who was not accepted yet has seen nothing of the other side.        *)
Apart(side) == \A q, p \in Peers : \A x \in side[q][p] : x \notin side[p][q]

Mutual == \A p, q \in Peers :
  /\ status[p] # "up" => Neighbours(p) = {}
  /\ status[p] = "up" /\ (p \in Neighbours(q) \/ Mail[q][p] # <<>>) => q \in Neighbours(p)
  /\ q \in backlog[p] => q \notin peers[p] /\ Mail[p][q] = <<>>
  /\ Duty[p][q].todo \subseteq peers[p]

Sourced(side) == \A p, q \in Peers : Duty[p][q].todo # {} =>
  \/ q = p /\ Duty[p][q].msg[1] = p
  \/ q \in peers[p] /\ Duty[p][q].msg[1] \in side[q][p]

Unseen(side) == \A p, q \in Peers :
  /\ status[p] = "off" => shown[p][q] = <<>> /\ shown[q][p] = <<>>
  /\ status[q] = "up" /\ q \in backlog[p] => \A o \in side[p][q] : shown[q][o] = <<>>

Order(side) == /\ Apart(side) /\ Mutual /\ Sourced(side) /\ Unseen(side)
               /\ InOrder /\ Passing /\ Ready(side) /\ Numbered
-----------------------------------------------------------------------------
LEMMA Bounds == MaxSays \in Nat
BY ChatAssumption

USE Bounds

LEMMA NetInit == ASSUME W!Init PROVE \E side \in Sides : Net(side) /\ Order(side)
<1>1. Types
  BY DEF W!Init, Types, Tasks, W!Idle
<1>2. Typed /\ NotYet
  BY DEF W!Init, Typed, NotYet, Neighbours, W!Idle
<1>3. PICK side \in Sides : side = [q \in Peers |-> [p \in Peers |-> {}]]
  BY DEF Sides
<1>4. Tree(side) /\ Directed(side)
  BY <1>3 DEF W!Init, Tree, Directed, Neighbours, W!Idle
<1>5. Order(side)
  BY <1>3 DEF W!Init, Order, Apart, Mutual, Sourced, Unseen, InOrder, Passing, Ready, Numbered,
              Neighbours, W!Idle, InStream
<1> QED BY <1>1, <1>2, <1>4, <1>5 DEF Net

(* Steps that leave messages and connections as they are.                  *)
LEMMA StartStep ==
  ASSUME NEW side \in Sides, Net(side), NEW p \in Peers, W!Start(p)
  PROVE  Net(side)'
<1>1. Types /\ Typed /\ NotYet
  BY DEF Net
<1>2. Tree(side) /\ Directed(side)
  BY DEF Net
<1>3. /\ status' = [status EXCEPT ![p] = "up"]
      /\ UNCHANGED <<peers, backlog, Mail, Duty, shown>>
  BY DEF W!Start
<1>4. Types' /\ Typed' /\ NotYet'
  BY <1>1, <1>3 DEF Types, Typed, WasTyped, NotYet, Neighbours
<1>5. \A x \in Peers : status'[x] = "off" => status[x] = "off"
  BY <1>1, <1>3 DEF Types
<1>6. Tree(side)'
  BY <1>2, <1>3, <1>5 DEF Sides, Tree, Neighbours
<1>7. Directed(side)'
  BY <1>2, <1>3 DEF Directed
<1> QED BY <1>4, <1>6, <1>7 DEF Net

LEMMA AcceptStep ==
  ASSUME NEW side \in Sides, Net(side), NEW p \in Peers, NEW q \in Peers, W!Accept(p, q)
  PROVE  Net(side)'
<1>1. Types /\ Typed /\ NotYet
  BY DEF Net
<1>2. Tree(side) /\ Directed(side)
  BY DEF Net
<1>3. Types'
  BY <1>1 DEF W!Accept, Types
<1>4. /\ UNCHANGED <<status, Mail, Duty, shown>>
      /\ \A r \in Peers : peers'[r] \cup backlog'[r] = peers[r] \cup backlog[r]
  BY <1>1 DEF W!Accept, Types
<1>5. Typed' /\ NotYet'
  BY <1>1, <1>4 DEF Typed, WasTyped, NotYet, Neighbours
<1>6. Tree(side)'
  BY <1>2, <1>4 DEF Tree, Neighbours
<1>7. Directed(side)'
  BY <1>2, <1>4 DEF Directed
<1> QED BY <1>3, <1>5, <1>6, <1>7 DEF Net

(* A new leaf of the tree.                                                 *)
Grown(side, p, q, new) ==
  /\ new[p][q] = {p}
  /\ \A x : x \in new[q][p] <=> x \in Peers /\ status[x] # "off"
  /\ \A a, b \in Peers : ~(a = p /\ b = q) /\ ~(a = q /\ b = p) =>
       \A x : x \in new[a][b] <=> x \in side[a][b] \/ (x = p /\ q \in side[a][b])

LEMMA ConnectStep ==
  ASSUME NEW side \in Sides, Net(side), NEW p \in Peers, NEW q \in Peers, W!Connect(p, q)
  PROVE  \E new \in Sides : Grown(side, p, q, new) /\ Net(new)'
<1>1. Types /\ Typed /\ NotYet
  BY DEF Net
<1>2. Tree(side) /\ Directed(side)
  BY DEF Net
<1>3. /\ p # q /\ status[p] = "off" /\ status[q] = "up"
      /\ status' = [status EXCEPT ![p] = "up"] /\ UNCHANGED <<Mail, Duty, shown>>
      /\ peers' = [peers EXCEPT ![p] = {q}] /\ backlog' = [backlog EXCEPT ![q] = @ \cup {p}]
  BY DEF W!Connect, W!Up
<1>4. Types' /\ Typed'
  BY <1>1, <1>3 DEF Types, Typed, WasTyped
<1>5. \A r \in Peers : peers'[r] \cup backlog'[r] =
         IF r = p THEN {q} ELSE IF r = q THEN peers[q] \cup backlog[q] \cup {p}
         ELSE peers[r] \cup backlog[r]
  BY <1>1, <1>3 DEF Types, NotYet, Neighbours
<1>6. NotYet'
  <2> SUFFICES ASSUME NEW x \in Peers, status'[x] = "off"
               PROVE  /\ peers'[x] \cup backlog'[x] = {}
                      /\ \A a \in Peers : /\ x \notin peers'[a] \cup backlog'[a]
                                          /\ Mail'[x][a] = <<>> /\ Mail'[a][x] = <<>>
                                          /\ Duty'[x][a].todo = {}
                                          /\ \A r \in Peers : x \notin Duty'[a][r].todo
    BY DEF NotYet, Neighbours
  <2>1. status[x] = "off" /\ x # p /\ x # q
    BY <1>1, <1>3 DEF Types
  <2>2. peers[x] \cup backlog[x] = {} /\ \A a \in Peers : x \notin peers[a] \cup backlog[a]
    BY <1>1, <2>1 DEF NotYet, Neighbours
  <2>3. peers'[x] \cup backlog'[x] = {} /\ \A a \in Peers : x \notin peers'[a] \cup backlog'[a]
    BY <1>5, <2>1, <2>2
  <2> QED BY <1>1, <1>3, <2>1, <2>3 DEF NotYet
<1>7. PICK new \in Sides :
        new = [a \in Peers |-> [b \in Peers |->
                 IF a = p /\ b = q THEN {p}
                 ELSE IF a = q /\ b = p THEN {x \in Peers : status[x] # "off"}
                 ELSE side[a][b] \cup {x \in {p} : q \in side[a][b]}]]
  BY <1>2 DEF Sides
<1>8. Grown(side, p, q, new)
  <2>1. \A a, b \in Peers : new[a][b] = IF a = p /\ b = q THEN {p}
                 ELSE IF a = q /\ b = p THEN {x \in Peers : status[x] # "off"}
                 ELSE side[a][b] \cup {x \in {p} : q \in side[a][b]}
    BY <1>7
  <2>2. new[p][q] = {p} /\ new[q][p] = {x \in Peers : status[x] # "off"}
    BY <1>3, <2>1
  <2>3. ASSUME NEW a \in Peers, NEW b \in Peers, ~(a = p /\ b = q), ~(a = q /\ b = p)
        PROVE  \A x : x \in new[a][b] <=> x \in side[a][b] \/ (x = p /\ q \in side[a][b])
    <3>1. new[a][b] = side[a][b] \cup {x \in {p} : q \in side[a][b]}
      BY <2>1, <2>3
    <3> QED BY <3>1
  <2> QED BY <2>2, <2>3 DEF Grown
<1> USE DEF Grown
<1>9. \A a \in Peers : /\ p \notin Neighbours(a)
                       /\ \A b \in Peers : p \notin side[a][b]
                       /\ \A x : x \notin side[a][p] /\ x \notin side[p][a]
  BY <1>1, <1>2, <1>3 DEF NotYet, Tree
<1>10. ASSUME NEW a \in Peers, NEW b \in Peers
       PROVE  /\ b \notin new[a][b] /\ \A x \in new[a][b] : status'[x] # "off"
              /\ status'[b] = "off" => new[a][b] = {} /\ new[b][a] = {}
  <2>1. \A x \in Peers : status'[x] = "off" <=> status[x] = "off" /\ x # p
    BY <1>1, <1>3 DEF Types
  <2>2. CASE (a = p /\ b = q) \/ (a = q /\ b = p)
    BY <1>3, <1>8, <2>1, <2>2
  <2>3. CASE ~(a = p /\ b = q) /\ ~(a = q /\ b = p)
    <3>1. /\ b \notin side[a][b] /\ \A x \in side[a][b] : x \in Peers /\ status[x] # "off"
          /\ status[b] = "off" => side[a][b] = {} /\ side[b][a] = {}
          /\ b = p => side[a][b] = {} /\ side[b][a] = {}
      BY <1>2, <1>3 DEF Tree, Sides
    <3>2. /\ \A x \in new[a][b] : x \in side[a][b] \/ (x = p /\ q \in side[a][b])
          /\ \A x \in new[b][a] : x \in side[b][a] \/ (x = p /\ q \in side[b][a])
      BY <1>8, <2>3
    <3> QED BY <1>3, <2>1, <3>1, <3>2
  <2> QED BY <2>2, <2>3
<1>11. ASSUME NEW a \in Peers, NEW b \in peers'[a] \cup backlog'[a]
       PROVE  /\ a \in new[a][b]
              /\ \A r \in (peers'[a] \cup backlog'[a]) \ {b} : new[r][a] \subseteq new[a][b]
  <2>1. \A c \in Peers : peers[c] \cup backlog[c] \subseteq Peers \ {p}
    BY <1>1, <1>9 DEF Types, Neighbours
  <2>2. CASE a = p
    BY <1>5, <1>8, <2>2
  <2>3. CASE a = q /\ b = p
    <3>1. ASSUME NEW r \in peers[q] \cup backlog[q]
          PROVE  new[r][q] \subseteq new[q][p]
      <4>1. r \in Peers \ {p} /\ q \notin side[r][q]
        BY <1>2, <2>1 DEF Tree
      <4>2. \A x \in new[r][q] : x \in side[r][q]
        BY <1>3, <1>8, <4>1
      <4>3. \A x \in side[r][q] : x \in Peers /\ status[x] # "off"
        BY <1>2, <4>1 DEF Tree, Sides
      <4> QED BY <1>8, <4>2, <4>3
    <3> QED BY <1>3, <1>5, <1>8, <2>3, <3>1
  <2>4. CASE a = q /\ b # p
    <3>1. b \in peers[q] \cup backlog[q] /\ b \in Peers /\ q \in side[q][b]
      BY <1>2, <1>3, <1>5, <2>1, <2>4 DEF Tree, Neighbours
    <3>2. \A x : x \in new[q][b] <=> x \in side[q][b] \/ x = p
      BY <1>3, <1>8, <2>4, <3>1
    <3>3. ASSUME NEW r \in (peers[q] \cup backlog[q]) \ {b} PROVE new[r][q] \subseteq new[q][b]
      <4>1. r \in Peers \ {p} /\ side[r][q] \subseteq side[q][b]
        BY <1>2, <2>1, <3>1 DEF Tree, Neighbours
      <4>2. new[r][q] \subseteq side[r][q] \cup {p}
        BY <1>3, <1>8, <4>1
      <4> QED BY <3>2, <4>1, <4>2
    <3> QED BY <1>3, <1>5, <1>8, <2>4, <3>1, <3>2, <3>3
  <2>5. CASE a # p /\ a # q
    <3>1. b \in Peers \ {p} /\ b \in peers[a] \cup backlog[a] /\ a \in side[a][b]
      BY <1>2, <1>5, <2>1, <2>5 DEF Tree, Neighbours
    <3>2. ASSUME NEW r \in (peers[a] \cup backlog[a]) \ {b} PROVE new[r][a] \subseteq new[a][b]
      <4>1. r \in Peers \ {p} /\ side[r][a] \subseteq side[a][b]
        BY <1>2, <2>1, <3>1 DEF Tree, Neighbours
      <4> QED BY <1>8, <2>5, <3>1, <4>1
    <3>3. a \in new[a][b]
      BY <1>8, <2>5, <3>1
    <3> QED BY <1>5, <2>5, <3>2, <3>3
  <2> QED BY <2>2, <2>3, <2>4, <2>5
<1>12. Tree(new)'
  <2>1. Tree(new)' <=>
          \A a, b \in Peers :
            /\ b \notin new[a][b] /\ \A x \in new[a][b] : status'[x] # "off"
            /\ status'[b] = "off" => new[a][b] = {} /\ new[b][a] = {}
            /\ b \in peers'[a] \cup backlog'[a] =>
                 /\ a \in new[a][b]
                 /\ \A r \in (peers'[a] \cup backlog'[a]) \ {b} : new[r][a] \subseteq new[a][b]
    BY DEF Tree, Neighbours
  <2> QED BY <1>10, <1>11, <2>1
<1>13. Directed(new)'
  <2>1. ASSUME NEW a \in Peers, NEW b \in Peers, NEW x \in side[a][b] PROVE x \in new[a][b]
    <3>1. ~(a = p /\ b = q) /\ ~(a = q /\ b = p)
      BY <1>9
    <3> QED BY <1>8, <3>1
  <2>2. \A a, b \in Peers : /\ \A i \in 1..Len(Mail[a][b]) : Mail[a][b][i][1] \in side[a][b]
                            /\ \A r \in Duty[a][b].todo : Duty[a][b].msg[1] \in side[a][r]
    BY <1>2 DEF Directed
  <2>3. \A a, b \in Peers : Duty[a][b].todo \subseteq Peers
    BY <1>1 DEF Types, Tasks
  <2> QED BY <1>3, <2>1, <2>2, <2>3 DEF Directed
<1> QED BY <1>4, <1>6, <1>8, <1>12, <1>13 DEF Net
(* What Types says of each stream and each history.                        *)
LEMMA Streams ==
  ASSUME Types, NEW a \in Peers, NEW b \in Peers
  PROVE  /\ Mail[a][b] \in Seq(Messages) /\ Len(Mail[a][b]) \in Nat
         /\ \A i \in 1..Len(Mail[a][b]) : Mail[a][b][i] \in Messages
         /\ shown[a][b] \in Seq(1..MaxSays) /\ Len(shown[a][b]) \in Nat
         /\ \A i \in 1..Len(shown[a][b]) : shown[a][b][i] \in 1..MaxSays
         /\ Duty[a][b].todo \subseteq Peers
<1>1. Mail[a][b] \in Seq(Messages) /\ shown[a][b] \in Seq(1..MaxSays) /\ Duty[a][b] \in Tasks
  BY DEF Types
<1> QED BY <1>1 DEF Tasks

(* Each invariant holds after a step in which what is new satisfies it.    *)
Old(a, b, i) == \E j \in 1..Len(Mail[a][b]) : Mail'[a][b][i] = Mail[a][b][j]
IsTyped(m) == m \in Messages /\ m[2] <= Len(shown'[m[1]][m[1]])

LEMMA TypedStep ==
  ASSUME Types, Types', Typed, \A a \in Peers : Len(shown[a][a]) <= Len(shown'[a][a]),
         \A a, b \in Peers : \A i \in 1..Len(Mail'[a][b]) :
           \/ Old(a, b, i)
           \/ IsTyped(Mail'[a][b][i]),
         \A a, b \in Peers : Duty'[a][b].todo # {} =>
           \/ Duty[a][b].todo # {} /\ Duty'[a][b].msg = Duty[a][b].msg
           \/ IsTyped(Duty'[a][b].msg),
         \A a, b \in Peers : \A i \in 1..Len(shown'[a][b]) :
           \/ i \in 1..Len(shown[a][b]) /\ shown'[a][b][i] = shown[a][b][i]
           \/ shown'[a][b][i] <= Len(shown'[b][b])
  PROVE  Typed'
<1>1. \A a \in Peers : Len(shown[a][a]) \in Nat /\ Len(shown'[a][a]) \in Nat
  <2> SUFFICES ASSUME NEW a \in Peers PROVE Len(shown[a][a]) \in Nat /\ Len(shown'[a][a]) \in Nat
    OBVIOUS
  <2>1. shown[a][a] \in Seq(1..MaxSays) /\ shown'[a][a] \in Seq(1..MaxSays)
    BY DEF Types
  <2> QED BY <2>1
<1>2. ASSUME NEW m \in Messages, WasTyped(m) PROVE IsTyped(m)
  <2>1. m[1] \in Peers /\ m[2] \in Nat
    BY DEF Messages
  <2> QED BY <1>1, <1>2, <2>1 DEF WasTyped, IsTyped
<1>3. ASSUME NEW a \in Peers, NEW b \in Peers, NEW i \in 1..Len(Mail'[a][b])
      PROVE  IsTyped(Mail'[a][b][i])
  <2>1. CASE Old(a, b, i)
    <3>1. PICK j \in 1..Len(Mail[a][b]) : Mail'[a][b][i] = Mail[a][b][j]
      BY <2>1 DEF Old
    <3>2. Mail[a][b][j] \in Messages /\ WasTyped(Mail[a][b][j])
      BY Streams DEF Typed
    <3> QED BY <1>2, <3>1, <3>2
  <2> QED BY <2>1
<1>4. ASSUME NEW a \in Peers, NEW b \in Peers, Duty'[a][b].todo # {}
      PROVE  IsTyped(Duty'[a][b].msg)
  BY <1>2, <1>4 DEF Typed
<1>5. ASSUME NEW a \in Peers, NEW b \in Peers, NEW i \in 1..Len(shown'[a][b])
      PROVE  shown'[a][b][i] <= Len(shown'[b][b])
  <2>1. CASE i \in 1..Len(shown[a][b]) /\ shown'[a][b][i] = shown[a][b][i]
    <3>1. shown[a][b][i] \in 1..MaxSays /\ shown[a][b][i] <= Len(shown[b][b])
      BY <2>1, Streams DEF Typed
    <3>2. shown[a][b][i] \in Nat
      BY <3>1
    <3> QED BY <1>1, <2>1, <3>1, <3>2
  <2> QED BY <2>1
<1> QED BY <1>3, <1>4, <1>5 DEF Typed, WasTyped, IsTyped

LEMMA NotYetStep ==
  ASSUME NotYet, \A x \in Peers : status'[x] = "off" => status[x] = "off",
         \A x \in Peers : peers'[x] \subseteq peers[x] /\ backlog'[x] \subseteq backlog[x],
         \A a, b \in Peers : Duty'[a][b].todo \subseteq Duty[a][b].todo \cup peers[a],
         \A a, b \in Peers : Mail[a][b] = <<>> /\ "off" \in {status[a], status[b]} =>
                               Mail'[a][b] = <<>>
  PROVE  NotYet'
<1> SUFFICES ASSUME NEW x \in Peers, status'[x] = "off", NEW a \in Peers
             PROVE  /\ peers'[x] \cup backlog'[x] = {} /\ x \notin peers'[a] \cup backlog'[a]
                    /\ Mail'[x][a] = <<>> /\ Mail'[a][x] = <<>> /\ Duty'[x][a].todo = {}
                    /\ \A r \in Peers : x \notin Duty'[a][r].todo
  BY DEF NotYet, Neighbours
<1>1. /\ status[x] = "off" /\ peers[x] = {} /\ backlog[x] = {}
      /\ x \notin peers[a] /\ x \notin backlog[a]
      /\ Mail[x][a] = <<>> /\ Mail[a][x] = <<>> /\ Duty[x][a].todo = {}
      /\ \A r \in Peers : x \notin Duty[a][r].todo
  BY DEF NotYet, Neighbours
<1>2. peers'[x] \cup backlog'[x] = {} /\ x \notin peers'[a] \cup backlog'[a]
  BY <1>1
<1>3. Mail'[x][a] = <<>> /\ Mail'[a][x] = <<>>
  BY <1>1
<1>4. Duty'[x][a].todo = {} /\ \A r \in Peers : x \notin Duty'[a][r].todo
  BY <1>1
<1> QED BY <1>2, <1>3, <1>4

LEMMA DirectedStep ==
  ASSUME NEW side, Directed(side),
         \A a, b \in Peers : \A i \in 1..Len(Mail'[a][b]) :
           \/ Old(a, b, i)
           \/ Mail'[a][b][i][1] \in side[a][b],
         \A a, b \in Peers : \A r \in Duty'[a][b].todo :
           \/ r \in Duty[a][b].todo /\ Duty'[a][b].msg = Duty[a][b].msg
           \/ Duty'[a][b].msg[1] \in side[a][r]
  PROVE  Directed(side)'
<1>1. ASSUME NEW a \in Peers, NEW b \in Peers, NEW i \in 1..Len(Mail'[a][b])
      PROVE  Mail'[a][b][i][1] \in side[a][b]
  BY DEF Directed, Old
<1>2. ASSUME NEW a \in Peers, NEW b \in Peers, NEW r \in Duty'[a][b].todo
      PROVE  Duty'[a][b].msg[1] \in side[a][r]
  BY DEF Directed
<1> QED BY <1>1, <1>2 DEF Directed

(* No stream has a message that it had not, and no Duty a place to go.     *)
Shrinks ==
  /\ Mail' \in [Peers -> [Peers -> Seq(Messages)]]
  /\ \A a, b \in Peers :
       /\ Mail[a][b] = <<>> => Mail'[a][b] = <<>>
       /\ \A i \in 1..Len(Mail'[a][b]) : Old(a, b, i)

LessToDo ==
  /\ Duty' \in [Peers -> [Peers -> Tasks]]
  /\ \A a, b \in Peers : /\ Duty'[a][b].todo \subseteq Duty[a][b].todo
                         /\ Duty'[a][b].todo # {} => Duty'[a][b].msg = Duty[a][b].msg

LEMMA ShrinksIf ==
  ASSUME Types, Mail' \in [Peers -> [Peers -> Seq(Messages)]],
         \A a, b \in Peers : \/ Mail'[a][b] = Mail[a][b] \/ Mail'[a][b] = <<>>
                             \/ Mail[a][b] # <<>> /\ Mail'[a][b] = Tail(Mail[a][b])
  PROVE  Shrinks
<1> SUFFICES ASSUME NEW a \in Peers, NEW b \in Peers
             PROVE  /\ Mail[a][b] = <<>> => Mail'[a][b] = <<>>
                    /\ \A i \in 1..Len(Mail'[a][b]) : Old(a, b, i)
  BY DEF Shrinks
<1>1. Mail[a][b] \in Seq(Messages) /\ Len(Mail[a][b]) \in Nat
  BY Streams DEF Types
<1>2. CASE Mail'[a][b] = Mail[a][b]
  BY <1>1, <1>2 DEF Old
<1>3. CASE Mail'[a][b] = <<>>
  <2>1. Len(Mail'[a][b]) = 0 /\ 1..Len(Mail'[a][b]) = {}
    BY <1>3
  <2> QED BY <1>3, <2>1 DEF Old
<1>4. CASE Mail[a][b] # <<>> /\ Mail'[a][b] = Tail(Mail[a][b])
  <2>1. Len(Mail'[a][b]) = Len(Mail[a][b]) - 1 /\ Len(Mail[a][b]) \in Nat
    BY <1>1, <1>4
  <2>2. ASSUME NEW i \in 1..Len(Mail'[a][b])
        PROVE  i + 1 \in 1..Len(Mail[a][b]) /\ Mail'[a][b][i] = Mail[a][b][i + 1]
    BY <1>1, <1>4, <2>1
  <2> QED BY <1>1, <1>4, <2>1, <2>2 DEF Old
<1> QED BY <1>2, <1>3, <1>4

(* A process that ends, or forgets another one.                            *)
LEMMA LessStep ==
  ASSUME NEW side \in Sides, Net(side), Shrinks, LessToDo, shown' = shown,
         status' \in [Peers -> {"off", "up", "left", "killed"}],
         \A x \in Peers : status'[x] = "off" <=> status[x] = "off",
         peers' \in [Peers -> SUBSET Peers], \A x \in Peers : peers'[x] \subseteq peers[x],
         backlog' \in [Peers -> SUBSET Peers], \A x \in Peers : backlog'[x] \subseteq backlog[x]
  PROVE  Net(side)'
<1>1. Types /\ Typed /\ NotYet
  BY DEF Net
<1>2. Tree(side) /\ Directed(side)
  BY DEF Net
<1>3. Types'
  BY <1>1 DEF Types, Shrinks, LessToDo
<1>4. \A a \in Peers : Len(shown[a][a]) <= Len(shown'[a][a])
  BY <1>1, Streams
<1>5. Typed'
  <2>1. \A a, b \in Peers : \A i \in 1..Len(Mail'[a][b]) :
          \/ Old(a, b, i)
          \/ IsTyped(Mail'[a][b][i])
    BY DEF Shrinks
  <2>2. \A a, b \in Peers : Duty'[a][b].todo # {} =>
          \/ Duty[a][b].todo # {} /\ Duty'[a][b].msg = Duty[a][b].msg
          \/ IsTyped(Duty'[a][b].msg)
    BY DEF LessToDo
  <2>3. \A a, b \in Peers : \A i \in 1..Len(shown'[a][b]) :
          \/ i \in 1..Len(shown[a][b]) /\ shown'[a][b][i] = shown[a][b][i]
          \/ shown'[a][b][i] <= Len(shown'[b][b])
    OBVIOUS
  <2> QED BY <1>1, <1>3, <1>4, <2>1, <2>2, <2>3, TypedStep
<1>6. NotYet'
  BY <1>1, NotYetStep DEF Shrinks, LessToDo
<1>7. Tree(side)'
  BY <1>2 DEF Tree, Neighbours, Sides
<1>8. Directed(side)'
  <2>1. \A a, b \in Peers : \A i \in 1..Len(Mail'[a][b]) :
          \/ Old(a, b, i)
          \/ Mail'[a][b][i][1] \in side[a][b]
    BY DEF Shrinks
  <2>2. \A a, b \in Peers : \A r \in Duty'[a][b].todo :
          \/ r \in Duty[a][b].todo /\ Duty'[a][b].msg = Duty[a][b].msg
          \/ Duty'[a][b].msg[1] \in side[a][r]
    BY DEF LessToDo
  <2> QED BY <1>2, <2>1, <2>2, DirectedStep
<1> QED BY <1>3, <1>5, <1>6, <1>7, <1>8 DEF Net

(* What the end of p leaves of a stream is its beginning, if anything.     *)
LEMMA EndLeaves ==
  ASSUME NEW side \in Sides, Net(side), NEW p \in Peers, NEW how, W!End(p, how),
         NEW a \in Peers, NEW b \in Peers
  PROVE  /\ a # p /\ b # p => Mail'[a][b] = Mail[a][b]
         /\ b = p => Mail'[a][b] = <<>>
         /\ \E n \in 0..Len(Mail[a][b]) : Mail'[a][b] = SubSeq(Mail[a][b], 1, n)
<1>1. Mail[a][b] \in Seq(Messages) /\ Len(Mail[a][b]) \in Nat
  BY Streams DEF Net
<1>2. PICK kept : /\ \A r \in Peers : kept[r] \in W!Prefixes(Mail[p][r])
                  /\ Mail' = [q \in Peers |-> [r \in Peers |->
                       IF r = p THEN <<>> ELSE IF q = p THEN kept[r] ELSE Mail[q][r]]]
  BY DEF W!End
<1>3. /\ b = p => Mail'[a][b] = <<>>
      /\ a = p /\ b # p => Mail'[a][b] = kept[b] /\ kept[b] \in W!Prefixes(Mail[a][b])
      /\ a # p /\ b # p => Mail'[a][b] = Mail[a][b]
  BY <1>2
<1>4. SubSeq(Mail[a][b], 1, 0) = <<>> /\ SubSeq(Mail[a][b], 1, Len(Mail[a][b])) = Mail[a][b]
  BY <1>1
<1>5. kept[b] \in W!Prefixes(Mail[a][b]) =>
        \E n \in 0..Len(Mail[a][b]) : kept[b] = SubSeq(Mail[a][b], 1, n)
  BY DEF W!Prefixes
<1> HIDE DEF W!Prefixes
<1>6. CASE b = p
  <2>1. 0 \in 0..Len(Mail[a][b])
    BY <1>1
  <2>2. Mail'[a][b] = SubSeq(Mail[a][b], 1, 0)
    BY <1>3, <1>4, <1>6, Zenon
  <2> QED BY <1>3, <1>6, <2>1, <2>2
<1>7. CASE b # p /\ a # p
  <2>1. Len(Mail[a][b]) \in 0..Len(Mail[a][b])
    BY <1>1
  <2> QED BY <1>3, <1>4, <1>7, <2>1
<1>8. CASE b # p /\ a = p
  BY <1>3, <1>5, <1>8
<1> QED BY <1>6, <1>7, <1>8

LEMMA EndStep ==
  ASSUME NEW side \in Sides, Net(side), NEW p \in Peers, NEW how \in {"left", "killed"},
         W!End(p, how)
  PROVE  Net(side)'
<1>1. Types /\ Typed
  BY DEF Net
<1>2. ASSUME NEW a \in Peers, NEW b \in Peers
      PROVE  /\ Mail'[a][b] \in Seq(Messages) /\ (Mail[a][b] = <<>> => Mail'[a][b] = <<>>)
             /\ \A i \in 1..Len(Mail'[a][b]) : Old(a, b, i)
  <2>1. Mail[a][b] \in Seq(Messages) /\ Len(Mail[a][b]) \in Nat
    BY <1>1, Streams
  <2>2. PICK n \in 0..Len(Mail[a][b]) : Mail'[a][b] = SubSeq(Mail[a][b], 1, n)
    BY EndLeaves
  <2>3. /\ Mail'[a][b] \in Seq(Messages) /\ Len(Mail'[a][b]) = n
        /\ \A i \in 1..n : i \in 1..Len(Mail[a][b]) /\ Mail'[a][b][i] = Mail[a][b][i]
    BY <2>1, <2>2
  <2>4. Mail[a][b] = <<>> => n = 0
    BY <2>1
  <2> QED BY <2>3, <2>4 DEF Old
<1>3. PICK f : Mail' = [q \in Peers |-> [r \in Peers |-> f[q][r]]]
  <2>1. PICK kept : Mail' = [q \in Peers |-> [r \in Peers |->
                       IF r = p THEN <<>> ELSE IF q = p THEN kept[r] ELSE Mail[q][r]]]
    BY DEF W!End
  <2>2. Mail' = [q \in Peers |-> [r \in Peers |-> Mail'[q][r]]]
    BY <2>1
  <2> QED BY <2>2
<1>4. Mail' \in [Peers -> [Peers -> Seq(Messages)]]
  BY <1>2, <1>3
<1>5. Shrinks
  BY <1>2, <1>4 DEF Shrinks
<1>6. LessToDo
  BY <1>1 DEF W!End, W!Idle, LessToDo, Types, Tasks
<1> QED BY <1>1, <1>5, <1>6, LessStep DEF W!End, W!Up, Types

LEMMA DisconnectStep ==
  ASSUME NEW side \in Sides, Net(side), NEW p \in Peers, NEW q \in Peers, W!Disconnect(p, q)
  PROVE  Net(side)'
<1>1. Types /\ Typed
  BY DEF Net
<1>2. Shrinks
  BY <1>1, ShrinksIf DEF W!Disconnect, Types
<1>3. LessToDo
  <2>1. Duty' = [Duty EXCEPT ![p] = [r \in Peers |-> [Duty[p][r] EXCEPT !.todo = @ \ {q}]]]
    BY DEF W!Disconnect
  <2>2. \A r \in Peers : Duty[p][r] \in Tasks
    BY <1>1 DEF Types
  <2>3. \A r \in Peers : /\ [Duty[p][r] EXCEPT !.todo = @ \ {q}] \in Tasks
                         /\ [Duty[p][r] EXCEPT !.todo = @ \ {q}].todo = Duty[p][r].todo \ {q}
                         /\ [Duty[p][r] EXCEPT !.todo = @ \ {q}].msg = Duty[p][r].msg
    BY <2>2 DEF Tasks
  <2> QED BY <1>1, <2>1, <2>3 DEF LessToDo, Types
<1> QED BY <1>1, <1>2, <1>3, LessStep DEF W!Disconnect, Types

LEMMA ForwardStep ==
  ASSUME NEW side \in Sides, Net(side), NEW p \in Peers, NEW q \in Peers,
         NEW r \in Peers, W!Forward(p, q, r)
  PROVE  Net(side)'
<1>1. Types /\ Typed /\ NotYet
  BY DEF Net
<1>2. Tree(side) /\ Directed(side)
  BY DEF Net
<1> DEFINE m == Duty[p][q].msg
<1>3. /\ status[p] = "up" /\ status[r] # "off" /\ r \in Duty[p][q].todo
      /\ m \in Messages /\ WasTyped(m) /\ m[1] \in side[p][r]
  BY <1>1, <1>2 DEF W!Forward, W!Up, Typed, NotYet, Directed
<1>4. LessToDo
  <2>1. Duty' = [Duty EXCEPT ![p] = [Duty[p] EXCEPT ![q] = [Duty[p][q] EXCEPT !.todo = @ \ {r}]]]
    BY DEF W!Forward
  <2> DEFINE less == [Duty[p][q] EXCEPT !.todo = @ \ {r}]
  <2>2. less \in Tasks /\ less.todo = Duty[p][q].todo \ {r} /\ less.msg = m
    <3>1. Duty[p][q] \in Tasks
      BY <1>1 DEF Types
    <3> QED BY <3>1 DEF Tasks
  <2> HIDE DEF less
  <2>3. Duty' = [Duty EXCEPT ![p] = [Duty[p] EXCEPT ![q] = less]]
    BY <2>1 DEF less
  <2>4. /\ Duty' \in [Peers -> [Peers -> Tasks]] /\ Duty'[p][q] = less
        /\ \A a, b \in Peers : a # p \/ b # q => Duty'[a][b] = Duty[a][b]
    BY <1>1, <2>2, <2>3 DEF Types
  <2> QED BY <2>2, <2>4 DEF LessToDo
<1>5. UNCHANGED <<status, peers, backlog, shown>>
  BY DEF W!Forward
<1>6. CASE Mail' = Mail
  <2>1. Shrinks
    BY <1>1, <1>6, ShrinksIf DEF Types
  <2> QED BY <1>1, <1>4, <1>5, <2>1, LessStep DEF Types
<1>7. CASE Mail' = [Mail EXCEPT ![p][r] = Append(@, m)]
  <2> HIDE DEF m
  <2>1. /\ Mail'[p][r] \in Seq(Messages)
        /\ \A i \in 1..Len(Mail'[p][r]) :
             \/ i \in 1..Len(Mail[p][r]) /\ Mail'[p][r][i] = Mail[p][r][i]
             \/ Mail'[p][r][i] = m
    <3>1. Mail[p][r] \in Seq(Messages) /\ Len(Mail[p][r]) \in Nat
      BY <1>1, Streams
    <3>2. Mail'[p][r] = Append(Mail[p][r], m)
      BY <1>1, <1>7 DEF Types
    <3> QED BY <1>3, <3>1, <3>2
  <2>2. \A a, b \in Peers : a # p \/ b # r => Mail'[a][b] = Mail[a][b]
    BY <1>1, <1>7 DEF Types
  <2>3. Mail' \in [Peers -> [Peers -> Seq(Messages)]]
    <3>1. Append(Mail[p][r], m) \in Seq(Messages)
      BY <1>1, <1>3, Streams
    <3> QED BY <1>1, <1>7, <3>1 DEF Types
  <2>4. ASSUME NEW a \in Peers, NEW b \in Peers, NEW i \in 1..Len(Mail'[a][b])
        PROVE  \/ Old(a, b, i)
               \/ a = p /\ b = r /\ Mail'[a][b][i] = m
    BY <2>1, <2>2 DEF Old
  <2>5. Types'
    BY <1>1, <1>4, <1>5, <2>3 DEF Types, LessToDo
  <2>6. Typed'
    <3>1. IsTyped(m) /\ \A a \in Peers : Len(shown[a][a]) <= Len(shown'[a][a])
      BY <1>1, <1>3, <1>5, Streams DEF WasTyped, IsTyped
    <3>2. \A a, b \in Peers : \A i \in 1..Len(Mail'[a][b]) :
            \/ Old(a, b, i)
            \/ IsTyped(Mail'[a][b][i])
      BY <2>4, <3>1
    <3>3. \A a, b \in Peers : Duty'[a][b].todo # {} =>
            \/ Duty[a][b].todo # {} /\ Duty'[a][b].msg = Duty[a][b].msg
            \/ IsTyped(Duty'[a][b].msg)
      BY <1>4 DEF LessToDo
    <3>4. \A a, b \in Peers : \A i \in 1..Len(shown'[a][b]) :
            \/ i \in 1..Len(shown[a][b]) /\ shown'[a][b][i] = shown[a][b][i]
            \/ shown'[a][b][i] <= Len(shown'[b][b])
      BY <1>5
    <3> QED BY <1>1, <2>5, <3>1, <3>2, <3>3, <3>4, TypedStep
  <2>7. NotYet'
    BY <1>1, <1>3, <1>4, <1>5, <2>2, NotYetStep DEF LessToDo
  <2>8. Tree(side)'
    BY <1>2, <1>5 DEF Tree, Neighbours
  <2>9. Directed(side)'
    <3>1. \A a, b \in Peers : \A i \in 1..Len(Mail'[a][b]) :
            \/ Old(a, b, i)
            \/ Mail'[a][b][i][1] \in side[a][b]
      BY <1>3, <2>4
    <3>2. \A a, b \in Peers : \A x \in Duty'[a][b].todo :
            \/ x \in Duty[a][b].todo /\ Duty'[a][b].msg = Duty[a][b].msg
            \/ Duty'[a][b].msg[1] \in side[a][x]
      BY <1>4 DEF LessToDo
    <3> QED BY <1>2, <3>1, <3>2, DirectedStep
  <2> QED BY <2>5, <2>6, <2>7, <2>8, <2>9 DEF Net
<1> QED BY <1>6, <1>7 DEF W!Forward

(* A message is shown and passed on: a new one, or one that came from a    *)
(* neighbour, whose side of the tree is part of this process' side of all  *)
(* its other connections.                                                  *)
LEMMA ShowStep ==
  ASSUME NEW side \in Sides, Net(side), Shrinks,
         UNCHANGED <<status, peers, backlog>>,
         NEW p \in Peers, NEW q \in Peers, NEW m \in Messages,
         status[p] = "up", W!ShowAndForward(p, q, m), IsTyped(m),
         \A r \in peers[p] \ {q} : m[1] \in side[p][r]
  PROVE  Net(side)'
<1>1. Types /\ Typed /\ NotYet /\ Tree(side) /\ Directed(side)
  BY DEF Net
<1>2. m[1] \in Peers /\ m[2] \in 1..MaxSays
  BY DEF Messages
<1>3. /\ shown'[p][m[1]] = Append(shown[p][m[1]], m[2])
      /\ shown[p][m[1]] \in Seq(1..MaxSays)
      /\ \A a, b \in Peers : a # p \/ b # m[1] => shown'[a][b] = shown[a][b]
      /\ shown' = [shown EXCEPT ![p] = [shown[p] EXCEPT ![m[1]] = shown'[p][m[1]]]]
  BY <1>1, <1>2 DEF W!ShowAndForward, Types
<1>4. /\ shown'[p][m[1]] \in Seq(1..MaxSays)
      /\ Len(shown[p][m[1]]) <= Len(shown'[p][m[1]])
      /\ \A i \in 1..Len(shown'[p][m[1]]) :
           \/ i \in 1..Len(shown[p][m[1]]) /\ shown'[p][m[1]][i] = shown[p][m[1]][i]
           \/ shown'[p][m[1]][i] = m[2]
  BY <1>2, <1>3
<1>5. shown' \in [Peers -> [Peers -> Seq(1..MaxSays)]]
  <2>1. Append(shown[p][m[1]], m[2]) \in Seq(1..MaxSays)
    BY <1>2, <1>3
  <2>2. shown' = [shown EXCEPT ![p] = [shown[p] EXCEPT ![m[1]] = Append(shown[p][m[1]], m[2])]]
    BY <1>3
  <2>3. [shown[p] EXCEPT ![m[1]] = Append(shown[p][m[1]], m[2])] \in [Peers -> Seq(1..MaxSays)]
    BY <1>1, <1>2, <2>1 DEF Types
  <2> QED BY <1>1, <2>2, <2>3 DEF Types
<1>6. ASSUME NEW a \in Peers PROVE Len(shown[a][a]) <= Len(shown'[a][a])
  <2>1. CASE a = p /\ a = m[1]
    BY <1>4, <2>1
  <2>2. CASE a # p \/ a # m[1]
    <3>1. shown'[a][a] = shown[a][a] /\ Len(shown[a][a]) \in Nat
      BY <1>1, <1>3, <2>2, Streams
    <3> QED BY <3>1
  <2> QED BY <2>1, <2>2
<1>7. /\ Duty'[p][q].msg = m /\ Duty'[p][q].todo = peers[p] \ {q}
      /\ \A a, b \in Peers : a # p \/ b # q => Duty'[a][b] = Duty[a][b]
  BY <1>1 DEF W!ShowAndForward, Types
<1>8. Duty' \in [Peers -> [Peers -> Tasks]]
  <2>1. [msg |-> m, todo |-> peers[p] \ {q}] \in Tasks
    BY <1>1 DEF Tasks, Types
  <2> QED BY <1>1, <2>1 DEF W!ShowAndForward, Types
<1>9. Types'
  BY <1>1, <1>5, <1>8 DEF Types, Shrinks
<1>10. Typed'
  <2>1. \A a, b \in Peers : Duty'[a][b].todo # {} =>
          \/ Duty[a][b].todo # {} /\ Duty'[a][b].msg = Duty[a][b].msg
          \/ IsTyped(Duty'[a][b].msg)
    BY <1>7
  <2>2. ASSUME NEW a \in Peers, NEW b \in Peers, NEW i \in 1..Len(shown'[a][b])
        PROVE  \/ i \in 1..Len(shown[a][b]) /\ shown'[a][b][i] = shown[a][b][i]
               \/ shown'[a][b][i] <= Len(shown'[b][b])
    BY <1>3, <1>4 DEF IsTyped
  <2>3. \A a, b \in Peers : \A i \in 1..Len(Mail'[a][b]) :
          \/ Old(a, b, i)
          \/ IsTyped(Mail'[a][b][i])
    BY DEF Shrinks
  <2> QED BY <1>1, <1>6, <1>9, <2>1, <2>2, <2>3, TypedStep
<1>11. NotYet'
  <2>1. \A a, b \in Peers : Duty'[a][b].todo \subseteq Duty[a][b].todo \cup peers[a]
    BY <1>7
  <2> QED BY <1>1, <2>1, NotYetStep DEF Shrinks
<1>12. Tree(side)'
  BY <1>1 DEF Tree, Neighbours
<1>13. Directed(side)'
  <2>1. ASSUME NEW a \in Peers, NEW b \in Peers, NEW r \in Duty'[a][b].todo
        PROVE  \/ r \in Duty[a][b].todo /\ Duty'[a][b].msg = Duty[a][b].msg
               \/ Duty'[a][b].msg[1] \in side[a][r]
    BY <1>7
  <2>2. \A a, b \in Peers : \A i \in 1..Len(Mail'[a][b]) :
          \/ Old(a, b, i)
          \/ Mail'[a][b][i][1] \in side[a][b]
    BY DEF Shrinks
  <2> QED BY <1>1, <2>1, <2>2, DirectedStep
<1> QED BY <1>9, <1>10, <1>11, <1>12, <1>13 DEF Net

LEMMA SayStep == ASSUME NEW side \in Sides, Net(side), NEW p \in Peers, W!Say(p) PROVE Net(side)'
<1>1. Types
  BY DEF Net
<1>2. Tree(side) /\ Directed(side)
  BY DEF Net
<1> DEFINE m == <<p, Len(shown[p][p]) + 1>>
<1>3. /\ status[p] = "up" /\ Len(shown[p][p]) < MaxSays /\ W!ShowAndForward(p, p, m)
      /\ UNCHANGED <<status, peers, backlog, Mail>>
  BY DEF W!Say, W!Up
<1>4. m \in Messages
  BY <1>1, <1>3 DEF Types, Messages
<1>5. IsTyped(m)
  <2>1. shown'[p][p] = Append(shown[p][p], m[2]) /\ shown[p][p] \in Seq(1..MaxSays)
    BY <1>1, <1>3 DEF W!ShowAndForward, Types
  <2> QED BY <1>1, <1>4, <2>1, Streams DEF IsTyped
<1>6. \A r \in peers[p] \ {p} : m[1] \in side[p][r]
  BY <1>1, <1>2 DEF Tree, Neighbours, Types
<1>7. Shrinks
  BY <1>1, <1>3, ShrinksIf DEF Types
<1> HIDE DEF m
<1> QED BY <1>2, <1>3, <1>4, <1>5, <1>6, <1>7, ShowStep

LEMMA ReceiveStep ==
  ASSUME NEW side \in Sides, Net(side), NEW p \in Peers, NEW q \in Peers, W!Receive(p, q)
  PROVE  Net(side)'
<1>1. Types /\ Typed
  BY DEF Net
<1>2. Tree(side) /\ Directed(side)
  BY DEF Net
<1> DEFINE m == Head(Mail[q][p])
<1>3. /\ status[p] = "up" /\ q \in peers[p] /\ Mail[q][p] # <<>> /\ W!ShowAndForward(p, q, m)
      /\ Mail' = [Mail EXCEPT ![q][p] = Tail(@)] /\ UNCHANGED <<status, peers, backlog>>
  BY DEF W!Receive, W!Up
<1>4. Shrinks
  BY <1>1, <1>3, ShrinksIf DEF Types
<1>5. 1 \in 1..Len(Mail[q][p]) /\ m = Mail[q][p][1] /\ m \in Messages
  BY <1>1, <1>3 DEF Types
<1> HIDE DEF m
<1>6. WasTyped(m) /\ m[1] \in side[q][p] /\ m[1] \in Peers /\ m[2] \in 1..MaxSays
  BY <1>1, <1>2, <1>5 DEF Typed, Directed, Messages
<1>7. IsTyped(m)
  <2>1. shown[m[1]][m[1]] \in Seq(1..MaxSays) /\ Len(shown[m[1]][m[1]]) \in Nat
    BY <1>1, <1>6, Streams
  <2>2. \/ shown'[m[1]][m[1]] = shown[m[1]][m[1]]
        \/ shown'[m[1]][m[1]] = Append(shown[m[1]][m[1]], m[2])
    BY <1>1, <1>3, <1>6 DEF W!ShowAndForward, Types
  <2>3. m[2] <= Len(shown[m[1]][m[1]]) /\ m[2] \in Nat
    BY <1>6 DEF WasTyped
  <2>4. CASE shown'[m[1]][m[1]] = shown[m[1]][m[1]]
    BY <1>5, <2>3, <2>4 DEF IsTyped
  <2>5. CASE shown'[m[1]][m[1]] = Append(shown[m[1]][m[1]], m[2])
    <3>1. Len(shown'[m[1]][m[1]]) = Len(shown[m[1]][m[1]]) + 1
      BY <1>6, <2>1, <2>5
    <3> QED BY <1>5, <2>1, <2>3, <3>1 DEF IsTyped
  <2> QED BY <2>2, <2>4, <2>5
<1>8. \A r \in peers[p] \ {q} : m[1] \in side[p][r]
  BY <1>1, <1>2, <1>3, <1>6 DEF Tree, Neighbours, Types
<1> QED BY <1>2, <1>3, <1>4, <1>5, <1>7, <1>8, ShowStep

LEMMA NetStutter == ASSUME NEW side \in Sides, Net(side), UNCHANGED W!vars PROVE Net(side)'
<1>1. Types /\ Typed /\ NotYet
  BY DEF Net
<1>2. Shrinks /\ LessToDo
  BY <1>1, ShrinksIf DEF W!vars, Types, LessToDo
<1> QED BY <1>1, <1>2, LessStep DEF W!vars, Types
-----------------------------------------------------------------------------
(* Streams that grow at the end and shrink at the front.                   *)
LEMMA FitsAppend ==
  ASSUME NEW l \in Seq(Messages), NEW m \in Messages, NEW i \in 1..(Len(l) + 1),
         NEW o, NEW k, NEW S
  PROVE  Fits(Append(l, m), i, o, k, S) <=> Fits(l, i, o, k, S)
<1>1. \A j \in 1..(i - 1) : Append(l, m)[j] = l[j]
  OBVIOUS
<1> QED BY <1>1 DEF Fits

LEMMA NextAppend ==
  ASSUME NEW l \in Seq(Messages), NEW m \in Messages, NEW o, NEW k, NEW S, m[1] # o,
         FitsNext(l, o, k, S)
  PROVE  FitsNext(Append(l, m), o, k, S)
<1>1. /\ Len(l) \in Nat /\ Len(Append(l, m)) = Len(l) + 1
      /\ Append(l, m)[Len(l) + 1] = m /\ \A j \in 1..Len(l) : Append(l, m)[j] = l[j]
  OBVIOUS
<1>2. /\ (Len(l) + 1) - 1 = Len(l) /\ (Len(Append(l, m)) + 1) - 1 = Len(l) + 1
      /\ 1..(Len(l) + 1) = 1..Len(l) \cup {Len(l) + 1}
  BY <1>1
<1>3. Fits(l, Len(l) + 1, o, k, S)
  BY DEF FitsNext
<1>4. Fits(Append(l, m), Len(Append(l, m)) + 1, o, k, S)
  BY <1>1, <1>2, <1>3 DEF Fits
<1> QED BY <1>4 DEF FitsNext

LEMMA NextAppended ==
  ASSUME NEW l \in Seq(Messages), NEW m \in Messages, NEW S, FitsNext(l, m[1], m[2], S)
  PROVE  FitsNext(Append(l, m), m[1], m[2] + 1, S)
<1>1. /\ Len(l) \in Nat /\ Len(Append(l, m)) = Len(l) + 1
      /\ Append(l, m)[Len(l) + 1] = m /\ \A j \in 1..Len(l) : Append(l, m)[j] = l[j]
      /\ \A j \in 1..Len(l) : l[j] \in Messages
  OBVIOUS
<1>2. /\ (Len(l) + 1) - 1 = Len(l) /\ (Len(Append(l, m)) + 1) - 1 = Len(l) + 1
      /\ 1..(Len(l) + 1) = 1..Len(l) \cup {Len(l) + 1}
  BY <1>1
<1>3. m[2] \in Nat /\ \A j \in 1..Len(l) : l[j][2] \in Nat
  BY <1>1 DEF Messages
<1>4. \A j \in 1..Len(l) : l[j][1] = m[1] => l[j][2] < m[2]
  BY <1>2 DEF FitsNext, Fits
<1>5. \A j \in 1..(Len(l) + 1) : Append(l, m)[j][1] = m[1] => Append(l, m)[j][2] < m[2] + 1
  BY <1>1, <1>2, <1>3, <1>4
<1>6. Fits(Append(l, m), Len(Append(l, m)) + 1, m[1], m[2] + 1, S)
  BY <1>1, <1>2, <1>5 DEF Fits
<1> QED BY <1>6 DEF FitsNext

LEMMA StreamAppend ==
  ASSUME NEW l \in Seq(Messages), NEW m \in Messages, NEW S, InStream(l, S),
         FitsNext(l, m[1], m[2], S)
  PROVE  InStream(Append(l, m), S)
<1> SUFFICES ASSUME NEW i \in 1..Len(Append(l, m))
             PROVE  Fits(Append(l, m), i, Append(l, m)[i][1], Append(l, m)[i][2], S)
  BY DEF InStream
<1>1. /\ i \in 1..(Len(l) + 1)
      /\ Append(l, m)[i] = IF i = Len(l) + 1 THEN m ELSE l[i]
      /\ i # Len(l) + 1 => i \in 1..Len(l)
  OBVIOUS
<1>2. Fits(l, i, Append(l, m)[i][1], Append(l, m)[i][2], S)
  BY <1>1 DEF InStream, FitsNext
<1> QED BY <1>1, <1>2, FitsAppend

LEMMA LastAppended ==
  ASSUME NEW s \in Seq(1..MaxSays), NEW k \in 1..MaxSays
  PROVE  Append(s, k) # <<>> /\ Append(s, k)[Len(Append(s, k))] = k
<1>1. PICK t : t = Append(s, k)
  OBVIOUS
<1>2. Len(s) \in Nat /\ Len(t) = Len(s) + 1 /\ t[Len(s) + 1] = k
  BY <1>1
<1>3. t # <<>>
  BY <1>2
<1> QED BY <1>1, <1>2, <1>3

(* The first message is read and shown: what comes later still fits.       *)
Shows(S, T, m) == T[m[1]] = Append(S[m[1]], m[2]) /\ \A o \in Peers : o # m[1] => T[o] = S[o]

LEMMA FitsTail ==
  ASSUME NEW l \in Seq(Messages), l # <<>>, NEW S, NEW T, InStream(l, S),
         \A o \in Peers : S[o] \in Seq(1..MaxSays), Shows(S, T, Head(l)),
         NEW i \in 2..(Len(l) + 1), NEW o \in Peers, NEW k \in Nat, Fits(l, i, o, k, S)
  PROVE  Fits(Tail(l), i - 1, o, k, T)
<1>1. /\ Len(l) \in Nat /\ 1 \in 1..Len(l) /\ Head(l) = l[1]
      /\ \A j \in 1..Len(l) : l[j] \in Messages
  OBVIOUS
<1>2. \A j \in 1..Len(l) : l[j][1] \in Peers /\ l[j][2] \in 1..MaxSays /\ l[j][2] \in Nat
  BY <1>1 DEF Messages
<1>3. \A j \in 1..((i - 1) - 1) : /\ Tail(l)[j] = l[j + 1] /\ j + 1 \in 1..(i - 1)
                                  /\ j + 1 \in 1..Len(l) /\ 1 \in 1..((j + 1) - 1)
  OBVIOUS
<1>4. \A j \in 1..(i - 1) : j # 1 => j - 1 \in 1..((i - 1) - 1) /\ (j - 1) + 1 = j
  OBVIOUS
<1>5. \A j \in 1..(i - 1) : j # 1 => Tail(l)[j - 1] = l[j]
  BY <1>3, <1>4
<1>6. 1 \in 1..(i - 1)
  OBVIOUS
<1>7. \A j \in 1..((i - 1) - 1) : Tail(l)[j][1] = o => Tail(l)[j][2] < k
  BY <1>3 DEF Fits
<1>8. CASE l[1][1] # o
  <2>1. T[o] = S[o]
    BY <1>1, <1>8 DEF Shows
  <2>2. CASE \E j \in 1..(i - 1) : l[j][1] = o /\ k = l[j][2] + 1
    <3>1. PICK j \in 1..(i - 1) : l[j][1] = o /\ k = l[j][2] + 1
      BY <2>2
    <3>2. j # 1
      BY <1>8, <3>1
    <3> QED BY <1>4, <1>5, <1>7, <3>1, <3>2 DEF Fits
  <2>3. CASE Continues(S[o], k) /\ \A j \in 1..(i - 1) : l[j][1] # o
    BY <1>3, <1>7, <2>1, <2>3 DEF Fits
  <2> QED BY <2>2, <2>3 DEF Fits
<1>9. CASE l[1][1] = o
  <2>1. PICK j \in 1..(i - 1) : l[j][1] = o /\ k = l[j][2] + 1
    BY <1>6, <1>9 DEF Fits
  <2>2. CASE j # 1
    BY <1>4, <1>5, <1>7, <2>1, <2>2 DEF Fits
  <2>3. CASE j = 1
    <3>1. /\ T[o] = Append(S[o], l[1][2]) /\ S[o] \in Seq(1..MaxSays) /\ l[1][2] \in 1..MaxSays
          /\ k = l[1][2] + 1
      BY <1>1, <1>2, <1>9, <2>1, <2>3 DEF Shows
    <3>2. T[o] # <<>> /\ T[o][Len(T[o])] = l[1][2]
      BY <3>1, LastAppended
    <3>3. Continues(T[o], k)
      BY <3>1, <3>2 DEF Continues
    <3>4. ASSUME NEW n \in 1..((i - 1) - 1), Tail(l)[n][1] = o PROVE FALSE
      <4>1. /\ l[n + 1][1] = o /\ n + 1 \in 1..Len(l) /\ n + 1 \in 1..(i - 1)
            /\ 1 \in 1..((n + 1) - 1)
        BY <1>3, <3>4
      <4>2. l[n + 1][2] < k
        BY <4>1 DEF Fits
      <4>3. l[1][2] < l[n + 1][2]
        BY <1>9, <4>1 DEF InStream, Fits
      <4>4. l[n + 1][2] \in Nat /\ l[1][2] \in Nat
        BY <1>1, <1>2, <4>1
      <4> QED BY <3>1, <4>2, <4>3, <4>4
    <3> QED BY <1>7, <3>3, <3>4 DEF Fits
  <2> QED BY <2>2, <2>3
<1> QED BY <1>8, <1>9

LEMMA StreamTail ==
  ASSUME NEW l \in Seq(Messages), l # <<>>, NEW S, NEW T, InStream(l, S),
         \A o \in Peers : S[o] \in Seq(1..MaxSays), Shows(S, T, Head(l))
  PROVE  /\ InStream(Tail(l), T)
         /\ \A o \in Peers, k \in Nat : FitsNext(l, o, k, S) => FitsNext(Tail(l), o, k, T)
<1>1. /\ Len(l) \in Nat \ {0} /\ Len(Tail(l)) = Len(l) - 1 /\ Head(l) = l[1]
      /\ \A j \in 1..Len(l) : l[j] \in Messages
      /\ \A j \in 1..(Len(l) - 1) : /\ Tail(l)[j] = l[j + 1] /\ j + 1 \in 1..Len(l)
                                    /\ j + 1 \in 2..(Len(l) + 1) /\ (j + 1) - 1 = j
  OBVIOUS
<1>2. ASSUME NEW i \in 1..Len(Tail(l)) PROVE Fits(Tail(l), i, Tail(l)[i][1], Tail(l)[i][2], T)
  <2>1. Fits(l, i + 1, l[i + 1][1], l[i + 1][2], S)
    BY <1>1 DEF InStream
  <2>2. /\ i + 1 \in 2..(Len(l) + 1) /\ (i + 1) - 1 = i
        /\ l[i + 1][1] \in Peers /\ l[i + 1][2] \in Nat
    <3>1. i + 1 \in 2..(Len(l) + 1) /\ (i + 1) - 1 = i /\ l[i + 1] \in Messages
      BY <1>1
    <3>2. l[i + 1][1] \in Peers /\ l[i + 1][2] \in 1..MaxSays
      BY <3>1 DEF Messages
    <3> QED BY <3>1, <3>2
  <2>3. Fits(Tail(l), (i + 1) - 1, l[i + 1][1], l[i + 1][2], T)
    BY ONLY FitsTail, <2>1, <2>2, l \in Seq(Messages), l # <<>>, InStream(l, S),
       \A o \in Peers : S[o] \in Seq(1..MaxSays), Shows(S, T, Head(l))
  <2> QED BY <1>1, <2>2, <2>3
<1>3. ASSUME NEW o \in Peers, NEW k \in Nat, FitsNext(l, o, k, S) PROVE FitsNext(Tail(l), o, k, T)
  <2>1. Len(l) + 1 \in 2..(Len(l) + 1) /\ (Len(l) + 1) - 1 = Len(Tail(l)) + 1
    BY <1>1
  <2>2. Fits(l, Len(l) + 1, o, k, S)
    BY <1>3 DEF FitsNext
  <2>3. Fits(Tail(l), (Len(l) + 1) - 1, o, k, T)
    BY <2>1, <2>2, FitsTail
  <2> QED BY <2>1, <2>3 DEF FitsNext
<1> QED BY <1>2, <1>3 DEF InStream

(* Another origin's message was shown, or nothing was sent.                *)
LEMMA StreamOther ==
  ASSUME NEW l \in Seq(Messages), NEW S, NEW T,
         \A i \in 1..Len(l) : S[l[i][1]] = T[l[i][1]], InStream(l, S)
  PROVE  InStream(l, T)
BY DEF InStream, Fits

LEMMA StreamEmpty ==
  ASSUME NEW T PROVE InStream(<<>>, T) /\ \A S, o : T[o] = <<>> => UpToDate(S, <<>>, T, o)
<1>1. Len(<<>>) = 0 /\ 1..0 = {} /\ 1..((0 + 1) - 1) = {}
  OBVIOUS
<1> QED BY <1>1 DEF InStream, FitsNext, Fits, UpToDate, Continues
-----------------------------------------------------------------------------
(* Each step keeps the order.  First those that change no message.         *)
LEMMA StreamStart ==
  ASSUME NEW l \in Seq(Messages), NEW n \in 0..Len(l), NEW S, InStream(l, S)
  PROVE  InStream(SubSeq(l, 1, n), S)
<1> SUFFICES ASSUME NEW i \in 1..n
             PROVE  Fits(SubSeq(l, 1, n), i, SubSeq(l, 1, n)[i][1], SubSeq(l, 1, n)[i][2], S)
  BY DEF InStream
<1>1. /\ i \in 1..Len(l) /\ SubSeq(l, 1, n)[i] = l[i]
      /\ \A j \in 1..(i - 1) : SubSeq(l, 1, n)[j] = l[j]
  OBVIOUS
<1>2. Fits(l, i, l[i][1], l[i][2], S)
  BY <1>1 DEF InStream
<1> QED BY <1>1, <1>2 DEF Fits

LEMMA StartOrder ==
  ASSUME NEW side \in Sides, Net(side), Order(side), NEW p \in Peers, W!Start(p)
  PROVE  Order(side)'
<1>1. /\ status[p] = "off" /\ status' = [status EXCEPT ![p] = "up"]
      /\ UNCHANGED <<peers, backlog, Mail, Duty, shown>>
  BY DEF W!Start
<1>2. /\ NotYet /\ status'[p] = "up" /\ \A a \in Peers : a # p => status'[a] = status[a]
  BY <1>1 DEF Net, Types
<1>3. /\ Neighbours(p) = {}
      /\ \A a \in Peers : /\ p \notin Neighbours(a) /\ Mail[a][p] = <<>>
                          /\ \A r \in Peers : p \notin Duty[a][r].todo
  BY <1>1, <1>2 DEF NotYet
<1>4. (Apart(side) /\ Sourced(side) /\ InOrder /\ Numbered)'
  BY <1>1 DEF Order, Apart, Sourced, InOrder, Numbered
<1>5. Mutual'
  BY <1>1, <1>2, <1>3 DEF Order, Mutual, Neighbours
<1>6. Unseen(side)'
  BY <1>1, <1>2, <1>3 DEF Order, Unseen, Neighbours
<1>7. Passing' /\ Ready(side)'
  BY <1>1, <1>2, <1>3 DEF Order, Passing, Ready, Pending, Neighbours
<1> QED BY <1>4, <1>5, <1>6, <1>7 DEF Order

LEMMA AcceptOrder ==
  ASSUME NEW side \in Sides, Net(side), Order(side), NEW p \in Peers, NEW q \in Peers,
         W!Accept(p, q)
  PROVE  Order(side)'
<1>1. q \in backlog[p] /\ UNCHANGED <<status, Mail, Duty, shown>>
  BY DEF W!Accept
<1>2. /\ peers'[p] = peers[p] \cup {q} /\ backlog'[p] = backlog[p] \ {q}
      /\ \A a \in Peers : a # p => peers'[a] = peers[a] /\ backlog'[a] = backlog[a]
  BY DEF W!Accept, Net, Types
<1>3. \A a \in Peers : peers'[a] \cup backlog'[a] = peers[a] \cup backlog[a]
  BY <1>1, <1>2
<1>4. (Apart(side) /\ InOrder /\ Passing /\ Numbered)'
  BY <1>1 DEF Order, Apart, InOrder, Passing, Numbered
<1>5. Mutual'
  BY <1>1, <1>2, <1>3 DEF Order, Mutual, Neighbours
<1>6. Sourced(side)' /\ Unseen(side)'
  BY <1>1, <1>2 DEF Order, Sourced, Unseen
<1>7. Ready(side)'
  <2> SUFFICES ASSUME NEW a \in Peers, NEW b \in Peers, status[b] = "up", b \in peers'[a],
                      NEW o \in side[a][b]
               PROVE  Pending(a, b, o) \/ UpToDate(shown[a], Mail[a][b], shown[b], o)
    BY <1>1 DEF Ready, Pending
  <2>1. CASE a = p /\ b = q
    <3>1. Mail[p][q] = <<>> /\ shown[q][o] = <<>>
      BY <1>1, <2>1 DEF Order, Mutual, Unseen
    <3> QED BY <2>1, <3>1, StreamEmpty
  <2>2. CASE ~(a = p /\ b = q)
    BY <1>2, <2>2 DEF Order, Ready
  <2> QED BY <2>1, <2>2
<1> QED BY <1>4, <1>5, <1>6, <1>7 DEF Order

LEMMA ConnectOrder ==
  ASSUME NEW side \in Sides, Net(side), Order(side), NEW p \in Peers, NEW q \in Peers,
         W!Connect(p, q), NEW new \in Sides, Grown(side, p, q, new)
  PROVE  Order(new)'
<1>1. /\ status[p] = "off" /\ status[q] = "up" /\ p # q /\ UNCHANGED <<Mail, Duty, shown>>
  BY DEF W!Connect, W!Up
<1>2. /\ status'[p] = "up" /\ peers'[p] = {q} /\ backlog'[q] = backlog[q] \cup {p}
      /\ \A a \in Peers : /\ a # p => status'[a] = status[a] /\ peers'[a] = peers[a]
                          /\ a # q => backlog'[a] = backlog[a]
  BY DEF W!Connect, Net, Types
<1>3. /\ Neighbours(p) = {} /\ backlog[p] = {}
      /\ \A a \in Peers : /\ p \notin Neighbours(a) /\ p \notin peers[a] /\ p \notin backlog[a]
                          /\ Mail[a][p] = <<>> /\ Mail[p][a] = <<>> /\ Duty[p][a].todo = {}
                          /\ \A r \in Peers : p \notin Duty[a][r].todo
                          /\ shown[a][p] = <<>> /\ shown[p][a] = <<>>
  BY <1>1 DEF Net, NotYet, Neighbours, Order, Unseen
<1>4. /\ \A a, b \in Peers : p \notin side[a][b] /\ side[a][b] \subseteq Peers
      /\ \A a, b \in Peers : \A i \in 1..Len(Mail[a][b]) : Mail[a][b][i][1] # p
  BY <1>1 DEF Net, Tree, Directed, Sides
<1>5. /\ new[p][q] = {p} /\ \A x : x \in new[q][p] <=> x \in Peers /\ status[x] # "off"
      /\ \A a, b \in Peers : ~(a = p /\ b = q) /\ ~(a = q /\ b = p) =>
           \A x : x \in new[a][b] <=> x \in side[a][b] \/ (x = p /\ q \in side[a][b])
  BY DEF Grown
<1>6. Apart(new)'
  <2> SUFFICES ASSUME NEW a \in Peers, NEW b \in Peers, NEW x \in new[a][b], x \in new[b][a]
               PROVE  FALSE
    BY DEF Apart
  <2>1. CASE (a = p /\ b = q) \/ (a = q /\ b = p)
    BY <1>1, <1>5, <2>1
  <2>2. CASE ~(a = p /\ b = q) /\ ~(a = q /\ b = p)
    <3>1. /\ x \in side[a][b] \/ (x = p /\ q \in side[a][b])
          /\ x \in side[b][a] \/ (x = p /\ q \in side[b][a])
      BY <1>5, <2>2
    <3> QED BY <1>4, <3>1 DEF Order, Apart
  <2> QED BY <2>1, <2>2
<1>7. Mutual'
  <2> SUFFICES ASSUME NEW a \in Peers, NEW b \in Peers
               PROVE  /\ status'[a] # "up" => Neighbours(a)' = {}
                      /\ status'[a] = "up" /\ (a \in Neighbours(b)' \/ Mail[b][a] # <<>>) =>
                           b \in Neighbours(a)'
                      /\ b \in backlog'[a] => b \notin peers'[a] /\ Mail[a][b] = <<>>
                      /\ Duty[a][b].todo \subseteq peers'[a]
    BY <1>1 DEF Mutual, Neighbours
  <2>1. /\ Neighbours(a)' = IF a = p THEN {q}
                            ELSE IF a = q THEN Neighbours(q) \cup {p} ELSE Neighbours(a)
        /\ Neighbours(b)' = IF b = p THEN {q}
                            ELSE IF b = q THEN Neighbours(q) \cup {p} ELSE Neighbours(b)
    BY <1>1, <1>2, <1>3 DEF Neighbours
  <2>2. /\ status[a] # "up" => Neighbours(a) = {}
        /\ status[a] = "up" /\ (a \in Neighbours(b) \/ Mail[b][a] # <<>>) => b \in Neighbours(a)
        /\ b \in backlog[a] => b \notin peers[a] /\ Mail[a][b] = <<>>
        /\ Duty[a][b].todo \subseteq peers[a]
    BY DEF Order, Mutual
  <2>3. status'[a] # "up" => Neighbours(a)' = {}
    BY <1>1, <1>2, <2>1, <2>2
  <2>4. status'[a] = "up" /\ (a \in Neighbours(b)' \/ Mail[b][a] # <<>>) => b \in Neighbours(a)'
    BY <1>1, <1>2, <1>3, <2>1, <2>2
  <2>5. b \in backlog'[a] => b \notin peers'[a] /\ Mail[a][b] = <<>>
    BY <1>1, <1>2, <1>3, <2>2
  <2>6. Duty[a][b].todo \subseteq peers'[a]
    BY <1>2, <1>3, <2>2
  <2> QED BY <2>3, <2>4, <2>5, <2>6
<1>8. Sourced(new)'
  <2> SUFFICES ASSUME NEW a \in Peers, NEW b \in Peers, Duty[a][b].todo # {}
               PROVE  \/ b = a /\ Duty[a][b].msg[1] = a
                      \/ b \in peers'[a] /\ Duty[a][b].msg[1] \in new[b][a]
    BY <1>1 DEF Sourced
  <2>1. a # p /\ peers'[a] = peers[a] /\ b \in peers[a] => b # p
    BY <1>2, <1>3
  <2>2. \/ b = a /\ Duty[a][b].msg[1] = a
        \/ b \in peers[a] /\ Duty[a][b].msg[1] \in side[b][a]
    BY DEF Order, Sourced
  <2>3. a # p
    BY <1>3
  <2> QED BY <1>2, <1>5, <2>1, <2>2, <2>3
<1>9. Unseen(new)'
  <2> SUFFICES ASSUME NEW a \in Peers, NEW b \in Peers
               PROVE  /\ status'[a] = "off" => shown[a][b] = <<>> /\ shown[b][a] = <<>>
                      /\ status'[b] = "up" /\ b \in backlog'[a] =>
                           \A o \in new[a][b] : shown[b][o] = <<>>
    BY <1>1 DEF Unseen
  <2>1. status'[a] = "off" => shown[a][b] = <<>> /\ shown[b][a] = <<>>
    BY <1>2 DEF Order, Unseen
  <2>2. ASSUME status'[b] = "up", b \in backlog'[a], NEW o \in new[a][b]
        PROVE  shown[b][o] = <<>>
    <3>1. CASE a = q /\ b = p
      BY <1>3, <1>5, <3>1
    <3>2. CASE ~(a = q /\ b = p)
      <4>1. b \in backlog[a] /\ b # p /\ a # p /\ status[b] = "up"
        BY <1>2, <1>3, <2>2, <3>2
      <4>2. o \in side[a][b] \/ o = p
        BY <1>5, <3>2, <4>1
      <4> QED BY <1>3, <4>1, <4>2 DEF Order, Unseen
    <3> QED BY <3>1, <3>2
  <2> QED BY <2>1, <2>2
<1>10. InOrder' /\ Passing' /\ Numbered'
  BY <1>1, <1>2, <1>3 DEF Order, InOrder, Passing, Numbered
<1>11. Ready(new)'
  <2> SUFFICES ASSUME NEW a \in Peers, NEW b \in Peers, status'[b] = "up", b \in peers'[a],
                      NEW o \in new[a][b]
               PROVE  Pending(a, b, o) \/ UpToDate(shown[a], Mail[a][b], shown[b], o)
    BY <1>1 DEF Ready, Pending
  <2>1. CASE a = p
    <3>1. b = q /\ o = p
      BY <1>2, <1>5, <2>1
    <3> QED BY <1>3, <2>1, <3>1, StreamEmpty
  <2>2. CASE a # p
    <3>1. b \in peers[a] /\ b # p /\ status[b] = "up"
      BY <1>2, <1>3, <2>2
    <3>2. o \in side[a][b] \/ o = p
      BY <1>5, <2>2, <3>1
    <3>3. CASE o \in side[a][b]
      BY <3>1, <3>3 DEF Order, Ready
    <3>4. CASE o = p
      <4>1. shown[b][o] = <<>> /\ \A i \in 1..Len(Mail[a][b]) : Mail[a][b][i][1] # o
        BY <1>3, <1>4, <3>4
      <4>2. Len(Mail[a][b]) \in Nat
        BY Streams DEF Net
      <4>3. 1..((Len(Mail[a][b]) + 1) - 1) = 1..Len(Mail[a][b])
        BY <4>2
      <4> QED BY <4>1, <4>3 DEF UpToDate, FitsNext, Fits, Continues
    <3> QED BY <3>2, <3>3, <3>4
  <2> QED BY <2>1, <2>2
<1> QED BY <1>6, <1>7, <1>8, <1>9, <1>10, <1>11 DEF Order

(* A process that ends: no one writes to it or expects anything from it.   *)
LEMMA EndOrder ==
  ASSUME NEW side \in Sides, Net(side), Order(side), NEW p \in Peers,
         NEW how \in {"left", "killed"}, W!End(p, how)
  PROVE  Order(side)'
<1>1. status[p] = "up"
  BY DEF W!End, W!Up
<1>2. /\ status'[p] = how /\ peers'[p] = {} /\ backlog'[p] = {} /\ shown' = shown
      /\ \A a \in Peers : /\ Duty'[p][a].todo = {}
                          /\ a # p => /\ status'[a] = status[a] /\ peers'[a] = peers[a]
                                      /\ backlog'[a] = backlog[a] /\ Duty'[a] = Duty[a]
  BY DEF W!End, W!Idle, Net, Types
<1>3. \A a, b \in Peers :
        /\ a # p /\ b # p => Mail'[a][b] = Mail[a][b]
        /\ Mail[a][b] \in Seq(Messages) /\ Len(Mail[a][b]) \in Nat
        /\ \E n \in 0..Len(Mail[a][b]) : Mail'[a][b] = SubSeq(Mail[a][b], 1, n)
        /\ Mail[a][b] = <<>> => Mail'[a][b] = <<>>
        /\ b = p => Mail'[a][b] = <<>>
  <2> SUFFICES ASSUME NEW a \in Peers, NEW b \in Peers
               PROVE  /\ a # p /\ b # p => Mail'[a][b] = Mail[a][b]
                      /\ Mail[a][b] \in Seq(Messages) /\ Len(Mail[a][b]) \in Nat
                      /\ \E n \in 0..Len(Mail[a][b]) : Mail'[a][b] = SubSeq(Mail[a][b], 1, n)
                      /\ Mail[a][b] = <<>> => Mail'[a][b] = <<>>
                      /\ b = p => Mail'[a][b] = <<>>
    OBVIOUS
  <2>1. Mail[a][b] \in Seq(Messages) /\ Len(Mail[a][b]) \in Nat
    BY Streams DEF Net
  <2>2. PICK n \in 0..Len(Mail[a][b]) : Mail'[a][b] = SubSeq(Mail[a][b], 1, n)
    BY EndLeaves
  <2>3. Mail[a][b] = <<>> => Mail'[a][b] = <<>>
    BY <2>1, <2>2
  <2> QED BY <2>1, <2>2, <2>3, EndLeaves
<1>4. Apart(side)' /\ Numbered'
  BY <1>2 DEF Order, Apart, Numbered
<1>5. Mutual'
  <2> SUFFICES ASSUME NEW a \in Peers, NEW b \in Peers
               PROVE  /\ status'[a] # "up" => Neighbours(a)' = {}
                      /\ status'[a] = "up" /\ (a \in Neighbours(b)' \/ Mail'[b][a] # <<>>) =>
                           b \in Neighbours(a)'
                      /\ b \in backlog'[a] => b \notin peers'[a] /\ Mail'[a][b] = <<>>
                      /\ Duty'[a][b].todo \subseteq peers'[a]
    BY DEF Mutual
  <2>1. /\ Mutual /\ (Mail[b][a] = <<>> => Mail'[b][a] = <<>>)
        /\ Mail[a][b] = <<>> => Mail'[a][b] = <<>>
    BY <1>3 DEF Order
  <2> QED BY <1>1, <1>2, <2>1 DEF Mutual, Neighbours
<1>6. Sourced(side)' /\ Unseen(side)'
  BY <1>1, <1>2 DEF Order, Sourced, Unseen
<1>7. InOrder'
  <2> SUFFICES ASSUME NEW a \in Peers, NEW b \in Peers
               PROVE  InStream(Mail'[a][b], shown[b])
    BY <1>2 DEF InOrder
  <2>1. PICK n \in 0..Len(Mail[a][b]) : Mail'[a][b] = SubSeq(Mail[a][b], 1, n)
    BY <1>3
  <2>2. Mail[a][b] \in Seq(Messages) /\ InStream(Mail[a][b], shown[b])
    BY <1>3 DEF Order, InOrder
  <2> QED BY <2>1, <2>2, StreamStart
<1>8. Passing'
  BY <1>1, <1>2, <1>3 DEF Order, Passing
<1>9. Ready(side)'
  <2> SUFFICES ASSUME NEW a \in Peers, NEW b \in Peers, status'[b] = "up", b \in peers'[a],
                      NEW o \in side[a][b]
               PROVE  Pending(a, b, o)' \/ UpToDate(shown'[a], Mail'[a][b], shown'[b], o)
    BY DEF Ready
  <2>1. a # p /\ b # p /\ status[b] = "up" /\ b \in peers[a]
    BY <1>1, <1>2
  <2>2. Pending(a, b, o) \/ UpToDate(shown[a], Mail[a][b], shown[b], o)
    BY <2>1 DEF Order, Ready
  <2> QED BY <1>2, <1>3, <2>1, <2>2 DEF Pending
<1> QED BY <1>4, <1>5, <1>6, <1>7, <1>8, <1>9 DEF Order

LEMMA DisconnectOrder ==
  ASSUME NEW side \in Sides, Net(side), Order(side), NEW p \in Peers, NEW q \in Peers,
         W!Disconnect(p, q)
  PROVE  Order(side)'
<1>1. /\ Duty[p][q].todo = {} /\ status[q] # "up" /\ Mail[q][p] = <<>> /\ q \in peers[p]
      /\ UNCHANGED <<status, backlog, Mail, shown>>
  BY DEF W!Disconnect, W!Gone
<1>2. /\ peers'[p] = peers[p] \ {q}
      /\ \A a \in Peers : a # p => peers'[a] = peers[a] /\ Duty'[a] = Duty[a]
  BY DEF W!Disconnect, Net, Types
<1>3. \A r \in Peers : /\ Duty'[p][r].todo = Duty[p][r].todo \ {q}
                       /\ Duty'[p][r].msg = Duty[p][r].msg
  <2>1. Duty'[p] = [r \in Peers |-> [Duty[p][r] EXCEPT !.todo = @ \ {q}]]
    BY DEF W!Disconnect, Net, Types
  <2>2. \A r \in Peers : Duty[p][r] \in Tasks
    BY DEF Net, Types
  <2> QED BY <2>1, <2>2 DEF Tasks
<1>4. (Apart(side) /\ Unseen(side) /\ InOrder /\ Numbered)'
  BY <1>1 DEF Order, Apart, Unseen, InOrder, Numbered
<1>5. Mutual'
  <2> SUFFICES ASSUME NEW a \in Peers, NEW b \in Peers
               PROVE  /\ status[a] # "up" => Neighbours(a)' = {}
                      /\ status[a] = "up" /\ (a \in Neighbours(b)' \/ Mail[b][a] # <<>>) =>
                           b \in Neighbours(a)'
                      /\ b \in backlog[a] => b \notin peers'[a] /\ Mail[a][b] = <<>>
                      /\ Duty'[a][b].todo \subseteq peers'[a]
    BY <1>1 DEF Mutual
  <2>1. /\ status[a] # "up" => Neighbours(a) = {}
        /\ status[a] = "up" /\ (a \in Neighbours(b) \/ Mail[b][a] # <<>>) => b \in Neighbours(a)
        /\ b \in backlog[a] => b \notin peers[a] /\ Mail[a][b] = <<>>
        /\ Duty[a][b].todo \subseteq peers[a]
    BY DEF Order, Mutual
  <2>2. /\ Neighbours(a)' \subseteq Neighbours(a) /\ Neighbours(b)' \subseteq Neighbours(b)
        /\ \A x \in Neighbours(a) : a # p \/ x # q => x \in Neighbours(a)'
        /\ Neighbours(q) = {}
    BY <1>1, <1>2 DEF Neighbours, Order, Mutual
  <2>3. /\ status[a] # "up" => Neighbours(a)' = {}
        /\ status[a] = "up" /\ (a \in Neighbours(b)' \/ Mail[b][a] # <<>>) => b \in Neighbours(a)'
    BY <1>1, <2>1, <2>2
  <2>4. /\ b \in backlog[a] => b \notin peers'[a] /\ Mail[a][b] = <<>>
        /\ Duty'[a][b].todo \subseteq peers'[a]
    BY <1>2, <1>3, <2>1
  <2> QED BY <2>3, <2>4
<1>6. Sourced(side)'
  BY <1>1, <1>2, <1>3 DEF Order, Sourced
<1>7. Passing'
  <2> SUFFICES ASSUME NEW a \in Peers, NEW b \in Peers, status[b] = "up",
                      NEW r \in Peers, b \in Duty'[a][r].todo
               PROVE  Due(shown[a], Mail[a][b], shown[b], Duty'[a][r].msg)
    BY <1>1 DEF Passing
  <2>1. b \in Duty[a][r].todo /\ Duty'[a][r].msg = Duty[a][r].msg
    BY <1>2, <1>3
  <2> QED BY <2>1 DEF Order, Passing
<1>8. Ready(side)'
  <2> SUFFICES ASSUME NEW a \in Peers, NEW b \in Peers, status[b] = "up", b \in peers'[a],
                      NEW o \in side[a][b]
               PROVE  Pending(a, b, o)' \/ UpToDate(shown[a], Mail[a][b], shown[b], o)
    BY <1>1 DEF Ready
  <2>1. b \in peers[a] /\ b # q
    BY <1>1, <1>2
  <2>2. Pending(a, b, o) \/ UpToDate(shown[a], Mail[a][b], shown[b], o)
    BY <2>1 DEF Order, Ready
  <2> QED BY <1>2, <1>3, <2>1, <2>2 DEF Pending
<1> QED BY <1>4, <1>5, <1>6, <1>7, <1>8 DEF Order

(* What comes from one neighbour comes from no other, and goes to all the  *)
(* others: at most one thread passes on the messages of an origin.         *)
LEMMA OneWay ==
  ASSUME NEW side \in Sides, Net(side), Order(side), NEW p \in Peers,
         NEW q \in Neighbours(p), NEW r \in Neighbours(p), q # r, NEW o \in side[q][p]
  PROVE  o \in side[p][r] /\ o \notin side[r][p]
<1>1. q \in Peers /\ r \in Peers
  BY DEF Net, Types, Neighbours
<1>2. side[q][p] \subseteq side[p][r]
  BY <1>1 DEF Net, Tree
<1> QED BY <1>1, <1>2 DEF Order, Apart

LEMMA OneSource ==
  ASSUME NEW side \in Sides, Net(side), Order(side), NEW p \in Peers,
         NEW q \in Peers, NEW r \in Peers, q # r,
         Duty[p][q].todo # {}, Duty[p][r].todo # {}
  PROVE  Duty[p][q].msg[1] # Duty[p][r].msg[1]
<1>1. /\ \/ q = p /\ Duty[p][q].msg[1] = p
         \/ q \in Neighbours(p) /\ Duty[p][q].msg[1] \in side[q][p]
      /\ \/ r = p /\ Duty[p][r].msg[1] = p
         \/ r \in Neighbours(p) /\ Duty[p][r].msg[1] \in side[r][p]
  BY DEF Order, Sourced, Neighbours
<1>2. p \notin side[q][p] /\ p \notin side[r][p]
  BY DEF Net, Tree
<1> QED BY <1>1, <1>2, OneWay

LEMMA ForwardOrder ==
  ASSUME NEW side \in Sides, Net(side), Order(side), NEW p \in Peers, NEW q \in Peers,
         NEW r \in Peers, W!Forward(p, q, r)
  PROVE  Order(side)'
<1>1. PICK m : m = Duty[p][q].msg
  OBVIOUS
<1>2. /\ status[p] = "up" /\ r \in Duty[p][q].todo /\ UNCHANGED <<status, peers, backlog, shown>>
      /\ \/ status[r] # "up" /\ Mail' = Mail
         \/ Mail' = [Mail EXCEPT ![p][r] = Append(@, m)]
  BY <1>1 DEF W!Forward, W!Up, W!Gone
<1>3. /\ Duty'[p][q].msg = m /\ Duty'[p][q].todo = Duty[p][q].todo \ {r}
      /\ \A a, b \in Peers : a # p \/ b # q => Duty'[a][b] = Duty[a][b]
  <2>1. PICK less : less = [Duty[p][q] EXCEPT !.todo = @ \ {r}]
    OBVIOUS
  <2>2. Duty[p][q] \in Tasks
    BY DEF Net, Types
  <2>3. less.msg = m /\ less.todo = Duty[p][q].todo \ {r}
    BY <1>1, <2>1, <2>2 DEF Tasks
  <2>4. Duty' = [Duty EXCEPT ![p] = [Duty[p] EXCEPT ![q] = less]]
    BY <2>1 DEF W!Forward
  <2>5. Duty'[p][q] = less /\ \A a, b \in Peers : a # p \/ b # q => Duty'[a][b] = Duty[a][b]
    BY <2>4 DEF Net, Types
  <2> QED BY <2>3, <2>5
<1>4. /\ \A a, b \in Peers : Duty'[a][b].msg = Duty[a][b].msg
      /\ \A a, b \in Peers : \A x \in Duty'[a][b].todo : x \in Duty[a][b].todo
      /\ \A a, b \in Peers : \A x \in Duty[a][b].todo :
           x \in Duty'[a][b].todo \/ (a = p /\ b = q /\ x = r)
  BY <1>1, <1>3
<1>5. /\ m \in Messages /\ m[1] \in side[p][r] /\ r \in peers[p] /\ status[r] # "off"
      /\ Mail[p][r] \in Seq(Messages)
  <2>1. m \in Messages /\ m[1] \in side[p][r]
    BY <1>1, <1>2 DEF Net, Typed, Directed
  <2>2. r \in peers[p] /\ status[r] # "off"
    BY <1>2 DEF Net, NotYet, Order, Mutual
  <2> QED BY <2>1, <2>2, Streams DEF Net
<1>6. status[r] = "up" => Due(shown[p], Mail[p][r], shown[r], m)
  BY <1>1, <1>2 DEF Order, Passing
<1>7. /\ \A a, b \in Peers : a # p \/ b # r => Mail'[a][b] = Mail[a][b]
      /\ status[r] # "up" => Mail'[p][r] = Mail[p][r]
      /\ status[r] = "up" => Mail'[p][r] = Append(Mail[p][r], m)
  <2>1. Mail \in [Peers -> [Peers -> Seq(Messages)]]
    BY DEF Net, Types
  <2>2. status[r] \in {"up", "left", "killed"}
    BY <1>5 DEF Net, Types
  <2>3. CASE status[r] # "up"
    <3>1. Mail' = Mail
      BY <2>2, <2>3 DEF W!Forward, W!Gone
    <3> QED BY <2>3, <3>1
  <2>4. CASE status[r] = "up"
    <3>1. Mail' = [Mail EXCEPT ![p][r] = Append(@, m)]
      BY <1>1, <2>4 DEF W!Forward, W!Gone
    <3> QED BY <2>1, <2>4, <3>1
  <2> QED BY <2>3, <2>4
<1>8. (Apart(side) /\ Unseen(side) /\ Numbered)'
  BY <1>2 DEF Order, Apart, Unseen, Numbered
<1>9. Mutual'
  <2> SUFFICES ASSUME NEW a \in Peers, NEW b \in Peers
               PROVE  /\ status[a] # "up" => Neighbours(a) = {}
                      /\ status[a] = "up" /\ (a \in Neighbours(b) \/ Mail'[b][a] # <<>>) =>
                           b \in Neighbours(a)
                      /\ b \in backlog[a] => b \notin peers[a] /\ Mail'[a][b] = <<>>
                      /\ Duty'[a][b].todo \subseteq peers[a]
    BY <1>2 DEF Mutual, Neighbours
  <2>1. status[r] = "up" => p \in Neighbours(r)
    BY <1>5 DEF Order, Mutual, Neighbours
  <2> QED BY <1>4, <1>5, <1>7, <2>1 DEF Order, Mutual
<1>10. Sourced(side)'
  BY <1>2, <1>4 DEF Order, Sourced
<1>11. InOrder'
  <2> SUFFICES ASSUME NEW a \in Peers, NEW b \in Peers PROVE InStream(Mail'[a][b], shown[b])
    BY <1>2 DEF InOrder
  <2>1. InStream(Mail[a][b], shown[b])
    BY DEF Order, InOrder
  <2>2. CASE a = p /\ b = r /\ status[r] = "up"
    BY <1>5, <1>6, <1>7, <2>1, <2>2, StreamAppend DEF Due
  <2> QED BY <1>7, <2>1, <2>2
<1>12. Passing'
  <2> SUFFICES ASSUME NEW a \in Peers, NEW b \in Peers, status[b] = "up",
                      NEW x \in Peers, b \in Duty'[a][x].todo
               PROVE  Due(shown[a], Mail'[a][b], shown[b], Duty'[a][x].msg)
    BY <1>2 DEF Passing
  <2>1. b \in Duty[a][x].todo /\ Duty'[a][x].msg = Duty[a][x].msg
    BY <1>4
  <2>2. Due(shown[a], Mail[a][b], shown[b], Duty[a][x].msg)
    BY <2>1 DEF Order, Passing
  <2>3. CASE a = p /\ b = r
    <3>1. x # q
      BY <1>3, <2>3
    <3>2. Duty[a][x].msg[1] # m[1]
      BY <1>1, <1>2, <2>1, <2>3, <3>1, OneSource
    <3>3. PICK n : n = Duty[p][x].msg
      OBVIOUS
    <3>4. /\ Latest(shown[p][n[1]], n[2]) /\ FitsNext(Mail[p][r], n[1], n[2], shown[r])
          /\ n[1] # m[1]
      BY <2>2, <2>3, <3>2, <3>3 DEF Due
    <3>5. FitsNext(Append(Mail[p][r], m), n[1], n[2], shown[r])
      BY <1>5, <3>4, NextAppend
    <3> QED BY <1>7, <2>1, <2>3, <3>3, <3>4, <3>5 DEF Due
  <2> QED BY <1>7, <2>1, <2>2, <2>3
<1>13. Ready(side)'
  <2> SUFFICES ASSUME NEW a \in Peers, NEW b \in Peers, status[b] = "up", b \in peers[a],
                      NEW o \in side[a][b]
               PROVE  Pending(a, b, o)' \/ UpToDate(shown[a], Mail'[a][b], shown[b], o)
    BY <1>2 DEF Ready
  <2>1. Pending(a, b, o) \/ UpToDate(shown[a], Mail[a][b], shown[b], o)
    BY DEF Order, Ready
  <2>2. CASE a = p /\ b = r /\ o = m[1]
    <3>1. /\ Due(shown[p], Mail[p][r], shown[r], m) /\ Mail'[p][r] = Append(Mail[p][r], m)
      BY <1>6, <1>7, <2>2
    <3>2. ASSUME NEW k \in Nat, Continues(shown[p][m[1]], k) PROVE k = m[2] + 1
      BY <3>1, <3>2 DEF Due, Latest, Continues
    <3>3. FitsNext(Append(Mail[p][r], m), m[1], m[2] + 1, shown[r])
      BY <1>5, <3>1, NextAppended DEF Due
    <3>4. UpToDate(shown[p], Mail'[p][r], shown[r], m[1])
      BY <3>1, <3>2, <3>3 DEF UpToDate
    <3> QED BY <2>2, <3>4
  <2>3. CASE a = p /\ b = r /\ o # m[1]
    <3>1. CASE Pending(a, b, o)
      BY <1>1, <1>4, <2>3, <3>1 DEF Pending
    <3>2. CASE UpToDate(shown[a], Mail[a][b], shown[b], o)
      <4>1. Mail'[p][r] = Append(Mail[p][r], m) /\ Mail[p][r] \in Seq(Messages) /\ m \in Messages
        BY <1>5, <1>7, <2>3
      <4>2. \A k \in Nat : FitsNext(Mail[p][r], o, k, shown[r]) =>
                           FitsNext(Append(Mail[p][r], m), o, k, shown[r])
        BY <2>3, <4>1, NextAppend
      <4> QED BY <2>3, <3>2, <4>1, <4>2 DEF UpToDate
    <3> QED BY <2>1, <3>1, <3>2
  <2>4. CASE ~(a = p /\ b = r)
    BY <1>4, <1>7, <2>1, <2>4 DEF Pending
  <2> QED BY <2>2, <2>3, <2>4
<1> QED BY <1>8, <1>9, <1>10, <1>11, <1>12, <1>13 DEF Order

(* A message is shown: one that was just typed, or the first of a stream.  *)
LEMMA ShowOrder ==
  ASSUME NEW side \in Sides, Net(side), Order(side), NEW p \in Peers, NEW q \in Peers,
         NEW m \in Messages, UNCHANGED <<status, peers, backlog>>,
         status[p] = "up", Duty[p][q].todo = {}, W!ShowAndForward(p, q, m),
         Continues(shown[p][m[1]], m[2]),
         \/ q = p /\ m = <<p, Len(shown[p][p]) + 1>> /\ Mail' = Mail
         \/ /\ q \in peers[p] /\ m[1] \in side[q][p]
            /\ Mail[q][p] # <<>> /\ m = Head(Mail[q][p])
            /\ Mail' = [Mail EXCEPT ![q][p] = Tail(@)]
  PROVE  Order(side)'
<1>1. m[1] \in Peers /\ m[2] \in 1..MaxSays /\ m[2] \in Nat
  BY DEF Messages
<1>2. /\ shown'[p][m[1]] = Append(shown[p][m[1]], m[2]) /\ Shows(shown[p], shown'[p], m)
      /\ \A a \in Peers : a # p => shown'[a] = shown[a]
      /\ \A a, b \in Peers : shown[a][b] \in Seq(1..MaxSays)
  <2>1. shown \in [Peers -> [Peers -> Seq(1..MaxSays)]]
    BY DEF Net, Types
  <2>2. PICK s : s = Append(shown[p][m[1]], m[2])
    OBVIOUS
  <2>3. shown' = [shown EXCEPT ![p] = [shown[p] EXCEPT ![m[1]] = s]]
    BY <2>2 DEF W!ShowAndForward
  <2>4. shown'[p] = [shown[p] EXCEPT ![m[1]] = s] /\ \A a \in Peers : a # p => shown'[a] = shown[a]
    BY <2>1, <2>3
  <2>5. shown'[p][m[1]] = s /\ \A o \in Peers : o # m[1] => shown'[p][o] = shown[p][o]
    BY <1>1, <2>1, <2>4
  <2> QED BY <2>1, <2>2, <2>4, <2>5 DEF Shows
<1>3. \A b \in Peers : b # m[1] => shown'[p][b] = shown[p][b]
  BY <1>2 DEF Shows
<1>4. /\ Duty'[p][q].msg = m /\ Duty'[p][q].todo = peers[p] \ {q}
      /\ \A a, b \in Peers : a # p \/ b # q => Duty'[a][b] = Duty[a][b]
  BY DEF W!ShowAndForward, Net, Types
<1>5. /\ \A a, b \in Peers : a # q \/ b # p => Mail'[a][b] = Mail[a][b]
      /\ \/ q = p /\ Mail'[q][p] = Mail[q][p]
         \/ q # p /\ q \in peers[p] /\ Mail[q][p] # <<>> /\ m = Head(Mail[q][p])
            /\ Mail'[q][p] = Tail(Mail[q][p])
  <2>1. p \notin peers[p]
    BY DEF Net, Tree, Types, Neighbours
  <2>2. Mail \in [Peers -> [Peers -> Seq(Messages)]]
    BY DEF Net, Types
  <2>3. CASE q = p /\ Mail' = Mail
    BY <2>3
  <2>4. CASE q \in peers[p] /\ Mail' = [Mail EXCEPT ![q][p] = Tail(@)]
    <3>1. /\ Mail'[q][p] = Tail(Mail[q][p])
          /\ \A a, b \in Peers : a # q \/ b # p => Mail'[a][b] = Mail[a][b]
      BY <2>2, <2>4
    <3> QED BY <2>1, <2>4, <3>1
  <2> QED BY <2>3, <2>4
<1>6. \A x \in Neighbours(p) : /\ x # p /\ (x # q => m[1] \in side[p][x])
                               /\ x # q => m[1] \notin side[x][p]
  <2>1. \A x \in Neighbours(p) : x \in Peers /\ x # p /\ p \in side[p][x] /\ p \notin side[x][p]
    BY DEF Net, Types, Tree, Neighbours
  <2>2. CASE q = p /\ m[1] = p
    BY <2>1, <2>2
  <2>3. CASE q \in Neighbours(p) /\ m[1] \in side[q][p]
    BY <2>1, <2>3, OneWay
  <2> QED BY <2>2, <2>3 DEF Neighbours
<1>7. m[1] \notin side[p][q]
  BY DEF Net, Tree, Order, Apart
<1>8. \A x \in Peers : x # q \/ q = p => \A i \in 1..Len(Mail[x][p]) : Mail[x][p][i][1] # m[1]
  <2> SUFFICES ASSUME NEW x \in Peers, x # q \/ q = p, NEW i \in 1..Len(Mail[x][p])
               PROVE  Mail[x][p][i][1] # m[1]
    OBVIOUS
  <2>1. Mail[x][p] # <<>>
    OBVIOUS
  <2>2. x \in Neighbours(p) /\ Mail[x][p][i][1] \in side[x][p]
    BY <2>1 DEF Order, Mutual, Net, Directed
  <2> QED BY <1>6, <2>2
<1>9. \A r \in Peers : Duty[p][r].todo # {} => Duty[p][r].msg[1] # m[1]
  <2> SUFFICES ASSUME NEW r \in Peers, Duty[p][r].todo # {} PROVE Duty[p][r].msg[1] # m[1]
    OBVIOUS
  <2>1. CASE r = p /\ Duty[p][r].msg[1] = p
    <3>1. q # p /\ m[1] \in side[q][p]
      BY <2>1
    <3> QED BY <2>1, <3>1 DEF Net, Tree
  <2>2. CASE r \in Neighbours(p) /\ Duty[p][r].msg[1] \in side[r][p]
    BY <1>6, <2>2
  <2> QED BY <2>1, <2>2 DEF Order, Sourced, Neighbours
<1>10. Apart(side)'
  BY DEF Order, Apart
<1>11. Mutual'
  <2> SUFFICES ASSUME NEW a \in Peers, NEW b \in Peers
               PROVE  /\ status[a] # "up" => Neighbours(a) = {}
                      /\ status[a] = "up" /\ (a \in Neighbours(b) \/ Mail'[b][a] # <<>>) =>
                           b \in Neighbours(a)
                      /\ b \in backlog[a] => b \notin peers[a] /\ Mail'[a][b] = <<>>
                      /\ Duty'[a][b].todo \subseteq peers[a]
    BY DEF Mutual, Neighbours
  <2>1. \A x, y \in Peers : Mail[x][y] = <<>> => Mail'[x][y] = <<>>
    BY <1>5
  <2>2. Duty'[a][b].todo \subseteq peers[a]
    BY <1>4 DEF Order, Mutual
  <2> QED BY <2>1, <2>2 DEF Order, Mutual
<1>12. Sourced(side)'
  <2> SUFFICES ASSUME NEW a \in Peers, NEW b \in Peers, Duty'[a][b].todo # {}
               PROVE  \/ b = a /\ Duty'[a][b].msg[1] = a
                      \/ b \in peers[a] /\ Duty'[a][b].msg[1] \in side[b][a]
    BY DEF Sourced
  <2>1. CASE a = p /\ b = q
    BY <1>4, <2>1
  <2>2. CASE ~(a = p /\ b = q)
    BY <1>4, <2>2 DEF Order, Sourced
  <2> QED BY <2>1, <2>2
<1>13. Unseen(side)'
  <2> SUFFICES ASSUME NEW a \in Peers, NEW b \in Peers
               PROVE  /\ status[a] = "off" => shown'[a][b] = <<>> /\ shown'[b][a] = <<>>
                      /\ status[b] = "up" /\ b \in backlog[a] =>
                           \A o \in side[a][b] : shown'[b][o] = <<>>
    BY DEF Unseen
  <2>1. status[m[1]] # "off"
    BY DEF Net, Tree
  <2>2. status[a] = "off" => shown'[a][b] = <<>> /\ shown'[b][a] = <<>>
    <3> SUFFICES ASSUME status[a] = "off" PROVE shown'[a][b] = <<>> /\ shown'[b][a] = <<>>
      OBVIOUS
    <3>1. a # p /\ a # m[1] /\ shown[a][b] = <<>> /\ shown[b][a] = <<>>
      BY <2>1 DEF Order, Unseen
    <3>2. shown'[a][b] = <<>>
      BY <1>2, <3>1
    <3>3. shown'[b][a] = <<>>
      BY <1>2, <1>3, <3>1
    <3> QED BY <3>2, <3>3
  <2>3. ASSUME status[b] = "up", b \in backlog[a], NEW o \in side[a][b]
        PROVE  shown'[b][o] = <<>>
    <3>1. shown[b][o] = <<>> /\ o \in Peers
      BY <2>3 DEF Order, Unseen, Sides
    <3>2. CASE b = p
      <4>1. a \in Neighbours(p) /\ Mail[a][p] = <<>>
        BY <2>3, <3>2 DEF Order, Mutual, Neighbours
      <4>2. o # m[1]
        BY <1>5, <1>6, <2>3, <3>2, <4>1
      <4> QED BY <1>3, <3>1, <3>2, <4>2
    <3> QED BY <1>2, <3>1, <3>2
  <2> QED BY <2>2, <2>3
<1>14. InOrder'
  <2> SUFFICES ASSUME NEW a \in Peers, NEW b \in Peers PROVE InStream(Mail'[a][b], shown'[b])
    BY DEF InOrder
  <2>1. InStream(Mail[a][b], shown[b]) /\ Mail[a][b] \in Seq(Messages)
    BY DEF Order, InOrder, Net, Types
  <2>2. CASE b # p
    BY <1>2, <1>5, <2>1, <2>2
  <2>3. CASE b = p /\ a = q /\ q # p
    <3>1. PICK l, S, T : l = Mail[q][p] /\ S = shown[p] /\ T = shown'[p]
      OBVIOUS
    <3>2. /\ l \in Seq(Messages) /\ l # <<>> /\ InStream(l, S) /\ Mail'[q][p] = Tail(l)
          /\ \A o \in Peers : S[o] \in Seq(1..MaxSays)
          /\ Shows(S, T, Head(l))
      BY <1>2, <1>5, <2>1, <2>3, <3>1
    <3>3. InStream(Tail(l), T)
      BY <3>2, StreamTail
    <3> QED BY <2>3, <3>1, <3>2, <3>3
  <2>4. CASE b = p /\ (a # q \/ q = p)
    <3>1. Mail'[a][p] = Mail[a][p]
      BY <1>5, <2>4
    <3>2. \A i \in 1..Len(Mail[a][p]) : shown[p][Mail[a][p][i][1]] = shown'[p][Mail[a][p][i][1]]
      <4>1. \A i \in 1..Len(Mail[a][p]) : Mail[a][p][i][1] \in Peers
        BY <2>1, <2>4 DEF Messages
      <4> QED BY <1>3, <1>8, <2>4, <4>1
    <3> QED BY <2>1, <2>4, <3>1, <3>2, StreamOther
  <2> QED BY <2>2, <2>3, <2>4
(* Streams that are not read, or of another origin, are due as before.     *)
<1>15. ASSUME NEW a \in Peers, NEW b \in Peers, NEW o \in Peers, o \in side[a][b],
              a = p => o # m[1], a = p \/ b \in peers[a], b # p \/ a # p
       PROVE  /\ shown'[a][o] = shown[a][o]
              /\ status[b] = "up" => \A k \in Nat :
                   FitsNext(Mail[a][b], o, k, shown[b]) => FitsNext(Mail'[a][b], o, k, shown'[b])
  <2>1. shown'[a][o] = shown[a][o]
    BY <1>2, <1>3, <1>15
  <2>2. CASE b # p
    BY <1>2, <1>5, <2>1, <2>2
  <2>3. CASE b = p /\ a = q
    <3>1. /\ Mail[q][p] \in Seq(Messages) /\ Mail[q][p] # <<>> /\ InStream(Mail[q][p], shown[p])
          /\ Mail'[q][p] = Tail(Mail[q][p]) /\ m = Head(Mail[q][p])
      BY <1>5, <1>15, <2>3 DEF Order, InOrder, Net, Types
    <3>2. PICK l, S, T : l = Mail[q][p] /\ S = shown[p] /\ T = shown'[p]
      OBVIOUS
    <3>3. /\ l \in Seq(Messages) /\ l # <<>> /\ InStream(l, S) /\ Mail'[q][p] = Tail(l)
          /\ \A x \in Peers : S[x] \in Seq(1..MaxSays)
          /\ Shows(S, T, Head(l))
      BY <1>2, <3>1, <3>2
    <3>4. \A k \in Nat : FitsNext(l, o, k, S) => FitsNext(Tail(l), o, k, T)
      BY <3>3, StreamTail
    <3> QED BY <2>1, <2>3, <3>2, <3>3, <3>4
  <2>4. CASE b = p /\ a # q
    <3>1. a \in Neighbours(p)
      BY <1>15, <2>4 DEF Order, Mutual, Neighbours
    <3>2. o # m[1] /\ Mail'[a][b] = Mail[a][b]
      BY <1>5, <1>6, <1>15, <2>4, <3>1
    <3>3. shown'[b][o] = shown[b][o]
      BY <1>3, <2>4, <3>2
    <3> QED BY <2>1, <3>2, <3>3 DEF FitsNext, Fits
  <2> QED BY <2>2, <2>3, <2>4
<1>16. Passing'
  <2> SUFFICES ASSUME NEW a \in Peers, NEW b \in Peers, status[b] = "up",
                      NEW r \in Peers, b \in Duty'[a][r].todo
               PROVE  Due(shown'[a], Mail'[a][b], shown'[b], Duty'[a][r].msg)
    BY DEF Passing
  <2>1. CASE a = p /\ r = q
    <3>1. b \in peers[p] /\ b \in Neighbours(p) /\ b # q /\ b # p /\ m[1] \in side[p][b]
      BY <1>4, <1>6, <2>1 DEF Neighbours
    <3>2. ~Pending(p, b, m[1])
      BY <1>9 DEF Pending
    <3>3. UpToDate(shown[p], Mail[p][b], shown[b], m[1])
      BY <3>1, <3>2 DEF Order, Ready
    <3>4. FitsNext(Mail[p][b], m[1], m[2], shown[b])
      BY <1>1, <3>3 DEF UpToDate
    <3>5. Latest(shown'[p][m[1]], m[2])
      <4>1. PICK s \in Seq(1..MaxSays) : s = shown[p][m[1]]
        BY <1>1, <1>2
      <4>2. Latest(Append(s, m[2]), m[2])
        BY <1>1, LastAppended DEF Latest
      <4> QED BY <1>2, <4>1, <4>2
    <3>6. Mail'[p][b] = Mail[p][b] /\ shown'[b] = shown[b]
      BY <1>2, <1>5, <3>1
    <3> QED BY <1>4, <2>1, <3>4, <3>5, <3>6 DEF Due
  <2>2. CASE a # p \/ r # q
    <3>1. PICK n : n = Duty[a][r].msg
      OBVIOUS
    <3>2. b \in Duty[a][r].todo /\ Duty'[a][r].msg = n
      BY <1>4, <2>2, <3>1
    <3>3. n \in Messages /\ n[1] \in side[a][b] /\ b \in peers[a]
      BY <3>1, <3>2 DEF Net, Typed, Directed, Order, Mutual
    <3>4. n[1] \in Peers /\ n[2] \in Nat
      BY <3>3 DEF Messages
    <3>5. Due(shown[a], Mail[a][b], shown[b], n)
      BY <3>1, <3>2 DEF Order, Passing
    <3>6. a = p => n[1] # m[1]
      BY <1>9, <3>1, <3>2
    <3>7. b # p \/ a # p
      BY <1>6, <3>3 DEF Neighbours
    <3>8. /\ shown'[a][n[1]] = shown[a][n[1]]
          /\ FitsNext(Mail[a][b], n[1], n[2], shown[b]) =>
               FitsNext(Mail'[a][b], n[1], n[2], shown'[b])
      BY <1>15, <3>3, <3>4, <3>6, <3>7
    <3> QED BY <3>2, <3>5, <3>8 DEF Due
  <2> QED BY <2>1, <2>2
<1>17. Ready(side)'
  <2> SUFFICES ASSUME NEW a \in Peers, NEW b \in Peers, status[b] = "up", b \in peers[a],
                      NEW o \in side[a][b]
               PROVE  Pending(a, b, o)' \/ UpToDate(shown'[a], Mail'[a][b], shown'[b], o)
    BY DEF Ready
  <2>1. Pending(a, b, o) \/ UpToDate(shown[a], Mail[a][b], shown[b], o)
    BY DEF Order, Ready
  <2>2. CASE Pending(a, b, o)
    BY <1>4, <2>2 DEF Pending
  <2>3. CASE a = p /\ o = m[1]
    <3>1. b # q
      BY <1>7, <2>3
    <3>2. b \in Duty'[p][q].todo /\ Duty'[p][q].msg[1] = o
      BY <1>4, <2>3, <3>1
    <3> QED BY <2>3, <3>2 DEF Pending
  <2>4. CASE UpToDate(shown[a], Mail[a][b], shown[b], o) /\ (a = p => o # m[1])
    <3>1. o \in Peers /\ (b # p \/ a # p)
      BY <1>6 DEF Sides, Neighbours
    <3>2. /\ shown'[a][o] = shown[a][o]
          /\ \A k \in Nat :
               FitsNext(Mail[a][b], o, k, shown[b]) => FitsNext(Mail'[a][b], o, k, shown'[b])
      BY <1>15, <2>4, <3>1
    <3> QED BY <2>4, <3>2 DEF UpToDate
  <2> QED BY <2>1, <2>2, <2>3, <2>4
<1>18. Numbered'
  <2> SUFFICES ASSUME NEW a \in Peers, NEW o \in Peers, NEW i \in 1..Len(shown'[a][o])
               PROVE  /\ o = a => shown'[a][o][i] = i
                      /\ i # 1 => shown'[a][o][i] = shown'[a][o][i - 1] + 1
    BY DEF Numbered
  <2>1. CASE ~(a = p /\ o = m[1])
    <3>1. shown'[a][o] = shown[a][o]
      BY <1>2, <1>3, <2>1
    <3> QED BY <3>1 DEF Order, Numbered
  <2>2. CASE a = p /\ o = m[1]
    <3>1. PICK s \in Seq(1..MaxSays) : s = shown[p][m[1]]
      BY <1>1, <1>2
    <3>2. /\ shown'[a][o] = Append(s, m[2]) /\ i \in 1..(Len(s) + 1) /\ Len(s) \in Nat
          /\ Continues(s, m[2])
      <4>1. shown'[a][o] = Append(s, m[2]) /\ Continues(s, m[2])
        BY <1>2, <2>2, <3>1
      <4>2. Len(Append(s, m[2])) = Len(s) + 1 /\ Len(s) \in Nat
        BY <1>1
      <4> QED BY <4>1, <4>2
    <3>3. \A j \in 1..Len(s) : /\ o = p => s[j] = j
                               /\ j # 1 => s[j] = s[j - 1] + 1
      <4>1. \A j \in 1..Len(shown[p][o]) : /\ o = p => shown[p][o][j] = j
                                           /\ j # 1 => shown[p][o][j] = shown[p][o][j - 1] + 1
        BY DEF Order, Numbered
      <4>2. s = shown[p][o]
        BY <2>2, <3>1
      <4> QED BY <4>1, <4>2
    <3>4. m[1] = p => m[2] = Len(s) + 1
      BY <3>1 DEF Net, Tree
    <3>5. CASE i \in 1..Len(s)
      <4>1. Append(s, m[2])[i] = s[i] /\ (i # 1 => Append(s, m[2])[i - 1] = s[i - 1])
        BY <1>1, <3>5
      <4> QED BY <2>2, <3>2, <3>3, <3>5, <4>1
    <3>6. CASE i = Len(s) + 1
      <4>1. Append(s, m[2])[i] = m[2]
        BY <1>1, <3>6
      <4>2. i # 1 => /\ s # <<>> /\ i - 1 = Len(s) /\ Append(s, m[2])[i - 1] = s[Len(s)]
        BY <1>1, <3>2, <3>6
      <4> QED BY <2>2, <3>2, <3>4, <3>6, <4>1, <4>2 DEF Continues
    <3> QED BY <3>2, <3>5, <3>6
  <2> QED BY <2>1, <2>2
<1> QED BY <1>10, <1>11, <1>12, <1>13, <1>14, <1>16, <1>17, <1>18 DEF Order

LEMMA SayOrder ==
  ASSUME NEW side \in Sides, Net(side), Order(side), NEW p \in Peers, W!Say(p)
  PROVE  Order(side)'
<1>1. PICK m : m = <<p, Len(shown[p][p]) + 1>>
  OBVIOUS
<1>2. /\ status[p] = "up" /\ Duty[p][p].todo = {} /\ Len(shown[p][p]) < MaxSays
      /\ W!ShowAndForward(p, p, m) /\ UNCHANGED <<status, peers, backlog, Mail>>
  BY <1>1 DEF W!Say, W!Up
<1>3. shown[p][p] \in Seq(1..MaxSays) /\ Len(shown[p][p]) \in Nat
  BY Streams DEF Net
<1>4. m \in Messages /\ m[1] = p /\ m[2] = Len(shown[p][p]) + 1
  BY <1>1, <1>2, <1>3 DEF Messages
<1>5. Continues(shown[p][m[1]], m[2])
  <2>1. CASE shown[p][p] # <<>>
    <3>1. Len(shown[p][p]) \in 1..Len(shown[p][p])
      BY <1>3, <2>1
    <3>2. shown[p][p][Len(shown[p][p])] = Len(shown[p][p])
      BY <3>1 DEF Order, Numbered
    <3> QED BY <1>4, <3>2 DEF Continues
  <2> QED BY <1>4, <2>1 DEF Continues
<1> QED BY <1>1, <1>2, <1>4, <1>5, ShowOrder

LEMMA ReceiveOrder ==
  ASSUME NEW side \in Sides, Net(side), Order(side), NEW p \in Peers, NEW q \in Peers,
         W!Receive(p, q)
  PROVE  Order(side)'
<1>1. PICK l, m : l = Mail[q][p] /\ m = Head(Mail[q][p])
  OBVIOUS
<1>2. /\ status[p] = "up" /\ Duty[p][q].todo = {} /\ q \in peers[p] /\ l # <<>>
      /\ W!ShowAndForward(p, q, m) /\ Mail' = [Mail EXCEPT ![q][p] = Tail(@)]
      /\ UNCHANGED <<status, peers, backlog>>
  BY <1>1 DEF W!Receive, W!Up
<1>3. l \in Seq(Messages)
  BY <1>1, Streams DEF Net
<1>4. m = l[1] /\ m \in Messages /\ 1 \in 1..Len(l)
  BY <1>1, <1>2, <1>3
<1>5. m[1] \in side[q][p]
  BY <1>1, <1>4 DEF Net, Directed
<1>6. Continues(shown[p][m[1]], m[2])
  <2>1. Fits(l, 1, m[1], m[2], shown[p])
    BY <1>1, <1>4 DEF Order, InOrder, InStream
  <2>2. 1..(1 - 1) = {}
    OBVIOUS
  <2> QED BY <2>1, <2>2 DEF Fits
<1> QED BY <1>1, <1>2, <1>4, <1>5, <1>6, ShowOrder

LEMMA OrderStutter ==
  ASSUME NEW side \in Sides, Order(side), UNCHANGED W!vars PROVE Order(side)'
<1>1. (Apart(side) /\ Mutual /\ Sourced(side) /\ Unseen(side))'
  BY DEF W!vars, Order, Apart, Mutual, Neighbours, Sourced, Unseen
<1>2. (InOrder /\ Passing /\ Ready(side) /\ Numbered)'
  BY DEF W!vars, Order, InOrder, Passing, Ready, Pending, Numbered
<1> QED BY <1>1, <1>2 DEF Order
-----------------------------------------------------------------------------
(* The invariant.                                                          *)
NetInv == \E side \in Sides : Net(side) /\ Order(side)

LEMMA NetNext == NetInv /\ [W!Next]_W!vars => NetInv'
<1> SUFFICES ASSUME NEW side \in Sides, Net(side), Order(side), [W!Next]_W!vars
             PROVE  \E new \in Sides : Net(new)' /\ Order(new)'
  BY DEF NetInv
<1>1. CASE UNCHANGED W!vars
  BY <1>1, NetStutter, OrderStutter
<1>2. ASSUME NEW p \in Peers, W!Start(p) PROVE Net(side)' /\ Order(side)'
  BY <1>2, StartStep, StartOrder
<1>3. ASSUME NEW p \in Peers, W!Say(p) PROVE Net(side)' /\ Order(side)'
  BY <1>3, SayStep, SayOrder
<1>4. ASSUME NEW p \in Peers, NEW how \in {"left", "killed"}, W!End(p, how)
      PROVE  Net(side)' /\ Order(side)'
  BY <1>4, EndStep, EndOrder
<1>5. ASSUME NEW p \in Peers, NEW q \in Peers, W!Connect(p, q)
      PROVE  \E new \in Sides : Net(new)' /\ Order(new)'
  <2>1. PICK new \in Sides : Grown(side, p, q, new) /\ Net(new)'
    BY <1>5, ConnectStep
  <2>2. Order(new)'
    BY <1>5, <2>1, ConnectOrder
  <2> QED BY <2>1, <2>2
<1>6. ASSUME NEW p \in Peers, NEW q \in Peers, W!Accept(p, q) PROVE Net(side)' /\ Order(side)'
  BY <1>6, AcceptStep, AcceptOrder
<1>7. ASSUME NEW p \in Peers, NEW q \in Peers, W!Receive(p, q) PROVE Net(side)' /\ Order(side)'
  BY <1>7, ReceiveStep, ReceiveOrder
<1>8. ASSUME NEW p \in Peers, NEW q \in Peers, W!Disconnect(p, q) PROVE Net(side)' /\ Order(side)'
  BY <1>8, DisconnectStep, DisconnectOrder
<1>9. ASSUME NEW p \in Peers, NEW q \in Peers,
         NEW r \in Peers, W!Forward(p, q, r)
      PROVE  Net(side)' /\ Order(side)'
  BY <1>9, ForwardStep, ForwardOrder
<1> QED BY <1>1, <1>2, <1>3, <1>4, <1>5, <1>6, <1>7, <1>8, <1>9 DEF W!Next

LEMMA NetInvariant == W!Spec => []NetInv
<1>1. W!Init => NetInv
  BY NetInit DEF NetInv
<1> QED BY <1>1, NetNext, PTL DEF W!Spec
-----------------------------------------------------------------------------
(* The parts.  Only the last message of a connection is incomplete, and it *)
(* is the one that some thread is in the middle of; a receiver has read no *)
(* more than was written; and a walk stands at one node at most.           *)
Sent == [msg : Messages, sent : 1..Parts]
Walk == [msg : Messages \cup {<<>>}, at : SUBSET Peers, part : 0..Parts, todo : SUBSET Peers]

PartTypes ==
  /\ status \in [Peers -> {"off", "up", "left", "killed"}]
  /\ peers \in [Peers -> SUBSET Peers] /\ backlog \in [Peers -> SUBSET Peers]
  /\ link \in [Peers -> [Peers -> Seq(Sent)]] /\ got \in [Peers -> [Peers -> 0..Parts]]
  /\ task \in [Peers -> [Peers -> Walk]]
  /\ shown \in [Peers -> [Peers -> Seq(1..MaxSays)]] /\ broken \in BOOLEAN

ButLast(l) == \A i \in 1..(Len(l) - 1) : l[i].sent = Parts
Finished(l) == \A i \in 1..Len(l) : l[i].sent = Parts

InTurn == \A p, r \in Peers : ButLast(link[p][r])

HasRead(l, n) == IF l = <<>> THEN n = 0 ELSE n <= l[1].sent
ReadSoFar == \A p, r \in Peers : HasRead(link[p][r], got[r][p])

Stands(w) == /\ \A r \in w.at : w.at = {r} /\ r \notin w.todo /\ w.msg \in Messages
             /\ w.at = {} => w.todo = {}
OnePlace == \A p, t \in Peers : Stands(task[p][t])

EndsWith(l, m, n) == l # <<>> /\ l[Len(l)] = [msg |-> m, sent |-> n]
UnderWay == \A p, t, r \in Peers : ~Gone(p) /\ ~Gone(r) /\ Amid(p, t, r) =>
              EndsWith(link[p][r], task[p][t].msg, task[p][t].part)
SomebodyAt == \A p, r \in Peers : ~Gone(p) /\ ~Gone(r) /\ ~Finished(link[p][r]) =>
                \E t \in Peers : Amid(p, t, r)

PartInv == PartTypes /\ InTurn /\ ReadSoFar /\ OnePlace /\ UnderWay /\ SomebodyAt

LEMMA PartsPositive == Parts \in Nat /\ Parts >= 1
BY ChatAssumption

USE PartsPositive

LEMMA SameSeq ==
  ASSUME NEW S, NEW s \in Seq(S), NEW t \in Seq(S), Len(s) = Len(t),
         \A i \in 1..Len(s) : s[i] = t[i]
  PROVE  s = t
OBVIOUS

(* The complete messages of a stream: all, or all but the last.            *)
LEMMA CompleteIs ==
  ASSUME NEW l \in Seq(Sent), ButLast(l)
  PROVE  /\ Complete(l) \in Seq(Messages) /\ Len(l) \in Nat
         /\ Finished(l) => Len(Complete(l)) = Len(l)
         /\ ~Finished(l) => /\ Len(Complete(l)) = Len(l) - 1 /\ Len(l) >= 1
                            /\ l[Len(l)].sent < Parts
         /\ \A i \in 1..Len(Complete(l)) : i \in 1..Len(l) /\ Complete(l)[i] = l[i].msg
<1>1. Len(l) \in Nat /\ \A i \in 1..Len(l) : l[i] \in Sent
  OBVIOUS
<1>2. \A i \in 1..Len(l) : l[i].msg \in Messages /\ l[i].sent \in 1..Parts
  BY <1>1 DEF Sent
<1>3. PICK n : n = IF Len(l) > 0 /\ l[Len(l)].sent < Parts THEN Len(l) - 1 ELSE Len(l)
  OBVIOUS
<1>4. Complete(l) = [i \in 1..n |-> l[i].msg]
  BY <1>3 DEF Complete
<1>5. n \in Nat /\ n <= Len(l) /\ \A i \in 1..n : i \in 1..Len(l)
  BY <1>1, <1>3
<1>6. /\ Complete(l) \in Seq(Messages) /\ Len(Complete(l)) = n
      /\ \A i \in 1..n : Complete(l)[i] = l[i].msg
  BY <1>2, <1>4, <1>5
<1>7. Finished(l) => n = Len(l)
  <2>1. Len(l) > 0 => Len(l) \in 1..Len(l)
    BY <1>1
  <2> QED BY <1>3, <2>1 DEF Finished
<1>8. ~Finished(l) => n = Len(l) - 1 /\ Len(l) >= 1 /\ l[Len(l)].sent < Parts
  <2> SUFFICES ASSUME NEW i \in 1..Len(l), l[i].sent # Parts
               PROVE  n = Len(l) - 1 /\ Len(l) >= 1 /\ l[Len(l)].sent < Parts
    BY DEF Finished
  <2>1. i = Len(l)
    BY <1>1 DEF ButLast
  <2> QED BY <1>1, <1>2, <1>3, <2>1
<1> QED BY <1>1, <1>5, <1>6, <1>7, <1>8

LEMMA CompleteAppend ==
  ASSUME NEW l \in Seq(Sent), Finished(l), NEW e \in Sent
  PROVE  /\ Append(l, e) \in Seq(Sent) /\ ButLast(Append(l, e))
         /\ EndsWith(Append(l, e), e.msg, e.sent)
         /\ e.sent = Parts => Finished(Append(l, e))
         /\ Complete(Append(l, e)) = IF e.sent < Parts THEN Complete(l)
                                     ELSE Append(Complete(l), e.msg)
         /\ Append(l, e)[1].sent >= (IF l = <<>> THEN 1 ELSE l[1].sent)
<1>1. PICK a : a = Append(l, e)
  OBVIOUS
<1>2. /\ Len(l) \in Nat /\ a \in Seq(Sent) /\ Len(a) = Len(l) + 1 /\ a[Len(l) + 1] = e
      /\ \A i \in 1..Len(l) : a[i] = l[i] /\ i \in 1..Len(a)
  BY <1>1
<1>3. e.msg \in Messages /\ e.sent \in 1..Parts /\ e = [msg |-> e.msg, sent |-> e.sent]
  BY DEF Sent
<1>4. ButLast(l) /\ ButLast(a)
  BY <1>2 DEF ButLast, Finished
<1>5. EndsWith(a, e.msg, e.sent)
  BY <1>2, <1>3 DEF EndsWith
<1>6. Finished(a) <=> e.sent = Parts
  <2>1. \A i \in 1..Len(a) : i \in 1..Len(l) \/ i = Len(l) + 1
    BY <1>2
  <2>2. Len(l) + 1 \in 1..Len(a)
    BY <1>2
  <2> QED BY <1>2, <2>1, <2>2 DEF Finished
<1>7. /\ Complete(l) \in Seq(Messages) /\ Len(Complete(l)) = Len(l)
      /\ \A i \in 1..Len(l) : Complete(l)[i] = l[i].msg
  BY <1>4, CompleteIs
<1>8. /\ Complete(a) \in Seq(Messages)
      /\ Len(Complete(a)) = IF e.sent < Parts THEN Len(l) ELSE Len(l) + 1
      /\ \A i \in 1..Len(Complete(a)) : Complete(a)[i] = a[i].msg
  BY <1>2, <1>3, <1>4, <1>6, CompleteIs
<1>9. a[1].sent >= (IF l = <<>> THEN 1 ELSE l[1].sent)
  <2>1. CASE l = <<>>
    <3>1. a[1] = e
      BY <1>2, <2>1
    <3> QED BY <1>3, <2>1, <3>1
  <2>2. CASE l # <<>>
    <3>1. a[1] = l[1] /\ l[1] \in Sent
      BY <1>2, <2>2
    <3> QED BY <2>2, <3>1 DEF Sent
  <2> QED BY <2>1, <2>2
<1>10. CASE e.sent < Parts
  <2>1. \A i \in 1..Len(Complete(a)) : Complete(a)[i] = Complete(l)[i]
    BY <1>2, <1>7, <1>8, <1>10
  <2>2. Complete(a) = Complete(l)
    BY <1>7, <1>8, <1>10, <2>1, SameSeq
  <2> QED BY <1>1, <1>2, <1>4, <1>5, <1>6, <1>10, <1>9, <2>2
<1>11. CASE ~(e.sent < Parts)
  <2>1. PICK c : c = Append(Complete(l), e.msg)
    OBVIOUS
  <2>2. /\ c \in Seq(Messages) /\ Len(c) = Len(l) + 1 /\ c[Len(l) + 1] = e.msg
        /\ \A i \in 1..Len(l) : c[i] = Complete(l)[i]
    BY <1>2, <1>3, <1>7, <2>1
  <2>3. \A i \in 1..Len(c) : i \in 1..Len(l) \/ i = Len(l) + 1
    BY <1>2, <2>2
  <2>4. \A i \in 1..Len(c) : Complete(a)[i] = c[i]
    BY <1>2, <1>7, <1>8, <1>11, <2>2, <2>3
  <2>5. Complete(a) = c
    BY <1>8, <1>11, <2>2, <2>4, SameSeq
  <2> QED BY <1>1, <1>2, <1>4, <1>5, <1>6, <1>11, <1>9, <2>1, <2>5
<1> QED BY <1>10, <1>11

LEMMA GrowIs ==
  ASSUME NEW l \in Seq(Sent), ButLast(l), l # <<>>, l[Len(l)].sent < Parts,
         NEW e \in Sent, e.msg = l[Len(l)].msg, e.sent >= l[Len(l)].sent,
         NEW a \in Seq(Sent), Len(a) = Len(l), a[Len(l)] = e,
         \A i \in 1..(Len(l) - 1) : a[i] = l[i]
  PROVE  /\ ButLast(a) /\ EndsWith(a, e.msg, e.sent)
         /\ e.sent = Parts => Finished(a)
         /\ Complete(a) = IF e.sent < Parts THEN Complete(l) ELSE Append(Complete(l), e.msg)
         /\ a[1].sent >= l[1].sent
<1>1. /\ Len(l) \in Nat /\ Len(l) >= 1 /\ Len(l) \in 1..Len(l)
      /\ \A i \in 1..Len(l) : l[i] \in Sent
  OBVIOUS
<1>2. e.msg \in Messages /\ e.sent \in 1..Parts /\ e = [msg |-> e.msg, sent |-> e.sent]
  BY DEF Sent
<1>3. a # <<>>
  BY <1>1
<1>4. \A i \in 1..Len(l) : i \in 1..(Len(l) - 1) \/ i = Len(l)
  BY <1>1
<1>5. ButLast(a)
  BY DEF ButLast
<1>6. Finished(a) <=> e.sent = Parts
  BY <1>1, <1>4 DEF Finished, ButLast
<1>7. ~Finished(l)
  BY <1>1 DEF Finished
<1>8. /\ Complete(l) \in Seq(Messages) /\ Len(Complete(l)) = Len(l) - 1
      /\ \A i \in 1..(Len(l) - 1) : Complete(l)[i] = l[i].msg
  BY <1>7, CompleteIs
<1>9. PICK b : b = Complete(a)
  OBVIOUS
<1>10. /\ b \in Seq(Messages)
       /\ Finished(a) => Len(b) = Len(l)
       /\ ~Finished(a) => Len(b) = Len(l) - 1
       /\ \A i \in 1..Len(b) : b[i] = a[i].msg
  BY <1>5, <1>9, CompleteIs
<1>11. a[1].sent >= l[1].sent
  <2>1. CASE Len(l) = 1
    BY <2>1
  <2>2. CASE Len(l) # 1
    <3>1. 1 \in 1..(Len(l) - 1)
      BY <1>1, <2>2
    <3>2. 1 \in 1..Len(l)
      BY <1>1
    <3>3. l[1].sent \in Nat
      BY <1>1, <3>2 DEF Sent
    <3> QED BY <3>1, <3>3
  <2> QED BY <2>1, <2>2
<1>12. EndsWith(a, e.msg, e.sent)
  BY <1>2, <1>3 DEF EndsWith
<1>13. CASE e.sent < Parts
  <2>1. Len(b) = Len(l) - 1
    BY <1>2, <1>6, <1>10, <1>13
  <2>2. \A i \in 1..Len(b) : b[i] = Complete(l)[i]
    BY <1>8, <1>10, <2>1
  <2>3. b = Complete(l)
    BY <1>8, <1>10, <2>1, <2>2, SameSeq
  <2> QED BY <1>2, <1>5, <1>9, <1>11, <1>12, <1>13, <2>3
<1>14. CASE e.sent = Parts
  <2>1. PICK c : c = Append(Complete(l), e.msg)
    OBVIOUS
  <2>2. /\ c \in Seq(Messages) /\ Len(c) = Len(l) /\ c[Len(l)] = e.msg
        /\ \A i \in 1..(Len(l) - 1) : c[i] = Complete(l)[i]
    BY <1>1, <1>2, <1>8, <2>1
  <2>3. Len(b) = Len(l)
    BY <1>6, <1>10, <1>14
  <2>4. ASSUME NEW i \in 1..Len(b) PROVE b[i] = c[i]
    <3>1. b[i] = a[i].msg /\ i \in 1..Len(l)
      BY <1>10, <2>3
    <3>2. CASE i \in 1..(Len(l) - 1)
      BY <1>8, <2>2, <3>1, <3>2
    <3>3. CASE i = Len(l)
      BY <2>2, <3>1, <3>3
    <3> QED BY <1>4, <3>1, <3>2, <3>3
  <2>5. b = c
    BY <1>10, <2>2, <2>3, <2>4, SameSeq
  <2> QED BY <1>2, <1>5, <1>6, <1>9, <1>11, <1>12, <1>14, <2>1, <2>5
<1> QED BY <1>2, <1>13, <1>14

LEMMA GrowSent ==
  ASSUME NEW e \in Sent, NEW k \in 1..Parts
  PROVE  LET f == [e EXCEPT !.sent = k] IN f \in Sent /\ f.msg = e.msg /\ f.sent = k
BY DEF Sent

LEMMA CompleteGrow ==
  ASSUME NEW l \in Seq(Sent), ButLast(l), l # <<>>, l[Len(l)].sent < Parts, NEW k \in 1..Parts,
         k >= l[Len(l)].sent
  PROVE  LET a == [l EXCEPT ![Len(l)].sent = k]
         IN  /\ a \in Seq(Sent) /\ ButLast(a) /\ EndsWith(a, l[Len(l)].msg, k)
             /\ k = Parts => Finished(a)
             /\ Complete(a) = IF k < Parts THEN Complete(l) ELSE Append(Complete(l), l[Len(l)].msg)
             /\ a # <<>> /\ a[1].sent >= l[1].sent
<1>1. Len(l) \in 1..Len(l) /\ l[Len(l)] \in Sent
  OBVIOUS
<1>2. PICK e : e = [l[Len(l)] EXCEPT !.sent = k]
  OBVIOUS
<1>3. e \in Sent /\ e.msg = l[Len(l)].msg /\ e.sent = k
  BY <1>1, <1>2, GrowSent
<1>4. PICK a : a = [l EXCEPT ![Len(l)] = e]
  OBVIOUS
<1>5. /\ a \in Seq(Sent) /\ Len(a) = Len(l) /\ a[Len(l)] = e /\ a # <<>>
      /\ \A i \in 1..(Len(l) - 1) : a[i] = l[i]
  BY <1>1, <1>3, <1>4
<1>6. /\ ButLast(a) /\ EndsWith(a, e.msg, e.sent)
      /\ e.sent = Parts => Finished(a)
      /\ Complete(a) = IF e.sent < Parts THEN Complete(l) ELSE Append(Complete(l), e.msg)
      /\ a[1].sent >= l[1].sent
  BY <1>3, <1>5, GrowIs
<1>7. a = [l EXCEPT ![Len(l)].sent = k]
  BY <1>2, <1>4
<1> QED BY <1>3, <1>5, <1>6, <1>7

(* The first message is taken.                                             *)
LEMMA CompleteTail ==
  ASSUME NEW l \in Seq(Sent), ButLast(l), l # <<>>, l[1].sent = Parts
  PROVE  /\ Tail(l) \in Seq(Sent) /\ ButLast(Tail(l)) /\ HasRead(Tail(l), 0)
         /\ Finished(l) => Finished(Tail(l))
         /\ \A m, n : EndsWith(l, m, n) /\ n < Parts => EndsWith(Tail(l), m, n)
         /\ Complete(l) # <<>> /\ Head(Complete(l)) = l[1].msg /\ l[1].msg \in Messages
         /\ Complete(Tail(l)) = Tail(Complete(l))
<1>1. PICK t : t = Tail(l)
  OBVIOUS
<1>2. /\ Len(l) \in Nat /\ Len(l) >= 1 /\ t \in Seq(Sent) /\ Len(t) = Len(l) - 1
      /\ \A i \in 1..Len(t) : t[i] = l[i + 1]
  BY <1>1
<1>3. ButLast(t)
  BY <1>2 DEF ButLast
<1>4. Finished(l) <=> Finished(t)
  <2>1. Finished(l) => Finished(t)
    BY <1>2 DEF Finished
  <2>2. ASSUME Finished(t), NEW i \in 1..Len(l) PROVE l[i].sent = Parts
    <3>1. CASE i = 1
      BY <3>1
    <3>2. CASE i # 1
      <4>1. i - 1 \in 1..Len(t) /\ l[i] = t[i - 1]
        BY <1>2, <3>2
      <4> QED BY <2>2, <4>1 DEF Finished
    <3> QED BY <3>1, <3>2
  <2> QED BY <2>1, <2>2 DEF Finished
<1>5. ASSUME NEW m, NEW n, EndsWith(l, m, n), n < Parts
      PROVE  EndsWith(t, m, n)
  <2>1. l[Len(l)].sent = n /\ n # Parts
    BY <1>5 DEF EndsWith
  <2>2. Len(l) # 1
    BY <2>1
  <2>3. Len(t) \in 1..Len(t) /\ t[Len(t)] = l[Len(l)] /\ t # <<>>
    BY <1>2, <2>2
  <2> QED BY <1>5, <2>3 DEF EndsWith
<1>6. HasRead(t, 0)
  <2>1. t # <<>> => t[1] \in Sent
    BY <1>2
  <2> QED BY <2>1 DEF HasRead, Sent
<1>7. PICK c : c = Complete(l)
  OBVIOUS
<1>8. /\ c \in Seq(Messages)
      /\ Len(c) = IF Finished(l) THEN Len(l) ELSE Len(l) - 1
      /\ \A i \in 1..Len(c) : c[i] = l[i].msg
  BY <1>7, CompleteIs
<1>9. Len(c) >= 1
  <2>1. ~Finished(l) => l[Len(l)].sent < Parts
    BY CompleteIs
  <2>2. ~Finished(l) => Len(l) # 1
    BY <2>1
  <2> QED BY <1>2, <1>8, <2>2
<1>10. /\ Tail(c) \in Seq(Messages) /\ Len(Tail(c)) = Len(c) - 1 /\ c # <<>>
       /\ \A i \in 1..Len(Tail(c)) : Tail(c)[i] = c[i + 1]
       /\ Head(c) = c[1] /\ 1 \in 1..Len(c) /\ c[1] \in Messages
  BY <1>8, <1>9
<1>11. /\ Complete(t) \in Seq(Messages)
       /\ Len(Complete(t)) = IF Finished(t) THEN Len(t) ELSE Len(t) - 1
       /\ \A i \in 1..Len(Complete(t)) : i \in 1..Len(t) /\ Complete(t)[i] = t[i].msg
  BY <1>2, <1>3, CompleteIs
<1>12. Complete(t) = Tail(c)
  <2>1. Len(Complete(t)) = Len(Tail(c))
    BY <1>2, <1>4, <1>8, <1>10, <1>11
  <2>2. ASSUME NEW i \in 1..Len(Complete(t)) PROVE Complete(t)[i] = Tail(c)[i]
    <3>1. Complete(t)[i] = l[i + 1].msg
      BY <1>2, <1>11
    <3>2. i \in 1..Len(Tail(c)) /\ i + 1 \in 1..Len(c)
      BY <1>8, <1>10, <2>1
    <3> QED BY <1>8, <1>10, <3>1, <3>2
  <2> QED BY <1>10, <1>11, <2>1, <2>2, SameSeq
<1> QED BY <1>1, <1>2, <1>3, <1>4, <1>5, <1>6, <1>7, <1>8, <1>10, <1>12

(* What arrives of a stream whose writer ends is a beginning of it.        *)
LEMMA CompleteArrived ==
  ASSUME NEW l \in Seq(Sent), ButLast(l), NEW g \in 0..Parts, HasRead(l, g),
         NEW a \in Arrived(l, g)
  PROVE  /\ a \in Seq(Sent) /\ ButLast(a) /\ HasRead(a, g)
         /\ Complete(a) \in W!Prefixes(Complete(l))
<1>1. /\ Len(l) \in Nat /\ \A i \in 1..Len(l) : l[i] \in Sent
      /\ \A i \in 1..Len(l) : l[i].msg \in Messages /\ l[i].sent \in 1..Parts
  <2>1. Len(l) \in Nat /\ \A i \in 1..Len(l) : l[i] \in Sent
    OBVIOUS
  <2> QED BY <2>1 DEF Sent
<1>2. /\ Complete(l) \in Seq(Messages)
      /\ Len(Complete(l)) = IF Finished(l) THEN Len(l) ELSE Len(l) - 1
      /\ ~Finished(l) => l[Len(l)].sent < Parts
      /\ \A i \in 1..Len(Complete(l)) : Complete(l)[i] = l[i].msg
  BY CompleteIs
<1>3. CASE a = <<>> /\ g = 0
  <2>1. a \in Seq(Sent) /\ ButLast(a) /\ HasRead(a, g) /\ Len(a) = 0
    BY <1>3 DEF ButLast, HasRead
  <2>2. Complete(a) \in Seq(Messages) /\ Len(Complete(a)) = 0
    <3>1. Finished(a)
      BY <2>1 DEF Finished
    <3> QED BY <2>1, <3>1, CompleteIs
  <2>3. Complete(a) = SubSeq(Complete(l), 1, 0) /\ 0 \in 0..Len(Complete(l))
    BY <1>1, <1>2, <2>2
  <2> QED BY <2>1, <2>3 DEF W!Prefixes
<1>4. ASSUME NEW n \in 1..Len(l), NEW k \in 1..l[n].sent, n = 1 => k >= g,
             a = Append(SubSeq(l, 1, n - 1), [l[n] EXCEPT !.sent = k])
      PROVE  /\ a \in Seq(Sent) /\ ButLast(a) /\ HasRead(a, g)
             /\ Complete(a) \in W!Prefixes(Complete(l))
  <2>1. PICK b : b = SubSeq(l, 1, n - 1)
    OBVIOUS
  <2>2. PICK e : e = [l[n] EXCEPT !.sent = k]
    OBVIOUS
  <2>3. e \in Sent /\ e.msg = l[n].msg /\ e.sent = k /\ k \in 1..Parts
    <3>1. l[n] \in Sent /\ k \in 1..Parts
      BY <1>1
    <3> QED BY <2>2, <3>1, GrowSent
  <2>4. /\ b \in Seq(Sent) /\ Len(b) = n - 1 /\ \A i \in 1..(n - 1) : b[i] = l[i]
        /\ a = Append(b, e)
    BY <1>1, <1>4, <2>1, <2>2
  <2>5. Finished(b)
    <3>1. \A i \in 1..(n - 1) : i \in 1..(Len(l) - 1)
      BY <1>1
    <3> QED BY <2>4, <3>1 DEF Finished, ButLast
  <2>6. /\ a \in Seq(Sent) /\ ButLast(a)
        /\ Complete(a) = IF k < Parts THEN Complete(b) ELSE Append(Complete(b), e.msg)
    BY <2>3, <2>4, <2>5, CompleteAppend
  <2>7. HasRead(a, g)
    <3>1. a # <<>> /\ (n = 1 => a[1] = e) /\ (n # 1 => a[1] = l[1])
      BY <2>3, <2>4
    <3>2. l # <<>> /\ g <= l[1].sent
      BY <1>1 DEF HasRead
    <3> QED BY <1>4, <2>3, <3>1, <3>2 DEF HasRead
  <2>8. PICK j : j = IF k < Parts THEN n - 1 ELSE n
    OBVIOUS
  <2>9. j \in 0..Len(Complete(l))
    <3>1. CASE k < Parts
      BY <1>1, <1>2, <2>8, <3>1
    <3>2. CASE k = Parts
      <4>1. l[n].sent = Parts
        BY <1>1, <3>2
      <4>2. ~Finished(l) => n # Len(l)
        BY <1>2, <4>1
      <4> QED BY <1>1, <1>2, <2>8, <3>2, <4>2
    <3> QED BY <2>3, <3>1, <3>2
  <2>10. PICK c : c = Complete(l)
    OBVIOUS
  <2>11. /\ SubSeq(c, 1, j) \in Seq(Messages) /\ Len(SubSeq(c, 1, j)) = j
         /\ \A i \in 1..j : SubSeq(c, 1, j)[i] = c[i] /\ c[i] = l[i].msg
    BY <1>2, <2>9, <2>10
  <2>12. /\ Complete(b) \in Seq(Messages) /\ Len(Complete(b)) = n - 1
         /\ \A i \in 1..(n - 1) : Complete(b)[i] = l[i].msg
    <3>1. ButLast(b)
      BY <2>4, <2>5 DEF Finished, ButLast
    <3>2. /\ Complete(b) \in Seq(Messages) /\ Len(Complete(b)) = n - 1
          /\ \A i \in 1..(n - 1) : Complete(b)[i] = b[i].msg
      BY <2>4, <2>5, <3>1, CompleteIs
    <3> QED BY <2>4, <3>2
  <2>13. Complete(a) = SubSeq(c, 1, j)
    <3>1. CASE k < Parts
      BY <2>6, <2>8, <2>11, <2>12, <3>1, SameSeq
    <3>2. CASE ~(k < Parts)
      <4>1. PICK d : d = Append(Complete(b), e.msg)
        OBVIOUS
      <4>2. /\ d \in Seq(Messages) /\ Len(d) = n /\ d[n] = l[n].msg
            /\ \A i \in 1..(n - 1) : d[i] = l[i].msg
        BY <1>1, <2>3, <2>12, <4>1
      <4>3. \A i \in 1..n : d[i] = l[i].msg
        <5>1. \A i \in 1..n : i \in 1..(n - 1) \/ i = n
          OBVIOUS
        <5> QED BY <4>2, <5>1
      <4>4. d = SubSeq(c, 1, j)
        BY <2>8, <2>11, <3>2, <4>2, <4>3, SameSeq
      <4> QED BY <2>6, <3>2, <4>1, <4>4
    <3> QED BY <3>1, <3>2
  <2> QED BY <2>6, <2>7, <2>9, <2>10, <2>13 DEF W!Prefixes
<1>5. \/ a = <<>> /\ g = 0
      \/ \E n \in 1..Len(l) : \E k \in 1..l[n].sent :
           (n = 1 => k >= g) /\ a = Append(SubSeq(l, 1, n - 1), [l[n] EXCEPT !.sent = k])
  BY DEF Arrived
<1> QED BY <1>3, <1>4, <1>5
-----------------------------------------------------------------------------
(* What a step changes, pair by pair of processes.                         *)
LEMMA Put ==
  ASSUME NEW S, NEW f \in [Peers -> [Peers -> S]], NEW p \in Peers, NEW r \in Peers,
         NEW x \in S
  PROVE  LET g == [f EXCEPT ![p][r] = x]
         IN  /\ g \in [Peers -> [Peers -> S]]
             /\ \A a, b \in Peers : g[a][b] = IF a = p /\ b = r THEN x ELSE f[a][b]
OBVIOUS

LEMMA MailSame == ASSUME link' = link PROVE Mail' = Mail
BY DEF Mail

LEMMA MailKept ==
  ASSUME \A a, b \in Peers : Complete(link'[a][b]) = Complete(link[a][b]) PROVE Mail' = Mail
BY DEF Mail

LEMMA MailChange ==
  ASSUME NEW p \in Peers, NEW r \in Peers, NEW x,
         \A a, b \in Peers : Complete(link'[a][b]) = IF a = p /\ b = r THEN x
                                                     ELSE Complete(link[a][b])
  PROVE  Mail' = [Mail EXCEPT ![p][r] = x]
BY DEF Mail

LEMMA DutySame == ASSUME task' = task PROVE Duty' = Duty
BY DEF Duty

Do(w) == [msg |-> w.msg, todo |-> ToCome(w)]

LEMMA DutyIs == /\ Duty = [a \in Peers |-> [b \in Peers |-> Do(task[a][b])]]
                /\ Duty' = [a \in Peers |-> [b \in Peers |-> Do(task'[a][b])]]
BY DEF Duty, Do

LEMMA DutyKept ==
  ASSUME \A a, b \in Peers : Do(task'[a][b]) = Do(task[a][b]) PROVE Duty' = Duty
BY DutyIs

LEMMA DutyChange ==
  ASSUME NEW p \in Peers, NEW t \in Peers, NEW x,
         \A a, b \in Peers : Do(task'[a][b]) = IF a = p /\ b = t THEN x ELSE Do(task[a][b])
  PROVE  Duty' = [Duty EXCEPT ![p][t] = x]
BY DutyIs

LEMMA OnwardIs ==
  ASSUME NEW m \in Messages \cup {<<>>}, NEW nodes \in SUBSET Peers,
         nodes # {} => m \in Messages, NEW w \in Onward(m, nodes)
  PROVE  /\ w \in Walk /\ Stands(w) /\ w.part = 0 /\ w.at \subseteq nodes
         /\ Do(w) = [msg |-> m, todo |-> nodes]
<1>1. CASE nodes = {}
  <2>1. w = [Idle EXCEPT !.msg = m]
    BY <1>1 DEF Onward
  <2>2. w = [msg |-> m, at |-> {}, part |-> 0, todo |-> {}]
    BY <2>1 DEF Idle
  <2> QED BY <1>1, <2>2 DEF Walk, Stands, Do, ToCome
<1>2. CASE nodes # {}
  <2>1. PICK r \in nodes : w = [msg |-> m, at |-> {r}, part |-> 0, todo |-> nodes \ {r}]
    BY <1>2 DEF Onward
  <2>2. w \in Walk /\ w.part = 0 /\ w.at \subseteq nodes
    BY <2>1 DEF Walk
  <2>3. Stands(w)
    BY <1>2, <2>1 DEF Stands
  <2>4. ToCome(w) = nodes
    BY <2>1 DEF ToCome
  <2> QED BY <2>1, <2>2, <2>3, <2>4 DEF Do
<1> QED BY <1>1, <1>2

(* A step that leaves connections and walks alone.                         *)
LEMMA PartQuiet ==
  ASSUME PartInv, UNCHANGED <<link, task>>, PartTypes', ReadSoFar',
         \A x \in Peers : Gone(x)' <=> Gone(x)
  PROVE  PartInv'
<1>1. InTurn' /\ OnePlace'
  BY DEF PartInv, InTurn, OnePlace
<1>2. UnderWay' /\ SomebodyAt'
  BY DEF PartInv, UnderWay, SomebodyAt, Amid
<1> QED BY <1>1, <1>2 DEF PartInv

LEMMA PartStutter == ASSUME PartInv, UNCHANGED vars PROVE PartInv' /\ UNCHANGED W!vars
<1>1. PartTypes' /\ ReadSoFar' /\ \A x \in Peers : Gone(x)' <=> Gone(x)
  BY DEF vars, PartInv, PartTypes, ReadSoFar, Gone
<1>2. PartInv'
  BY <1>1, PartQuiet DEF vars
<1> QED BY <1>2, MailSame, DutySame DEF vars, W!vars

LEMMA Nothing ==
  /\ <<>> \in Seq(Sent) /\ Finished(<<>>) /\ ButLast(<<>>) /\ HasRead(<<>>, 0)
  /\ Complete(<<>>) = <<>>
  /\ Idle \in Walk /\ Stands(Idle) /\ Idle.at = {} /\ Do(Idle) = W!Idle
<1>1. <<>> \in Seq(Sent) /\ Finished(<<>>) /\ ButLast(<<>>) /\ HasRead(<<>>, 0)
  BY DEF Finished, ButLast, HasRead
<1>2. Idle \in Walk /\ Stands(Idle) /\ Idle.at = {} /\ Do(Idle) = W!Idle
  BY DEF Idle, Walk, Stands, Do, ToCome, W!Idle
<1>3. Complete(<<>>) \in Seq(Messages) /\ Len(Complete(<<>>)) = 0
  BY <1>1, CompleteIs
<1>4. Complete(<<>>) = <<>>
  BY <1>3
<1> QED BY <1>1, <1>2, <1>4

LEMMA PartInit == Init => PartInv /\ W!Init
<1> SUFFICES ASSUME Init PROVE PartInv /\ W!Init
  OBVIOUS
<1>1. <<>> \in Seq(Sent) /\ Finished(<<>>) /\ ButLast(<<>>) /\ HasRead(<<>>, 0)
  BY Nothing
<1>2. Idle \in Walk /\ Stands(Idle) /\ Idle.at = {} /\ Do(Idle) = W!Idle
  BY Nothing
<1>3. PartTypes
  <2>1. link \in [Peers -> [Peers -> Seq(Sent)]] /\ got \in [Peers -> [Peers -> 0..Parts]]
    BY <1>1 DEF Init
  <2>2. task \in [Peers -> [Peers -> Walk]]
    BY <1>2 DEF Init
  <2>3. shown \in [Peers -> [Peers -> Seq(1..MaxSays)]]
    BY DEF Init
  <2> QED BY <2>1, <2>2, <2>3 DEF Init, PartTypes
<1>4. InTurn /\ ReadSoFar /\ OnePlace
  BY <1>1, <1>2 DEF Init, InTurn, ReadSoFar, OnePlace
<1>5. UnderWay /\ SomebodyAt
  BY <1>1, <1>2 DEF Init, UnderWay, SomebodyAt, Amid
<1>6. Complete(<<>>) = <<>>
  BY Nothing
<1>7. Mail = [p \in Peers |-> [q \in Peers |-> <<>>]]
  BY <1>6 DEF Init, Mail
<1>8. Duty = [p \in Peers |-> [q \in Peers |-> W!Idle]]
  BY <1>2, DutyIs DEF Init
<1> QED BY <1>3, <1>4, <1>5, <1>7, <1>8 DEF PartInv, Init, W!Init

LEMMA StartPart == ASSUME PartInv, NEW p \in Peers, Start(p) PROVE PartInv' /\ W!Start(p)
<1>1. /\ status[p] = "off" /\ status' = [status EXCEPT ![p] = "up"]
      /\ UNCHANGED <<peers, backlog, link, got, task, shown, broken>>
  BY DEF Start
<1>2. PartTypes' /\ ReadSoFar' /\ \A x \in Peers : Gone(x)' <=> Gone(x)
  BY <1>1 DEF PartInv, PartTypes, ReadSoFar, Gone
<1>3. PartInv'
  BY <1>1, <1>2, PartQuiet
<1> QED BY <1>1, <1>3, MailSame, DutySame DEF W!Start

LEMMA ConnectPart ==
  ASSUME PartInv, NEW p \in Peers, NEW q \in Peers, Connect(p, q)
  PROVE  PartInv' /\ W!Connect(p, q)
<1>1. /\ status[p] = "off" /\ status[q] = "up" /\ status' = [status EXCEPT ![p] = "up"]
      /\ peers' = [peers EXCEPT ![p] = {q}] /\ backlog' = [backlog EXCEPT ![q] = @ \cup {p}]
      /\ UNCHANGED <<link, got, task, shown, broken>>
  BY DEF Connect, Up
<1>2. PartTypes' /\ ReadSoFar' /\ \A x \in Peers : Gone(x)' <=> Gone(x)
  BY <1>1 DEF PartInv, PartTypes, ReadSoFar, Gone
<1>3. PartInv'
  BY <1>1, <1>2, PartQuiet
<1> QED BY <1>1, <1>3, MailSame, DutySame DEF W!Connect, W!Up

LEMMA AcceptPart ==
  ASSUME PartInv, NEW p \in Peers, NEW q \in Peers, Accept(p, q)
  PROVE  PartInv' /\ W!Accept(p, q)
<1>1. /\ status[p] = "up" /\ q \in backlog[p]
      /\ backlog' = [backlog EXCEPT ![p] = @ \ {q}] /\ peers' = [peers EXCEPT ![p] = @ \cup {q}]
      /\ UNCHANGED <<status, link, got, task, shown, broken>>
  BY DEF Accept, Up
<1>2. PartTypes' /\ ReadSoFar' /\ \A x \in Peers : Gone(x)' <=> Gone(x)
  BY <1>1 DEF PartInv, PartTypes, ReadSoFar, Gone
<1>3. PartInv'
  BY <1>1, <1>2, PartQuiet
<1> QED BY <1>1, <1>3, MailSame, DutySame DEF W!Accept, W!Up

LEMMA BrokenPart ==
  ASSUME PartInv, broken' = TRUE, UNCHANGED <<status, peers, backlog, link, got, task, shown>>
  PROVE  PartInv' /\ UNCHANGED W!vars
<1>1. PartTypes' /\ ReadSoFar' /\ \A x \in Peers : Gone(x)' <=> Gone(x)
  BY DEF PartInv, PartTypes, ReadSoFar, Gone
<1>2. PartInv'
  BY <1>1, PartQuiet
<1> QED BY <1>2, MailSame, DutySame DEF W!vars

LEMMA ReadPart ==
  ASSUME PartInv, NEW p \in Peers, NEW q \in Peers, Read(p, q)
  PROVE  PartInv' /\ UNCHANGED W!vars
<1>1. /\ link[q][p] # <<>> /\ got[p][q] < link[q][p][1].sent
      /\ got' = [got EXCEPT ![p][q] = got[p][q] + 1]
      /\ UNCHANGED <<status, peers, backlog, link, task, shown, broken>>
  BY DEF Read
<1>2. link[q][p] \in Seq(Sent) /\ got[p][q] \in 0..Parts
  BY DEF PartInv, PartTypes
<1>3. link[q][p][1].sent \in 1..Parts
  <2>1. link[q][p][1] \in Sent
    BY <1>1, <1>2
  <2> QED BY <2>1 DEF Sent
<1>4. PICK n : n = got[p][q] + 1
  OBVIOUS
<1>5. n \in 0..Parts /\ n <= link[q][p][1].sent
  BY <1>1, <1>2, <1>3, <1>4
<1>6. /\ got' \in [Peers -> [Peers -> 0..Parts]]
      /\ \A a, b \in Peers : got'[a][b] = IF a = p /\ b = q THEN n ELSE got[a][b]
  <2>1. got \in [Peers -> [Peers -> 0..Parts]] /\ got' = [got EXCEPT ![p][q] = n]
    BY <1>1, <1>4 DEF PartInv, PartTypes
  <2> QED BY <1>5, <2>1
<1>7. PartTypes'
  BY <1>1, <1>6 DEF PartInv, PartTypes
<1>8. ReadSoFar'
  BY <1>1, <1>5, <1>6 DEF PartInv, ReadSoFar, HasRead
<1>9. \A x \in Peers : Gone(x)' <=> Gone(x)
  BY <1>1 DEF Gone
<1>10. PartInv'
  BY <1>1, <1>7, <1>8, <1>9, PartQuiet
<1> QED BY <1>1, <1>10, MailSame, DutySame DEF W!vars

(* A walk that was not amid a message takes a new place, with nothing      *)
(* written there.                                                          *)
LEMMA WalkMoves ==
  ASSUME PartInv, NEW p \in Peers, NEW t \in Peers, NEW w \in Walk, Stands(w), w.part = 0,
         task[p][t].at = {} \/ task[p][t].part = Parts, task' = [task EXCEPT ![p][t] = w]
  PROVE  /\ task' \in [Peers -> [Peers -> Walk]] /\ OnePlace'
         /\ \A a, u \in Peers : task'[a][u] = IF a = p /\ u = t THEN w ELSE task[a][u]
         /\ \A a, u, b \in Peers : /\ Amid(a, u, b)' <=> Amid(a, u, b)
                                   /\ Amid(a, u, b) => task'[a][u] = task[a][u]
<1>1. task \in [Peers -> [Peers -> Walk]]
  BY DEF PartInv, PartTypes
<1>2. /\ task' \in [Peers -> [Peers -> Walk]]
      /\ \A a, u \in Peers : task'[a][u] = IF a = p /\ u = t THEN w ELSE task[a][u]
  BY <1>1
<1>3. OnePlace'
  BY <1>2 DEF PartInv, OnePlace
<1>4. ASSUME NEW b \in Peers PROVE ~Amid(p, t, b) /\ ~Amid(p, t, b)'
  BY <1>2 DEF Amid
<1>5. ASSUME NEW a \in Peers, NEW u \in Peers, NEW b \in Peers, ~(a = p /\ u = t)
      PROVE  task'[a][u] = task[a][u] /\ (Amid(a, u, b)' <=> Amid(a, u, b))
  BY <1>2, <1>5 DEF Amid
<1> QED BY <1>2, <1>3, <1>4, <1>5

LEMMA AdvancePart ==
  ASSUME PartInv, NEW p \in Peers, NEW t \in Peers, Advance(p, t)
  PROVE  PartInv' /\ UNCHANGED W!vars
<1>1. PICK o, m, nodes : o = task[p][t] /\ m = o.msg /\ nodes = o.todo
  OBVIOUS
<1>2. PICK w \in Onward(m, nodes) : task' = [task EXCEPT ![p][t] = w]
  BY <1>1 DEF Advance
<1>3. /\ o.at # {} /\ o.part = Parts
      /\ UNCHANGED <<status, peers, backlog, link, got, shown, broken>>
  BY <1>1 DEF Advance, Walks
<1>4. o \in Walk /\ Stands(o)
  BY <1>1 DEF PartInv, PartTypes, OnePlace
<1>5. m \in Messages /\ nodes \in SUBSET Peers
  BY <1>1, <1>3, <1>4 DEF Walk, Stands
<1>6. /\ w \in Walk /\ Stands(w) /\ w.part = 0
      /\ Do(w) = [msg |-> m, todo |-> nodes]
  BY <1>5, OnwardIs
<1>7. /\ task' \in [Peers -> [Peers -> Walk]] /\ OnePlace'
      /\ \A a, u \in Peers : task'[a][u] = IF a = p /\ u = t THEN w ELSE task[a][u]
      /\ \A a, u, b \in Peers : /\ Amid(a, u, b)' <=> Amid(a, u, b)
                                /\ Amid(a, u, b) => task'[a][u] = task[a][u]
  BY <1>1, <1>2, <1>3, <1>6, WalkMoves
<1>8. PartTypes' /\ InTurn' /\ ReadSoFar' /\ \A x \in Peers : Gone(x)' <=> Gone(x)
  BY <1>3, <1>7 DEF PartInv, PartTypes, InTurn, ReadSoFar, Gone
<1>9. UnderWay'
  BY <1>3, <1>7, <1>8 DEF PartInv, UnderWay
<1>10. SomebodyAt'
  BY <1>3, <1>7, <1>8 DEF PartInv, SomebodyAt
<1>11. Duty' = Duty
  <2>1. Do(o) = [msg |-> m, todo |-> nodes]
    BY <1>1, <1>3 DEF Do, ToCome
  <2> QED BY <1>1, <1>6, <1>7, <2>1, DutyKept
<1> QED BY <1>3, <1>7, <1>8, <1>9, <1>10, <1>11, MailSame DEF PartInv, W!vars

(* A walk begins: with its message shown.                                  *)
LEMMA ShowPart ==
  ASSUME PartInv, NEW p \in Peers, NEW q \in Peers, NEW m \in Messages,
         task[p][q].at = {}, ShowAndForward(p, q, m)
  PROVE  /\ W!ShowAndForward(p, q, m)
         /\ task' \in [Peers -> [Peers -> Walk]] /\ OnePlace'
         /\ shown' \in [Peers -> [Peers -> Seq(1..MaxSays)]]
         /\ \A a, u, b \in Peers : /\ Amid(a, u, b)' <=> Amid(a, u, b)
                                   /\ Amid(a, u, b) => task'[a][u] = task[a][u]
<1>1. PICK nodes : nodes = peers[p] \ {q}
  OBVIOUS
<1>2. nodes \in SUBSET Peers
  BY <1>1 DEF PartInv, PartTypes
<1>3. PICK w \in Onward(m, nodes) : task' = [task EXCEPT ![p][q] = w]
  BY <1>1 DEF ShowAndForward
<1>4. shown' = [shown EXCEPT ![p][m[1]] = Append(@, m[2])]
  BY DEF ShowAndForward
<1>5. /\ w \in Walk /\ Stands(w) /\ w.part = 0
      /\ Do(w) = [msg |-> m, todo |-> nodes]
  BY <1>2, OnwardIs
<1>6. /\ task' \in [Peers -> [Peers -> Walk]] /\ OnePlace'
      /\ \A a, u \in Peers : task'[a][u] = IF a = p /\ u = q THEN w ELSE task[a][u]
      /\ \A a, u, b \in Peers : /\ Amid(a, u, b)' <=> Amid(a, u, b)
                                /\ Amid(a, u, b) => task'[a][u] = task[a][u]
  BY <1>3, <1>5, WalkMoves
<1>7. Duty' = [Duty EXCEPT ![p][q] = [msg |-> m, todo |-> nodes]]
  <2>1. PICK x : x = [msg |-> m, todo |-> nodes]
    OBVIOUS
  <2>2. \A a, b \in Peers : Do(task'[a][b]) = IF a = p /\ b = q THEN x ELSE Do(task[a][b])
    BY <1>5, <1>6, <2>1
  <2>3. Duty' = [Duty EXCEPT ![p][q] = x]
    BY <2>2, DutyChange
  <2> QED BY <2>1, <2>3
<1>8. W!ShowAndForward(p, q, m)
  BY <1>1, <1>4, <1>7 DEF W!ShowAndForward
<1>9. shown' \in [Peers -> [Peers -> Seq(1..MaxSays)]]
  <2>1. PICK S : S = 1..MaxSays
    OBVIOUS
  <2>2. m[1] \in Peers /\ m[2] \in S
    BY <2>1 DEF Messages
  <2>3. shown \in [Peers -> [Peers -> Seq(S)]]
    BY <2>1 DEF PartInv, PartTypes
  <2>4. shown[p][m[1]] \in Seq(S)
    BY <2>2, <2>3
  <2>5. PICK x : x = Append(shown[p][m[1]], m[2])
    OBVIOUS
  <2>6. x \in Seq(S)
    BY <2>2, <2>4, <2>5
  <2>7. shown' = [shown EXCEPT ![p][m[1]] = x]
    BY <1>4, <2>5
  <2>8. PICK T : T = Seq(S)
    OBVIOUS
  <2>9. shown' \in [Peers -> [Peers -> T]]
    BY <2>2, <2>3, <2>6, <2>7, <2>8, Put
  <2> QED BY <2>1, <2>8, <2>9
<1> QED BY <1>6, <1>8, <1>9

(* The UI thread, or the thread of a connection, that stands nowhere has   *)
(* nothing to do.                                                          *)
LEMMA NothingToDo ==
  ASSUME PartInv, NEW p \in Peers, NEW t \in Peers, ~Walks(p, t)
  PROVE  task[p][t].at = {} /\ Duty[p][t].todo = {}
<1>1. task[p][t].at = {} /\ task[p][t].todo = {}
  BY DEF PartInv, OnePlace, Stands, Walks
<1> QED BY <1>1, DutyIs DEF Do, ToCome

LEMMA SayPart == ASSUME PartInv, NEW p \in Peers, Say(p) PROVE PartInv' /\ W!Say(p)
<1>1. PICK m : m = <<p, Len(shown[p][p]) + 1>>
  OBVIOUS
<1>2. /\ status[p] = "up" /\ ~Walks(p, p) /\ p \in Talkers /\ Len(shown[p][p]) < MaxSays
      /\ ShowAndForward(p, p, m) /\ UNCHANGED <<status, peers, backlog, link, got, broken>>
  BY <1>1 DEF Say, Up, UILocked
<1>3. m \in Messages
  <2>1. shown[p][p] \in Seq(1..MaxSays)
    BY DEF PartInv, PartTypes
  <2> QED BY <1>1, <1>2, <2>1 DEF Messages
<1>4. task[p][p].at = {} /\ Duty[p][p].todo = {}
  BY <1>2, NothingToDo
<1>5. /\ W!ShowAndForward(p, p, m)
      /\ task' \in [Peers -> [Peers -> Walk]] /\ OnePlace'
      /\ shown' \in [Peers -> [Peers -> Seq(1..MaxSays)]]
      /\ \A a, u, b \in Peers : /\ Amid(a, u, b)' <=> Amid(a, u, b)
                                /\ Amid(a, u, b) => task'[a][u] = task[a][u]
  BY <1>2, <1>3, <1>4, ShowPart
<1>6. PartTypes' /\ InTurn' /\ ReadSoFar' /\ \A x \in Peers : Gone(x)' <=> Gone(x)
  BY <1>2, <1>5 DEF PartInv, PartTypes, InTurn, ReadSoFar, Gone
<1>7. UnderWay'
  BY <1>2, <1>5, <1>6 DEF PartInv, UnderWay
<1>8. SomebodyAt'
  BY <1>2, <1>5, <1>6 DEF PartInv, SomebodyAt
<1>9. W!Say(p)
  BY <1>1, <1>2, <1>4, <1>5, MailSame DEF W!Say, W!Up
<1> QED BY <1>5, <1>6, <1>7, <1>8, <1>9 DEF PartInv

LEMMA ReceivePart ==
  ASSUME PartInv, NEW p \in Peers, NEW q \in Peers, Receive(p, q)
  PROVE  PartInv' /\ W!Receive(p, q)
<1>1. PICK l, m : l = link[q][p] /\ m = link[q][p][1].msg
  OBVIOUS
<1>2. /\ status[p] = "up" /\ q \in peers[p] /\ ~Walks(p, q) /\ ~Walks(p, p)
      /\ l # <<>> /\ got[p][q] = Parts /\ link' = [link EXCEPT ![q][p] = Tail(l)]
      /\ got' = [got EXCEPT ![p][q] = 0] /\ ShowAndForward(p, q, m)
      /\ UNCHANGED <<status, peers, backlog, broken>>
  BY <1>1 DEF Receive, HasMessage, Up, UILocked
<1>3. /\ l \in Seq(Sent) /\ ButLast(l) /\ HasRead(l, Parts)
      /\ link \in [Peers -> [Peers -> Seq(Sent)]]
  BY <1>1, <1>2 DEF PartInv, PartTypes, InTurn, ReadSoFar
<1>4. l[1].sent = Parts
  <2>1. l[1] \in Sent
    BY <1>2, <1>3
  <2>2. l[1].sent \in 1..Parts
    BY <2>1 DEF Sent
  <2> QED BY <1>2, <1>3, <2>2 DEF HasRead
<1>5. PICK tl : tl = Tail(l)
  OBVIOUS
<1>6. /\ tl \in Seq(Sent) /\ ButLast(tl) /\ HasRead(tl, 0)
      /\ Finished(l) => Finished(tl)
      /\ \A x, n : EndsWith(l, x, n) /\ n < Parts => EndsWith(tl, x, n)
      /\ Complete(l) # <<>> /\ Head(Complete(l)) = m /\ m \in Messages
      /\ Complete(tl) = Tail(Complete(l))
  BY <1>1, <1>2, <1>3, <1>4, <1>5, CompleteTail
<1>7. task[p][q].at = {} /\ Duty[p][q].todo = {} /\ Duty[p][p].todo = {}
  BY <1>2, NothingToDo
<1>8. /\ W!ShowAndForward(p, q, m)
      /\ task' \in [Peers -> [Peers -> Walk]] /\ OnePlace'
      /\ shown' \in [Peers -> [Peers -> Seq(1..MaxSays)]]
      /\ \A a, u, b \in Peers : /\ Amid(a, u, b)' <=> Amid(a, u, b)
                                /\ Amid(a, u, b) => task'[a][u] = task[a][u]
  BY <1>2, <1>6, <1>7, ShowPart
<1>9. /\ link' \in [Peers -> [Peers -> Seq(Sent)]]
      /\ \A a, b \in Peers : link'[a][b] = IF a = q /\ b = p THEN tl ELSE link[a][b]
  <2>1. PICK S : S = Seq(Sent)
    OBVIOUS
  <2>2. link \in [Peers -> [Peers -> S]] /\ tl \in S /\ link' = [link EXCEPT ![q][p] = tl]
    BY <1>2, <1>3, <1>5, <1>6, <2>1
  <2>3. /\ link' \in [Peers -> [Peers -> S]]
        /\ \A a, b \in Peers : link'[a][b] = IF a = q /\ b = p THEN tl ELSE link[a][b]
    BY <2>2
  <2> QED BY <2>1, <2>3
<1>10. /\ got' \in [Peers -> [Peers -> 0..Parts]]
       /\ \A a, b \in Peers : got'[a][b] = IF a = p /\ b = q THEN 0 ELSE got[a][b]
  <2>1. got \in [Peers -> [Peers -> 0..Parts]] /\ 0 \in 0..Parts
    BY DEF PartInv, PartTypes
  <2> QED BY <1>2, <2>1
<1>11. PartTypes' /\ \A x \in Peers : Gone(x)' <=> Gone(x)
  BY <1>2, <1>8, <1>9, <1>10 DEF PartInv, PartTypes, Gone
<1>12. InTurn' /\ ReadSoFar'
  <2> SUFFICES ASSUME NEW a \in Peers, NEW b \in Peers
               PROVE  ButLast(link'[a][b]) /\ HasRead(link'[a][b], got'[b][a])
    BY DEF InTurn, ReadSoFar
  <2>1. CASE a = q /\ b = p
    BY <1>6, <1>9, <1>10, <2>1
  <2>2. CASE ~(a = q /\ b = p)
    BY <1>9, <1>10, <2>2 DEF PartInv, InTurn, ReadSoFar
  <2> QED BY <2>1, <2>2
<1>13. UnderWay'
  <2> SUFFICES ASSUME NEW a \in Peers, NEW u \in Peers, NEW b \in Peers, ~Gone(a), ~Gone(b),
                      Amid(a, u, b)
               PROVE  EndsWith(link'[a][b], task'[a][u].msg, task'[a][u].part)
    BY <1>8, <1>11 DEF UnderWay
  <2>1. EndsWith(link[a][b], task[a][u].msg, task[a][u].part) /\ task[a][u].part < Parts
    BY DEF PartInv, UnderWay, Amid
  <2>2. task'[a][u] = task[a][u]
    BY <1>8
  <2>3. EndsWith(link'[a][b], task[a][u].msg, task[a][u].part)
    BY <1>1, <1>6, <1>9, <2>1
  <2> QED BY <2>2, <2>3
<1>14. SomebodyAt'
  <2> SUFFICES ASSUME NEW a \in Peers, NEW b \in Peers, ~Gone(a), ~Gone(b),
                      ~Finished(link'[a][b])
               PROVE  \E t \in Peers : Amid(a, t, b)
    BY <1>8, <1>11 DEF SomebodyAt
  <2>1. ~Finished(link[a][b])
    BY <1>1, <1>6, <1>9
  <2> QED BY <2>1 DEF PartInv, SomebodyAt
<1>15. W!Receive(p, q)
  <2>1. Mail[q][p] = Complete(l)
    BY <1>1 DEF Mail
  <2>2. PICK x : x = Complete(tl)
    OBVIOUS
  <2>3. \A a, b \in Peers : Complete(link'[a][b]) = IF a = q /\ b = p THEN x
                                                     ELSE Complete(link[a][b])
    BY <1>9, <2>2
  <2>4. Mail' = [Mail EXCEPT ![q][p] = x]
    BY <2>3, MailChange
  <2>5. Mail' = [Mail EXCEPT ![q][p] = Tail(Mail[q][p])]
    BY <1>6, <2>1, <2>2, <2>4
  <2> QED BY <1>2, <1>6, <1>7, <1>8, <2>1, <2>5 DEF W!Receive, W!Up
<1> QED BY <1>8, <1>11, <1>12, <1>13, <1>14, <1>15 DEF PartInv

(* What one write makes of a stream that nobody else is in the middle of.  *)
LEMMA WrittenIs ==
  ASSUME PartInv, NEW p \in Peers, NEW t \in Peers, NEW r \in Peers, NEW m, NEW n,
         ~Gone(p), ~Gone(r), r \in task[p][t].at, m = task[p][t].msg, n = task[p][t].part,
         n \in 0..(Parts - 1), m \in Messages, ~OthersAmid(p, t, r)
  PROVE  LET l == link[p][r]
             a == Written(l, m, n + 1)
         IN  /\ a \in Seq(Sent) /\ ButLast(a) /\ EndsWith(a, m, n + 1) /\ a # <<>>
             /\ n + 1 = Parts => Finished(a)
             /\ Complete(a) = IF n + 1 < Parts THEN Complete(l) ELSE Append(Complete(l), m)
             /\ a[1].sent >= (IF l = <<>> THEN 1 ELSE l[1].sent)
<1>1. PICK l : l = link[p][r]
  OBVIOUS
<1>2. PICK a : a = Written(l, m, n + 1)
  OBVIOUS
<1>3. l \in Seq(Sent) /\ ButLast(l)
  BY <1>1 DEF PartInv, PartTypes, InTurn
<1>4. CASE n = 0
  <2>1. PICK e : e = [msg |-> m, sent |-> 1]
    OBVIOUS
  <2>2. e \in Sent /\ e.msg = m /\ e.sent = 1
    BY <2>1 DEF Sent
  <2>3. Finished(l)
    <3>1. ASSUME NEW u \in Peers PROVE ~Amid(p, u, r)
      <4>1. CASE u = t
        <5>1. task[p][t].part = 0 /\ 0 \notin 1..(Parts - 1)
          BY <1>4
        <5> QED BY <4>1, <5>1 DEF Amid
      <4>2. CASE u # t
        <5>1. u \in Peers \ {t}
          BY <4>2
        <5>2. \A v \in Peers \ {t} : ~Amid(p, v, r)
          BY ZenonT(20) DEF OthersAmid
        <5> QED BY <5>1, <5>2
      <4> QED BY <4>1, <4>2
    <3> QED BY <1>1, <3>1 DEF PartInv, SomebodyAt
  <2>4. a = Append(l, e)
    BY <1>2, <1>4, <2>1 DEF Written
  <2>5. /\ a \in Seq(Sent) /\ ButLast(a) /\ EndsWith(a, m, 1)
        /\ 1 = Parts => Finished(a)
        /\ Complete(a) = IF 1 < Parts THEN Complete(l) ELSE Append(Complete(l), m)
        /\ a[1].sent >= (IF l = <<>> THEN 1 ELSE l[1].sent)
    BY <1>3, <2>2, <2>3, <2>4, CompleteAppend
  <2> QED BY <1>1, <1>2, <1>4, <2>5 DEF EndsWith
<1>5. CASE n # 0
  <2>1. n \in 1..(Parts - 1) /\ n + 1 \in 1..Parts /\ n + 1 # 1 /\ n + 1 >= n /\ n < Parts
    BY <1>5
  <2>2. EndsWith(l, m, n)
    BY <1>1, <2>1 DEF PartInv, UnderWay, Amid
  <2>3. l # <<>> /\ l[Len(l)].msg = m /\ l[Len(l)].sent = n
    BY <2>2 DEF EndsWith
  <2>4. PICK k : k = n + 1
    OBVIOUS
  <2>5. a = [l EXCEPT ![Len(l)].sent = k]
    BY <1>2, <2>1, <2>4 DEF Written
  <2>6. /\ a \in Seq(Sent) /\ ButLast(a) /\ EndsWith(a, m, k)
        /\ k = Parts => Finished(a)
        /\ Complete(a) = IF k < Parts THEN Complete(l) ELSE Append(Complete(l), m)
        /\ a # <<>> /\ a[1].sent >= l[1].sent
    BY <1>3, <2>1, <2>3, <2>4, <2>5, CompleteGrow
  <2> QED BY <1>1, <1>2, <2>3, <2>4, <2>6
<1> QED BY <1>4, <1>5

LEMMA WritePart ==
  ASSUME PartInv, NEW p \in Peers, NEW t \in Peers, NEW r \in Peers, Write(p, t, r)
  PROVE  PartInv' /\ [W!Next]_W!vars
<1>1. PICK o, m, n, l : o = task[p][t] /\ m = o.msg /\ n = o.part /\ l = link[p][r]
  OBVIOUS
<1>2. PICK k : k = n + 1
  OBVIOUS
<1>3. /\ status[p] = "up" /\ r \in o.at /\ n < Parts /\ (Gone(r) \/ ~OthersAmid(p, t, r))
      /\ UNCHANGED <<status, peers, backlog, got, shown, broken>>
  BY <1>1 DEF Write, Writes, Up
<1>4. o \in Walk /\ Stands(o)
  BY <1>1 DEF PartInv, PartTypes, OnePlace
<1>5. /\ o.at = {r} /\ r \notin o.todo /\ m \in Messages /\ o.todo \in SUBSET Peers
      /\ n \in 0..(Parts - 1) /\ k \in 1..Parts
  BY <1>1, <1>2, <1>3, <1>4 DEF Walk, Stands
<1>6. ~Gone(p) /\ \A x \in Peers : Gone(x)' <=> Gone(x)
  BY <1>3 DEF Gone
<1>7. PICK w : w = [o EXCEPT !.part = k]
  OBVIOUS
<1>8. w \in Walk /\ Stands(w) /\ w.at = {r} /\ w.part = k /\ w.msg = m /\ w.todo = o.todo
  <2>1. w = [msg |-> m, at |-> o.at, part |-> k, todo |-> o.todo]
    BY <1>1, <1>4, <1>7 DEF Walk
  <2> QED BY <1>5, <2>1 DEF Walk, Stands
<1>9. task' = [task EXCEPT ![p][t] = w]
  BY <1>1, <1>2, <1>7 DEF Write
<1>10. /\ task' \in [Peers -> [Peers -> Walk]]
       /\ \A a, u \in Peers : task'[a][u] = IF a = p /\ u = t THEN w ELSE task[a][u]
  <2>1. task \in [Peers -> [Peers -> Walk]]
    BY DEF PartInv, PartTypes
  <2> QED BY <1>8, <1>9, <2>1
<1>11. OnePlace'
  BY <1>8, <1>10 DEF PartInv, OnePlace
<1>12. PICK x : x = IF Gone(r) THEN l ELSE Written(l, m, k)
  OBVIOUS
<1>13. /\ x \in Seq(Sent) /\ ButLast(x) /\ HasRead(x, got[r][p])
       /\ ~Gone(r) =>
            /\ EndsWith(x, m, k) /\ (k = Parts => Finished(x))
            /\ Complete(x) = IF k < Parts THEN Complete(l) ELSE Append(Complete(l), m)
  <2>1. l \in Seq(Sent) /\ ButLast(l) /\ HasRead(l, got[r][p]) /\ got[r][p] \in 0..Parts
    BY <1>1 DEF PartInv, PartTypes, InTurn, ReadSoFar
  <2>2. CASE Gone(r)
    BY <1>12, <2>1, <2>2
  <2>3. CASE ~Gone(r)
    <3>1. /\ x \in Seq(Sent) /\ ButLast(x) /\ EndsWith(x, m, k) /\ x # <<>>
          /\ k = Parts => Finished(x)
          /\ Complete(x) = IF k < Parts THEN Complete(l) ELSE Append(Complete(l), m)
          /\ x[1].sent >= (IF l = <<>> THEN 1 ELSE l[1].sent)
      BY <1>1, <1>2, <1>3, <1>5, <1>6, <1>12, <2>3, WrittenIs
    <3>2. HasRead(x, got[r][p])
      <4>1. x[1] \in Sent
        BY <3>1
      <4>2. x[1].sent \in Nat
        BY <4>1 DEF Sent
      <4>3. CASE l = <<>>
        BY <2>1, <3>1, <4>2, <4>3 DEF HasRead
      <4>4. CASE l # <<>>
        <5>1. l[1] \in Sent
          BY <2>1, <4>4
        <5>2. l[1].sent \in Nat
          BY <5>1 DEF Sent
        <5> QED BY <2>1, <3>1, <4>2, <4>4, <5>2 DEF HasRead
      <4> QED BY <4>3, <4>4
    <3> QED BY <2>3, <3>1, <3>2
  <2> QED BY <2>2, <2>3
<1>14. /\ link' \in [Peers -> [Peers -> Seq(Sent)]]
       /\ \A a, b \in Peers : link'[a][b] = IF a = p /\ b = r THEN x ELSE link[a][b]
  <2>1. PICK S : S = Seq(Sent)
    OBVIOUS
  <2>2. link \in [Peers -> [Peers -> S]] /\ x \in S
    <3>1. link \in [Peers -> [Peers -> S]]
      BY <2>1 DEF PartInv, PartTypes
    <3>2. x \in S
      BY <1>13, <2>1
    <3> QED BY <3>1, <3>2
  <2>3. CASE Gone(r)
    <3>1. link' = link
      BY <2>3 DEF Write
    <3> QED BY <1>1, <1>12, <2>1, <2>2, <2>3, <3>1
  <2>4. CASE ~Gone(r)
    <3>1. link' = [link EXCEPT ![p][r] = x]
      BY <1>1, <1>2, <1>12, <2>4 DEF Write
    <3> QED BY <2>1, <2>2, <3>1
  <2> QED BY <2>3, <2>4
<1>15. PartTypes'
  BY <1>3, <1>10, <1>14 DEF PartInv, PartTypes
<1>16. InTurn' /\ ReadSoFar'
  <2> SUFFICES ASSUME NEW a \in Peers, NEW b \in Peers
               PROVE  ButLast(link'[a][b]) /\ HasRead(link'[a][b], got'[b][a])
    BY DEF InTurn, ReadSoFar
  <2>1. CASE a = p /\ b = r
    <3>1. link'[a][b] = x /\ got'[b][a] = got[r][p]
      BY <1>3, <1>14, <2>1
    <3> QED BY <1>13, <3>1
  <2>2. CASE ~(a = p /\ b = r)
    <3>1. link'[a][b] = link[a][b] /\ got'[b][a] = got[b][a]
      BY <1>3, <1>14, <2>2
    <3>2. ButLast(link[a][b]) /\ HasRead(link[a][b], got[b][a])
      BY DEF PartInv, InTurn, ReadSoFar
    <3> QED BY <3>1, <3>2
  <2> QED BY <2>1, <2>2
<1>17. ASSUME NEW a \in Peers, NEW u \in Peers, NEW b \in Peers, ~(a = p /\ b = r)
       PROVE  /\ Amid(a, u, b)' <=> Amid(a, u, b)
              /\ Amid(a, u, b) => task'[a][u] = task[a][u]
  <2>1. CASE a = p /\ u = t
    <3>1. ~Amid(a, u, b) /\ ~Amid(a, u, b)'
      BY <1>1, <1>5, <1>8, <1>10, <1>17, <2>1 DEF Amid
    <3> QED BY <3>1
  <2>2. CASE ~(a = p /\ u = t)
    BY <1>10, <2>2 DEF Amid
  <2> QED BY <2>1, <2>2
<1>18. UnderWay'
  <2> SUFFICES ASSUME NEW a \in Peers, NEW u \in Peers, NEW b \in Peers, ~Gone(a), ~Gone(b),
                      Amid(a, u, b)'
               PROVE  EndsWith(link'[a][b], task'[a][u].msg, task'[a][u].part)
    BY <1>6 DEF UnderWay
  <2>1. CASE a = p /\ b = r /\ u = t
    BY <1>8, <1>10, <1>13, <1>14, <2>1
  <2>2. CASE a = p /\ b = r /\ u # t
    <3>1. Amid(p, u, r)
      BY <1>10, <2>2 DEF Amid
    <3> QED BY <1>3, <2>2, <3>1 DEF OthersAmid
  <2>3. CASE ~(a = p /\ b = r)
    BY <1>14, <1>17, <2>3 DEF PartInv, UnderWay
  <2> QED BY <2>1, <2>2, <2>3
<1>19. SomebodyAt'
  <2> SUFFICES ASSUME NEW a \in Peers, NEW b \in Peers, ~Gone(a), ~Gone(b),
                      ~Finished(link'[a][b])
               PROVE  \E u \in Peers : Amid(a, u, b)'
    BY <1>6 DEF SomebodyAt
  <2>1. CASE a = p /\ b = r
    <3>1. k \in 1..(Parts - 1)
      BY <1>5, <1>13, <1>14, <2>1
    <3>2. Amid(p, t, r)'
      BY <1>8, <1>10, <3>1 DEF Amid
    <3> QED BY <2>1, <3>2
  <2>2. CASE ~(a = p /\ b = r)
    BY <1>14, <1>17, <2>2 DEF PartInv, SomebodyAt
  <2> QED BY <2>1, <2>2
<1>20. Do(o) = [msg |-> m, todo |-> {r} \cup o.todo]
  <2>1. ToCome(o) = {r} \cup o.todo
    BY <1>1, <1>3, <1>5 DEF ToCome
  <2> QED BY <1>1, <2>1 DEF Do
<1>21. CASE k < Parts
  <2>1. Do(w) = Do(o)
    BY <1>8, <1>20, <1>21 DEF Do, ToCome
  <2>2. Duty' = Duty
    BY <1>1, <1>10, <2>1, DutyKept
  <2>3. Complete(x) = Complete(l)
    BY <1>12, <1>13, <1>21
  <2>4. Mail' = Mail
    BY <1>1, <1>14, <2>3, MailKept
  <2>5. UNCHANGED W!vars
    BY <1>3, <2>2, <2>4 DEF W!vars
  <2> QED BY <1>11, <1>15, <1>16, <1>18, <1>19, <2>5 DEF PartInv
<1>22. CASE k = Parts
  <2>1. ToCome(w) = o.todo
    BY <1>8, <1>22 DEF ToCome
  <2>2. PICK y : y = [msg |-> m, todo |-> o.todo]
    OBVIOUS
  <2>3. Do(w) = y
    BY <1>8, <2>1, <2>2 DEF Do
  <2>4. \A a, b \in Peers : Do(task'[a][b]) = IF a = p /\ b = t THEN y ELSE Do(task[a][b])
    BY <1>10, <2>3
  <2>5. Duty' = [Duty EXCEPT ![p][t] = y]
    BY <2>4, DutyChange
  <2>6. Duty[p][t] = [msg |-> m, todo |-> {r} \cup o.todo]
    BY <1>1, <1>20, DutyIs
  <2>7. y = [Duty[p][t] EXCEPT !.todo = Duty[p][t].todo \ {r}]
    <3>1. o.todo = ({r} \cup o.todo) \ {r}
      BY <1>5
    <3>2. PICK d, e : d = Duty[p][t] /\ e = {r} \cup o.todo
      OBVIOUS
    <3>3. d = [msg |-> m, todo |-> e] /\ y = [msg |-> m, todo |-> e \ {r}]
      BY <2>2, <2>6, <3>1, <3>2
    <3>4. y = [d EXCEPT !.todo = d.todo \ {r}]
      BY <3>3
    <3> QED BY <3>2, <3>4
  <2>8. Duty' = [Duty EXCEPT ![p][t].todo = Duty[p][t].todo \ {r}]
    BY <2>5, <2>7
  <2>9. Mail' = IF Gone(r) THEN Mail ELSE [Mail EXCEPT ![p][r] = Append(@, Duty[p][t].msg)]
    <3>1. CASE Gone(r)
      <4>1. x = l
        BY <1>12, <3>1
      <4>2. Mail' = Mail
        BY <1>1, <1>14, <4>1, MailKept
      <4> QED BY <3>1, <4>2
    <3>2. CASE ~Gone(r)
      <4>1. PICK z : z = Append(Complete(l), m)
        OBVIOUS
      <4>2. Complete(x) = z
        BY <1>5, <1>13, <1>22, <3>2, <4>1
      <4>3. \A a, b \in Peers : Complete(link'[a][b]) = IF a = p /\ b = r THEN z
                                                         ELSE Complete(link[a][b])
        BY <1>14, <4>2
      <4>4. Mail' = [Mail EXCEPT ![p][r] = z]
        BY <4>3, MailChange
      <4>5. Mail[p][r] = Complete(l) /\ Duty[p][t].msg = m
        BY <1>1, <2>6 DEF Mail
      <4> QED BY <3>2, <4>1, <4>4, <4>5
    <3> QED BY <3>1, <3>2
  <2>10. r \in Duty[p][t].todo
    BY <2>6
  <2>11. W!Forward(p, t, r)
    BY <1>3, <2>8, <2>9, <2>10 DEF W!Forward, W!Up, W!Gone, Gone
  <2>12. W!Next
    BY <2>11 DEF W!Next
  <2> QED BY <1>11, <1>15, <1>16, <1>18, <1>19, <2>12 DEF PartInv
<1> QED BY <1>5, <1>21, <1>22

LEMMA EndPart ==
  ASSUME PartInv, NEW p \in Peers, NEW how \in {"left", "killed"}, status[p] = "up", End(p, how)
  PROVE  PartInv' /\ W!End(p, how)
<1>1. /\ status' = [status EXCEPT ![p] = how] /\ peers' = [peers EXCEPT ![p] = {}]
      /\ backlog' = [backlog EXCEPT ![p] = {}]
      /\ task' = [task EXCEPT ![p] = [q \in Peers |-> Idle]]
      /\ got' = [got EXCEPT ![p] = [q \in Peers |-> 0]] /\ UNCHANGED <<shown, broken>>
  BY DEF End
<1>2. PICK kept :
        /\ \A r \in Peers : kept[r] \in Arrived(link[p][r], got[r][p])
        /\ link' = [a \in Peers |-> [b \in Peers |->
                      IF b = p THEN <<>> ELSE IF a = p THEN kept[b] ELSE link[a][b]]]
  BY DEF End
<1>3. ASSUME NEW r \in Peers
      PROVE  /\ kept[r] \in Seq(Sent) /\ ButLast(kept[r]) /\ HasRead(kept[r], got[r][p])
             /\ Complete(kept[r]) \in W!Prefixes(Mail[p][r])
  <2>1. /\ link[p][r] \in Seq(Sent) /\ ButLast(link[p][r]) /\ got[r][p] \in 0..Parts
        /\ HasRead(link[p][r], got[r][p])
    BY DEF PartInv, PartTypes, InTurn, ReadSoFar
  <2>2. Mail[p][r] = Complete(link[p][r])
    BY DEF Mail
  <2> QED BY <1>2, <2>1, <2>2, CompleteArrived
<1>4. /\ link' \in [Peers -> [Peers -> Seq(Sent)]]
      /\ \A a, b \in Peers : link'[a][b] = IF b = p THEN <<>> ELSE IF a = p THEN kept[b]
                                           ELSE link[a][b]
  <2>1. PICK S : S = Seq(Sent)
    OBVIOUS
  <2>2. <<>> \in S /\ (\A r \in Peers : kept[r] \in S) /\ link \in [Peers -> [Peers -> S]]
    <3>1. link \in [Peers -> [Peers -> S]]
      BY <2>1 DEF PartInv, PartTypes
    <3> QED BY <1>3, <2>1, <3>1
  <2>3. \A a, b \in Peers : link[a][b] \in S
    BY <2>2
  <2>4. link' \in [Peers -> [Peers -> S]]
    BY <1>2, <2>2, <2>3
  <2> QED BY <1>2, <2>1, <2>4
<1>5. /\ got' \in [Peers -> [Peers -> 0..Parts]]
      /\ \A a, b \in Peers : got'[a][b] = IF a = p THEN 0 ELSE got[a][b]
  <2>1. got \in [Peers -> [Peers -> 0..Parts]] /\ 0 \in 0..Parts
    BY DEF PartInv, PartTypes
  <2> QED BY <1>1, <2>1
<1>6. /\ task' \in [Peers -> [Peers -> Walk]]
      /\ \A a, b \in Peers : task'[a][b] = IF a = p THEN Idle ELSE task[a][b]
  <2>1. task \in [Peers -> [Peers -> Walk]] /\ Idle \in Walk
    BY Nothing DEF PartInv, PartTypes
  <2> QED BY <1>1, <2>1
<1>7. \A x \in Peers : Gone(x)' <=> (x = p \/ Gone(x))
  BY <1>1 DEF PartInv, PartTypes, Gone
<1>8. PartTypes'
  BY <1>1, <1>4, <1>5, <1>6 DEF PartInv, PartTypes
<1>9. InTurn' /\ ReadSoFar'
  <2> SUFFICES ASSUME NEW a \in Peers, NEW b \in Peers
               PROVE  ButLast(link'[a][b]) /\ HasRead(link'[a][b], got'[b][a])
    BY DEF InTurn, ReadSoFar
  <2>1. CASE b = p
    <3>1. link'[a][b] = <<>> /\ got'[b][a] = 0
      BY <1>4, <1>5, <2>1
    <3> QED BY <3>1, Nothing
  <2>2. CASE b # p /\ a = p
    <3>1. link'[a][b] = kept[b] /\ got'[b][a] = got[b][p]
      BY <1>4, <1>5, <2>2
    <3> QED BY <1>3, <3>1
  <2>3. CASE b # p /\ a # p
    <3>1. link'[a][b] = link[a][b] /\ got'[b][a] = got[b][a]
      BY <1>4, <1>5, <2>3
    <3>2. ButLast(link[a][b]) /\ HasRead(link[a][b], got[b][a])
      BY DEF PartInv, InTurn, ReadSoFar
    <3> QED BY <3>1, <3>2
  <2> QED BY <2>1, <2>2, <2>3
<1>10. OnePlace'
  BY <1>6, Nothing DEF PartInv, OnePlace
<1>11. ASSUME NEW a \in Peers, NEW b \in Peers, ~Gone(a)', ~Gone(b)'
       PROVE  /\ ~Gone(a) /\ ~Gone(b) /\ link'[a][b] = link[a][b]
              /\ \A u \in Peers : task'[a][u] = task[a][u] /\ (Amid(a, u, b)' <=> Amid(a, u, b))
  <2>1. a # p /\ b # p /\ ~Gone(a) /\ ~Gone(b)
    BY <1>7, <1>11
  <2>2. \A u \in Peers : task'[a][u] = task[a][u]
    BY <1>6, <2>1
  <2> QED BY <1>4, <2>1, <2>2 DEF Amid
<1>12. UnderWay'
  <2> SUFFICES ASSUME NEW a \in Peers, NEW u \in Peers, NEW b \in Peers, ~Gone(a)', ~Gone(b)',
                      Amid(a, u, b)'
               PROVE  EndsWith(link'[a][b], task'[a][u].msg, task'[a][u].part)
    BY DEF UnderWay
  <2>1. /\ ~Gone(a) /\ ~Gone(b) /\ link'[a][b] = link[a][b] /\ task'[a][u] = task[a][u]
        /\ Amid(a, u, b)
    BY <1>11
  <2>2. EndsWith(link[a][b], task[a][u].msg, task[a][u].part)
    BY <2>1 DEF PartInv, UnderWay
  <2> QED BY <2>1, <2>2
<1>13. SomebodyAt'
  <2> SUFFICES ASSUME NEW a \in Peers, NEW b \in Peers, ~Gone(a)', ~Gone(b)',
                      ~Finished(link'[a][b])
               PROVE  \E u \in Peers : Amid(a, u, b)'
    BY DEF SomebodyAt
  <2>1. ~Gone(a) /\ ~Gone(b) /\ ~Finished(link[a][b])
    BY <1>11
  <2>2. PICK u \in Peers : Amid(a, u, b)
    BY <2>1 DEF PartInv, SomebodyAt
  <2> QED BY <1>11, <2>2
<1>14. PICK new : new = [r \in Peers |-> Complete(kept[r])]
  OBVIOUS
<1>15. \A r \in Peers : new[r] = Complete(kept[r]) /\ new[r] \in W!Prefixes(Mail[p][r])
  BY <1>3, <1>14
<1>16. Mail' = [a \in Peers |-> [b \in Peers |->
                  IF b = p THEN <<>> ELSE IF a = p THEN new[b] ELSE Mail[a][b]]]
  <2>1. \A a, b \in Peers : Complete(link'[a][b]) = IF b = p THEN <<>>
                                    ELSE IF a = p THEN new[b] ELSE Complete(link[a][b])
    <3>1. ASSUME NEW a \in Peers, NEW b \in Peers
          PROVE  Complete(link'[a][b]) = IF b = p THEN <<>> ELSE IF a = p THEN new[b]
                                         ELSE Complete(link[a][b])
      <4>1. link'[a][b] = IF b = p THEN <<>> ELSE IF a = p THEN kept[b] ELSE link[a][b]
        BY <1>4
      <4> QED BY <1>15, <4>1, Nothing
    <3> QED BY <3>1
  <2> QED BY <2>1 DEF Mail
<1>17. Duty' = [Duty EXCEPT ![p] = [q \in Peers |-> W!Idle]]
  <2>1. \A a, b \in Peers : Do(task'[a][b]) = IF a = p THEN W!Idle ELSE Do(task[a][b])
    BY <1>6, Nothing
  <2> QED BY <2>1, DutyIs
<1>18. PICK P : P = [r \in Peers |-> W!Prefixes(Mail[p][r])]
  OBVIOUS
<1>19. \A r \in Peers : new[r] \in P[r]
  BY <1>15, <1>18
<1>20. new \in [Peers -> UNION {P[r] : r \in Peers}]
  BY <1>14, <1>15, <1>19
<1>21. UNION {P[r] : r \in Peers} = UNION {W!Prefixes(Mail[p][r]) : r \in Peers}
  BY <1>18
<1>22. W!End(p, how)
  BY <1>1, <1>15, <1>16, <1>17, <1>20, <1>21 DEF W!End, W!Up
<1> QED BY <1>8, <1>9, <1>10, <1>12, <1>13, <1>22 DEF PartInv

LEMMA DisconnectPart ==
  ASSUME PartInv, NEW p \in Peers, NEW q \in Peers, Disconnect(p, q)
  PROVE  PartInv' /\ W!Disconnect(p, q)
<1>1. PICK l : l = link[q][p]
  OBVIOUS
<1>2. /\ status[p] = "up" /\ q \in peers[p] /\ ~Walks(p, q) /\ Gone(q)
      /\ \A t \in Peers : q \notin task[p][t].at
      /\ l = <<>> \/ (Len(l) = 1 /\ l[1].sent < Parts)
      /\ peers' = [peers EXCEPT ![p] = peers[p] \ {q}]
      /\ UNCHANGED <<status, backlog, shown, broken>>
  BY <1>1 DEF Disconnect, StreamEnds, Up
<1>3. /\ link' = [link EXCEPT ![q][p] = <<>>] /\ got' = [got EXCEPT ![p][q] = 0]
      /\ task' = [task EXCEPT ![p] =
                    [t \in Peers |-> [task[p][t] EXCEPT !.todo = task[p][t].todo \ {q}]]]
  BY DEF Disconnect, Forget
<1>4. Complete(l) = <<>>
  <2>1. l \in Seq(Sent) /\ ButLast(l)
    BY <1>1 DEF PartInv, PartTypes, InTurn
  <2>2. CASE l = <<>>
    BY <2>2, Nothing
  <2>3. CASE Len(l) = 1 /\ l[1].sent < Parts
    <3>1. ~Finished(l)
      BY <2>3 DEF Finished
    <3>2. Complete(l) \in Seq(Messages) /\ Len(Complete(l)) = 0
      BY <2>1, <2>3, <3>1, CompleteIs
    <3> QED BY <3>2
  <2> QED BY <1>2, <2>2, <2>3
<1>5. PICK w : w = [t \in Peers |-> [task[p][t] EXCEPT !.todo = task[p][t].todo \ {q}]]
  OBVIOUS
<1>6. ASSUME NEW t \in Peers
      PROVE  /\ w[t] \in Walk /\ Stands(w[t]) /\ Do(w[t]) = [Duty[p][t] EXCEPT !.todo = @ \ {q}]
             /\ w[t].at = task[p][t].at /\ w[t].part = task[p][t].part
             /\ w[t].msg = task[p][t].msg
  <2>1. PICK o, v : o = task[p][t] /\ v = w[t]
    OBVIOUS
  <2>2. o \in Walk /\ Stands(o) /\ q \notin o.at
    BY <1>2, <2>1 DEF PartInv, PartTypes, OnePlace
  <2>3. v = [o EXCEPT !.todo = o.todo \ {q}]
    BY <1>5, <2>1
  <2>4. v = [msg |-> o.msg, at |-> o.at, part |-> o.part, todo |-> o.todo \ {q}]
    BY <2>2, <2>3 DEF Walk
  <2>5. v \in Walk /\ v.at = o.at /\ v.part = o.part /\ v.msg = o.msg /\ v.todo = o.todo \ {q}
    BY <2>2, <2>4 DEF Walk
  <2>6. Stands(v)
    BY <2>2, <2>5 DEF Stands
  <2>7. ToCome(v) = ToCome(o) \ {q}
    BY <2>2, <2>5 DEF ToCome
  <2>8. Duty[p][t] = [msg |-> o.msg, todo |-> ToCome(o)]
    BY <2>1, DutyIs DEF Do
  <2>9. PICK d, z : d = Duty[p][t] /\ z = ToCome(o)
    OBVIOUS
  <2>10. [d EXCEPT !.todo = d.todo \ {q}] = [msg |-> o.msg, todo |-> z \ {q}]
    BY <2>8, <2>9
  <2>11. Do(v) = [msg |-> o.msg, todo |-> z \ {q}]
    BY <2>5, <2>7, <2>9 DEF Do
  <2> QED BY <2>1, <2>5, <2>6, <2>9, <2>10, <2>11
<1>7. /\ task' \in [Peers -> [Peers -> Walk]]
      /\ \A a, b \in Peers : task'[a][b] = IF a = p THEN w[b] ELSE task[a][b]
  <2>1. task \in [Peers -> [Peers -> Walk]] /\ task' = [task EXCEPT ![p] = w]
    BY <1>3, <1>5 DEF PartInv, PartTypes
  <2>2. w \in [Peers -> Walk]
    BY <1>5, <1>6
  <2> QED BY <2>1, <2>2
<1>8. /\ link' \in [Peers -> [Peers -> Seq(Sent)]]
      /\ \A a, b \in Peers : link'[a][b] = IF a = q /\ b = p THEN <<>> ELSE link[a][b]
  <2>1. link \in [Peers -> [Peers -> Seq(Sent)]] /\ <<>> \in Seq(Sent)
    BY Nothing DEF PartInv, PartTypes
  <2> QED BY <1>3, <2>1
<1>9. /\ got' \in [Peers -> [Peers -> 0..Parts]]
      /\ \A a, b \in Peers : got'[a][b] = IF a = p /\ b = q THEN 0 ELSE got[a][b]
  <2>1. got \in [Peers -> [Peers -> 0..Parts]] /\ 0 \in 0..Parts
    BY DEF PartInv, PartTypes
  <2> QED BY <1>3, <2>1
<1>10. PartTypes' /\ \A x \in Peers : Gone(x)' <=> Gone(x)
  BY <1>2, <1>7, <1>8, <1>9 DEF PartInv, PartTypes, Gone
<1>11. InTurn' /\ ReadSoFar'
  <2> SUFFICES ASSUME NEW a \in Peers, NEW b \in Peers
               PROVE  ButLast(link'[a][b]) /\ HasRead(link'[a][b], got'[b][a])
    BY DEF InTurn, ReadSoFar
  <2>1. CASE a = q /\ b = p
    <3>1. link'[a][b] = <<>> /\ got'[b][a] = 0
      BY <1>8, <1>9, <2>1
    <3> QED BY <3>1, Nothing
  <2>2. CASE ~(a = q /\ b = p)
    <3>1. link'[a][b] = link[a][b] /\ got'[b][a] = got[b][a]
      BY <1>8, <1>9, <2>2
    <3>2. ButLast(link[a][b]) /\ HasRead(link[a][b], got[b][a])
      BY DEF PartInv, InTurn, ReadSoFar
    <3> QED BY <3>1, <3>2
  <2> QED BY <2>1, <2>2
<1>12. OnePlace'
  BY <1>6, <1>7 DEF PartInv, OnePlace
<1>13. \A a, u, b \in Peers : /\ Amid(a, u, b)' <=> Amid(a, u, b)
                              /\ task'[a][u].msg = task[a][u].msg
                              /\ task'[a][u].part = task[a][u].part
  <2>1. ASSUME NEW a \in Peers, NEW u \in Peers
        PROVE  /\ task'[a][u].msg = task[a][u].msg /\ task'[a][u].part = task[a][u].part
               /\ task'[a][u].at = task[a][u].at
    BY <1>6, <1>7
  <2> QED BY <2>1 DEF Amid
<1>14. UnderWay'
  <2> SUFFICES ASSUME NEW a \in Peers, NEW u \in Peers, NEW b \in Peers, ~Gone(a), ~Gone(b),
                      Amid(a, u, b)
               PROVE  EndsWith(link'[a][b], task[a][u].msg, task[a][u].part)
    BY <1>10, <1>13 DEF UnderWay
  <2>1. EndsWith(link[a][b], task[a][u].msg, task[a][u].part)
    BY DEF PartInv, UnderWay
  <2>2. link'[a][b] = link[a][b]
    BY <1>2, <1>8
  <2> QED BY <2>1, <2>2
<1>15. SomebodyAt'
  <2> SUFFICES ASSUME NEW a \in Peers, NEW b \in Peers, ~Gone(a), ~Gone(b),
                      ~Finished(link'[a][b])
               PROVE  \E u \in Peers : Amid(a, u, b)
    BY <1>10, <1>13 DEF SomebodyAt
  <2>1. link'[a][b] = link[a][b]
    BY <1>2, <1>8
  <2> QED BY <2>1 DEF PartInv, SomebodyAt
<1>16. Mail' = Mail
  <2>1. \A a, b \in Peers : Complete(link'[a][b]) = Complete(link[a][b])
    <3>1. ASSUME NEW a \in Peers, NEW b \in Peers
          PROVE  Complete(link'[a][b]) = Complete(link[a][b])
      <4>1. CASE a = q /\ b = p
        BY <1>1, <1>4, <1>8, <4>1, Nothing
      <4>2. CASE ~(a = q /\ b = p)
        BY <1>8, <4>2
      <4> QED BY <4>1, <4>2
    <3> QED BY <3>1
  <2> QED BY <2>1, MailKept
<1>17. Duty' = [Duty EXCEPT ![p] = [t \in Peers |-> [Duty[p][t] EXCEPT !.todo = @ \ {q}]]]
  <2>1. PICK y : y = [t \in Peers |-> [Duty[p][t] EXCEPT !.todo = @ \ {q}]]
    OBVIOUS
  <2>2. \A a, b \in Peers : Do(task'[a][b]) = IF a = p THEN y[b] ELSE Do(task[a][b])
    BY <1>6, <1>7, <2>1
  <2>3. Duty' = [Duty EXCEPT ![p] = y]
    <3>1. PICK D, E : D = Duty /\ E = Duty'
      OBVIOUS
    <3>2. /\ D = [a \in Peers |-> [b \in Peers |-> D[a][b]]]
          /\ E = [a \in Peers |-> [b \in Peers |-> E[a][b]]]
      BY <3>1, DutyIs
    <3>3. \A a, b \in Peers : E[a][b] = IF a = p THEN y[b] ELSE D[a][b]
      BY <2>2, <3>1, DutyIs
    <3>4. y = [b \in Peers |-> y[b]]
      BY <2>1
    <3>5. E[p] = y
      BY <3>2, <3>3, <3>4
    <3>6. \A a \in Peers : a # p => E[a] = D[a]
      BY <3>2, <3>3
    <3>7. E = [D EXCEPT ![p] = y]
      BY <3>2, <3>5, <3>6
    <3> QED BY <3>1, <3>7
  <2> QED BY <2>1, <2>3
<1>18. Duty[p][q].todo = {} /\ Mail[q][p] = <<>>
  <2>1. Mail[q][p] = Complete(l)
    BY <1>1 DEF Mail
  <2> QED BY <1>2, <1>4, <2>1, NothingToDo
<1>19. W!Disconnect(p, q)
  BY <1>2, <1>16, <1>17, <1>18 DEF W!Disconnect, W!Up, W!Gone, Gone
<1> QED BY <1>10, <1>11, <1>12, <1>14, <1>15, <1>19 DEF PartInv

(* Every step is one of the abstract network, or invisible there.          *)
LEMMA PartNext == PartInv /\ [Next]_vars => PartInv' /\ [W!Next]_W!vars
<1> SUFFICES ASSUME PartInv, [Next]_vars PROVE PartInv' /\ [W!Next]_W!vars
  OBVIOUS
<1>1. CASE UNCHANGED vars
  BY <1>1, PartStutter
<1>2. ASSUME NEW p \in Peers, Start(p) PROVE PartInv' /\ W!Next
  BY <1>2, StartPart DEF W!Next
<1>3. ASSUME NEW p \in Peers, Say(p) PROVE PartInv' /\ W!Next
  BY <1>3, SayPart DEF W!Next
<1>4. ASSUME NEW p \in Peers, Leave(p) PROVE PartInv' /\ W!Next
  <2>1. status[p] = "up" /\ End(p, "left")
    BY <1>4 DEF Leave, Up
  <2>2. PartInv' /\ W!End(p, "left")
    BY <2>1, EndPart
  <2> QED BY <2>2 DEF W!Next
<1>5. ASSUME NEW p \in Peers, BrokenPipe(p) PROVE PartInv' /\ W!Next
  <2>1. status[p] = "up" /\ End(p, "killed")
    BY <1>5 DEF BrokenPipe, Writes, Up
  <2>2. PartInv' /\ W!End(p, "killed")
    BY <2>1, EndPart
  <2> QED BY <2>2 DEF W!Next
<1>6. ASSUME NEW p \in Peers, NEW q \in Peers, Connect(p, q) PROVE PartInv' /\ W!Next
  BY <1>6, ConnectPart DEF W!Next
<1>7. ASSUME NEW p \in Peers, NEW q \in Peers, Accept(p, q) PROVE PartInv' /\ W!Next
  BY <1>7, AcceptPart DEF W!Next
<1>8. ASSUME NEW p \in Peers, NEW q \in Peers, Thread(p, q) PROVE PartInv' /\ [W!Next]_W!vars
  <2>1. CASE Advance(p, q)
    BY <2>1, AdvancePart
  <2>2. CASE Read(p, q)
    BY <2>2, ReadPart
  <2>3. CASE Receive(p, q)
    BY <2>3, ReceivePart DEF W!Next
  <2>4. CASE Disconnect(p, q)
    BY <2>4, DisconnectPart DEF W!Next
  <2>5. ASSUME NEW r \in Peers, Write(p, q, r) PROVE PartInv' /\ [W!Next]_W!vars
    BY <2>5, WritePart
  <2> QED BY <1>8, <2>1, <2>2, <2>3, <2>4, <2>5 DEF Thread
<1>9. ASSUME NEW p \in Peers, NEW q \in Peers, Dangle(p, q) PROVE PartInv' /\ UNCHANGED W!vars
  BY <1>9, BrokenPart DEF Dangle
<1>10. ASSUME NEW p \in Peers, NEW q \in Peers, NEW r \in Peers, Mix(p, q, r)
       PROVE  PartInv' /\ UNCHANGED W!vars
  BY <1>10, BrokenPart DEF Mix
<1> QED BY <1>1, <1>2, <1>3, <1>4, <1>5, <1>6, <1>7, <1>8, <1>9, <1>10 DEF Next

LEMMA PartInvariant == Spec => []PartInv
BY PartInit, PartNext, PTL DEF Spec
-----------------------------------------------------------------------------
(* Written and read in parts, by one thread for each connection, messages  *)
(* pass as whole ones would: as long as no two threads have mixed theirs   *)
(* on one connection (Mix) and no walk follows a freed node (Dangle), the  *)
(* network is one of whole messages.  The functions are handle_messages    *)
(* and forward_message.                                                    *)
THEOREM NetworkPassesWholeMessages == Spec => PassesWholeMessages
BY PartInit, PartNext, PTL DEF Spec, PassesWholeMessages, W!Spec

LEMMA BothInvariant == Spec => [](PartInv /\ NetInv)
<1>1. Spec => W!Spec
  BY NetworkPassesWholeMessages DEF PassesWholeMessages
<1> QED BY <1>1, PartInvariant, NetInvariant, PTL

(* Whatever any process shows was typed by its origin before, and no       *)
(* message comes back to the process where it was typed, until two threads *)
(* mix their messages or a freed node is followed (handle_messages,        *)
(* forward_message).                                                       *)
THEOREM NetworkShownWasTyped == Spec => []ShownWasTyped
<1>1. PartInv /\ NetInv => ShownWasTyped
  <2> SUFFICES ASSUME PartInv, NetInv PROVE ShownWasTyped
    OBVIOUS
  <2>1. PICK side \in Sides : Net(side) /\ Order(side)
    BY DEF NetInv
  <2>2. TypeOK
    <3>1. \A p, q \in Peers : link[p][q] \in Seq(Sent) /\ task[p][q] \in Walk
      BY DEF PartInv, PartTypes
    <3>2. \A p, q \in Peers : link[p][q] \in Seq([msg : Messages, sent : 1..Parts])
      BY <3>1 DEF Sent
    <3>3. \A p, q \in Peers : task[p][q] \in [msg : Messages \cup {<<>>}, at : SUBSET Peers,
                                              part : 0..Parts, todo : SUBSET Peers]
      BY <3>1 DEF Walk
    <3>4. \A p, q \in Peers : got[p][q] \in 0..Parts /\ shown[p][q] \in Seq(1..MaxSays)
      BY DEF PartInv, PartTypes
    <3> QED BY <3>2, <3>3, <3>4 DEF PartInv, PartTypes, TypeOK
  <2>3. \A p, o \in Peers : \A i \in 1..Len(shown[p][o]) : shown[p][o][i] <= Len(shown[o][o])
    BY <2>1 DEF Net, Typed
  <2>4. ASSUME NEW p \in Peers, NEW q \in Peers, NEW i \in 1..Len(link[q][p]),
               link[q][p][i].sent = Parts
        PROVE  link[q][p][i].msg[1] # p
    <3>1. PICK l : l = link[q][p]
      OBVIOUS
    <3>2. l \in Seq(Sent) /\ ButLast(l)
      BY <3>1 DEF PartInv, PartTypes, InTurn
    <3>3. i \in 1..Len(Complete(l))
      <4>1. Finished(l) => Len(Complete(l)) = Len(l)
        BY <3>2, CompleteIs
      <4>2. ~Finished(l) => Len(Complete(l)) = Len(l) - 1 /\ l[Len(l)].sent < Parts
        BY <3>2, CompleteIs
      <4>3. ~Finished(l) => i # Len(l)
        BY <2>4, <3>1, <4>2
      <4> QED BY <3>1, <3>2, <4>1, <4>2, <4>3
    <3>4. Complete(l)[i] = l[i].msg
      BY <3>2, <3>3, CompleteIs
    <3>5. Mail[q][p] = Complete(l)
      BY <3>1 DEF Mail
    <3>6. Mail[q][p][i][1] \in side[q][p]
      BY <2>1, <3>3, <3>5 DEF Net, Directed
    <3>7. p \notin side[q][p]
      BY <2>1 DEF Net, Tree
    <3> QED BY <3>1, <3>4, <3>5, <3>6, <3>7
  <2> QED BY <2>2, <2>3, <2>4 DEF ShownWasTyped
<1> QED BY <1>1, BothInvariant, PTL

(* Every process shows the messages of one origin in the order they were   *)
(* typed, each once, and without a gap from the first that reached it,     *)
(* until two threads mix their messages or a freed node is followed        *)
(* (handle_messages, forward_message, remove_peer).                        *)
THEOREM NetworkShownInOrder == Spec => []ShownInOrder
<1>1. NetInv => ShownInOrder
  <2> SUFFICES ASSUME NetInv, NEW p \in Peers, NEW o \in Peers,
                      NEW i \in 2..Len(shown[p][o])
               PROVE  shown[p][o][i] = shown[p][o][i - 1] + 1
    BY DEF ShownInOrder
  <2>1. PICK side \in Sides : Net(side) /\ Order(side)
    BY DEF NetInv
  <2>2. Numbered
    BY <2>1 DEF Order
  <2>3. shown[p][o] \in Seq(1..MaxSays)
    BY <2>1, Streams DEF Net
  <2>4. i \in 1..Len(shown[p][o]) /\ i # 1
    BY <2>3
  <2> QED BY <2>2, <2>4 DEF Numbered
<1> QED BY <1>1, BothInvariant, PTL
=============================================================================
