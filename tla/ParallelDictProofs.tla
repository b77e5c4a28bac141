-------------------------- MODULE ParallelDictProofs ------------------------
(***************************************************************************)
(* Proofs about ParallelDict for any number of threads, keys, values and   *)
(* nodes.  What keeps the dictionary right is how its callers use it: a    *)
(* key that may be removed is alone in its bucket and one thread sets it.  *)
(***************************************************************************)
EXTENDS ParallelDict, WellFoundedInduction, SequenceTheorems, TLAPS

(* How dict-tests.cc uses the keys that it removes: one thread sets each,  *)
(* and no other key has its first character.  Any thread may remove them.  *)
OneWriter(k) == \A t, u \in Writers[k] : t = u
RemovedAlone == \A k \in Removable :
                  OneWriter(k) /\ \A j \in Keys : Bucket[j] = Bucket[k] => j = k

(* The nodes of a bucket, and those of a key.                              *)
Elements(l) == {l[i] : i \in DOMAIN l}
Injective(l) == \A i, j \in DOMAIN l : l[i] = l[j] => i = j
In(b) == Elements(list[b])
NodesOf(k) == {n \in In(Bucket[k]) : key[n] = k}

Types == /\ list \in [Buckets -> Seq(Nodes)] /\ alloc \subseteq Nodes
         /\ key \in [Nodes -> Keys] /\ value \in [Nodes -> Nat]
         /\ pc \in [Threads -> {"idle", "set_find", "set_write", "set_add",
                                "get_read", "destroy"}]
         /\ arg = [t \in Threads |-> arg[t]]
         /\ node \in [Threads -> Nodes \cup {NULL}] /\ ret \in [Threads -> Int]
         /\ calls \in [Threads -> 0..MaxCalls] /\ added \subseteq Keys

(* Every allocated node is in one list, once, and in its key's bucket.     *)
Kept == /\ \A b \in Buckets : Injective(list[b])
        /\ \A b \in Buckets, n \in Nodes : n \in In(b) <=> n \in alloc /\ Bucket[key[n]] = b

(* What the callers have in hand; while a thread destroys the table, all   *)
(* others are finished.                                                    *)
Setting == {"set_find", "set_write", "set_add"}
Args == \A t \in Threads :
  /\ pc[t] \in Setting => /\ arg[t] = <<arg[t][1], arg[t][2]>> /\ arg[t][1] \in Keys
                          /\ arg[t][2] \in Values /\ t \in Writers[arg[t][1]]
  /\ pc[t] = "get_read" => arg[t] = <<arg[t][1]>> /\ arg[t][1] \in Keys
  /\ pc[t] = "destroy" => /\ arg[t] = <<arg[t][1]>> /\ arg[t][1] \in Buckets
                          /\ \A u \in Threads \ {t} : pc[u] = "idle" /\ calls[u] = MaxCalls
                          /\ \A b \in Buckets : b < arg[t][1] => list[b] = <<>>

(* Every key that was added is there.                                      *)
Found == \A k \in added : NodesOf(k) # {}

(* A key with one writer has one node, and none while the writer adds it.  *)
Once == \A k \in Keys : OneWriter(k) =>
          /\ \A m, n \in NodesOf(k) : m = n
          /\ \A t \in Threads : pc[t] = "set_add" /\ arg[t][1] = k => NodesOf(k) = {}

DictInv == Types /\ Kept /\ Args /\ Found /\ Once
-----------------------------------------------------------------------------
USE DictAssumption DEF Buckets, heap

LEMMA LeastPlace ==
  ASSUME NEW T, T \subseteq Nat, T # {}
  PROVE  (CHOOSE i \in T : \A j \in T : i <= j) \in T
<1>1. IsWellFoundedOn(OpToRel(<, Nat), Nat)
  BY NatLessThanWellFounded
<1>2. PICK x \in T : \A y \in T : ~ (<<y, x>> \in OpToRel(<, Nat))
  BY <1>1, WFMin
<1>3. \A a, b \in Nat : a < b => <<a, b>> \in OpToRel(<, Nat)
  BY DEF OpToRel
<1>4. ASSUME NEW y \in T PROVE x <= y
  <2>1. x \in Nat /\ y \in Nat /\ ~(y < x)
    BY <1>2, <1>3
  <2> QED BY <2>1
<1> QED BY <1>4

(* linkedListFind returns a node of the key if there is one.               *)
LEMMA Search ==
  ASSUME Types, NEW k \in Keys
  PROVE  /\ Places(k) = {} <=> NodesOf(k) = {}
         /\ NodesOf(k) = {} => Find(k) = NULL
         /\ NodesOf(k) # {} => First(k) \in DOMAIN list[Bucket[k]] /\ Find(k) \in NodesOf(k)
<1>1. list[Bucket[k]] \in Seq(Nodes)
  BY DEF Types
<1>2. Places(k) # {} => First(k) \in Places(k) /\ First(k) \in DOMAIN list[Bucket[k]]
  <2>1. Places(k) \subseteq DOMAIN list[Bucket[k]] /\ Places(k) \subseteq Nat
    BY <1>1 DEF Places
  <2> QED BY <2>1, LeastPlace DEF First
<1> QED BY <1>2 DEF Find, Places, NodesOf, In, Elements

LEMMA SearchNext ==
  ASSUME Types', NEW k \in Keys
  PROVE  /\ NodesOf(k)' = {} => Find(k)' = NULL
         /\ NodesOf(k)' # {} => Find(k)' \in NodesOf(k)'
<1>1. list'[Bucket[k]] \in Seq(Nodes)
  BY DEF Types
<1>2. Places(k)' # {} => First(k)' \in Places(k)' /\ First(k)' \in DOMAIN list'[Bucket[k]]
  <2>1. Places(k)' \subseteq DOMAIN list'[Bucket[k]] /\ Places(k)' \subseteq Nat
    BY <1>1 DEF Places
  <2> QED BY <2>1, LeastPlace DEF First
<1> QED BY <1>2 DEF Find, Places, NodesOf, In, Elements

LEMMA InNodes == ASSUME Types, NEW b \in Buckets PROVE In(b) \subseteq Nodes
<1>1. list[b] \in Seq(Nodes)
  BY DEF Types
<1> QED BY <1>1 DEF In, Elements

(* A node put in front of a list.                                          *)
LEMMA Cons ==
  ASSUME NEW n \in Nodes, NEW l \in Seq(Nodes), NEW c, c = <<n>> \o l
  PROVE  /\ c \in Seq(Nodes) /\ Elements(c) = Elements(l) \cup {n}
         /\ Injective(l) /\ n \notin Elements(l) => Injective(c)
<1>1. <<n>> \in Seq(Nodes) /\ Len(<<n>>) = 1 /\ <<n>>[1] = n
  OBVIOUS
<1>2. /\ c \in Seq(Nodes) /\ Len(c) = Len(l) + 1 /\ c[1] = n
      /\ \A i \in 1..Len(l) : c[i + 1] = l[i]
  BY <1>1, ConcatProperties
<1>3. DOMAIN c = 1..(Len(l) + 1) /\ DOMAIN l = 1..Len(l) /\ Len(l) \in Nat
  BY <1>2
<1>4. \A i \in DOMAIN c : i # 1 => i - 1 \in DOMAIN l /\ c[i] = l[i - 1]
  <2> SUFFICES ASSUME NEW i \in DOMAIN c, i # 1 PROVE i - 1 \in DOMAIN l /\ c[i] = l[i - 1]
    OBVIOUS
  <2>1. i - 1 \in 1..Len(l) /\ (i - 1) + 1 = i
    BY <1>3
  <2> QED BY <1>2, <1>3, <2>1
<1>5. Elements(c) = Elements(l) \cup {n}
  <2>1. \A i \in DOMAIN c : c[i] \in Elements(l) \cup {n}
    BY <1>2, <1>4 DEF Elements
  <2>2. ASSUME NEW i \in DOMAIN l PROVE l[i] \in Elements(c)
    <3>1. i + 1 \in DOMAIN c /\ c[i + 1] = l[i]
      BY <1>2, <1>3
    <3> QED BY <3>1 DEF Elements
  <2>3. n \in Elements(c)
    BY <1>2, <1>3 DEF Elements
  <2> QED BY <2>1, <2>2, <2>3 DEF Elements
<1>6. ASSUME Injective(l), n \notin Elements(l), NEW i \in DOMAIN c, NEW j \in DOMAIN c, c[i] = c[j]
      PROVE  i = j
  <2>1. \A k \in DOMAIN l : l[k] # n
    BY <1>6 DEF Elements
  <2> QED BY <1>2, <1>3, <1>4, <1>6, <2>1 DEF Injective
<1> QED BY <1>2, <1>5, <1>6 DEF Injective
-----------------------------------------------------------------------------
LEMMA DictInitInv == Init => DictInv
<1> SUFFICES ASSUME Init PROVE DictInv
  OBVIOUS
<1>1. key \in [Nodes -> Keys]
  BY DEF Init
<1>2. \A b \in Buckets : list[b] = <<>> /\ DOMAIN list[b] = {} /\ In(b) = {}
  BY DEF Init, In, Elements
<1>3. \A k \in Keys : NodesOf(k) = {}
  BY <1>2 DEF NodesOf
<1>4. Types
  BY <1>1 DEF Init, Types
<1>5. Kept
  BY <1>2 DEF Init, Kept, Injective
<1> QED BY <1>3, <1>4, <1>5 DEF Init, DictInv, Args, Found, Once, Setting

(* Steps that leave the lists and the keys of their nodes alone.           *)
LEMMA SameNodes ==
  ASSUME UNCHANGED <<list, key>>
  PROVE  /\ \A b : In(b)' = In(b)
         /\ \A k : NodesOf(k)' = NodesOf(k)
BY DEF In, NodesOf

LEMMA SameKept == ASSUME Kept, UNCHANGED <<list, key, alloc>> PROVE Kept'
BY SameNodes DEF Kept

(* A thread that makes a call: nobody destroys the table.                  *)
Called(t, to, args) ==
  /\ pc[t] = "idle" /\ pc' = [pc EXCEPT ![t] = to]
  /\ calls' \in [Threads -> 0..MaxCalls]
  /\ arg' = [u \in Threads |-> arg'[u]]
  /\ arg'[t] = args /\ \A u \in Threads \ {t} : arg'[u] = arg[u]
  /\ \A u \in Threads : pc[u] # "destroy"

LEMMA Calling ==
  ASSUME DictInv, NEW t \in Threads, NEW to, NEW args, Call(t, to, args)
  PROVE  Called(t, to, args)
<1>1. /\ pc[t] = "idle" /\ pc' = [pc EXCEPT ![t] = to] /\ calls[t] < MaxCalls
      /\ calls' = [calls EXCEPT ![t] = @ + 1] /\ arg' = [arg EXCEPT ![t] = args]
  BY DEF Call, Goto
<1>2. Types
  BY DEF DictInv
<1>3. \A u \in Threads : pc[u] # "destroy"
  <2> SUFFICES ASSUME NEW u \in Threads, pc[u] = "destroy" PROVE FALSE
    OBVIOUS
  <2>1. \A v \in Threads \ {u} : calls[v] = MaxCalls
    BY DEF DictInv, Args
  <2>2. calls[t] # MaxCalls /\ t # u
    BY <1>1, <1>2 DEF Types
  <2> QED BY <2>1, <2>2
<1>4. calls' \in [Threads -> 0..MaxCalls]
  BY <1>1, <1>2 DEF Types
<1>5. arg' = [u \in Threads |-> arg'[u]] /\ arg'[t] = args
  BY <1>1, <1>2 DEF Types
<1>6. \A u \in Threads \ {t} : arg'[u] = arg[u]
  BY <1>1, <1>2 DEF Types
<1> QED BY <1>1, <1>3, <1>4, <1>5, <1>6 DEF Called
LEMMA CalledArgs ==
  ASSUME DictInv, NEW t \in Threads, NEW to, NEW args, Called(t, to, args),
         UNCHANGED list, to # "destroy",
         to \in Setting => /\ args = <<args[1], args[2]>> /\ args[1] \in Keys
                           /\ args[2] \in Values /\ t \in Writers[args[1]],
         to = "get_read" => args = <<args[1]>> /\ args[1] \in Keys
  PROVE  Args'
<1>1. Types /\ Args
  BY DEF DictInv
<1>2. pc'[t] = to /\ arg'[t] = args
  BY <1>1 DEF Called, Types
<1>3. \A u \in Threads \ {t} : pc'[u] = pc[u] /\ arg'[u] = arg[u] /\ pc[u] # "destroy"
  BY <1>1 DEF Called, Types
<1> SUFFICES ASSUME NEW u \in Threads
             PROVE  /\ pc'[u] \in Setting =>
                         /\ arg'[u] = <<arg'[u][1], arg'[u][2]>> /\ arg'[u][1] \in Keys
                         /\ arg'[u][2] \in Values /\ u \in Writers[arg'[u][1]]
                    /\ pc'[u] = "get_read" =>
                         arg'[u] = <<arg'[u][1]>> /\ arg'[u][1] \in Keys
                    /\ pc'[u] # "destroy"
  BY DEF Args, Setting
<1>4. CASE u = t
  BY <1>2, <1>4
<1>5. CASE u # t
  BY <1>1, <1>3, <1>5 DEF Args
<1> QED BY <1>4, <1>5

LEMMA SameFound == ASSUME Found, UNCHANGED <<list, key, added>> PROVE Found'
BY SameNodes DEF Found

(* What it means that the node a thread found is still there.              *)
LEMMA Current ==
  ASSUME NEW t \in Threads, NEW k \in Keys, arg[t][1] = k
  PROVE  NodeCurrent(t) <=> node[t] \in NodesOf(k)
BY DEF NodeCurrent, NodesOf, In, Elements, Seqs!ToSet
-----------------------------------------------------------------------------
(* dict_contains and the search of dict_get that fails.                    *)
LEMMA LookStep ==
  ASSUME DictInv, NEW t \in Threads, NEW k \in Keys, Contains(t, k) \/ GetAbsent(t, k)
  PROVE  DictInv'
<1>1. Called(t, "idle", <<>>) /\ UNCHANGED <<list, heap, node, added>>
  BY Calling DEF Contains, GetAbsent
<1>2. \E r \in Int : ret' = [ret EXCEPT ![t] = r]
  BY DEF Contains, GetAbsent
<1>3. Types'
  BY <1>1, <1>2 DEF Called, DictInv, Types
<1>4. Kept'
  BY <1>1, SameKept DEF DictInv
<1>5. Args'
  BY <1>1, CalledArgs DEF Setting
<1>6. Found'
  BY <1>1, SameFound DEF DictInv
<1>7. Once'
  BY <1>1, SameNodes DEF Called, DictInv, Once, Types
<1> QED BY <1>3, <1>4, <1>5, <1>6, <1>7 DEF DictInv

LEMMA SetStep ==
  ASSUME DictInv, NEW t \in Threads, NEW k \in Keys, NEW v \in Values, Set(t, k, v)
  PROVE  DictInv'
<1>1. PICK to \in {"set_add", "set_find"} :
        /\ to = IF Find(k) = NULL THEN "set_add" ELSE "set_find"
        /\ Called(t, to, <<k, v>>)
  BY Calling DEF Set
<1>2. UNCHANGED <<list, heap, node, ret, added>> /\ t \in Writers[k]
  BY DEF Set
<1>3. Types /\ Types'
  BY <1>1, <1>2 DEF Called, DictInv, Types
<1>5. to = "set_add" => NodesOf(k) = {}
  BY <1>1, <1>3, Search, InNodes DEF NodesOf
<1>6. Kept'
  BY <1>2, SameKept DEF DictInv
<1>7. Args'
  BY <1>1, <1>2, CalledArgs
<1>8. Found'
  BY <1>2, SameFound DEF DictInv
<1>9. Once'
  BY <1>1, <1>2, <1>3, <1>5, SameNodes DEF Called, DictInv, Once, Types
<1> QED BY <1>3, <1>6, <1>7, <1>8, <1>9 DEF DictInv

LEMMA SetFindStep == ASSUME DictInv, NEW t \in Threads, SetFind(t) PROVE DictInv'
<1>1. /\ pc[t] = "set_find" /\ pc' = [pc EXCEPT ![t] = "set_write"]
      /\ node' = [node EXCEPT ![t] = Find(arg[t][1])]
      /\ UNCHANGED <<list, heap, arg, ret, calls, added>>
  BY DEF SetFind, Goto
<1>2. Types /\ arg[t][1] \in Keys /\ Bucket[arg[t][1]] \in Buckets
  BY <1>1 DEF DictInv, Args, Setting
<1>3. PICK k \in Keys : arg[t][1] = k
  BY <1>2
<1>4. Find(arg[t][1]) \in Nodes \cup {NULL}
  BY <1>2, <1>3, Search, InNodes DEF NodesOf
<1>5. Types'
  BY <1>1, <1>2, <1>4 DEF Types
<1>6. Kept'
  BY <1>1, SameKept DEF DictInv
<1>7. Args'
  BY <1>1, <1>2 DEF DictInv, Args, Setting, Types
<1>8. Found'
  BY <1>1, SameFound DEF DictInv
<1>9. Once'
  BY <1>1, <1>2, SameNodes DEF DictInv, Once, Types
<1> QED BY <1>5, <1>6, <1>7, <1>8, <1>9 DEF DictInv

LEMMA SetWriteStep == ASSUME DictInv, NEW t \in Threads, SetWrite(t) PROVE DictInv'
<1>1. /\ pc[t] = "set_write" /\ pc' = [pc EXCEPT ![t] = "idle"]
      /\ value' = [value EXCEPT ![node[t]] = arg[t][2]]
      /\ added' = added \cup {arg[t][1]}
      /\ UNCHANGED <<list, key, alloc, arg, node, ret, calls>>
  BY DEF SetWrite, Goto
<1>2. /\ Types /\ arg[t][1] \in Keys /\ arg[t][2] \in Values
      /\ node[t] \in NodesOf(arg[t][1])
  BY <1>1, Current DEF SetWrite, DictInv, Args, Setting
<1>3. Types'
  BY <1>1, <1>2 DEF Types
<1>4. Kept'
  BY <1>1, SameKept DEF DictInv
<1>5. Args'
  BY <1>1, <1>2 DEF DictInv, Args, Setting, Types
<1>6. Found'
  BY <1>1, <1>2, SameNodes DEF DictInv, Found, Types
<1>7. Once'
  BY <1>1, <1>2, SameNodes DEF DictInv, Once, Types
<1> QED BY <1>3, <1>4, <1>5, <1>6, <1>7 DEF DictInv

LEMMA GetStep ==
  ASSUME DictInv, NEW t \in Threads, NEW k \in Keys, GetFind(t, k) \/ GetRead(t)
  PROVE  DictInv'
<1>1. CASE GetFind(t, k)
  <2>1. /\ Called(t, "get_read", <<k>>) /\ node' = [node EXCEPT ![t] = Find(k)]
        /\ Find(k) # NULL /\ UNCHANGED <<list, heap, ret, added>>
    BY <1>1, Calling DEF GetFind
  <2>2. Types /\ Find(k) \in NodesOf(k)
    BY <2>1, Search DEF DictInv
  <2>3. Find(k) \in Nodes
    BY <2>2, InNodes DEF NodesOf
  <2>4. Types'
    BY <2>1, <2>2, <2>3 DEF Called, Types
  <2>5. Kept'
    BY <2>1, SameKept DEF DictInv
  <2>6. Args'
    BY <2>1, CalledArgs DEF Setting
  <2>7. Found'
    BY <2>1, SameFound DEF DictInv
  <2>8. Once'
    BY <2>1, <2>2, SameNodes DEF Called, DictInv, Once, Types
  <2> QED BY <2>4, <2>5, <2>6, <2>7, <2>8 DEF DictInv
<1>2. CASE GetRead(t)
  <2>1. /\ pc[t] = "get_read" /\ pc' = [pc EXCEPT ![t] = "idle"]
        /\ ret' = [ret EXCEPT ![t] = value[node[t]]]
        /\ UNCHANGED <<list, heap, arg, node, calls, added>>
    BY <1>2 DEF GetRead, Goto
  <2>2. Types /\ arg[t][1] \in Keys /\ node[t] \in NodesOf(arg[t][1])
    BY <1>2, <2>1, Current DEF GetRead, DictInv, Args
  <2>3. node[t] \in Nodes
    BY <2>2, InNodes DEF NodesOf
  <2>4. Types'
    BY <2>1, <2>2, <2>3 DEF Types
  <2>5. Kept'
    BY <2>1, SameKept DEF DictInv
  <2>6. Args'
    BY <2>1, <2>2 DEF DictInv, Args, Setting, Types
  <2>7. Found'
    BY <2>1, SameFound DEF DictInv
  <2>8. Once'
    BY <2>1, <2>2, SameNodes DEF DictInv, Once, Types
  <2> QED BY <2>4, <2>5, <2>6, <2>7, <2>8 DEF DictInv
<1> QED BY <1>1, <1>2
-----------------------------------------------------------------------------
(* linkedListAdd: the bucket has one more node, and so has the key.        *)
Added(t, n, k) ==
  /\ alloc' = alloc \cup {n} /\ key' = [key EXCEPT ![n] = k]
  /\ value' = [value EXCEPT ![n] = arg[t][2]] /\ list' \in [Buckets -> Seq(Nodes)]
  /\ \A b \in Buckets : Injective(list'[b])
  /\ \A b \in Buckets : In(b)' = IF b = Bucket[k] THEN In(b) \cup {n} ELSE In(b)
  /\ \A j \in Keys : NodesOf(j)' = IF j = k THEN NodesOf(j) \cup {n} ELSE NodesOf(j)

LEMMA Adding ==
  ASSUME DictInv, NEW t \in Threads, SetAdd(t)
  PROVE  /\ pc[t] = "set_add" /\ arg[t][1] \in Keys /\ arg[t][2] \in Nat
         /\ \E n \in Nodes \ alloc : Added(t, n, arg[t][1])
<1>1. pc[t] = "set_add"
  BY DEF SetAdd, Goto
<1>2. Types /\ Kept /\ arg[t][1] \in Keys /\ arg[t][2] \in Nat
  BY <1>1 DEF DictInv, Args, Setting
<1>3. PICK n \in Nodes \ alloc :
        /\ alloc' = alloc \cup {n} /\ key' = [key EXCEPT ![n] = arg[t][1]]
        /\ value' = [value EXCEPT ![n] = arg[t][2]]
        /\ list' = [list EXCEPT ![Bucket[arg[t][1]]] = <<n>> \o @]
  BY DEF SetAdd
<1>4. PICK k \in Keys : k = arg[t][1]
  BY <1>2
<1>5. PICK d \in Buckets : d = Bucket[k]
  BY <1>4
<1>6. list[d] \in Seq(Nodes) /\ list'[d] = <<n>> \o list[d]
  BY <1>2, <1>3, <1>4, <1>5 DEF Types
<1>7. \A b \in Buckets \ {d} : list'[b] = list[b]
  BY <1>2, <1>3, <1>4, <1>5 DEF Types
<1>8. \A b \in Buckets : n \notin In(b)
  BY <1>2 DEF Kept
<1>9. /\ list'[d] \in Seq(Nodes) /\ Elements(list'[d]) = Elements(list[d]) \cup {n}
      /\ Injective(list'[d])
  <2>1. Injective(list[d]) /\ n \notin Elements(list[d])
    BY <1>2, <1>8 DEF Kept, In
  <2> QED BY <1>6, <2>1, Cons
<1>10. list' \in [Buckets -> Seq(Nodes)]
  BY <1>2, <1>3, <1>4, <1>5, <1>6, <1>9 DEF Types
<1>11. \A b \in Buckets : Injective(list'[b])
  BY <1>2, <1>7, <1>9 DEF Kept
<1>12. \A b \in Buckets : In(b)' = IF b = d THEN In(b) \cup {n} ELSE In(b)
  BY <1>7, <1>9 DEF In
<1>13. key'[n] = k /\ \A m \in Nodes \ {n} : key'[m] = key[m]
  BY <1>2, <1>3, <1>4 DEF Types
<1>14. \A j \in Keys : NodesOf(j)' = IF j = k THEN NodesOf(j) \cup {n} ELSE NodesOf(j)
  <2> SUFFICES ASSUME NEW j \in Keys
               PROVE  NodesOf(j)' = IF j = k THEN NodesOf(j) \cup {n} ELSE NodesOf(j)
    OBVIOUS
  <2>1. Bucket[j] \in Buckets
    OBVIOUS
  <2>2. \A m \in In(Bucket[j]) : m # n /\ key'[m] = key[m]
    BY <1>2, <1>8, <1>13, <2>1, InNodes
  <2> QED BY <1>5, <1>12, <1>13, <2>1, <2>2 DEF NodesOf
<1> QED BY <1>1, <1>2, <1>3, <1>4, <1>5, <1>10, <1>11, <1>12, <1>14 DEF Added

LEMMA SetAddStep == ASSUME DictInv, NEW t \in Threads, SetAdd(t) PROVE DictInv'
<1>1. PICK n \in Nodes \ alloc, k \in Keys :
        arg[t][1] = k /\ arg[t][2] \in Nat /\ pc[t] = "set_add" /\ Added(t, n, k)
  BY Adding
<1>2. /\ pc' = [pc EXCEPT ![t] = "idle"] /\ added' = added \cup {k}
      /\ UNCHANGED <<arg, node, ret, calls>>
  BY <1>1 DEF SetAdd, Goto
<1>3. Types /\ k \in Keys /\ t \in Writers[k]
  BY <1>1 DEF DictInv, Args, Setting
<1>4. Types'
  BY <1>1, <1>2, <1>3 DEF Types, Added
<1>5. Kept'
  <2>1. \A b \in Buckets : \A m \in In(b) : m # n
    BY <1>1 DEF DictInv, Kept
  <2>2. key'[n] = k /\ \A m \in Nodes \ {n} : key'[m] = key[m]
    BY <1>1, <1>3 DEF Types, Added
  <2>3. ASSUME NEW b \in Buckets, NEW m \in Nodes
        PROVE  m \in In(b)' <=> m \in alloc' /\ Bucket[key'[m]] = b
    <3>1. CASE m = n
      BY <1>1, <2>1, <2>2, <3>1 DEF Added
    <3>2. CASE m # n
      <4>1. m \in In(b)' <=> m \in In(b)
        BY <1>1, <3>2 DEF Added
      <4>2. m \in alloc' <=> m \in alloc
        BY <1>1, <3>2 DEF Added
      <4> QED BY <2>2, <3>2, <4>1, <4>2 DEF DictInv, Kept
    <3> QED BY <3>1, <3>2
  <2> QED BY <1>1, <2>3 DEF Kept, Added
<1>6. /\ pc'[t] = "idle" /\ \A u \in Threads \ {t} : pc'[u] = pc[u]
      /\ \A u \in Threads : pc[u] # "destroy"
  <2>1. \A u \in Threads \ {t} : pc[u] # "destroy"
    BY <1>1 DEF DictInv, Args
  <2> QED BY <1>1, <1>2, <1>3, <2>1 DEF Types
<1>7. Args'
  BY <1>2, <1>6 DEF DictInv, Args, Setting
<1>8. \A j \in Keys : NodesOf(j) \subseteq NodesOf(j)'
  BY <1>1 DEF Added
<1>9. Found'
  <2>1. NodesOf(k)' # {}
    BY <1>1 DEF Added
  <2>2. \A j \in added' : NodesOf(j)' # {}
    BY <1>2, <1>3, <1>8, <2>1 DEF DictInv, Found, Types
  <2> QED BY <2>2 DEF Found
<1>10. Once'
  <2> SUFFICES ASSUME NEW j \in Keys, OneWriter(j)
               PROVE  /\ \A m, o \in NodesOf(j)' : m = o
                      /\ \A u \in Threads \ {t} : pc[u] = "set_add" /\ arg[u][1] = j => NodesOf(j)' = {}
    BY <1>2, <1>6 DEF Once, OneWriter
  <2>1. CASE j = k
    <3>1. NodesOf(j) = {} /\ NodesOf(j)' = {n}
      BY <1>1, <2>1 DEF DictInv, Once, Added
    <3>2. \A u \in Threads \ {t} : ~(pc[u] = "set_add" /\ arg[u][1] = j)
      BY <1>3, <2>1 DEF DictInv, Args, Setting, OneWriter
    <3> QED BY <3>1, <3>2
  <2>2. CASE j # k
    BY <1>1, <2>2 DEF DictInv, Once, Added
  <2> QED BY <2>1, <2>2
<1> QED BY <1>4, <1>5, <1>7, <1>9, <1>10 DEF DictInv
-----------------------------------------------------------------------------
(* A bucket that a step empties.                                           *)
Emptied(b, gone) ==
  /\ list' = [list EXCEPT ![b] = <<>>] /\ key' = key
  /\ alloc' = alloc \ gone /\ gone \cap Nodes = In(b)

LEMMA Emptying ==
  ASSUME DictInv, NEW b \in Buckets, NEW gone, Emptied(b, gone)
  PROVE  /\ list' \in [Buckets -> Seq(Nodes)] /\ list'[b] = <<>>
         /\ \A c \in Buckets \ {b} : list'[c] = list[c]
         /\ \A k \in Keys : NodesOf(k)' = IF Bucket[k] = b THEN {} ELSE NodesOf(k)
         /\ Kept'
<1>1. Types /\ Kept
  BY DEF DictInv
<1>2. list' \in [Buckets -> Seq(Nodes)] /\ list'[b] = <<>>
  BY <1>1 DEF Types, Emptied
<1>3. \A c \in Buckets \ {b} : list'[c] = list[c]
  BY <1>1 DEF Types, Emptied
<1>4. \A c \in Buckets : In(c)' = IF c = b THEN {} ELSE In(c)
  BY <1>2, <1>3 DEF In, Elements
<1>5. \A k \in Keys : NodesOf(k)' = IF Bucket[k] = b THEN {} ELSE NodesOf(k)
  BY <1>4 DEF NodesOf, Emptied
<1>6. Kept'
  <2>1. \A c \in Buckets : Injective(list'[c])
    <3>1. Injective(list'[b])
      BY <1>2 DEF Injective
    <3> QED BY <1>1, <1>3, <3>1 DEF Kept
  <2>2. ASSUME NEW c \in Buckets, NEW n \in Nodes
        PROVE  n \in In(c)' <=> n \in alloc' /\ Bucket[key'[n]] = c
    <3>1. n \in alloc' <=> n \in alloc /\ Bucket[key[n]] # b
      BY <1>1 DEF Kept, Emptied
    <3>2. n \in In(c)' <=> c # b /\ n \in alloc /\ Bucket[key[n]] = c
      BY <1>1, <1>4 DEF Kept
    <3> QED BY <3>1, <3>2 DEF Emptied
  <2> QED BY <2>1, <2>2 DEF Kept
<1> QED BY <1>2, <1>3, <1>5, <1>6

(* A key that may be removed is alone, with at most one node: losing the   *)
(* rest of the bucket loses nothing.                                       *)
LEMMA Removing ==
  ASSUME RemovedAlone, DictInv, NEW t \in Threads, NEW k \in Keys, Remove(t, k)
  PROVE  Emptied(Bucket[k], {Find(k)})
<1>1. /\ k \in Removable /\ alloc' = alloc \ {Find(k)} /\ key' = key
      /\ list' = [list EXCEPT ![Bucket[k]] =
                    IF Places(k) = {} THEN @
                    ELSE IF First(k) = 1 THEN <<>> ELSE Seqs!RemoveAt(@, First(k))]
  BY DEF Remove
<1>2. /\ Types /\ Kept /\ Once /\ OneWriter(k) /\ Bucket[k] \in Buckets
      /\ \A j \in Keys : Bucket[j] = Bucket[k] => j = k
  BY <1>1 DEF DictInv, RemovedAlone
<1>3. In(Bucket[k]) = NodesOf(k)
  <2>1. ASSUME NEW n \in In(Bucket[k]) PROVE key[n] = k
    BY <1>2, InNodes DEF Kept, Types
  <2> QED BY <2>1 DEF NodesOf
<1>4. list[Bucket[k]] \in Seq(Nodes) /\ Injective(list[Bucket[k]])
  BY <1>2 DEF Types, Kept
<1>5. CASE NodesOf(k) = {}
  <2>1. Find(k) = NULL /\ Places(k) = {}
    BY <1>2, <1>5, Search
  <2>2. DOMAIN list[Bucket[k]] = {}
    <3>1. \A i \in DOMAIN list[Bucket[k]] : list[Bucket[k]][i] \in In(Bucket[k])
      BY DEF In, Elements
    <3> QED BY <1>3, <1>5, <3>1
  <2>3. list[Bucket[k]] = <<>>
    <3>1. DOMAIN list[Bucket[k]] = 1..Len(list[Bucket[k]]) /\ Len(list[Bucket[k]]) \in Nat
      BY <1>4
    <3>2. 1 \notin 1..Len(list[Bucket[k]])
      BY <2>2, <3>1
    <3>3. Len(list[Bucket[k]]) = 0
      BY <3>1, <3>2
    <3> QED BY <1>4, <3>3, EmptySeq
  <2>4. list' = [list EXCEPT ![Bucket[k]] = <<>>]
    BY <1>1, <2>1, <2>3
  <2>5. {Find(k)} \cap Nodes = In(Bucket[k])
    BY <1>3, <1>5, <2>1
  <2> QED BY <1>1, <2>4, <2>5 DEF Emptied
<1>6. CASE NodesOf(k) # {}
  <2>1. /\ Find(k) \in NodesOf(k) /\ Places(k) # {} /\ First(k) \in DOMAIN list[Bucket[k]]
    BY <1>2, <1>6, Search
  <2>2. NodesOf(k) = {Find(k)} /\ NodesOf(k) \subseteq Nodes
    BY <1>2, <1>3, <2>1, InNodes DEF Once
  <2>3. \A i, j \in DOMAIN list[Bucket[k]] : i = j
    <3> SUFFICES ASSUME NEW i \in DOMAIN list[Bucket[k]], NEW j \in DOMAIN list[Bucket[k]]
                 PROVE  i = j
      OBVIOUS
    <3>1. list[Bucket[k]][i] \in In(Bucket[k]) /\ list[Bucket[k]][j] \in In(Bucket[k])
      BY DEF In, Elements
    <3>2. list[Bucket[k]][i] = list[Bucket[k]][j]
      BY <1>3, <2>2, <3>1
    <3> QED BY <1>4, <3>2 DEF Injective
  <2>4. First(k) = 1
    <3>1. DOMAIN list[Bucket[k]] = 1..Len(list[Bucket[k]]) /\ Len(list[Bucket[k]]) \in Nat
      BY <1>4
    <3>2. 1 \in DOMAIN list[Bucket[k]]
      BY <2>1, <3>1
    <3> QED BY <2>1, <2>3, <3>2
  <2>5. list' = [list EXCEPT ![Bucket[k]] = <<>>]
    BY <1>1, <2>1, <2>4
  <2> QED BY <1>1, <1>3, <2>2, <2>5 DEF Emptied
<1> QED BY <1>5, <1>6

LEMMA RemoveStep ==
  ASSUME RemovedAlone, DictInv, NEW t \in Threads, NEW k \in Keys, Remove(t, k)
  PROVE  DictInv'
<1>1. /\ k \in Removable /\ Called(t, "idle", <<>>)
      /\ added' = added \ {k} /\ UNCHANGED <<value, node, ret>>
  BY Calling DEF Remove
<1>2. PICK gone : Emptied(Bucket[k], gone)
  BY Removing
<1>3. /\ Types /\ OneWriter(k) /\ Bucket[k] \in Buckets
      /\ \A j \in Keys : Bucket[j] = Bucket[k] => j = k
  BY <1>1 DEF DictInv, RemovedAlone
<1>4. /\ Kept' /\ list' \in [Buckets -> Seq(Nodes)]
      /\ \A j \in Keys : NodesOf(j)' = IF j = k THEN {} ELSE NodesOf(j)
  BY <1>2, <1>3, Emptying
<1>5. Types'
  BY <1>1, <1>2, <1>3, <1>4 DEF Types, Called, Emptied
<1>6. /\ pc[t] = "idle" /\ pc'[t] = "idle"
      /\ \A u \in Threads \ {t} : pc'[u] = pc[u] /\ arg'[u] = arg[u]
      /\ \A u \in Threads : pc[u] # "destroy"
  BY <1>1, <1>3 DEF Called, Types
<1>7. Args'
  BY <1>6 DEF DictInv, Args, Setting
<1>9. Found'
  BY <1>1, <1>3, <1>4 DEF DictInv, Found, Types
<1>10. Once'
  <2> SUFFICES ASSUME NEW j \in Keys, OneWriter(j)
               PROVE  /\ \A m, n \in NodesOf(j)' : m = n
                      /\ \A u \in Threads : pc'[u] = "set_add" /\ arg'[u][1] = j => NodesOf(j)' = {}
    BY DEF Once, OneWriter
  <2>1. /\ \A m, n \in NodesOf(j) : m = n
        /\ \A u \in Threads : pc[u] = "set_add" /\ arg[u][1] = j => NodesOf(j) = {}
    BY DEF DictInv, Once
  <2> QED BY <1>4, <1>6, <2>1
<1> QED BY <1>4, <1>5, <1>7, <1>9, <1>10 DEF DictInv
-----------------------------------------------------------------------------
LEMMA DestroyStep == ASSUME DictInv, NEW t \in Threads, Destroy(t) PROVE DictInv'
<1>1. /\ Called(t, "destroy", <<0>>) /\ UNCHANGED <<list, heap, node, ret, added>>
      /\ \A u \in Threads \ {t} : pc[u] = "idle" /\ calls[u] = MaxCalls
      /\ Call(t, "destroy", <<0>>)
  BY Calling DEF Destroy
<1>2. Types
  BY DEF DictInv
<1>3. Types'
  BY <1>1, <1>2 DEF Called, Types
<1>4. Kept'
  BY <1>1, SameKept DEF DictInv
<1>5. Found'
  BY <1>1, SameFound DEF DictInv
<1>6. Once'
  BY <1>1, <1>2, SameNodes DEF Called, DictInv, Once, Types
<1>7. Args'
  <2>1. /\ pc'[t] = "destroy" /\ arg'[t] = <<0>> /\ 0 \in Buckets
        /\ \A u \in Threads \ {t} : pc'[u] = "idle"
    BY <1>1, <1>2 DEF Called, Types
  <2>2. \A u \in Threads \ {t} : calls'[u] = MaxCalls
    BY <1>1, <1>2 DEF Call, Types
  <2>3. \A b \in Buckets : ~(b < 0)
    OBVIOUS
  <2> QED BY <2>1, <2>2, <2>3 DEF Args, Setting
<1> QED BY <1>3, <1>4, <1>5, <1>6, <1>7 DEF DictInv

LEMMA DestroyBucketStep == ASSUME DictInv, NEW t \in Threads, DestroyBucket(t) PROVE DictInv'
<1>1. Types /\ Kept /\ pc[t] = "destroy"
  BY DEF DictInv, DestroyBucket, Goto
<1>2. PICK b \in Buckets : arg[t][1] = b
  BY <1>1 DEF DictInv, Args
<1>3. /\ \A u \in Threads \ {t} : pc[u] = "idle" /\ calls[u] = MaxCalls
      /\ \A c \in Buckets : c < b => list[c] = <<>>
  BY <1>1, <1>2 DEF DictInv, Args
<1>4. /\ pc' = [pc EXCEPT ![t] = IF b + 1 \in Buckets THEN "destroy" ELSE "idle"]
      /\ arg' = [arg EXCEPT ![t] = IF b + 1 \in Buckets THEN <<b + 1>> ELSE <<>>]
      /\ list' = [list EXCEPT ![b] = <<>>] /\ alloc' = alloc \ Seqs!ToSet(list[b])
      /\ added' = {k \in added : Bucket[k] # b}
      /\ UNCHANGED <<key, value, node, ret, calls>>
  BY <1>2 DEF DestroyBucket, Goto
<1>5. Emptied(b, In(b))
  BY <1>1, <1>4, InNodes DEF Emptied, In, Elements, Seqs!ToSet
<1>6. /\ list' \in [Buckets -> Seq(Nodes)] /\ list'[b] = <<>> /\ Kept'
      /\ \A c \in Buckets \ {b} : list'[c] = list[c]
      /\ \A k \in Keys : NodesOf(k)' = IF Bucket[k] = b THEN {} ELSE NodesOf(k)
  BY <1>5, Emptying
<1>7. Types'
  BY <1>1, <1>4, <1>6 DEF Types
<1>8. /\ pc'[t] = IF b + 1 \in Buckets THEN "destroy" ELSE "idle"
      /\ arg'[t] = IF b + 1 \in Buckets THEN <<b + 1>> ELSE <<>>
      /\ \A u \in Threads \ {t} : pc'[u] = "idle" /\ arg'[u] = arg[u]
  BY <1>1, <1>3, <1>4 DEF Types
<1>9. Args'
  <2>1. \A c \in Buckets : c < b + 1 => list'[c] = <<>>
    <3> SUFFICES ASSUME NEW c \in Buckets, c < b + 1 PROVE list'[c] = <<>>
      OBVIOUS
    <3>1. c = b \/ c < b
      OBVIOUS
    <3> QED BY <1>3, <1>6, <3>1
  <2> QED BY <1>3, <1>4, <1>8, <2>1 DEF Args, Setting
<1>10. Found'
  <2>1. \A j \in added' : NodesOf(j)' # {}
    BY <1>1, <1>4, <1>6 DEF DictInv, Found, Types
  <2> QED BY <2>1 DEF Found
<1>11. Once'
  <2> SUFFICES ASSUME NEW j \in Keys, OneWriter(j) PROVE \A m, n \in NodesOf(j)' : m = n
    BY <1>8 DEF Once, OneWriter
  <2>1. \A m, n \in NodesOf(j) : m = n
    BY DEF DictInv, Once
  <2> QED BY <1>6, <2>1
<1> QED BY <1>6, <1>7, <1>9, <1>10, <1>11 DEF DictInv

LEMMA DictStutter == ASSUME DictInv, UNCHANGED vars PROVE DictInv'
<1>1. /\ UNCHANGED <<list, key, value, alloc, pc, arg, node, ret, calls, added>>
      /\ \A b : In(b)' = In(b)
      /\ \A k : NodesOf(k)' = NodesOf(k)
  BY SameNodes DEF vars
<1>2. Types' /\ Kept' /\ Found'
  BY <1>1 DEF DictInv, Types, Kept, Found
<1>3. Args' /\ Once'
  BY <1>1 DEF DictInv, Args, Once, OneWriter
<1> QED BY <1>2, <1>3 DEF DictInv

LEMMA DictNextInv == RemovedAlone /\ DictInv /\ [Next]_vars => DictInv'
BY LookStep, SetStep, SetFindStep, SetWriteStep, SetAddStep, GetStep, RemoveStep,
   DestroyStep, DestroyBucketStep, DictStutter DEF Next, Step

LEMMA DictInvariant == ASSUME RemovedAlone PROVE Spec => []DictInv
BY DictInitInv, DictNextInv, PTL DEF Spec
-----------------------------------------------------------------------------
(* However the threads interleave, and for tables, heaps and keys of any   *)
(* size: every node malloc handed out is in one list, once, in its key's   *)
(* bucket, and every field keeps its type, provided that the keys which    *)
(* are removed are used as dict-tests.cc uses them.                        *)
THEOREM DictWellFormed == ASSUME RemovedAlone PROVE Spec => []WellFormed
<1>1. DictInv => WellFormed
  <2> SUFFICES ASSUME DictInv PROVE WellFormed
    OBVIOUS
  <2>1. Types /\ Kept
    BY DEF DictInv
  <2>2. TypeOK
    BY <2>1 DEF Types, TypeOK
  <2>3. \A b \in Buckets : Seqs!ToSet(list[b]) = In(b)
    BY DEF Seqs!ToSet, In, Elements
  <2>4. alloc = UNION {Seqs!ToSet(list[b]) : b \in Buckets}
    <3>1. ASSUME NEW n \in alloc PROVE \E b \in Buckets : n \in In(b)
      <4>1. key[n] \in Keys /\ n \in Nodes
        BY <2>1 DEF Types
      <4> QED BY <2>1, <4>1 DEF Kept
    <3>2. ASSUME NEW b \in Buckets, NEW n \in In(b) PROVE n \in alloc
      BY <2>1, InNodes DEF Kept
    <3> QED BY <2>3, <3>1, <3>2
  <2>5. ASSUME NEW b \in Buckets
        PROVE  /\ Seqs!IsInjective(list[b])
               /\ \A n \in Seqs!ToSet(list[b]) : Bucket[key[n]] = b
    <3>1. Seqs!IsInjective(list[b])
      BY <2>1 DEF Kept, Injective, Seqs!IsInjective
    <3>2. \A n \in In(b) : Bucket[key[n]] = b
      BY <2>1, InNodes DEF Kept
    <3> QED BY <2>3, <3>1, <3>2
  <2> QED BY <2>2, <2>4, <2>5 DEF WellFormed
<1> QED BY <1>1, DictInvariant, PTL

(* The step by which a thread loses its node is another thread's removal   *)
(* of the key.                                                             *)
LEMMA Holding ==
  ASSUME DictInv, NEW t \in Threads, Using(t), NEW k \in Keys, arg[t][1] = k
  PROVE  Holds(t) <=> IF pc[t] = "set_find" THEN NodesOf(k) # {} ELSE node[t] \in NodesOf(k)
<1>1. NodesOf(k) # {} => Find(k) \in Nodes
  BY Search, InNodes DEF DictInv, NodesOf
<1>2. Find(k) # NULL <=> NodesOf(k) # {}
  BY <1>1, Search DEF DictInv
<1> QED BY <1>2, Current DEF Holds

LEMMA HoldingNext ==
  ASSUME DictInv', NEW t \in Threads, Using(t)', NEW k \in Keys, arg'[t][1] = k
  PROVE  Holds(t)' <=> IF pc'[t] = "set_find" THEN NodesOf(k)' # {} ELSE node'[t] \in NodesOf(k)'
<1>1. NodesOf(k)' # {} => Find(k)' \in Nodes
  <2>1. Bucket[k] \in Buckets /\ list'[Bucket[k]] \in Seq(Nodes)
    BY DEF DictInv, Types
  <2>2. In(Bucket[k])' \subseteq Nodes
    BY <2>1 DEF In, Elements
  <2> QED BY <2>2, SearchNext DEF DictInv, NodesOf
<1>2. Find(k)' # NULL <=> NodesOf(k)' # {}
  BY <1>1, SearchNext DEF DictInv
<1>3. NodeCurrent(t)' <=> node'[t] \in NodesOf(k)'
  BY DEF NodeCurrent, NodesOf, In, Elements, Seqs!ToSet
<1> QED BY <1>2, <1>3 DEF Holds

Lost(t) == (Using(t) /\ ~Holds(t))'

LEMMA Lasting ==
  ASSUME DictInv, DictInv', NEW t \in Threads, Lost(t),
         UNCHANGED <<pc[t], arg[t], node[t]>>,
         \A k \in Keys : arg[t][1] = k => NodesOf(k) \subseteq NodesOf(k)'
  PROVE  Using(t) /\ ~Holds(t)
<1>1. Using(t) /\ Using(t)'
  BY DEF Lost, Using
<1>2. PICK k \in Keys : arg[t][1] = k
  BY <1>1 DEF DictInv, Args, Using, Setting
<1>3. NodesOf(k) \subseteq NodesOf(k)'
  BY <1>2
<1> QED BY <1>1, <1>2, <1>3, Holding, HoldingNext DEF Lost

(* A thread's own steps.                                                   *)
LEMMA OwnStepKeeps ==
  ASSUME DictInv, DictInv', NEW t \in Threads, Step(t), Lost(t)
  PROVE  Using(t) /\ ~Holds(t)
<1> USE DEF Lost
<1>1. Types /\ Types' /\ pc'[t] \in {"set_find", "set_write", "get_read"}
  BY DEF DictInv, Using
<1>2. CASE SetFind(t)
  <2>1. /\ pc[t] = "set_find" /\ pc'[t] = "set_write" /\ node'[t] = Find(arg[t][1])
        /\ UNCHANGED <<list, heap, arg>>
    BY <1>1, <1>2 DEF SetFind, Goto, Types
  <2>2. PICK k \in Keys : arg[t][1] = k
    BY <2>1 DEF DictInv, Args, Setting
  <2>3. NodesOf(k) = {}
    BY <2>1, <2>2, <1>1, HoldingNext, SameNodes, Search
  <2> QED BY <2>1, <2>2, <2>3, Holding DEF Using
<1>3. ASSUME NEW k \in Keys, NEW v \in Values, Set(t, k, v) PROVE FALSE
  <2>1. /\ pc'[t] = IF Find(k) = NULL THEN "set_add" ELSE "set_find"
        /\ arg'[t] = <<k, v>> /\ UNCHANGED <<list, heap>>
    BY <1>1, <1>3 DEF Set, Call, Goto, Types
  <2>2. pc'[t] = "set_find" /\ NodesOf(k) # {} /\ arg'[t][1] = k
    BY <1>1, <2>1, Search
  <2> QED BY <2>1, <2>2, HoldingNext, SameNodes
<1>4. ASSUME NEW k \in Keys, GetFind(t, k) PROVE FALSE
  <2>1. /\ pc'[t] = "get_read" /\ Find(k) # NULL /\ node'[t] = Find(k)
        /\ arg'[t] = <<k>> /\ UNCHANGED <<list, heap>>
    BY <1>1, <1>4 DEF GetFind, Call, Goto, Types
  <2>2. Find(k) \in NodesOf(k) /\ arg'[t][1] = k
    BY <1>1, <2>1, Search
  <2> QED BY <2>1, <2>2, HoldingNext, SameNodes
<1>5. SetWrite(t) \/ SetAdd(t) \/ GetRead(t) \/ Destroy(t) \/ DestroyBucket(t) => FALSE
  BY <1>1 DEF SetWrite, SetAdd, GetRead, Destroy, DestroyBucket, Call, Goto, Types
<1>6. ASSUME NEW k \in Keys, Contains(t, k) \/ Remove(t, k) \/ GetAbsent(t, k) PROVE FALSE
  BY <1>1, <1>6 DEF Contains, Remove, GetAbsent, Call, Goto, Types
<1> QED BY <1>2, <1>3, <1>4, <1>5, <1>6 DEF Step

LEMMA OtherStepKeeps ==
  ASSUME RemovedAlone, DictInv, DictInv', NEW t \in Threads, NEW u \in Threads \ {t},
         Step(u), Lost(t), ~Remove(u, arg[t][1])
  PROVE  Using(t) /\ ~Holds(t)
<1>1. Types /\ Types'
  BY DEF DictInv
<1>3. CASE SetFind(u) \/ SetWrite(u) \/ GetRead(u) \/ Destroy(u)
  <2>1. UNCHANGED <<pc[t], arg[t], node[t], list, key>>
    BY <1>1, <1>3 DEF SetFind, SetWrite, GetRead, Destroy, Call, Goto, Types
  <2> QED BY <2>1, SameNodes, Lasting
<1>4. CASE SetAdd(u)
  <2>1. UNCHANGED <<pc[t], arg[t], node[t]>>
    BY <1>1, <1>4 DEF SetAdd, Goto, Types
  <2>2. \A j \in Keys : NodesOf(j) \subseteq NodesOf(j)'
    <3>1. PICK n, k : Added(u, n, k)
      BY <1>4, Adding
    <3> QED BY <3>1 DEF Added
  <2> QED BY <2>1, <2>2, Lasting
<1>5. ASSUME DestroyBucket(u) PROVE FALSE
  <2>1. pc[u] = "destroy" /\ pc'[t] = pc[t]
    BY <1>1, <1>5 DEF DestroyBucket, Goto, Types
  <2>2. pc[t] = "idle"
    BY <2>1 DEF DictInv, Args
  <2> QED BY <2>1, <2>2 DEF Lost, Using
<1>6. ASSUME NEW k \in Keys, Contains(u, k) \/ GetAbsent(u, k) \/ GetFind(u, k)
      PROVE  Using(t) /\ ~Holds(t)
  <2>1. UNCHANGED <<pc[t], arg[t], node[t], list, key>>
    BY <1>1, <1>6 DEF Contains, GetAbsent, GetFind, Call, Goto, Types
  <2> QED BY <2>1, SameNodes, Lasting
<1>7. ASSUME NEW k \in Keys, Remove(u, k) PROVE Using(t) /\ ~Holds(t)
  <2>1. k # arg[t][1] /\ k \in Removable /\ UNCHANGED <<pc[t], arg[t], node[t]>>
    BY <1>1, <1>7 DEF Remove, Call, Goto, Types
  <2>2. Bucket[k] \in Buckets /\ \A j \in Keys : Bucket[j] = Bucket[k] => j = k
    BY <2>1 DEF RemovedAlone
  <2>3. \A j \in Keys : j # k => NodesOf(j)' = NodesOf(j)
    BY <1>7, <2>2, Removing, Emptying
  <2> QED BY <2>1, <2>3, Lasting
<1>8. ASSUME NEW k \in Keys, NEW v \in Values, Set(u, k, v) PROVE Using(t) /\ ~Holds(t)
  <2>1. UNCHANGED <<pc[t], arg[t], node[t], list, key>>
    BY <1>1, <1>8 DEF Set, Call, Goto, Types
  <2> QED BY <2>1, SameNodes, Lasting
<1> QED BY <1>3, <1>4, <1>5, <1>6, <1>7, <1>8 DEF Step

(* However the threads interleave: a dict_set or dict_get that found its   *)
(* key, and gave the mutex back, finds its node gone only if another       *)
(* thread removed that very key since.                                     *)
THEOREM DictLostOnlyByRemoval == ASSUME RemovedAlone PROVE Spec => LostOnlyByRemoval
<1>1. ASSUME DictInv, DictInv', [Next]_vars, NEW t \in Threads, Lost(t)
      PROVE  Using(t) /\ (Holds(t) => \E u \in Threads \ {t} : Remove(u, arg[t][1]))
  <2>1. ASSUME NEW u \in Threads, Step(u)
        PROVE  Using(t) /\ (Holds(t) => \E w \in Threads \ {t} : Remove(w, arg[t][1]))
    <3>1. CASE u = t
      BY <1>1, <2>1, <3>1, OwnStepKeeps
    <3>2. CASE u # t /\ ~Remove(u, arg[t][1])
      BY <1>1, <2>1, <3>2, OtherStepKeeps
    <3>3. CASE u # t /\ Remove(u, arg[t][1])
      <4>1. Using(t)
        BY <1>1, <3>3 DEF Lost, Using, Remove, Call, Goto, DictInv, Types
      <4> QED BY <3>3, <4>1
    <3> QED BY <3>1, <3>2, <3>3
  <2>2. CASE UNCHANGED vars
    <3>1. UNCHANGED <<pc[t], arg[t], node[t], list, key>>
      BY <2>2 DEF vars
    <3> QED BY <1>1, <3>1, SameNodes, Lasting
  <2> QED BY <1>1, <2>1, <2>2 DEF Next
<1>2. DictInv /\ DictInv' /\ [Next]_vars =>
        [\A t \in Threads : (Using(t) /\ ~Holds(t))' =>
           /\ Using(t)
           /\ Holds(t) => \E u \in Threads \ {t} : Remove(u, arg[t][1])]_vars
  BY <1>1 DEF Lost
<1> QED BY <1>2, DictInvariant, PTL DEF Spec, LostOnlyByRemoval

(* "Added keys should be found" then, too: the loss of keys that           *)
(* dict_remove causes takes two keys in the bucket of a removed one.       *)
THEOREM DictAddedKeysFound == ASSUME RemovedAlone PROVE Spec => []AddedKeysFound
<1>1. DictInv => AddedKeysFound
  <2> SUFFICES ASSUME DictInv, NEW k \in added PROVE Find(k) # NULL
    BY DEF AddedKeysFound
  <2>1. Types /\ k \in Keys /\ NodesOf(k) # {}
    BY DEF DictInv, Found, Types
  <2>2. Find(k) \in NodesOf(k)
    BY <2>1, Search
  <2>3. Bucket[k] \in Buckets /\ Find(k) \in Nodes
    BY <2>1, <2>2, InNodes DEF NodesOf
  <2> QED BY <2>3
<1> QED BY <1>1, DictInvariant, PTL
-----------------------------------------------------------------------------
(* Refinement.  If every key has one writer, it has at most one node, and  *)
(* that node's value is the key's.                                         *)
OneWriterEach == \A k \in Keys : OneWriter(k)

DictShown == [k \in Keys |-> ValueOf(k)]
CallsShown == [t \in Threads |-> CallOf(t)]
Shown == <<DictShown, CallsShown, ret>>

LEMMA ValueHere ==
  ASSUME OneWriterEach, DictInv, NEW k \in Keys
  PROVE  /\ NodesOf(k) = {} => ValueOf(k) = -1
         /\ \A n \in NodesOf(k) : /\ n \in Nodes /\ Find(k) = n /\ NodesOf(k) = {n}
                                  /\ ValueOf(k) = value[n] /\ value[n] \in Nat
<1>1. Types /\ Once /\ Bucket[k] \in Buckets
  BY DEF DictInv
<1>2. NodesOf(k) = {} => ValueOf(k) = -1
  BY <1>1, Search DEF ValueOf
<1>3. ASSUME NEW n \in NodesOf(k)
      PROVE  /\ n \in Nodes /\ Find(k) = n /\ NodesOf(k) = {n}
             /\ ValueOf(k) = value[n] /\ value[n] \in Nat
  <2>1. n \in Nodes /\ NodesOf(k) = {n}
    BY <1>1, InNodes DEF NodesOf, Once, OneWriterEach
  <2>2. Find(k) = n
    BY <1>1, <2>1, Search
  <2> QED BY <1>1, <2>1, <2>2 DEF ValueOf, Types
<1> QED BY <1>2, <1>3

LEMMA ValueNext ==
  ASSUME OneWriterEach, DictInv', NEW k \in Keys
  PROVE  /\ NodesOf(k)' = {} => ValueOf(k)' = -1
         /\ \A n \in NodesOf(k)' : n \in Nodes /\ ValueOf(k)' = value'[n]
<1>1. Types' /\ Once' /\ Bucket[k] \in Buckets
  BY DEF DictInv
<1>2. NodesOf(k)' = {} => ValueOf(k)' = -1
  BY <1>1, SearchNext DEF ValueOf
<1>3. ASSUME NEW n \in NodesOf(k)' PROVE n \in Nodes /\ ValueOf(k)' = value'[n]
  <2>1. NodesOf(k)' = {n}
    BY <1>1 DEF Once, OneWriterEach, OneWriter
  <2>2. Find(k)' = n
    BY <1>1, <2>1, SearchNext
  <2>3. list'[Bucket[k]] \in Seq(Nodes) /\ n \in Elements(list'[Bucket[k]])
    BY <1>1 DEF Types, NodesOf, In
  <2>4. n \in Nodes
    BY <2>3 DEF Elements
  <2> QED BY <2>2, <2>4 DEF ValueOf
<1> QED BY <1>2, <1>3

(* A key whose node and value a step leaves alone keeps its value.         *)
LEMMA SameValue ==
  ASSUME OneWriterEach, DictInv, DictInv', NEW k \in Keys,
         NodesOf(k)' = NodesOf(k), \A n \in NodesOf(k) : value'[n] = value[n]
  PROVE  ValueOf(k)' = ValueOf(k)
<1>1. CASE NodesOf(k) = {}
  BY <1>1, ValueHere, ValueNext
<1>2. ASSUME NEW n \in NodesOf(k) PROVE ValueOf(k)' = ValueOf(k)
  <2>1. ValueOf(k) = value[n]
    BY ValueHere
  <2>2. n \in NodesOf(k)' /\ value'[n] = value[n]
    OBVIOUS
  <2> QED BY <2>1, <2>2, ValueNext
<1> QED BY <1>1, <1>2

LEMMA SameDict ==
  ASSUME OneWriterEach, DictInv, DictInv', UNCHANGED <<list, key, value>>
  PROVE  DictShown' = DictShown
<1>1. \A k \in Keys : ValueOf(k)' = ValueOf(k)
  BY SameNodes, SameValue
<1> QED BY <1>1 DEF DictShown

(* The call of a thread changes, or none does.                             *)
LEMMA CallChanges ==
  ASSUME NEW t \in Threads, NEW c, CallOf(t)' = c,
         \A u \in Threads \ {t} : pc'[u] = pc[u] /\ arg'[u] = arg[u]
  PROVE  CallsShown' = [CallsShown EXCEPT ![t] = c]
<1>1. \A u \in Threads \ {t} : CallOf(u)' = CallOf(u)
  BY DEF CallOf
<1> QED BY <1>1 DEF CallsShown

LEMMA CalledShows ==
  ASSUME DictInv, NEW t \in Threads, NEW to, NEW args, Called(t, to, args)
  PROVE  /\ CallsShown[t] = Abstract!Idle
         /\ to = "idle" => CallsShown' = [CallsShown EXCEPT ![t] = Abstract!Idle]
         /\ to = "get_read" => CallsShown' = [CallsShown EXCEPT ![t] = <<"get", args[1]>>]
         /\ to = "destroy" => CallsShown' = [CallsShown EXCEPT ![t] = <<"destroy">>]
         /\ to \in {"set_add", "set_find"} =>
              CallsShown' = [CallsShown EXCEPT ![t] = <<"set", args[1], args[2]>>]
<1>1. /\ pc[t] = "idle" /\ pc'[t] = to /\ arg'[t] = args
      /\ \A u \in Threads \ {t} : pc'[u] = pc[u] /\ arg'[u] = arg[u]
  BY DEF Called, DictInv, Types
<1>2. CallsShown[t] = Abstract!Idle
  BY <1>1 DEF CallsShown, CallOf, Abstract!Idle
<1>3. PICK c : c = CallOf(t)'
  OBVIOUS
<1>4. /\ to = "idle" => c = Abstract!Idle
      /\ to = "get_read" => c = <<"get", args[1]>>
      /\ to = "destroy" => c = <<"destroy">>
      /\ to \in {"set_add", "set_find"} => c = <<"set", args[1], args[2]>>
  BY <1>1, <1>3 DEF CallOf, Abstract!Idle
<1>5. CallsShown' = [CallsShown EXCEPT ![t] = c]
  BY <1>1, <1>3, CallChanges
<1> QED BY <1>2, <1>4, <1>5

LEMMA LookShows ==
  ASSUME OneWriterEach, DictInv, DictInv', NEW t \in Threads, NEW k \in Keys,
         Contains(t, k) \/ GetAbsent(t, k)
  PROVE  Abstract!Contains(t, k) \/ Abstract!Get(t, k)
<1>1. Called(t, "idle", <<>>) /\ UNCHANGED <<list, heap, node, added>>
  BY Calling DEF Contains, GetAbsent
<1>2. /\ CallsShown[t] = Abstract!Idle
      /\ CallsShown' = [CallsShown EXCEPT ![t] = Abstract!Idle]
  BY <1>1, CalledShows
<1>3. DictShown' = DictShown /\ DictShown[k] = ValueOf(k)
  BY <1>1, SameDict DEF DictShown
<1>4. Find(k) = NULL => ValueOf(k) = -1
  BY DEF ValueOf
<1>5. Find(k) # NULL => ValueOf(k) # -1
  <2>1. Types
    BY DEF DictInv
  <2>2. Find(k) # NULL => \E n \in NodesOf(k) : TRUE
    BY <2>1, Search
  <2> QED BY <2>2, ValueHere
<1>6. CASE Contains(t, k)
  <2>1. ret' = [ret EXCEPT ![t] = IF DictShown[k] = -1 THEN 0 ELSE 1]
    BY <1>3, <1>4, <1>5, <1>6 DEF Contains
  <2> QED BY <1>2, <1>3, <2>1
          DEF Abstract!Contains, Abstract!Complete, Abstract!Absent, DictShown, CallsShown
<1>7. CASE GetAbsent(t, k)
  <2>1. ret' = [ret EXCEPT ![t] = DictShown[k]]
    BY <1>3, <1>4, <1>7 DEF GetAbsent
  <2> QED BY <1>2, <1>3, <2>1 DEF Abstract!Get, Abstract!Complete, DictShown, CallsShown
<1> QED BY <1>6, <1>7

(* dict_set, dict_get and dict_destroy begin.                              *)
LEMMA SetShows ==
  ASSUME OneWriterEach, DictInv, DictInv', NEW t \in Threads, NEW k \in Keys, NEW v \in Values,
         Set(t, k, v)
  PROVE  Abstract!Invoke(t)
<1>1. Called(t, "set_add", <<k, v>>) \/ Called(t, "set_find", <<k, v>>)
  BY Calling DEF Set
<1>2. /\ CallsShown[t] = Abstract!Idle
      /\ CallsShown' = [CallsShown EXCEPT ![t] = <<"set", k, v>>]
  BY <1>1, CalledShows
<1>3. <<"set", k, v>> \in Abstract!Calls
  BY DEF Abstract!Calls
<1>4. DictShown' = DictShown /\ ret' = ret
  BY SameDict DEF Set
<1> QED BY <1>2, <1>3, <1>4 DEF Abstract!Invoke, DictShown, CallsShown

LEMMA GetFindShows ==
  ASSUME OneWriterEach, DictInv, DictInv', NEW t \in Threads, NEW k \in Keys, GetFind(t, k)
  PROVE  Abstract!Invoke(t)
<1>1. Called(t, "get_read", <<k>>)
  BY Calling DEF GetFind
<1>2. /\ CallsShown[t] = Abstract!Idle
      /\ CallsShown' = [CallsShown EXCEPT ![t] = <<"get", k>>]
  BY <1>1, CalledShows
<1>3. <<"get", k>> \in Abstract!Calls
  BY DEF Abstract!Calls
<1>4. DictShown' = DictShown /\ ret' = ret
  BY SameDict DEF GetFind
<1> QED BY <1>2, <1>3, <1>4 DEF Abstract!Invoke, DictShown, CallsShown

LEMMA DestroyShows ==
  ASSUME OneWriterEach, DictInv, DictInv', NEW t \in Threads, Destroy(t)
  PROVE  Abstract!Invoke(t)
<1>1. Called(t, "destroy", <<0>>)
  BY Calling DEF Destroy
<1>2. /\ CallsShown[t] = Abstract!Idle
      /\ CallsShown' = [CallsShown EXCEPT ![t] = <<"destroy">>]
  BY <1>1, CalledShows
<1>3. DictShown' = DictShown /\ ret' = ret
  BY SameDict DEF Destroy
<1>4. <<"destroy">> \in Abstract!Calls
  BY DEF Abstract!Calls
<1> QED BY <1>2, <1>3, <1>4 DEF Abstract!Invoke, DictShown, CallsShown

(* The call of a thread that is about to end it.                           *)
LEMMA EndsCall ==
  ASSUME DictInv, NEW t \in Threads, pc' = [pc EXCEPT ![t] = "idle"], arg' = arg
  PROVE  CallsShown' = [CallsShown EXCEPT ![t] = Abstract!Idle]
<1>1. pc'[t] = "idle" /\ \A u \in Threads \ {t} : pc'[u] = pc[u] /\ arg'[u] = arg[u]
  BY DEF DictInv, Types
<1>2. CallOf(t)' = Abstract!Idle
  BY <1>1 DEF CallOf, Abstract!Idle
<1> QED BY <1>1, <1>2, CallChanges

LEMMA SetFindShows ==
  ASSUME OneWriterEach, DictInv, DictInv', NEW t \in Threads, SetFind(t)
  PROVE  UNCHANGED Shown
<1>1. /\ pc[t] = "set_find" /\ pc' = [pc EXCEPT ![t] = "set_write"] /\ Types
      /\ UNCHANGED <<list, heap, arg, ret, calls, added>>
  BY DEF SetFind, Goto, DictInv
<1>2. \A u \in Threads : CallOf(u)' = CallOf(u)
  BY <1>1 DEF CallOf, Types
<1>3. DictShown' = DictShown
  BY <1>1, SameDict
<1> QED BY <1>1, <1>2, <1>3 DEF Shown, CallsShown

LEMMA SetWriteShows ==
  ASSUME OneWriterEach, DictInv, DictInv', NEW t \in Threads, SetWrite(t)
  PROVE  \E k \in Keys, v \in Values : Abstract!Set(t, k, v)
<1>1. /\ pc[t] = "set_write" /\ pc' = [pc EXCEPT ![t] = "idle"]
      /\ value' = [value EXCEPT ![node[t]] = arg[t][2]]
      /\ UNCHANGED <<list, key, alloc, arg, node, ret, calls>>
  BY DEF SetWrite, Goto
<1>2. PICK k \in Keys, v \in Values : arg[t][1] = k /\ arg[t][2] = v
  BY <1>1 DEF DictInv, Args, Setting
<1>3. PICK n : n = node[t] /\ n \in NodesOf(k)
  BY <1>1, <1>2, Current DEF SetWrite
<1>4. Types /\ n \in Nodes /\ value'[n] = v /\ \A m \in Nodes \ {n} : value'[m] = value[m]
  BY <1>1, <1>2, <1>3, ValueHere DEF DictInv, Types
<1>5. ValueOf(k)' = v
  BY <1>1, <1>3, <1>4, SameNodes, ValueNext
<1>6. ASSUME NEW j \in Keys \ {k} PROVE ValueOf(j)' = ValueOf(j)
  <2>1. \A m \in NodesOf(j) : m # n /\ m \in Nodes
    BY <1>3, ValueHere DEF NodesOf
  <2> QED BY <1>1, <1>4, <2>1, SameNodes, SameValue
<1>7. DictShown' = [DictShown EXCEPT ![k] = v]
  BY <1>5, <1>6 DEF DictShown
<1>8. CallsShown[t] = <<"set", k, v>>
  BY <1>1, <1>2 DEF CallsShown, CallOf
<1>9. CallsShown' = [CallsShown EXCEPT ![t] = Abstract!Idle]
  BY <1>1, EndsCall
<1> QED BY <1>1, <1>7, <1>8, <1>9 DEF Abstract!Set, Abstract!Complete, DictShown, CallsShown

LEMMA SetAddShows ==
  ASSUME OneWriterEach, DictInv, DictInv', NEW t \in Threads, SetAdd(t)
  PROVE  \E k \in Keys, v \in Values : Abstract!Set(t, k, v)
<1>1. PICK n \in Nodes \ alloc, k \in Keys :
        arg[t][1] = k /\ pc[t] = "set_add" /\ Added(t, n, k)
  BY Adding
<1>2. PICK v \in Values : arg[t][2] = v
  BY <1>1 DEF DictInv, Args, Setting
<1>3. pc' = [pc EXCEPT ![t] = "idle"] /\ UNCHANGED <<arg, node, ret, calls>>
  BY DEF SetAdd, Goto
<1>4. Types /\ value'[n] = v /\ \A m \in Nodes \ {n} : value'[m] = value[m]
  BY <1>1, <1>2 DEF DictInv, Types, Added
<1>5. n \in NodesOf(k)'
  BY <1>1 DEF Added
<1>6. ValueOf(k)' = v
  BY <1>4, <1>5, ValueNext
<1>7. ASSUME NEW j \in Keys \ {k} PROVE ValueOf(j)' = ValueOf(j)
  <2>1. NodesOf(j)' = NodesOf(j)
    BY <1>1 DEF Added
  <2>2. \A m \in NodesOf(j) : m # n /\ m \in Nodes
    BY <1>1, ValueHere DEF NodesOf, DictInv, Kept
  <2> QED BY <1>4, <2>1, <2>2, SameValue
<1>8. DictShown' = [DictShown EXCEPT ![k] = v]
  BY <1>6, <1>7 DEF DictShown
<1>9. CallsShown[t] = <<"set", k, v>>
  BY <1>1, <1>2 DEF CallsShown, CallOf
<1>10. CallsShown' = [CallsShown EXCEPT ![t] = Abstract!Idle]
  BY <1>3, EndsCall
<1> QED BY <1>3, <1>8, <1>9, <1>10 DEF Abstract!Set, Abstract!Complete, DictShown, CallsShown

LEMMA GetReadShows ==
  ASSUME OneWriterEach, DictInv, DictInv', NEW t \in Threads, GetRead(t)
  PROVE  \E k \in Keys : Abstract!Get(t, k)
<1>1. /\ pc[t] = "get_read" /\ pc' = [pc EXCEPT ![t] = "idle"]
      /\ ret' = [ret EXCEPT ![t] = value[node[t]]]
      /\ UNCHANGED <<list, heap, arg, node, calls, added>>
  BY DEF GetRead, Goto
<1>2. PICK k \in Keys : arg[t][1] = k
  BY <1>1 DEF DictInv, Args
<1>3. node[t] \in NodesOf(k)
  BY <1>1, <1>2, Current DEF GetRead
<1>4. DictShown[k] = value[node[t]] /\ DictShown' = DictShown
  BY <1>1, <1>3, ValueHere, SameDict DEF DictShown
<1>5. CallsShown[t] = <<"get", k>>
  BY <1>1, <1>2 DEF CallsShown, CallOf
<1>6. CallsShown' = [CallsShown EXCEPT ![t] = Abstract!Idle]
  BY <1>1, EndsCall
<1> QED BY <1>1, <1>4, <1>5, <1>6 DEF Abstract!Get, Abstract!Complete, DictShown, CallsShown

LEMMA RemoveShows ==
  ASSUME RemovedAlone, OneWriterEach, DictInv, DictInv', NEW t \in Threads, NEW k \in Keys,
         Remove(t, k)
  PROVE  Abstract!Remove(t, k)
<1>1. /\ k \in Removable /\ Called(t, "idle", <<>>) /\ UNCHANGED <<value, node, ret>>
  BY Calling DEF Remove
<1>2. PICK gone : Emptied(Bucket[k], gone)
  BY Removing
<1>3. Bucket[k] \in Buckets /\ \A j \in Keys : Bucket[j] = Bucket[k] => j = k
  BY <1>1 DEF RemovedAlone
<1>4. \A j \in Keys : NodesOf(j)' = IF j = k THEN {} ELSE NodesOf(j)
  BY <1>2, <1>3, Emptying
<1>5. ValueOf(k)' = -1
  BY <1>4, ValueNext
<1>6. \A j \in Keys \ {k} : ValueOf(j)' = ValueOf(j)
  BY <1>1, <1>4, SameValue
<1>7. DictShown' = [DictShown EXCEPT ![k] = -1]
  BY <1>5, <1>6 DEF DictShown
<1>8. /\ CallsShown[t] = Abstract!Idle
      /\ CallsShown' = [CallsShown EXCEPT ![t] = Abstract!Idle]
  BY <1>1, CalledShows
<1> QED BY <1>1, <1>7, <1>8
        DEF Abstract!Remove, Abstract!Complete, Abstract!Absent, DictShown, CallsShown

LEMMA DestroyBucketShows ==
  ASSUME OneWriterEach, DictInv, DictInv', NEW t \in Threads, DestroyBucket(t)
  PROVE  Abstract!Destroy(t)
<1>1. Types /\ pc[t] = "destroy"
  BY DEF DictInv, DestroyBucket, Goto
<1>2. PICK b \in Buckets : arg[t][1] = b
  BY <1>1 DEF DictInv, Args
<1>3. \A c \in Buckets : c < b => list[c] = <<>>
  BY <1>1, <1>2 DEF DictInv, Args
<1>4. /\ pc' = [pc EXCEPT ![t] = IF b + 1 \in Buckets THEN "destroy" ELSE "idle"]
      /\ arg' = [arg EXCEPT ![t] = IF b + 1 \in Buckets THEN <<b + 1>> ELSE <<>>]
      /\ list' = [list EXCEPT ![b] = <<>>] /\ alloc' = alloc \ Seqs!ToSet(list[b])
      /\ UNCHANGED <<key, value, node, ret, calls>>
  BY <1>2 DEF DestroyBucket, Goto
<1>5. Emptied(b, In(b))
  BY <1>1, <1>4, InNodes DEF Emptied, In, Elements, Seqs!ToSet
<1>6. \A k \in Keys : NodesOf(k)' = IF Bucket[k] = b THEN {} ELSE NodesOf(k)
  BY <1>5, Emptying
<1>7. ASSUME NEW k \in Keys
      PROVE  ValueOf(k)' = IF Bucket[k] = b THEN -1 ELSE ValueOf(k)
  <2>1. CASE Bucket[k] = b
    BY <1>6, <2>1, ValueNext
  <2>2. CASE Bucket[k] # b
    BY <1>4, <1>6, <2>2, SameValue
  <2> QED BY <2>1, <2>2
<1>8. CallsShown[t] = <<"destroy">>
  BY <1>1 DEF CallsShown, CallOf
<1>9. /\ pc'[t] = IF b + 1 \in Buckets THEN "destroy" ELSE "idle"
      /\ \A u \in Threads \ {t} : pc'[u] = pc[u] /\ arg'[u] = arg[u]
  BY <1>1, <1>4 DEF Types
<1>10. CASE b + 1 \in Buckets
  <2> DEFINE dropped == {k \in Keys : Bucket[k] = b}
  <2>1. DictShown' = [k \in Keys |-> IF k \in dropped THEN -1 ELSE DictShown[k]]
    BY <1>7 DEF DictShown
  <2>2. CallOf(t)' = <<"destroy">>
    BY <1>9, <1>10 DEF CallOf
  <2>3. CallsShown' = [CallsShown EXCEPT ![t] = <<"destroy">>]
    BY <1>9, <2>2, CallChanges
  <2>4. dropped \in SUBSET Keys
    OBVIOUS
  <2> QED BY <1>4, <1>8, <2>1, <2>3, <2>4
          DEF Abstract!Destroy, Abstract!Absent, DictShown, CallsShown
<1>11. CASE b + 1 \notin Buckets
  <2>1. ASSUME NEW k \in Keys PROVE ValueOf(k)' = -1
    <3>1. Bucket[k] = b \/ Bucket[k] < b
      BY <1>11
    <3>2. CASE Bucket[k] < b
      <4>1. list[Bucket[k]] = <<>>
        BY <1>3, <3>2
      <4>2. NodesOf(k) = {}
        BY <4>1 DEF NodesOf, In, Elements
      <4> QED BY <1>6, <4>2, ValueNext
    <3> QED BY <1>7, <3>1, <3>2
  <2>2. DictShown' = [k \in Keys |-> IF k \in Keys THEN -1 ELSE DictShown[k]]
    BY <2>1 DEF DictShown
  <2>3. CallOf(t)' = Abstract!Idle
    BY <1>9, <1>11 DEF CallOf, Abstract!Idle
  <2>4. CallsShown' = [CallsShown EXCEPT ![t] = Abstract!Idle]
    BY <1>9, <2>3, CallChanges
  <2>5. Keys \in SUBSET Keys
    OBVIOUS
  <2> QED BY <1>4, <1>8, <2>2, <2>4, <2>5
          DEF Abstract!Destroy, Abstract!Absent, DictShown, CallsShown
<1> QED BY <1>10, <1>11

LEMMA DictShows ==
  ASSUME RemovedAlone, OneWriterEach, DictInv, DictInv', [Next]_vars
  PROVE  [Abstract!Next]_Shown
<1>1. ASSUME NEW t \in Threads, Step(t) PROVE [Abstract!Next]_Shown
  <2>1. CASE SetFind(t)
    BY <2>1, SetFindShows
  <2>2. CASE SetWrite(t)
    BY <2>2, SetWriteShows DEF Abstract!Next
  <2>3. CASE SetAdd(t)
    BY <2>3, SetAddShows DEF Abstract!Next
  <2>4. CASE GetRead(t)
    BY <2>4, GetReadShows DEF Abstract!Next
  <2>5. CASE Destroy(t)
    BY <2>5, DestroyShows DEF Abstract!Next
  <2>6. CASE DestroyBucket(t)
    BY <2>6, DestroyBucketShows DEF Abstract!Next
  <2>7. ASSUME NEW k \in Keys, Contains(t, k) \/ GetAbsent(t, k) PROVE Abstract!Next
    BY <2>7, LookShows DEF Abstract!Next
  <2>8. ASSUME NEW k \in Keys, Remove(t, k) PROVE Abstract!Next
    BY <2>8, RemoveShows DEF Abstract!Next
  <2>9. ASSUME NEW k \in Keys, GetFind(t, k) PROVE Abstract!Next
    BY <2>9, GetFindShows DEF Abstract!Next
  <2>10. ASSUME NEW k \in Keys, NEW v \in Values, Set(t, k, v) PROVE Abstract!Next
    BY <2>10, SetShows DEF Abstract!Next
  <2> QED BY <1>1, <2>1, <2>2, <2>3, <2>4, <2>5, <2>6, <2>7, <2>8, <2>9, <2>10 DEF Step
<1>2. CASE UNCHANGED vars
  <2>1. DictShown' = DictShown
    BY <1>2, SameDict DEF vars, heap
  <2>2. \A t \in Threads : CallOf(t)' = CallOf(t)
    BY <1>2 DEF vars, CallOf
  <2> QED BY <1>2, <2>1, <2>2 DEF Shown, CallsShown, vars
<1> QED BY <1>1, <1>2 DEF Next

(* With one writer for each key, and keys removed only when they are alone *)
(* in their bucket (the tests of dict-tests.cc), the table implements one  *)
(* mapping on which every call takes effect at one instant.                *)
THEOREM DictLinearizable == ASSUME RemovedAlone, OneWriterEach PROVE Spec => Linearizable
<1>1. Init => Abstract!Init
  <2> SUFFICES ASSUME Init PROVE Abstract!Init
    OBVIOUS
  <2>1. ASSUME NEW k \in Keys PROVE ValueOf(k) = -1
    <3>1. Bucket[k] \in Buckets
      BY DictAssumption
    <3>2. NodesOf(k) = {}
      BY <3>1 DEF Init, NodesOf, In, Elements
    <3> QED BY <3>2, DictInitInv, ValueHere
  <2>2. \A t \in Threads : CallOf(t) = Abstract!Idle
    BY DEF Init, CallOf, Abstract!Idle
  <2>3. ret = [t \in Threads |-> 0]
    BY DEF Init
  <2>4. DictShown = [k \in Keys |-> Abstract!Absent]
    BY <2>1 DEF DictShown, Abstract!Absent
  <2>5. CallsShown = [t \in Threads |-> Abstract!Idle]
    BY <2>2 DEF CallsShown
  <2> QED BY <2>3, <2>4, <2>5 DEF Abstract!Init, DictShown, CallsShown
<1>2. DictInv /\ DictInv' /\ [Next]_vars => [Abstract!Next]_Shown
  BY DictShows
<1>3. [Abstract!Next]_Shown => [Abstract!Next]_(Abstract!vars)
  BY DEF Shown, DictShown, CallsShown, Abstract!vars
<1>4. Spec => []DictInv
  BY DictInvariant
<1> QED BY <1>1, <1>2, <1>3, <1>4, PTL DEF Spec, Linearizable, Abstract!Spec
=============================================================================
