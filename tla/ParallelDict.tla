---------------------------- MODULE ParallelDict ----------------------------
(***************************************************************************)
(* parallel-data-structures/dict.cc: a hash table with one linked list and *)
(* one mutex for every first character of a key.  Each section of code     *)
(* under a mutex is one step; dict_set and dict_get use the node they      *)
(* found after they gave the mutex back.  A list is the sequence of its    *)
(* nodes, first node first.                                                *)
(***************************************************************************)
EXTENDS Integers, Sequences

CONSTANTS Threads, Keys, Values,
          CHARS,     \* the size of the array
          Bucket,    \* the index of each key: its first character
          Nodes,     \* the addresses malloc can return: bounds the heap
          NULL,      \* the null pointer
          MaxCalls,  \* bound: calls each thread makes
          Writers,   \* the threads that may set each key
          Removable  \* the keys that may be removed, by any thread

Buckets == 0..(CHARS - 1)

ASSUME DictAssumption == /\ NULL \notin Nodes
                         /\ Values \subseteq Nat /\ Keys # {}
                         /\ CHARS \in Nat \ {0}
                         /\ Bucket \in [Keys -> Buckets]
                         /\ Writers \in [Keys -> SUBSET Threads]
                         /\ Removable \subseteq Keys
                         /\ MaxCalls \in Nat

VARIABLES list,              \* the nodes of each bucket
          key, value, alloc, \* the heap: fields of each node, allocated nodes
          pc, arg, node, ret,\* each thread: control, arguments, node, result
          calls, added       \* the callers: calls so far, keys that should be in

heap == <<key, value, alloc>>
vars == <<list, heap, pc, arg, node, ret, calls, added>>

(* dict_init                                                               *)
Init == /\ list = [b \in Buckets |-> <<>>]
        /\ key \in [Nodes -> {CHOOSE k \in Keys : TRUE}]
        /\ value = [n \in Nodes |-> 0] /\ alloc = {}
        /\ pc = [t \in Threads |-> "idle"]
        /\ arg = [t \in Threads |-> <<>>]
        /\ node = [t \in Threads |-> NULL]
        /\ ret = [t \in Threads |-> 0]
        /\ calls = [t \in Threads |-> 0] /\ added = {}

Seqs == INSTANCE SequencesExt

Goto(t, from, to) == pc[t] = from /\ pc' = [pc EXCEPT ![t] = to]

Call(t, to, args) == /\ Goto(t, "idle", to)
                     /\ calls[t] < MaxCalls
                     /\ calls' = [calls EXCEPT ![t] = @ + 1]
                     /\ arg' = [arg EXCEPT ![t] = args]

(* linkedListFind: the first node of a key, or null.                       *)
Places(k) == {i \in DOMAIN list[Bucket[k]] : key[list[Bucket[k]][i]] = k}
First(k) == LET here == Places(k) IN CHOOSE i \in here : \A j \in here : i <= j
Find(k) == IF Places(k) = {} THEN NULL ELSE list[Bucket[k]][First(k)]

(* dict_contains                                                           *)
Contains(t, k) == /\ Call(t, "idle", <<>>)
                  /\ ret' = [ret EXCEPT ![t] = IF Find(k) = NULL THEN 0 ELSE 1]
                  /\ UNCHANGED <<list, heap, node, added>>

(* dict_set looks the key up, then looks it up again, then writes to the   *)
(* node; or, when the first search failed, adds a node.                    *)
SetAlwaysAdds(t, k, v) == /\ t \in Writers[k]
                          /\ Call(t, "set_add", <<k, v>>)
                          /\ UNCHANGED <<list, heap, node, ret, added>>
Set(t, k, v) == /\ t \in Writers[k]
                /\ Call(t, IF Find(k) = NULL THEN "set_add" ELSE "set_find", <<k, v>>)
                /\ UNCHANGED <<list, heap, node, ret, added>>

SetFind(t) == /\ Goto(t, "set_find", "set_write")
              /\ node' = [node EXCEPT ![t] = Find(arg[t][1])]
              /\ UNCHANGED <<list, heap, arg, ret, calls, added>>

(* The node a thread found is still the node of its key.  When another     *)
(* thread removed the key since, it is null, freed, or another key's by    *)
(* now: using it is undefined, and the thread goes no further in the       *)
(* model.                                                                  *)
NodeCurrent(t) == /\ node[t] \in Seqs!ToSet(list[Bucket[arg[t][1]]])
                  /\ key[node[t]] = arg[t][1]

SetWrite(t) == /\ Goto(t, "set_write", "idle")
               /\ NodeCurrent(t)
               /\ value' = [value EXCEPT ![node[t]] = arg[t][2]]
               /\ added' = added \cup {arg[t][1]}
               /\ UNCHANGED <<list, key, alloc, arg, node, ret, calls>>

(* linkedListAdd                                                           *)
SetAddDropsRest(t) ==
  /\ Goto(t, "set_add", "idle")
  /\ \E n \in Nodes \ alloc :
       /\ alloc' = alloc \cup {n}
       /\ key' = [key EXCEPT ![n] = arg[t][1]]
       /\ value' = [value EXCEPT ![n] = arg[t][2]]
       /\ list' = [list EXCEPT ![Bucket[arg[t][1]]] = <<n>>]
  /\ added' = added \cup {arg[t][1]}
  /\ UNCHANGED <<arg, node, ret, calls>>
SetAdd(t) ==
  /\ Goto(t, "set_add", "idle")
  /\ \E n \in Nodes \ alloc :
       /\ alloc' = alloc \cup {n}
       /\ key' = [key EXCEPT ![n] = arg[t][1]]
       /\ value' = [value EXCEPT ![n] = arg[t][2]]
       /\ list' = [list EXCEPT ![Bucket[arg[t][1]]] = <<n>> \o @]
  /\ added' = added \cup {arg[t][1]}
  /\ UNCHANGED <<arg, node, ret, calls>>

(* dict_get                                                                *)
GetAbsent(t, k) == /\ Find(k) = NULL
                   /\ Call(t, "idle", <<>>)
                   /\ ret' = [ret EXCEPT ![t] = -1]
                   /\ UNCHANGED <<list, heap, node, added>>

GetFind(t, k) == /\ Find(k) # NULL
                 /\ Call(t, "get_read", <<k>>)
                 /\ node' = [node EXCEPT ![t] = Find(k)]
                 /\ UNCHANGED <<list, heap, ret, added>>

GetRead(t) == /\ Goto(t, "get_read", "idle")
              /\ NodeCurrent(t)
              /\ ret' = [ret EXCEPT ![t] = value[node[t]]]
              /\ UNCHANGED <<list, heap, arg, node, calls, added>>

(* dict_remove: removing the first node of a bucket empties the bucket.    *)
RemoveKeepsNode(t, k) == /\ k \in Removable
                         /\ Call(t, "idle", <<>>)
                         /\ added' = added \ {k}
                         /\ alloc' = alloc \ {Find(k)}
                         /\ UNCHANGED <<list, key, value, node, ret>>
Remove(t, k) == /\ k \in Removable
                /\ Call(t, "idle", <<>>)
                /\ added' = added \ {k}
                /\ alloc' = alloc \ {Find(k)}
                /\ list' = [list EXCEPT ![Bucket[k]] =
                              IF Places(k) = {} THEN @
                              ELSE IF First(k) = 1 THEN <<>> ELSE Seqs!RemoveAt(@, First(k))]
                /\ UNCHANGED <<key, value, node, ret>>

(* dict_destroy, one bucket after the other; the tests call it when every  *)
(* other thread was joined.                                                *)
Destroy(t) == /\ \A u \in Threads \ {t} : pc[u] = "idle" /\ calls[u] = MaxCalls
              /\ Call(t, "destroy", <<0>>)
              /\ UNCHANGED <<list, heap, node, ret, added>>

DestroyBucket(t) ==
  LET b == arg[t][1]
  IN  /\ Goto(t, "destroy", IF b + 1 \in Buckets THEN "destroy" ELSE "idle")
      /\ arg' = [arg EXCEPT ![t] = IF b + 1 \in Buckets THEN <<b + 1>> ELSE <<>>]
      /\ list' = [list EXCEPT ![b] = <<>>]
      /\ alloc' = alloc \ Seqs!ToSet(list[b])
      /\ added' = {k \in added : Bucket[k] # b}
      /\ UNCHANGED <<key, value, node, ret, calls>>

Step(t) == \/ SetFind(t) \/ SetWrite(t) \/ SetAdd(t) \/ GetRead(t)
           \/ Destroy(t) \/ DestroyBucket(t)
           \/ \E k \in Keys : \/ Contains(t, k) \/ Remove(t, k)
                              \/ GetAbsent(t, k) \/ GetFind(t, k)
                              \/ \E v \in Values : Set(t, k, v)

Next == \E t \in Threads : Step(t)

Spec == Init /\ [][Next]_vars
-----------------------------------------------------------------------------
TypeOK == /\ \A b \in Buckets : list[b] \in Seq(Nodes)
          /\ key \in [Nodes -> Keys] /\ value \in [Nodes -> Nat]
          /\ alloc \subseteq Nodes
          /\ pc \in [Threads -> {"idle", "set_find", "set_write", "set_add",
                                 "get_read", "destroy"}]
          /\ node \in [Threads -> Nodes \cup {NULL}]
          /\ ret \in [Threads -> Int]
          /\ calls \in [Threads -> 0..MaxCalls]
          /\ added \subseteq Keys

(* The mutex orders the searches of a bucket (dict-tests.cc:25-26), not    *)
(* the uses of what they found: dict_set searches twice and writes later,  *)
(* dict_get reads when it gave the mutex back.  A call that found its key  *)
(* loses the node before it used it only when another thread removes that  *)
(* very key in between; no other call, of this or of another key, takes it *)
(* away.                                                                   *)
Using(t) == pc[t] \in {"set_find", "set_write", "get_read"}
Holds(t) == IF pc[t] = "set_find" THEN Find(arg[t][1]) # NULL ELSE NodeCurrent(t)

LostOnlyByRemoval ==
  [][\A t \in Threads : (Using(t) /\ ~Holds(t))' =>
       /\ Using(t)
       /\ Holds(t) => \E u \in Threads \ {t} : Remove(u, arg[t][1])]_vars

(* "Added keys should be found, removed keys should not be found"          *)
(* (dict-tests.cc:10), whenever no call is under way.                      *)
Quiet == \A t \in Threads : pc[t] = "idle"

AddedKeysFound == Quiet => \A k \in added : Find(k) # NULL

(* Every allocated node is in exactly one list, once, and under its key's  *)
(* first character: nothing leaks, nothing in a list was freed.            *)
WellFormed ==
  /\ TypeOK
  /\ alloc = UNION {Seqs!ToSet(list[b]) : b \in Buckets}
  /\ \A b \in Buckets : Seqs!IsInjective(list[b]) /\ \A n \in Seqs!ToSet(list[b]) : Bucket[key[n]] = b

(* The table implements one mapping: dict_get takes effect when it reads   *)
(* the node's value, dict_set when it writes it or links the new node.     *)
ValueOf(k) == LET n == Find(k) IN IF n = NULL THEN -1 ELSE value[n]

CallOf(t) == CASE pc[t] = "idle" -> <<"idle">>
               [] pc[t] = "get_read" -> <<"get", arg[t][1]>>
               [] pc[t] = "destroy" -> <<"destroy">>
               [] OTHER -> <<"set", arg[t][1], arg[t][2]>>

Abstract == INSTANCE AbstractDict
              WITH dict <- [k \in Keys |-> ValueOf(k)],
                   call <- [t \in Threads |-> CallOf(t)]
Linearizable == Abstract!Spec
=============================================================================
