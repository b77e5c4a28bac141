---------------------------- MODULE ParallelQueue ---------------------------
(***************************************************************************)
(* parallel-data-structures/queue.cc: a linked queue with head, tail and   *)
(* one mutex.  queue_put, queue_take and queue_destroy run under the       *)
(* mutex; queue_empty reads `tail' without it.  A step of the model is     *)
(* what one thread does up to its next write to the queue.                 *)
(***************************************************************************)
EXTENDS Integers, Sequences, LinkedList

CONSTANTS Threads, Values,
          Unlocked,  \* "no thread holds the mutex"
          MaxCalls   \* bound: calls each thread makes

ASSUME QueueAssumption == /\ Unlocked \notin Threads
                          /\ Values \subseteq Int
                          /\ MaxCalls \in Nat

VARIABLES head, tail, lock,   \* the my_queue_t
          data, next, alloc,  \* the heap: fields of each node, allocated nodes
          pc, newNode, ret,   \* each thread: control, its node, its result
          calls               \* each caller: calls so far

heap == <<data, next, alloc>>
vars == <<head, tail, lock, heap, pc, newNode, ret, calls>>

(* queue_init                                                              *)
Init == /\ head = NULL /\ tail = NULL /\ lock = Unlocked
        /\ data = [n \in Nodes |-> 0] /\ next = [n \in Nodes |-> NULL]
        /\ alloc = {}
        /\ pc = [t \in Threads |-> "idle"]
        /\ newNode = [t \in Threads |-> NULL]
        /\ ret = [t \in Threads |-> 0]
        /\ calls = [t \in Threads |-> 0]

Goto(t, from, to) == pc[t] = from /\ pc' = [pc EXCEPT ![t] = to]

(* The caller makes a bounded number of calls, one after the other.        *)
Call(t, to) == /\ Goto(t, "idle", to)
               /\ calls[t] < MaxCalls
               /\ calls' = [calls EXCEPT ![t] = @ + 1]
               /\ ret' = [ret EXCEPT ![t] = 0]

Return(t) == /\ Goto(t, "done", "idle")
             /\ UNCHANGED <<head, tail, lock, heap, newNode, ret, calls>>

AcquireWithoutWaiting(t, from, to) ==
  Goto(t, from, to) /\ lock' = t /\ UNCHANGED <<head, tail, heap, newNode, ret, calls>>
Acquire(t, from, to) == /\ lock = Unlocked
                        /\ Goto(t, from, to)
                        /\ lock' = t
                        /\ UNCHANGED <<head, tail, heap, newNode, ret, calls>>

Release == lock' = Unlocked

(* queue_put: the node is private until it is linked.                      *)
Put(t) == \E v \in Values, n \in Nodes \ alloc :
            /\ Call(t, "put_lock")
            /\ alloc' = alloc \cup {n}
            /\ data' = [data EXCEPT ![n] = v]
            /\ next' = [next EXCEPT ![n] = NULL]
            /\ newNode' = [newNode EXCEPT ![t] = n]
            /\ UNCHANGED <<head, tail, lock>>

PutLock(t) == Acquire(t, "put_lock", "put_link")

PutFirst(t) == /\ tail = NULL
               /\ Goto(t, "put_link", "put_tail")
               /\ head' = newNode[t]
               /\ UNCHANGED <<tail, lock, heap, newNode, ret, calls>>

PutFirstTail(t) == /\ Goto(t, "put_tail", "done")
                   /\ tail' = newNode[t]
                   /\ Release
                   /\ UNCHANGED <<head, heap, newNode, ret, calls>>

PutNext(t) == /\ tail # NULL
              /\ Goto(t, "put_link", "put_advance")
              /\ next' = [next EXCEPT ![tail] = newNode[t]]
              /\ UNCHANGED <<head, tail, lock, data, alloc, newNode, ret, calls>>

PutAdvanceForgotten(t) == /\ Goto(t, "put_advance", "done")
                          /\ Release
                          /\ UNCHANGED <<head, tail, heap, newNode, ret, calls>>
PutAdvance(t) == /\ Goto(t, "put_advance", "done")
                 /\ tail' = next[tail]
                 /\ Release
                 /\ UNCHANGED <<head, heap, newNode, ret, calls>>

(* queue_take never frees the node it unlinks.  A null head behind a tail  *)
(* that is not null would be a segmentation fault: see TakeNeverFaults.    *)
Take(t) == /\ Call(t, "take_lock")
           /\ UNCHANGED <<head, tail, lock, heap, newNode>>

TakeLock(t) == Acquire(t, "take_lock", "take_head")

TakeEmpty(t) == /\ tail = NULL
                /\ Goto(t, "take_head", "done")
                /\ ret' = [ret EXCEPT ![t] = -1]
                /\ Release
                /\ UNCHANGED <<head, tail, heap, newNode, calls>>

TakeHead(t) == /\ tail # NULL /\ head # NULL
               /\ Goto(t, "take_head", "take_tail")
               /\ ret' = [ret EXCEPT ![t] = data[head]]
               /\ head' = next[head]
               /\ UNCHANGED <<tail, lock, heap, newNode, calls>>

TakeTailForgotten(t) == /\ Goto(t, "take_tail", "done")
                        /\ Release
                        /\ UNCHANGED <<head, tail, heap, newNode, ret, calls>>
TakeTail(t) == /\ Goto(t, "take_tail", "done")
               /\ tail' = IF head = NULL THEN NULL ELSE tail
               /\ Release
               /\ UNCHANGED <<head, heap, newNode, ret, calls>>

(* queue_empty, also used (under the mutex) by queue_put and queue_take.   *)
Empty(t) == /\ Call(t, "empty_check")
            /\ UNCHANGED <<head, tail, lock, heap, newNode>>

EmptyCheck(t) == /\ Goto(t, "empty_check", "done")
                 /\ ret' = [ret EXCEPT ![t] = IF tail = NULL THEN 1 ELSE 0]
                 /\ UNCHANGED <<head, tail, lock, heap, newNode, calls>>

(* queue_destroy                                                           *)
Destroy(t) == /\ Call(t, "destroy_lock")
              /\ UNCHANGED <<head, tail, lock, heap, newNode>>

DestroyLock(t) == Acquire(t, "destroy_lock", "destroy_loop")

DestroyStepStays(t) == /\ pc[t] = "destroy_loop" /\ head # NULL
                       /\ alloc' = alloc \ {head}
                       /\ UNCHANGED <<head, tail, lock, data, next, pc, newNode, ret, calls>>
DestroyStep(t) == /\ pc[t] = "destroy_loop"
                  /\ head # NULL
                  /\ head' = next[head]
                  /\ alloc' = alloc \ {head}
                  /\ UNCHANGED <<tail, lock, data, next, pc, newNode, ret, calls>>

DestroyEnd(t) == /\ head = NULL
                 /\ Goto(t, "destroy_loop", "done")
                 /\ tail' = NULL
                 /\ Release
                 /\ UNCHANGED <<head, heap, newNode, ret, calls>>

Step(t) == \/ Put(t) \/ PutLock(t) \/ PutFirst(t) \/ PutFirstTail(t)
           \/ PutNext(t) \/ PutAdvance(t)
           \/ Take(t) \/ TakeLock(t) \/ TakeEmpty(t) \/ TakeHead(t) \/ TakeTail(t)
           \/ Empty(t) \/ EmptyCheck(t)
           \/ Destroy(t) \/ DestroyLock(t) \/ DestroyStep(t) \/ DestroyEnd(t)
           \/ Return(t)

Joined == /\ \A t \in Threads : pc[t] = "idle" /\ calls[t] = MaxCalls
          /\ UNCHANGED vars

Next == (\E t \in Threads : Step(t)) \/ Joined

Spec == Init /\ [][Next]_vars
FairSpec == Spec /\ \A t \in Threads : WF_vars(Step(t))
-----------------------------------------------------------------------------
TypeOK == /\ head \in Nodes \cup {NULL} /\ tail \in Nodes \cup {NULL}
          /\ lock \in Threads \cup {Unlocked}
          /\ data \in [Nodes -> Int]
          /\ next \in [Nodes -> Nodes \cup {NULL}]
          /\ alloc \in SUBSET Nodes
          /\ pc \in [Threads -> {"idle", "done", "put_lock", "put_link", "put_tail",
                                 "put_advance", "take_lock", "take_head", "take_tail",
                                 "empty_check", "destroy_lock", "destroy_loop"}]
          /\ newNode \in [Threads -> Nodes \cup {NULL}]
          /\ ret \in [Threads -> Int]
          /\ calls \in [Threads -> 0..MaxCalls]

(* queue_take and queue_put trust tail alone to tell an empty queue: when  *)
(* they find tail set, head leads to a node that is still allocated, and   *)
(* tail itself is allocated when a put writes through it.                  *)
NeverFaults == \A t \in Threads :
                 /\ pc[t] = "take_head" /\ tail # NULL => head \in alloc
                 /\ pc[t] = "put_link" /\ tail # NULL => tail \in alloc

(* Whenever the mutex is free, tail is the last node that head reaches,    *)
(* and null exactly when head is; every node on the way is allocated.      *)
TailIsLast == lock = Unlocked =>
                /\ Reachable(head, next) \subseteq alloc
                /\ head = NULL <=> tail = NULL
                /\ tail # NULL => tail \in Reachable(head, next) /\ next[tail] = NULL

(* A call that was made returns, whatever the other threads do.            *)
CallsReturn == \A t \in Threads : (pc[t] # "idle") ~> (pc[t] = "idle")

(* The queue implements its abstract specification, with the effect of a   *)
(* call where queue_empty can see it: a put when it links its node (the    *)
(* first one when it sets tail), a take when it is done with tail.         *)
Takers == {t \in Threads : pc[t] = "take_tail"}

Contents ==
  LET chain == Chain(head, next)
      values == [i \in DOMAIN chain |-> data[chain[i]]]
  IN  IF tail = NULL THEN <<>>
      ELSE IF Takers # {} THEN <<ret[CHOOSE t \in Takers : TRUE]>> \o values
      ELSE values

CallOf(t) ==
  CASE pc[t] = "idle" -> <<"idle">>
    [] pc[t] \in {"put_lock", "put_link", "put_tail"} -> <<"put", data[newNode[t]]>>
    [] pc[t] \in {"take_lock", "take_head", "take_tail"} -> <<"take">>
    [] pc[t] = "empty_check" -> <<"empty">>
    [] pc[t] \in {"destroy_lock", "destroy_loop"} -> <<"destroy">>
    [] OTHER -> <<"done">>

Abstract == INSTANCE AbstractQueue
              WITH queue <- Contents, call <- [t \in Threads |-> CallOf(t)],
                   ret <- [t \in Threads |-> IF t \in Takers THEN 0 ELSE ret[t]]
Linearizable == Abstract!Spec
=============================================================================
