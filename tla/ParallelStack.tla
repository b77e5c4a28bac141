---------------------------- MODULE ParallelStack ---------------------------
(***************************************************************************)
(* parallel-data-structures/stack.cc: a linked stack with one mutex, used  *)
(* by several threads.  stack_push, stack_pop and stack_destroy change     *)
(* `head' under the mutex; stack_empty reads it without the mutex, also    *)
(* when stack_pop calls it.  A step of the model is what one thread does   *)
(* between two accesses to memory that other threads can see.              *)
(***************************************************************************)
EXTENDS Integers, Sequences, LinkedList

CONSTANTS Threads, Values,
          Unlocked,  \* "no thread holds the mutex"
          MaxCalls   \* bound: calls each thread makes

ASSUME StackAssumption == /\ Unlocked \notin Threads
                          /\ Values \subseteq Int
                          /\ MaxCalls \in Nat

VARIABLES head, lock,         \* the my_stack_t
          value, next, alloc, \* the heap: fields of each node, allocated nodes
          pc, temp, ret,      \* each thread: control, its node, its result
          calls, credit,      \* each caller: calls so far, pushes minus pops
          balanced            \* did every thread so far call as the tests do:
                              \* pop only what it pushed, destroy at the end?

heap == <<value, next, alloc>>
caller == <<calls, credit, balanced>>
vars == <<head, lock, heap, pc, temp, ret, caller>>

(* stack_init                                                              *)
Init == /\ head = NULL /\ lock = Unlocked
        /\ value \in [Nodes -> {0}] /\ next = [n \in Nodes |-> NULL]
        /\ alloc = {}
        /\ pc = [t \in Threads |-> "idle"]
        /\ temp = [t \in Threads |-> NULL]
        /\ ret = [t \in Threads |-> 0]
        /\ calls = [t \in Threads |-> 0] /\ credit = [t \in Threads |-> 0]
        /\ balanced = TRUE

Goto(t, from, to) == pc[t] = from /\ pc' = [pc EXCEPT ![t] = to]

(* The caller, as in the threads of stack-tests.cc, makes a bounded number *)
(* of calls, one after the other.                                          *)
Call(t, to) == /\ Goto(t, "idle", to)
               /\ calls[t] < MaxCalls
               /\ calls' = [calls EXCEPT ![t] = @ + 1]

Finished(t) == pc[t] = "idle" /\ calls[t] = MaxCalls

Return(t) == /\ Goto(t, "done", "idle")
             /\ UNCHANGED <<head, lock, heap, temp, ret, caller>>

AcquireWithoutWaiting(t, from, to) == /\ Goto(t, from, to)
                                      /\ lock' = t
                                      /\ UNCHANGED <<head, heap, temp, ret, caller>>
Acquire(t, from, to) == /\ lock = Unlocked
                        /\ Goto(t, from, to)
                        /\ lock' = t
                        /\ UNCHANGED <<head, heap, temp, ret, caller>>

(* stack_push: the node is private until head points to it.                *)
Push(t) == \E v \in Values, n \in Nodes \ alloc :
             /\ Call(t, "push_lock")
             /\ alloc' = alloc \cup {n}
             /\ value' = [value EXCEPT ![n] = v]
             /\ temp' = [temp EXCEPT ![t] = n]
             /\ credit' = [credit EXCEPT ![t] = @ + 1]
             /\ UNCHANGED <<head, lock, next, ret, balanced>>

PushLock(t) == Acquire(t, "push_lock", "push_next")

PushNext(t) == /\ Goto(t, "push_next", "push_head")
               /\ next' = [next EXCEPT ![temp[t]] = head]
               /\ UNCHANGED <<head, lock, value, alloc, temp, ret, caller>>

PushHead(t) == /\ Goto(t, "push_head", "done")
               /\ head' = temp[t]
               /\ lock' = Unlocked
               /\ UNCHANGED <<heap, temp, ret, caller>>

(* stack_pop: the emptiness check, then the mutex, then the list.          *)
Pop(t) == /\ Call(t, "pop_check")
          /\ balanced' = (balanced /\ credit[t] > 0)
          /\ credit' = [credit EXCEPT ![t] = @ - 1]
          /\ UNCHANGED <<head, lock, heap, temp, ret>>

PopEmpty(t) == /\ head = NULL
               /\ Goto(t, "pop_check", "done")
               /\ ret' = [ret EXCEPT ![t] = -1]
               /\ UNCHANGED <<head, lock, heap, temp, caller>>

PopCheck(t) == /\ head # NULL
               /\ Goto(t, "pop_check", "pop_lock")
               /\ UNCHANGED <<head, lock, heap, temp, ret, caller>>

PopLock(t) == Acquire(t, "pop_lock", "pop_read")

PopRead(t) == /\ Goto(t, "pop_read", "pop_take")
              /\ temp' = [temp EXCEPT ![t] = head]
              /\ UNCHANGED <<head, lock, heap, ret, caller>>

PopTake(t) == /\ head # NULL
              /\ Goto(t, "pop_take", "pop_free")
              /\ head' = next[head]
              /\ ret' = [ret EXCEPT ![t] = value[temp[t]]]
              /\ lock' = Unlocked
              /\ UNCHANGED <<heap, temp, caller>>

(* head->next of a null head is a segmentation fault: the process is gone, *)
(* no thread takes another step.                                           *)
PopFault(t) == /\ head = NULL
               /\ Goto(t, "pop_take", "segv")
               /\ UNCHANGED <<head, lock, heap, temp, ret, caller>>

PopForgetsFree(t) == /\ Goto(t, "pop_free", "done")
                     /\ UNCHANGED <<head, lock, heap, temp, ret, caller>>
PopFree(t) == /\ Goto(t, "pop_free", "done")
              /\ alloc' = alloc \ {temp[t]}
              /\ UNCHANGED <<head, lock, value, next, temp, ret, caller>>

(* stack_empty                                                             *)
Empty(t) == /\ Call(t, "empty_check")
            /\ UNCHANGED <<head, lock, heap, temp, ret, credit, balanced>>

EmptyCheck(t) == /\ Goto(t, "empty_check", "done")
                 /\ ret' = [ret EXCEPT ![t] = IF head = NULL THEN 1 ELSE 0]
                 /\ UNCHANGED <<head, lock, heap, temp, caller>>

(* stack_destroy; the tests call it last, when every thread was joined.    *)
Destroy(t) == /\ Call(t, "destroy_lock")
              /\ balanced' = (/\ balanced /\ calls'[t] = MaxCalls
                              /\ \A u \in Threads \ {t} : Finished(u))
              /\ UNCHANGED <<head, lock, heap, temp, ret, credit>>

DestroyLock(t) == Acquire(t, "destroy_lock", "destroy_loop")

DestroyStep(t) == /\ pc[t] = "destroy_loop"
                  /\ head # NULL
                  /\ head' = next[head]
                  /\ alloc' = alloc \ {head}
                  /\ UNCHANGED <<lock, value, next, pc, temp, ret, caller>>

DestroyEnd(t) == /\ head = NULL
                 /\ Goto(t, "destroy_loop", "done")
                 /\ lock' = Unlocked
                 /\ UNCHANGED <<head, heap, temp, ret, caller>>

Crashed == \E t \in Threads : pc[t] = "segv"

Step(t) == /\ ~Crashed
           /\ \/ Push(t) \/ PushLock(t) \/ PushNext(t) \/ PushHead(t)
              \/ Pop(t) \/ PopEmpty(t) \/ PopCheck(t) \/ PopLock(t)
              \/ PopRead(t) \/ PopTake(t) \/ PopFault(t) \/ PopFree(t)
              \/ Empty(t) \/ EmptyCheck(t)
              \/ Destroy(t) \/ DestroyLock(t) \/ DestroyStep(t) \/ DestroyEnd(t)
              \/ Return(t)

(* The threads have returned, or the process is gone.                      *)
Joined == (Crashed \/ \A t \in Threads : Finished(t)) /\ UNCHANGED vars

Next == (\E t \in Threads : Step(t)) \/ Joined

Spec == Init /\ [][Next]_vars
-----------------------------------------------------------------------------
Control == {"idle", "done", "push_lock", "push_next", "push_head", "pop_check",
            "pop_lock", "pop_read", "pop_take", "pop_free", "empty_check",
            "destroy_lock", "destroy_loop", "segv"}

TypeOK == /\ head \in Nodes \cup {NULL}
          /\ lock \in Threads \cup {Unlocked}
          /\ value \in [Nodes -> Int]
          /\ next \in [Nodes -> Nodes \cup {NULL}]
          /\ alloc \in SUBSET Nodes
          /\ pc \in [Threads -> Control]
          /\ temp \in [Threads -> Nodes \cup {NULL}]
          /\ ret \in [Threads -> Int]
          /\ calls \in [Threads -> 0..MaxCalls]
          /\ credit \in [Threads -> Int]
          /\ balanced \in BOOLEAN

(* The threads that own a node nobody else may touch, and the other nodes. *)
Holders == {t \in Threads : pc[t] \in {"push_lock", "push_next", "push_head", "pop_free"}}
Linked == alloc \ {temp[t] : t \in Holders}

(* No pointer dangles: head and the next pointers of the nodes in the list *)
(* lead to allocated nodes of the list, and what a thread is about to link *)
(* or to free is allocated, out of the list and owned by that thread only. *)
MemorySafe == /\ head \in Linked \cup {NULL}
              /\ \A n \in Linked : next[n] \in Linked \cup {NULL}
              /\ \A t \in Holders : temp[t] \in alloc
              /\ \A t, u \in Holders : temp[t] = temp[u] => t = u

(* Nothing leaks: the nodes malloc handed out and no thread owns are those *)
(* the list still reaches.                                                 *)
NoLeak == Linked = Reachable(head, next)

(* "Popping an empty stack should return -1" (stack-tests.cc:252): a pop   *)
(* that passed the emptiness check never finds the list empty.             *)
PopNeverFaults == ~Crashed

(* As long as each thread pops only what it pushed before (the threads of  *)
(* the test at stack-tests.cc:133), every pop gets a value: none faults    *)
(* and none returns -1.                                                    *)
BalancedPopsSucceed == balanced => ~Crashed /\ \A t \in Threads : ret[t] # -1

(* The stack implements its abstract specification: push takes effect when *)
(* the node is linked, pop when head moves or at the check that finds the  *)
(* list empty, stack_empty at its read of head.                            *)
Contents == LET chain == Chain(head, next)
            IN  [i \in DOMAIN chain |-> value[chain[i]]]

CallOf(t) ==
  CASE pc[t] = "idle" -> <<"idle">>
    [] pc[t] \in {"push_lock", "push_next", "push_head"} -> <<"push", value[temp[t]]>>
    [] pc[t] \in {"pop_check", "pop_lock", "pop_read", "pop_take", "segv"} -> <<"pop">>
    [] pc[t] = "empty_check" -> <<"empty">>
    [] pc[t] \in {"destroy_lock", "destroy_loop"} -> <<"destroy">>
    [] OTHER -> <<"done">>

Abstract == INSTANCE AbstractStack
              WITH stack <- Contents, call <- [t \in Threads |-> CallOf(t)]
Linearizable == Abstract!Spec
=============================================================================
