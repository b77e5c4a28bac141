------------------------- MODULE ParallelStackProofs ------------------------
(***************************************************************************)
(* Proofs about ParallelStack for any number of threads, values and nodes: *)
(* types, mutual exclusion, that no pointer of the list ever dangles and   *)
(* no node leaks, that balanced pops succeed, and that every operation     *)
(* takes effect at one instant (the refinement of AbstractStack).          *)
(***************************************************************************)
EXTENDS ParallelStack, LinkedListProofs, TLAPS

(* The mutex is held exactly by the thread inside a critical section.      *)
Critical == {"push_next", "push_head", "pop_read", "pop_take", "destroy_loop", "segv"}
Exclusion == \A t \in Threads : pc[t] \in Critical <=> lock = t

(* What a thread read inside its critical section is still the case.       *)
Fresh == \A t \in Threads : /\ pc[t] = "push_head" => next[temp[t]] = head
                            /\ pc[t] = "pop_take" => temp[t] = head

(* No two nodes of the list have the same successor, none precedes head.   *)
ListShape == /\ \A n \in Linked : next[n] = head => head = NULL
             /\ \A m, n \in Linked : next[m] = next[n] /\ next[m] # NULL => m = n

Inv == TypeOK /\ Exclusion /\ Fresh /\ MemorySafe /\ ListShape
-----------------------------------------------------------------------------
USE StackAssumption, ListAssumption DEF Goto

(* Every step keeps the types.                                             *)
LEMMA TypeStep == ASSUME TypeOK, Fresh, [Next]_vars PROVE TypeOK'
<1> USE DEF TypeOK, heap, caller, Control
<1>1. ASSUME NEW t \in Threads, Push(t) PROVE TypeOK'
  BY <1>1 DEF Push, Call
<1>2. ASSUME NEW t \in Threads,
             PushLock(t) \/ PopLock(t) \/ DestroyLock(t) PROVE TypeOK'
  BY <1>2 DEF PushLock, PopLock, DestroyLock, Acquire
<1>3. ASSUME NEW t \in Threads, PushNext(t) PROVE TypeOK'
  BY <1>3 DEF PushNext
<1>4. ASSUME NEW t \in Threads, PushHead(t) PROVE TypeOK'
  BY <1>4 DEF PushHead
<1>5. ASSUME NEW t \in Threads, Pop(t) PROVE TypeOK'
  BY <1>5 DEF Pop, Call
<1>6. ASSUME NEW t \in Threads, PopEmpty(t) \/ PopCheck(t) PROVE TypeOK'
  BY <1>6 DEF PopEmpty, PopCheck
<1>7. ASSUME NEW t \in Threads, PopRead(t) PROVE TypeOK'
  BY <1>7 DEF PopRead
<1>8. ASSUME NEW t \in Threads, PopTake(t) PROVE TypeOK'
  BY <1>8 DEF PopTake, Fresh
<1>9. ASSUME NEW t \in Threads, PopFault(t) \/ PopFree(t) PROVE TypeOK'
  BY <1>9 DEF PopFault, PopFree
<1>10. ASSUME NEW t \in Threads, Empty(t) \/ EmptyCheck(t) PROVE TypeOK'
  BY <1>10 DEF Empty, EmptyCheck, Call
<1>11. ASSUME NEW t \in Threads, Destroy(t) PROVE TypeOK'
  BY <1>11 DEF Destroy, Call
<1>12. ASSUME NEW t \in Threads, DestroyStep(t) \/ DestroyEnd(t) PROVE TypeOK'
  BY <1>12 DEF DestroyStep, DestroyEnd
<1>13. ASSUME NEW t \in Threads, Return(t) PROVE TypeOK'
  BY <1>13 DEF Return
<1>14. CASE UNCHANGED vars
  BY <1>14 DEF vars
<1> QED
  BY <1>1, <1>2, <1>3, <1>4, <1>5, <1>6, <1>7, <1>8, <1>9, <1>10, <1>11,
     <1>12, <1>13, <1>14 DEF Next, Step, Joined

(* The mutex excludes: a step enters a critical section only when it takes *)
(* the free mutex and leaves it only when it gives the mutex back.         *)
LEMMA ExclusionStep == ASSUME TypeOK, Exclusion, [Next]_vars PROVE Exclusion'
<1> USE DEF TypeOK, Exclusion, Critical
<1>1. ASSUME NEW t \in Threads, Push(t) \/ Pop(t) \/ Empty(t) \/ Destroy(t)
      PROVE  Exclusion'
  BY <1>1 DEF Push, Pop, Empty, Destroy, Call
<1>2. ASSUME NEW t \in Threads,
             PushLock(t) \/ PopLock(t) \/ DestroyLock(t) PROVE Exclusion'
  BY <1>2 DEF PushLock, PopLock, DestroyLock, Acquire
<1>3. ASSUME NEW t \in Threads, PushNext(t) \/ PopRead(t) \/ DestroyStep(t)
      PROVE  Exclusion'
  BY <1>3 DEF PushNext, PopRead, DestroyStep
<1>4. ASSUME NEW t \in Threads, PushHead(t) \/ PopTake(t) \/ DestroyEnd(t)
      PROVE  Exclusion'
  BY <1>4 DEF PushHead, PopTake, DestroyEnd
<1>5. ASSUME NEW t \in Threads, PopEmpty(t) \/ PopCheck(t) \/ EmptyCheck(t)
      PROVE  Exclusion'
  BY <1>5 DEF PopEmpty, PopCheck, EmptyCheck
<1>6. ASSUME NEW t \in Threads, PopFault(t) \/ PopFree(t) \/ Return(t)
      PROVE  Exclusion'
  BY <1>6 DEF PopFault, PopFree, Return
<1>7. CASE UNCHANGED vars
  BY <1>7 DEF vars
<1> QED
  BY <1>1, <1>2, <1>3, <1>4, <1>5, <1>6, <1>7 DEF Next, Step, Joined

(* What a thread read under the mutex stays the case.                      *)
LEMMA FreshStep == ASSUME Inv, [Next]_vars PROVE Fresh'
<1> USE DEF Inv, TypeOK, Fresh, Exclusion, Critical
<1>1. ASSUME NEW t \in Threads, Push(t) \/ Pop(t) \/ Empty(t) \/ Destroy(t)
      PROVE  Fresh'
  <2>1. UNCHANGED <<head, next>>
    BY <1>1 DEF Push, Pop, Empty, Destroy, heap
  <2>2. \A u \in Threads : pc'[u] \in {"push_head", "pop_take"} =>
                             pc'[u] = pc[u] /\ temp'[u] = temp[u]
    BY <1>1 DEF Push, Pop, Empty, Destroy, Call
  <2> QED
    BY <2>1, <2>2
<1>2. ASSUME NEW t \in Threads,
             PushLock(t) \/ PopLock(t) \/ DestroyLock(t) PROVE Fresh'
  BY <1>2 DEF PushLock, PopLock, DestroyLock, Acquire, heap
<1>3. ASSUME NEW t \in Threads, PushNext(t) PROVE Fresh'
  BY <1>3 DEF PushNext, MemorySafe, Holders
<1>4. ASSUME NEW t \in Threads, PopRead(t) PROVE Fresh'
  BY <1>4 DEF PopRead, heap
<1>5. ASSUME NEW t \in Threads,
             PushHead(t) \/ PopTake(t) \/ DestroyStep(t) \/ DestroyEnd(t)
      PROVE  Fresh'
  BY <1>5 DEF PushHead, PopTake, DestroyStep, DestroyEnd, heap
<1>6. ASSUME NEW t \in Threads,
             \/ PopEmpty(t) \/ PopCheck(t) \/ EmptyCheck(t)
             \/ PopFault(t) \/ PopFree(t) \/ Return(t)
      PROVE  Fresh'
  BY <1>6 DEF PopEmpty, PopCheck, EmptyCheck, PopFault, PopFree, Return, heap
<1>7. CASE UNCHANGED vars
  BY <1>7 DEF vars, heap
<1> QED
  BY <1>1, <1>2, <1>3, <1>4, <1>5, <1>6, <1>7 DEF Next, Step, Joined

(* No step makes a pointer dangle: linking takes a node from its owner     *)
(* into the list, unlinking gives it an owner, freeing takes an owned node.*)
LEMMA MemoryStep == ASSUME Inv, [Next]_vars PROVE MemorySafe' /\ ListShape'
<1> USE DEF Inv, TypeOK
<1>1. ASSUME NEW t \in Threads, Push(t) PROVE MemorySafe' /\ ListShape'
  <2> PICK v \in Values, n \in Nodes \ alloc :
        /\ Call(t, "push_lock")
        /\ alloc' = alloc \cup {n}
        /\ temp' = [temp EXCEPT ![t] = n]
        /\ UNCHANGED <<head, next>>
    BY <1>1 DEF Push
  <2>1. Holders' = Holders \cup {t} /\ t \notin Holders
    BY DEF Holders, Call
  <2>2. Linked' = Linked
    BY <2>1 DEF Linked, MemorySafe
  <2> QED
    BY <2>1, <2>2 DEF MemorySafe, ListShape, Linked, Holders
<1>2. ASSUME NEW t \in Threads, PushNext(t) PROVE MemorySafe' /\ ListShape'
  <2>1. Holders' = Holders /\ t \in Holders /\ temp[t] \notin Linked
    BY <1>2 DEF PushNext, Holders, Linked
  <2>2. Linked' = Linked
    BY <1>2, <2>1 DEF PushNext, Linked
  <2>3. \A n \in Linked : next'[n] = next[n]
    BY <1>2, <2>1 DEF PushNext, Linked
  <2> QED
    BY <1>2, <2>1, <2>2, <2>3 DEF PushNext, MemorySafe, ListShape
<1>3. ASSUME NEW t \in Threads, PushHead(t) PROVE MemorySafe' /\ ListShape'
  <2>1. Holders' = Holders \ {t} /\ t \in Holders /\ temp[t] \in alloc
    BY <1>3 DEF PushHead, Holders, MemorySafe
  <2>2. Linked' = Linked \cup {temp[t]} /\ temp[t] \notin Linked
    BY <1>3, <2>1 DEF PushHead, Linked, MemorySafe, heap
  <2>3. next[temp[t]] = head /\ UNCHANGED <<next, alloc, temp>> /\ head' = temp[t]
    BY <1>3 DEF PushHead, Fresh, heap
  <2>4. MemorySafe'
    BY <2>1, <2>2, <2>3 DEF MemorySafe
  <2>5. ListShape'
    BY <2>1, <2>2, <2>3 DEF MemorySafe, ListShape
  <2> QED
    BY <2>4, <2>5
<1>4. ASSUME NEW t \in Threads, PopTake(t) PROVE MemorySafe' /\ ListShape'
  <2>1. /\ Holders' = Holders \cup {t} /\ t \notin Holders
        /\ UNCHANGED <<next, alloc, temp>> /\ head' = next[head]
        /\ temp[t] = head /\ head \in Linked
    BY <1>4 DEF PopTake, Holders, Fresh, MemorySafe, heap
  <2>2. Linked' = Linked \ {head}
    BY <2>1 DEF Linked
  <2>3. MemorySafe'
    BY <2>1, <2>2 DEF MemorySafe, ListShape, Linked
  <2>4. ListShape'
    BY <2>1, <2>2 DEF MemorySafe, ListShape
  <2> QED
    BY <2>3, <2>4
<1>5. ASSUME NEW t \in Threads, PopFree(t) PROVE MemorySafe' /\ ListShape'
  <2>1. /\ Holders' = Holders \ {t} /\ t \in Holders
        /\ UNCHANGED <<head, next, temp>> /\ alloc' = alloc \ {temp[t]}
    BY <1>5 DEF PopFree, Holders
  <2>2. Linked' = Linked
    BY <2>1 DEF Linked
  <2> QED
    BY <2>1, <2>2 DEF MemorySafe, ListShape
<1>6. ASSUME NEW t \in Threads, DestroyStep(t) PROVE MemorySafe' /\ ListShape'
  <2>1. /\ Holders' = Holders /\ UNCHANGED <<next, temp>>
        /\ alloc' = alloc \ {head} /\ head' = next[head] /\ head \in Linked
    BY <1>6 DEF DestroyStep, Holders, MemorySafe
  <2>2. Linked' = Linked \ {head}
    BY <2>1 DEF Linked
  <2>3. MemorySafe'
    BY <2>1, <2>2 DEF MemorySafe, ListShape, Linked
  <2>4. ListShape'
    BY <2>1, <2>2 DEF MemorySafe, ListShape
  <2> QED
    BY <2>3, <2>4
<1>7. ASSUME UNCHANGED <<head, next, alloc, Holders>>,
             \A t \in Holders : temp'[t] = temp[t]
      PROVE  MemorySafe' /\ ListShape'
  <2>1. Linked' = Linked
    BY <1>7 DEF Linked
  <2> QED
    BY <1>7, <2>1 DEF MemorySafe, ListShape
<1>8. ASSUME NEW t \in Threads, Pop(t) \/ Empty(t) \/ Destroy(t)
      PROVE  MemorySafe' /\ ListShape'
  BY <1>7, <1>8 DEF Pop, Empty, Destroy, Call, Holders, heap
<1>9. ASSUME NEW t \in Threads, PushLock(t) \/ PopLock(t) \/ DestroyLock(t)
      PROVE  MemorySafe' /\ ListShape'
  BY <1>7, <1>9 DEF PushLock, PopLock, DestroyLock, Acquire, Holders, heap
<1>10. ASSUME NEW t \in Threads,
              PopEmpty(t) \/ PopCheck(t) \/ EmptyCheck(t) \/ PopFault(t)
       PROVE  MemorySafe' /\ ListShape'
  BY <1>7, <1>10 DEF PopEmpty, PopCheck, EmptyCheck, PopFault, Holders, heap
<1>11. ASSUME NEW t \in Threads, PopRead(t) \/ DestroyEnd(t) \/ Return(t)
       PROVE  MemorySafe' /\ ListShape'
  BY <1>7, <1>11 DEF PopRead, DestroyEnd, Return, Holders, heap
<1>12. CASE UNCHANGED vars
  BY <1>7, <1>12 DEF vars, Holders, heap
<1> QED
  BY <1>1, <1>2, <1>3, <1>4, <1>5, <1>6, <1>8, <1>9, <1>10, <1>11, <1>12
  DEF Next, Step, Joined

(* The invariant holds in every reachable state.                           *)
THEOREM StackInvariant == Spec => []Inv
<1>1. Init => Inv
  BY DEF Init, Inv, TypeOK, Control, Exclusion, Critical, Fresh, MemorySafe,
         ListShape, Holders, Linked
<1>2. Inv /\ [Next]_vars => Inv'
  BY TypeStep, ExclusionStep, FreshStep, MemoryStep DEF Inv
<1> QED
  BY <1>1, <1>2, PTL DEF Spec

(* stack.cc keeps its data within their types whatever the threads call.   *)
THEOREM StackTypes == Spec => []TypeOK
<1>1. Inv => TypeOK
  BY DEF Inv
<1> QED
  BY <1>1, StackInvariant, PTL

(* No reachable state of stack.cc has a dangling pointer: not in head, not *)
(* in the list, and no node belongs to two threads.                        *)
THEOREM StackMemorySafe == Spec => []MemorySafe
<1>1. Inv => MemorySafe
  BY DEF Inv
<1> QED
  BY <1>1, StackInvariant, PTL
-----------------------------------------------------------------------------
(* c is the stack's list, and holds every node that no thread owns.        *)
ListIs(c) == ListFrom(c, head, next) /\ NodesOf(c) = Linked
Listed == \E c : ListIs(c)

(* What is, or is about to be, in the list was pushed by a caller.         *)
Pushed == /\ \A n \in Linked : value[n] \in Values
          /\ \A t \in Threads : pc[t] \in {"push_lock", "push_next", "push_head"}
                                  => value[temp[t]] \in Values

(* The steps of a thread that neither link a node nor unlink one.          *)
Quiet(t) == \/ Push(t) \/ PushLock(t) \/ PushNext(t)
            \/ Pop(t) \/ PopEmpty(t) \/ PopCheck(t) \/ PopLock(t)
            \/ PopRead(t) \/ PopFault(t) \/ PopFree(t)
            \/ Empty(t) \/ EmptyCheck(t)
            \/ Destroy(t) \/ DestroyLock(t) \/ DestroyEnd(t) \/ Return(t)
Unlink(t) == PopTake(t) \/ DestroyStep(t)

LEMMA StepKinds ==
  ASSUME NEW t \in Threads, Step(t) PROVE Quiet(t) \/ PushHead(t) \/ Unlink(t)
BY DEF Step, Quiet, Unlink

(* What a step does to the list's nodes.                                   *)
LEMMA QuietNodes ==
  ASSUME Inv, NEW t \in Threads, Quiet(t)
  PROVE  /\ head' = head /\ Linked' = Linked
         /\ \A n \in alloc : value'[n] = value[n]
         /\ \A n \in Linked : next'[n] = next[n]
<1> USE DEF Inv, TypeOK
<1>1. CASE Push(t)
  <2> PICK v \in Values, n \in Nodes \ alloc :
        /\ Call(t, "push_lock")
        /\ alloc' = alloc \cup {n}
        /\ value' = [value EXCEPT ![n] = v]
        /\ temp' = [temp EXCEPT ![t] = n]
        /\ UNCHANGED <<head, next>>
    BY <1>1 DEF Push
  <2>1. Holders' = Holders \cup {t} /\ t \notin Holders
    BY DEF Holders, Call
  <2>2. Linked' = Linked
    BY <2>1 DEF Linked, MemorySafe
  <2> QED BY <2>2
<1>2. CASE PushNext(t)
  <2>1. Holders' = Holders /\ t \in Holders /\ temp[t] \notin Linked
    BY <1>2 DEF PushNext, Holders, Linked
  <2>2. Linked' = Linked
    BY <1>2, <2>1 DEF PushNext, Linked
  <2>3. \A n \in Linked : next'[n] = next[n]
    BY <1>2, <2>1 DEF PushNext, Linked
  <2> QED BY <1>2, <2>2, <2>3 DEF PushNext
<1>3. CASE PopFree(t)
  <2>1. /\ Holders' = Holders \ {t} /\ t \in Holders
        /\ UNCHANGED <<head, next, value, temp>> /\ alloc' = alloc \ {temp[t]}
    BY <1>3 DEF PopFree, Holders
  <2> QED BY <2>1 DEF Linked
<1>4. ASSUME UNCHANGED <<head, next, value, alloc, Holders>>,
             \A u \in Holders : temp'[u] = temp[u]
      PROVE  /\ head' = head /\ Linked' = Linked
             /\ \A n \in alloc : value'[n] = value[n]
             /\ \A n \in Linked : next'[n] = next[n]
  BY <1>4 DEF Linked
<1>5. CASE Pop(t) \/ Empty(t) \/ Destroy(t)
  BY <1>4, <1>5 DEF Pop, Empty, Destroy, Call, Holders, heap
<1>6. CASE PushLock(t) \/ PopLock(t) \/ DestroyLock(t)
  BY <1>4, <1>6 DEF PushLock, PopLock, DestroyLock, Acquire, Holders, heap
<1>7. CASE PopEmpty(t) \/ PopCheck(t) \/ EmptyCheck(t) \/ PopFault(t)
  BY <1>4, <1>7 DEF PopEmpty, PopCheck, EmptyCheck, PopFault, Holders, heap
<1>8. CASE PopRead(t) \/ DestroyEnd(t) \/ Return(t)
  BY <1>4, <1>8 DEF PopRead, DestroyEnd, Return, Holders, heap
<1> QED BY <1>1, <1>2, <1>3, <1>5, <1>6, <1>7, <1>8 DEF Quiet

LEMMA LinkNodes ==
  ASSUME Inv, NEW t \in Threads, PushHead(t)
  PROVE  /\ temp[t] \in Nodes \ Linked /\ next[temp[t]] = head /\ head' = temp[t]
         /\ UNCHANGED <<next, value, alloc>> /\ Linked' = Linked \cup {temp[t]}
<1> USE DEF Inv, TypeOK
<1>1. Holders' = Holders \ {t} /\ t \in Holders /\ temp[t] \in alloc
  BY DEF PushHead, Holders, MemorySafe
<1>2. Linked' = Linked \cup {temp[t]} /\ temp[t] \notin Linked
  BY <1>1 DEF PushHead, Linked, MemorySafe, heap
<1>3. next[temp[t]] = head /\ UNCHANGED <<next, value, alloc>> /\ head' = temp[t]
  BY DEF PushHead, Fresh, heap
<1> QED BY <1>1, <1>2, <1>3

LEMMA UnlinkNodes ==
  ASSUME Inv, NEW t \in Threads, Unlink(t)
  PROVE  /\ head \in Linked /\ head' = next[head] /\ UNCHANGED <<next, value>>
         /\ Linked' = Linked \ {head}
<1> USE DEF Inv, TypeOK
<1>1. CASE PopTake(t)
  <2>1. /\ Holders' = Holders \cup {t} /\ t \notin Holders
        /\ UNCHANGED <<next, value, alloc, temp>> /\ head' = next[head]
        /\ temp[t] = head /\ head \in Linked
    BY <1>1 DEF PopTake, Holders, Fresh, MemorySafe, heap
  <2> QED BY <2>1 DEF Linked
<1>2. CASE DestroyStep(t)
  <2>1. /\ Holders' = Holders /\ UNCHANGED <<next, value, temp>>
        /\ alloc' = alloc \ {head} /\ head' = next[head] /\ head \in Linked
    BY <1>2 DEF DestroyStep, Holders, MemorySafe
  <2> QED BY <2>1 DEF Linked
<1> QED BY <1>1, <1>2 DEF Unlink

(* What a step does to the list.                                           *)
LEMMA QuietLists ==
  ASSUME Inv, NEW t \in Threads, Quiet(t), NEW c, ListIs(c)
  PROVE  ListIs(c)' /\ ReadOff(c, value') = ReadOff(c, value)
<1>1. /\ head' = head /\ Linked' = Linked
      /\ \A n \in NodesOf(c) : next'[n] = next[n] /\ value'[n] = value[n]
  BY QuietNodes DEF ListIs, Linked
<1>2. ListFrom(c, head, next) /\ c \in Seq(Nodes)
  BY DEF ListIs, ListFrom
<1>3. ListFrom(c, head, next')
  BY <1>1, <1>2, ListFrame
<1>4. ReadOff(c, value') = ReadOff(c, value)
  BY <1>1, <1>2, ReadSame
<1> QED BY <1>1, <1>3, <1>4 DEF ListIs

LEMMA LinkLists ==
  ASSUME Inv, NEW t \in Threads, PushHead(t), NEW n, n = temp[t], NEW c, ListIs(c)
  PROVE  ListIs(<<n>> \o c)'
<1>1. ListFrom(c, head, next) /\ n \in Nodes /\ next[n] = head
  BY LinkNodes DEF ListIs
<1>2. ListFrom(<<n>> \o c, n, next) /\ NodesOf(<<n>> \o c) = NodesOf(c) \cup {n}
  BY <1>1, ListCons
<1> QED BY <1>2, LinkNodes DEF ListIs

LEMMA UnlinkLists ==
  ASSUME Inv, NEW t \in Threads, Unlink(t), NEW c, ListIs(c)
  PROVE  ListIs(Tail(c))'
<1>1. ListFrom(c, head, next) /\ head # NULL
  BY UnlinkNodes DEF ListIs, Inv, TypeOK, Linked
<1>2. ListFrom(Tail(c), next[head], next) /\ NodesOf(Tail(c)) = NodesOf(c) \ {head}
  BY <1>1, ListTail
<1> QED BY <1>2, UnlinkNodes DEF ListIs

LEMMA ListedStep == ASSUME Inv, Listed, [Next]_vars PROVE Listed'
<1> PICK c : ListIs(c)
  BY DEF Listed
<1>1. ASSUME NEW t \in Threads, Step(t) PROVE Listed'
  BY <1>1, StepKinds, QuietLists, LinkLists, UnlinkLists DEF Listed
<1>2. CASE UNCHANGED vars
  <2>1. ListIs(c)'
    BY <1>2 DEF vars, heap, ListIs, Linked, Holders
  <2> QED BY <2>1 DEF Listed
<1> QED BY <1>1, <1>2 DEF Next, Joined

LEMMA ListedInit == Init => Listed
<1> SUFFICES ASSUME Init PROVE Listed
  OBVIOUS
<1>1. head = NULL /\ Linked = {} /\ NodesOf(<<>>) = {}
  BY DEF Init, NodesOf, Linked
<1>2. ListFrom(<<>>, NULL, next)
  BY ListEmpty
<1> QED BY <1>1, <1>2 DEF Listed, ListIs

(* Nothing leaks from stack.cc: every node that is allocated and that no   *)
(* thread is working on can be reached from head.                          *)
THEOREM StackNeverLeaks == Spec => []NoLeak
<1>1. ASSUME Listed PROVE NoLeak
  <2> PICK c : ListIs(c)
    BY <1>1 DEF Listed
  <2>1. Reachable(head, next) = NodesOf(c)
    BY ReachableIsList DEF ListIs
  <2> QED BY <2>1 DEF NoLeak, ListIs
<1>2. Inv /\ Listed /\ [Next]_vars => Listed'
  BY ListedStep
<1> QED BY <1>1, <1>2, ListedInit, StackInvariant, PTL DEF Spec
-----------------------------------------------------------------------------
LEMMA PushedStep == ASSUME Inv, Pushed, [Next]_vars PROVE Pushed'
<1> USE DEF Inv, TypeOK
<1>1. ASSUME NEW t \in Threads, Quiet(t) PROVE \A n \in Linked' : value'[n] \in Values
  BY <1>1, QuietNodes DEF Pushed, Linked
<1>2. ASSUME NEW t \in Threads, PushHead(t) PROVE \A n \in Linked' : value'[n] \in Values
  <2>1. value[temp[t]] \in Values
    BY <1>2 DEF PushHead, Pushed
  <2> QED BY <1>2, <2>1, LinkNodes DEF Pushed
<1>3. ASSUME NEW t \in Threads, Unlink(t) PROVE \A n \in Linked' : value'[n] \in Values
  BY <1>3, UnlinkNodes DEF Pushed
<1>4. ASSUME NEW t \in Threads, Step(t),
             NEW u \in Threads, pc'[u] \in {"push_lock", "push_next", "push_head"}
      PROVE  value'[temp'[u]] \in Values
  <2>1. CASE Push(t)
    <3> PICK v \in Values, n \in Nodes \ alloc :
          /\ Call(t, "push_lock")
          /\ value' = [value EXCEPT ![n] = v]
          /\ temp' = [temp EXCEPT ![t] = n]
      BY <2>1 DEF Push
    <3> QED BY <1>4, StackAssumption DEF Call, Pushed, MemorySafe, Holders
  <2>2. CASE ~Push(t)
    <3>1. value' = value
      BY <1>4, <2>2 DEF Step, PushLock, PushNext, PushHead, Pop, PopEmpty, PopCheck, PopLock,
            PopRead, PopTake, PopFault, PopFree, Empty, EmptyCheck, Destroy, DestroyLock,
            DestroyStep, DestroyEnd, Return, Acquire, heap
    <3>2. pc[u] \in {"push_lock", "push_next", "push_head"} /\ temp'[u] = temp[u]
      BY <1>4, <2>2 DEF Step, PushLock, PushNext, PushHead, Pop, PopEmpty, PopCheck, PopLock,
            PopRead, PopTake, PopFault, PopFree, Empty, EmptyCheck, Destroy, DestroyLock,
            DestroyStep, DestroyEnd, Return, Acquire, Call, heap
    <3> QED BY <3>1, <3>2 DEF Pushed
  <2> QED BY <2>1, <2>2
<1>5. CASE UNCHANGED vars
  BY <1>5 DEF vars, heap, Pushed, Linked, Holders
<1> QED BY <1>1, <1>2, <1>3, <1>4, <1>5, StepKinds DEF Pushed, Next, Joined

(* The abstract stack while the list is c.                                 *)
LEMMA ContentsIsRead ==
  ASSUME NEW c
  PROVE  /\ ListIs(c) => Contents = ReadOff(c, value)
         /\ ListIs(c)' => Contents' = ReadOff(c, value')
<1>1. ASSUME ListIs(c) PROVE Contents = ReadOff(c, value)
  <2>1. ListFrom(c, head, next)
    BY <1>1 DEF ListIs
  <2> QED BY <2>1, ChainRead DEF Contents
<1>2. ASSUME ListIs(c)' PROVE Contents' = ReadOff(c, value')
  <2>1. ListFrom(c, head', next')
    BY <1>2 DEF ListIs
  <2> QED BY <2>1, ChainRead DEF Contents
<1> QED BY <1>1, <1>2

LEMMA ContentsEmpty == ASSUME Listed PROVE Contents = <<>> <=> head = NULL
<1> PICK c : ListIs(c)
  BY DEF Listed
<1>1. c \in Seq(Nodes) /\ (head = NULL <=> c = <<>>)
  BY ListEmpty DEF ListIs, ListFrom
<1>2. Contents = <<>> <=> c = <<>>
  BY <1>1, ContentsIsRead DEF ReadOff
<1> QED BY <1>1, <1>2

LEMMA ContentsQuiet ==
  ASSUME Inv, Listed, NEW t \in Threads, Quiet(t) PROVE Contents' = Contents
<1> PICK c : ListIs(c)
  BY DEF Listed
<1>1. ListIs(c)' /\ ReadOff(c, value') = ReadOff(c, value)
  BY QuietLists
<1>2. Contents' = ReadOff(c, value')
  BY <1>1, ContentsIsRead
<1> QED BY <1>1, <1>2, ContentsIsRead

LEMMA ContentsLink ==
  ASSUME Inv, Listed, NEW t \in Threads, PushHead(t)
  PROVE  Contents' = <<value[temp[t]]>> \o Contents
<1> PICK c : ListIs(c)
  BY DEF Listed
<1> PICK n : n = temp[t]
  OBVIOUS
<1>1. n \in Nodes /\ value' = value /\ value \in [Nodes -> Int] /\ c \in Seq(Nodes)
  BY LinkNodes DEF Inv, TypeOK, ListIs, ListFrom
<1>2. ListIs(<<n>> \o c)'
  BY LinkLists
<1>3. Contents' = ReadOff(<<n>> \o c, value')
  BY <1>2, ContentsIsRead
<1>4. ReadOff(<<n>> \o c, value) = <<value[n]>> \o ReadOff(c, value)
  BY <1>1, ReadCons
<1> QED BY <1>1, <1>3, <1>4, ContentsIsRead

LEMMA ContentsUnlink ==
  ASSUME Inv, Listed, NEW t \in Threads, Unlink(t)
  PROVE  Contents # <<>> /\ Head(Contents) = value[head] /\ Contents' = Tail(Contents)
<1> PICK c : ListIs(c)
  BY DEF Listed
<1>1. head # NULL /\ value' = value /\ value \in [Nodes -> Int] /\ c \in Seq(Nodes)
  BY UnlinkNodes DEF Inv, TypeOK, ListIs, ListFrom, Linked
<1>2. c # <<>> /\ Head(c) = head
  BY <1>1, ListEmpty DEF ListIs
<1>3. ListIs(Tail(c))'
  BY UnlinkLists
<1>4. Contents' = ReadOff(Tail(c), value')
  BY <1>3, ContentsIsRead
<1>5. Head(ReadOff(c, value)) = value[Head(c)] /\ ReadOff(Tail(c), value) = Tail(ReadOff(c, value))
  BY <1>1, <1>2, ReadTail
<1>6. Contents # <<>>
  BY <1>1, ContentsEmpty
<1> QED BY <1>1, <1>2, <1>4, <1>5, <1>6, ContentsIsRead
-----------------------------------------------------------------------------
(* What each thread has called, as the abstract stack sees it.             *)
CallsMade == [t \in Threads |-> CallOf(t)]
Pushing == {"push_lock", "push_next", "push_head"}
Popping == {"pop_check", "pop_lock", "pop_read", "pop_take", "segv"}
Destroying == {"destroy_lock", "destroy_loop"}

LEMMA CallNames ==
  ASSUME NEW t \in Threads
  PROVE  /\ pc[t] = "idle" => CallOf(t) = Abstract!Idle
         /\ pc[t] \in Pushing => CallOf(t) = <<"push", value[temp[t]]>>
         /\ pc[t] \in Popping => CallOf(t) = <<"pop">>
         /\ pc[t] = "empty_check" => CallOf(t) = <<"empty">>
         /\ pc[t] \in Destroying => CallOf(t) = <<"destroy">>
         /\ pc[t] \in {"done", "pop_free"} => CallOf(t) = Abstract!Done
BY DEF CallOf, Pushing, Popping, Destroying, Abstract!Idle, Abstract!Done

(* The same facts about the state after a step.                            *)
LEMMA CallNamesAfter ==
  ASSUME NEW t \in Threads
  PROVE  /\ pc'[t] = "idle" => CallOf(t)' = Abstract!Idle
         /\ pc'[t] \in Pushing => CallOf(t)' = <<"push", value'[temp'[t]]>>
         /\ pc'[t] \in Popping => CallOf(t)' = <<"pop">>
         /\ pc'[t] = "empty_check" => CallOf(t)' = <<"empty">>
         /\ pc'[t] \in Destroying => CallOf(t)' = <<"destroy">>
         /\ pc'[t] \in {"done", "pop_free"} => CallOf(t)' = Abstract!Done
BY DEF CallOf, Pushing, Popping, Destroying, Abstract!Idle, Abstract!Done

(* A step is seen in the calls of its own thread only.                     *)
LEMMA OthersCalls ==
  ASSUME Inv, NEW t \in Threads, Step(t), NEW u \in Threads, u # t
  PROVE  CallOf(u)' = CallOf(u)
<1>1. pc'[u] = pc[u] /\ temp'[u] = temp[u]
  BY DEF Inv, TypeOK, Step, Push, PushLock, PushNext, PushHead, Pop, PopEmpty, PopCheck, PopLock,
     PopRead, PopTake, PopFault, PopFree, Empty, EmptyCheck, Destroy, DestroyLock,
     DestroyStep, DestroyEnd, Return, Acquire, Call
<1>2. ASSUME pc[u] \in Pushing PROVE value'[temp[u]] = value[temp[u]]
  <2>1. temp[u] \in alloc
    BY <1>2 DEF Inv, MemorySafe, Holders, Pushing
  <2>2. CASE Quiet(t)
    BY <2>1, <2>2, QuietNodes
  <2>3. CASE PushHead(t) \/ Unlink(t)
    BY <2>3, LinkNodes, UnlinkNodes
  <2> QED BY <2>2, <2>3, StepKinds
<1> QED BY <1>1, <1>2 DEF CallOf, Pushing

LEMMA CallsChange ==
  ASSUME Inv, NEW t \in Threads, Step(t)
  PROVE  CallsMade' = [CallsMade EXCEPT ![t] = CallOf(t)']
<1>1. ASSUME NEW u \in Threads PROVE CallsMade'[u] = [CallsMade EXCEPT ![t] = CallOf(t)'][u]
  BY <1>1, OthersCalls DEF CallsMade
<1> QED BY <1>1 DEF CallsMade

Shown == <<Contents, CallsMade, ret>>

(* A call that begins.                                                     *)
LEMMA InvokeShows ==
  ASSUME Inv, Listed, Pushed', NEW t \in Threads, Step(t),
         Push(t) \/ Pop(t) \/ Empty(t) \/ Destroy(t)
  PROVE  Abstract!Invoke(t)
<1>1. /\ pc[t] = "idle" /\ ret' = ret
      /\ pc'[t] \in {"push_lock", "pop_check", "empty_check", "destroy_lock"}
  BY DEF Inv, TypeOK, Push, Pop, Empty, Destroy, Call
<1>2. Contents' = Contents
  BY ContentsQuiet DEF Quiet
<1>3. CallsMade[t] = Abstract!Idle
  BY <1>1, CallNames DEF CallsMade
<1>4. CallOf(t)' \in Abstract!Calls
  <2>1. CASE pc'[t] = "push_lock"
    <3>1. CallOf(t)' = <<"push", value'[temp'[t]]>> /\ value'[temp'[t]] \in Values
      BY <2>1, CallNamesAfter DEF Pushed, Pushing
    <3> QED BY <3>1 DEF Abstract!Calls
  <2>2. CASE pc'[t] # "push_lock"
    <3>1. CallOf(t)' \in {<<"pop">>, <<"empty">>, <<"destroy">>}
      BY <1>1, <2>2, CallNamesAfter DEF Popping, Destroying
    <3> QED BY <3>1 DEF Abstract!Calls
  <2> QED BY <2>1, <2>2
<1> QED BY <1>1, <1>2, <1>3, <1>4, CallsChange DEF Abstract!Invoke, CallsMade

(* The steps inside a call that nobody else can tell.                      *)
LEMMA HiddenShows ==
  ASSUME Inv, Listed, NEW t \in Threads, Step(t),
         \/ PushLock(t) \/ PushNext(t) \/ PopCheck(t) \/ PopLock(t) \/ PopRead(t)
         \/ PopFault(t) \/ PopFree(t) \/ DestroyLock(t)
  PROVE  UNCHANGED Shown
<1>1. /\ ret' = ret /\ value' = value
      /\ pc[t] \in Pushing => temp'[t] = temp[t]
      /\ \/ pc[t] \in Pushing /\ pc'[t] \in Pushing
         \/ pc[t] \in Popping /\ pc'[t] \in Popping
         \/ pc[t] \in Destroying /\ pc'[t] \in Destroying
         \/ pc[t] = "pop_free" /\ pc'[t] = "done"
  BY DEF Inv, TypeOK, PushLock, PushNext, PopCheck, PopLock, PopRead, PopFault, PopFree,
     DestroyLock, Acquire, Pushing, Popping, Destroying, heap
<1>2. Contents' = Contents
  BY ContentsQuiet DEF Quiet
<1>3. CallOf(t)' = CallOf(t)
  BY <1>1, CallNames, CallNamesAfter
<1>4. CallsMade' = CallsMade
  BY <1>3, CallsChange DEF CallsMade
<1> QED BY <1>1, <1>2, <1>4 DEF Shown

(* A call that takes effect.                                               *)
LEMMA EffectShows ==
  ASSUME Inv, Listed, Pushed, NEW t \in Threads, Step(t),
         \/ PushHead(t) \/ PopEmpty(t) \/ PopTake(t) \/ EmptyCheck(t) \/ DestroyEnd(t)
  PROVE  \/ Abstract!Push(t) \/ Abstract!PopEmpty(t) \/ Abstract!Pop(t)
         \/ Abstract!Empty(t) \/ Abstract!Destroy(t)
<1> USE DEF Inv, TypeOK
<1>1. pc'[t] \in {"done", "pop_free"}
  BY DEF PushHead, PopEmpty, PopTake, EmptyCheck, DestroyEnd
<1>2. CallsMade' = [CallsMade EXCEPT ![t] = Abstract!Done]
  BY <1>1, CallsChange, CallNamesAfter
<1>3. Abstract!Finish(t)
  BY <1>2 DEF Abstract!Finish, CallsMade
<1>4. CallsMade[t] = CallOf(t)
  BY DEF CallsMade
<1>5. CASE PushHead(t)
  <2>1. /\ pc[t] \in Pushing /\ ret' = ret /\ value[temp[t]] \in Values
    BY <1>5 DEF PushHead, Pushing, Pushed
  <2>2. CallsMade[t] = <<"push", value[temp[t]]>>
    BY <1>4, <2>1, CallNames
  <2>3. Contents' = <<value[temp[t]]>> \o Contents
    BY <1>5, ContentsLink
  <2> QED BY <1>3, <2>1, <2>2, <2>3 DEF Abstract!Push, CallsMade
<1>6. CASE PopEmpty(t)
  <2>1. pc[t] \in Popping /\ ret' = [ret EXCEPT ![t] = -1] /\ head = NULL
    BY <1>6 DEF PopEmpty, Popping
  <2>2. CallsMade[t] = <<"pop">> /\ Contents = <<>> /\ Contents' = Contents
    BY <1>4, <1>6, <2>1, CallNames, ContentsEmpty, ContentsQuiet DEF Quiet
  <2> QED BY <1>3, <2>1, <2>2 DEF Abstract!PopEmpty, CallsMade
<1>7. CASE PopTake(t)
  <2>1. pc[t] \in Popping /\ ret' = [ret EXCEPT ![t] = value[head]]
    BY <1>7 DEF PopTake, Popping, Fresh
  <2>2. CallsMade[t] = <<"pop">>
    BY <1>4, <2>1, CallNames
  <2>3. Contents # <<>> /\ Head(Contents) = value[head] /\ Contents' = Tail(Contents)
    BY <1>7, ContentsUnlink DEF Unlink
  <2> QED BY <1>3, <2>1, <2>2, <2>3 DEF Abstract!Pop, CallsMade
<1>8. CASE EmptyCheck(t)
  <2>1. pc[t] = "empty_check" /\ ret' = [ret EXCEPT ![t] = IF head = NULL THEN 1 ELSE 0]
    BY <1>8 DEF EmptyCheck
  <2>2. CallsMade[t] = <<"empty">> /\ (Contents = <<>> <=> head = NULL) /\ Contents' = Contents
    BY <1>4, <1>8, <2>1, CallNames, ContentsEmpty, ContentsQuiet DEF Quiet
  <2> QED BY <1>3, <2>1, <2>2 DEF Abstract!Empty, CallsMade
<1>9. CASE DestroyEnd(t)
  <2>1. pc[t] \in Destroying /\ ret' = ret /\ head = NULL
    BY <1>9 DEF DestroyEnd, Destroying
  <2>2. CallsMade[t] = <<"destroy">> /\ Contents = <<>> /\ Contents' = Contents
    BY <1>4, <1>9, <2>1, CallNames, ContentsEmpty, ContentsQuiet DEF Quiet
  <2> QED BY <1>3, <2>1, <2>2 DEF Abstract!Destroy, CallsMade
<1> QED BY <1>5, <1>6, <1>7, <1>8, <1>9

LEMMA DestroyShows ==
  ASSUME Inv, Listed, NEW t \in Threads, Step(t), DestroyStep(t)
  PROVE  Abstract!Destroy(t)
<1>1. pc[t] \in Destroying /\ pc' = pc /\ ret' = ret
  BY DEF DestroyStep, Destroying
<1>2. CallsMade[t] = <<"destroy">> /\ CallOf(t)' = CallsMade[t]
  BY <1>1, CallNames, CallNamesAfter DEF CallsMade
<1>3. CallsMade' = CallsMade
  BY <1>2, CallsChange DEF CallsMade
<1>4. Contents # <<>> /\ Contents' = Tail(Contents)
  BY ContentsUnlink DEF Unlink
<1> QED BY <1>1, <1>2, <1>3, <1>4 DEF Abstract!Destroy, CallsMade

LEMMA ReturnShows ==
  ASSUME Inv, Listed, NEW t \in Threads, Step(t), Return(t)
  PROVE  Abstract!Return(t)
<1>1. pc[t] = "done" /\ pc'[t] = "idle" /\ ret' = ret
  BY DEF Inv, TypeOK, Return
<1>2. CallsMade[t] = Abstract!Done /\ CallOf(t)' = Abstract!Idle
  BY <1>1, CallNames, CallNamesAfter DEF CallsMade
<1>3. Contents' = Contents
  BY ContentsQuiet DEF Quiet
<1> QED BY <1>1, <1>2, <1>3, CallsChange DEF Abstract!Return, CallsMade

LEMMA StepShows ==
  ASSUME Inv, Listed, Pushed, Pushed', [Next]_vars PROVE [Abstract!Next]_Shown
<1>1. ASSUME NEW t \in Threads, Step(t) PROVE [Abstract!Next]_Shown
  <2>1. \/ Push(t) \/ Pop(t) \/ Empty(t) \/ Destroy(t) \/ DestroyStep(t) \/ Return(t)
        \/ PushLock(t) \/ PushNext(t) \/ PopCheck(t) \/ PopLock(t) \/ PopRead(t)
        \/ PopFault(t) \/ PopFree(t) \/ DestroyLock(t)
        \/ PushHead(t) \/ PopEmpty(t) \/ PopTake(t) \/ EmptyCheck(t) \/ DestroyEnd(t)
    BY <1>1 DEF Step
  <2>2. CASE Push(t) \/ Pop(t) \/ Empty(t) \/ Destroy(t)
    BY <1>1, <2>2, InvokeShows DEF Abstract!Next
  <2>3. CASE \/ PushLock(t) \/ PushNext(t) \/ PopCheck(t) \/ PopLock(t) \/ PopRead(t)
             \/ PopFault(t) \/ PopFree(t) \/ DestroyLock(t)
    BY <1>1, <2>3, HiddenShows
  <2>4. CASE PushHead(t) \/ PopEmpty(t) \/ PopTake(t) \/ EmptyCheck(t) \/ DestroyEnd(t)
    BY <1>1, <2>4, EffectShows DEF Abstract!Next
  <2>5. CASE DestroyStep(t) \/ Return(t)
    BY <1>1, <2>5, DestroyShows, ReturnShows DEF Abstract!Next
  <2> QED BY <2>1, <2>2, <2>3, <2>4, <2>5
<1>2. CASE UNCHANGED vars
  BY <1>2 DEF vars, heap, Shown, Contents, CallsMade, CallOf
<1> QED BY <1>1, <1>2 DEF Next, Joined

(* Every operation of stack.cc takes effect at one instant between its     *)
(* call and its return, on one sequence of values, last in first out.      *)
THEOREM StackLinearizable == Spec => Linearizable
<1>1. Init => Abstract!Init
  <2> SUFFICES ASSUME Init PROVE Abstract!Init
    OBVIOUS
  <2>1. Contents = <<>>
    BY ListedInit, ContentsEmpty DEF Init
  <2>2. [t \in Threads |-> CallOf(t)] = [t \in Threads |-> Abstract!Idle]
    BY CallNames DEF Init
  <2>3. ret \in [Threads -> {0}]
    BY DEF Init
  <2> QED BY <2>1, <2>2, <2>3 DEF Abstract!Init
<1>2. Init => Pushed
  BY DEF Init, Pushed, Linked
<1>3. Inv /\ Listed /\ Pushed /\ [Next]_vars => Listed' /\ Pushed'
  BY ListedStep, PushedStep
<1>4. Inv /\ Listed /\ Pushed /\ Pushed' /\ [Next]_vars => [Abstract!Next]_Shown
  BY StepShows
<1>5. [Abstract!Next]_Shown => [Abstract!Next]_(Abstract!vars)
  BY DEF Shown, CallsMade, Abstract!vars
<1> QED
  BY <1>1, <1>2, <1>3, <1>4, <1>5, ListedInit, StackInvariant, PTL
  DEF Spec, Linearizable, Abstract!Spec
-----------------------------------------------------------------------------
(* Bookkeeping for callers that pop no more than they pushed.  A thread is *)
(* due one pop for each push it linked and did not take back; its tokens   *)
(* count them, so that the list has as many nodes as there are tokens.     *)
Due(t) == credit[t] + (IF pc[t] \in Popping THEN 1 ELSE 0)
                    - (IF pc[t] \in Pushing THEN 1 ELSE 0)
Dues == [t \in Threads |-> Due(t)]
Tokens(due) == {x \in Threads \X Nat : 1 <= x[2] /\ x[2] <= due[x[1]]}

(* The last call of the program, as the tests make it: stack_destroy, when *)
(* no other thread will make one.                                          *)
Over == \E t \in Threads : /\ calls[t] = MaxCalls
                           /\ pc[t] \in Destroying \cup {"done", "idle"}
                           /\ \A u \in Threads \ {t} : Finished(u)

Paid == /\ IsFiniteSet(Tokens(Dues))
        /\ Cardinality(Tokens(Dues)) = Cardinality(Linked)

Solvent == \A t \in Threads : /\ ret[t] # -1 /\ pc[t] # "segv" /\ credit[t] >= 0
                              /\ pc[t] \in Pushing => credit[t] >= 1
                              /\ pc[t] \in Destroying => Over

Balance == balanced => Solvent /\ (Over \/ Paid)

LEMMA TokenAdded ==
  ASSUME NEW d \in [Threads -> Int], NEW t \in Threads, d[t] >= 0,
         NEW e, e = [d EXCEPT ![t] = d[t] + 1]
  PROVE  /\ Tokens(e) = Tokens(d) \cup {<<t, d[t] + 1>>}
         /\ <<t, d[t] + 1>> \notin Tokens(d)
<1>1. <<t, d[t] + 1>> \in Threads \X Nat /\ <<t, d[t] + 1>> \notin Tokens(d)
  BY DEF Tokens
<1>2. ASSUME NEW x \in Threads \X Nat
      PROVE  x \in Tokens(e) <=> x \in Tokens(d) \/ x = <<t, d[t] + 1>>
  <2>1. PICK u \in Threads, i \in Nat : x = <<u, i>>
    OBVIOUS
  <2>2. CASE u = t
    BY <2>1, <2>2 DEF Tokens
  <2>3. CASE u # t
    BY <2>1, <2>3 DEF Tokens
  <2> QED BY <2>2, <2>3
<1>3. Tokens(e) \subseteq Threads \X Nat /\ Tokens(d) \subseteq Threads \X Nat
  BY DEF Tokens
<1>4. Tokens(e) = Tokens(d) \cup {<<t, d[t] + 1>>}
  BY <1>1, <1>2, <1>3
<1> QED BY <1>1, <1>4

(* Once the last call is made, nothing but its own steps is left.          *)
LEMMA OverStep == ASSUME Inv, Over, [Next]_vars PROVE Over'
<1> USE DEF Inv, TypeOK, Destroying
<1> PICK t \in Threads : /\ calls[t] = MaxCalls
                        /\ pc[t] \in Destroying \cup {"done", "idle"}
                        /\ \A u \in Threads \ {t} : Finished(u)
  BY DEF Over
<1>1. ASSUME NEW u \in Threads, Step(u) PROVE u = t
  <2>1. ~Finished(u) \/ (pc[u] = "idle" /\ calls[u] < MaxCalls)
    BY <1>1 DEF Finished, Step, Push, PushLock, PushNext, PushHead, Pop, PopEmpty, PopCheck,
       PopLock, PopRead, PopTake, PopFault, PopFree, Empty, EmptyCheck, Destroy, DestroyLock,
       DestroyStep, DestroyEnd, Return, Acquire, Call
  <2> QED BY <2>1 DEF Finished
<1>2. ASSUME Step(t)
      PROVE  DestroyLock(t) \/ DestroyStep(t) \/ DestroyEnd(t) \/ Return(t)
  <2>1. ~(calls[t] < MaxCalls)
    OBVIOUS
  <2>2. ~Push(t) /\ ~Pop(t) /\ ~Empty(t) /\ ~Destroy(t)
    BY <2>1 DEF Push, Pop, Empty, Destroy, Call
  <2>3. /\ ~PushLock(t) /\ ~PushNext(t) /\ ~PushHead(t) /\ ~PopEmpty(t) /\ ~PopCheck(t)
        /\ ~PopLock(t) /\ ~PopRead(t) /\ ~PopTake(t) /\ ~PopFault(t) /\ ~PopFree(t)
        /\ ~EmptyCheck(t)
    BY DEF PushLock, PushNext, PushHead, PopEmpty, PopCheck, PopLock, PopRead, PopTake,
       PopFault, PopFree, EmptyCheck, Acquire
  <2> QED BY <1>2, <2>2, <2>3 DEF Step
<1>3. ASSUME Step(t) PROVE Over'
  <2>1. calls' = calls /\ pc'[t] \in Destroying \cup {"done", "idle"}
        /\ \A u \in Threads \ {t} : pc'[u] = pc[u]
    BY <1>2, <1>3 DEF DestroyLock, DestroyStep, DestroyEnd, Return, Acquire, caller
  <2> QED BY <2>1 DEF Over, Finished
<1>4. CASE UNCHANGED vars
  BY <1>4 DEF vars, caller, Over, Finished
<1> QED BY <1>1, <1>3, <1>4 DEF Next, Joined

(* A pop under way in a program that keeps the balance finds a node.       *)
LEMMA PoppingFinds ==
  ASSUME Inv, Listed, Balance, balanced, NEW t \in Threads, pc[t] \in Popping
  PROVE  head # NULL
<1>1. ~Over
  BY DEF Over, Finished, Popping, Destroying
<1>2. credit[t] \in Int /\ credit[t] >= 0 /\ Paid
  BY <1>1 DEF Balance, Solvent, Inv, TypeOK
<1>3. Dues[t] = credit[t] + 1
  BY <1>2 DEF Dues, Due, Popping, Pushing
<1>4. <<t, 1>> \in Tokens(Dues)
  BY <1>2, <1>3 DEF Tokens
<1>5. Linked # {}
  BY <1>2, <1>4, FS_EmptySet DEF Paid
<1> PICK c : ListIs(c)
  BY DEF Listed
<1>6. c # <<>>
  BY <1>5 DEF ListIs, NodesOf
<1> QED BY <1>6, ListEmpty DEF ListIs

LEMMA DuesStep ==
  ASSUME Inv, NEW t \in Threads, Step(t)
  PROVE  /\ PushHead(t) => Dues' = [Dues EXCEPT ![t] = Dues[t] + 1]
         /\ PopTake(t) => Dues' = [Dues EXCEPT ![t] = Dues[t] - 1]
         /\ PushHead(t) \/ PopTake(t) \/ PopEmpty(t) \/ PopFault(t) \/ Dues' = Dues
<1> USE DEF Inv, TypeOK
<1>1. ASSUME NEW u \in Threads, u # t PROVE Due(u)' = Due(u)
  <2>1. pc'[u] = pc[u] /\ credit'[u] = credit[u]
    BY <1>1 DEF Step, Push, PushLock, PushNext, PushHead, Pop, PopEmpty, PopCheck, PopLock,
       PopRead, PopTake, PopFault, PopFree, Empty, EmptyCheck, Destroy, DestroyLock,
       DestroyStep, DestroyEnd, Return, Acquire, Call, caller
  <2> QED BY <2>1 DEF Due
<1>2. ASSUME NEW d, Due(t)' = d PROVE Dues' = [Dues EXCEPT ![t] = d]
  <2>1. ASSUME NEW u \in Threads PROVE Dues'[u] = [Dues EXCEPT ![t] = d][u]
    BY <1>1, <1>2, <2>1 DEF Dues
  <2> QED BY <2>1 DEF Dues
<1>3. Dues[t] = Due(t)
  BY DEF Dues
<1>4. ASSUME PushHead(t) PROVE Dues' = [Dues EXCEPT ![t] = Dues[t] + 1]
  <2>1. Due(t)' = Due(t) + 1
    BY <1>4 DEF PushHead, Due, Pushing, Popping, caller
  <2> QED BY <1>2, <1>3, <2>1
<1>5. ASSUME PopTake(t) PROVE Dues' = [Dues EXCEPT ![t] = Dues[t] - 1]
  <2>1. Due(t)' = Due(t) - 1
    BY <1>5 DEF PopTake, Due, Pushing, Popping, caller
  <2> QED BY <1>2, <1>3, <2>1
<1>6. ASSUME ~PushHead(t), ~PopTake(t), ~PopEmpty(t), ~PopFault(t) PROVE Dues' = Dues
  <2>1. ASSUME Push(t) PROVE Due(t)' = Due(t)
    BY <2>1 DEF Push, Call, Due, Pushing, Popping
  <2>2. ASSUME Pop(t) PROVE Due(t)' = Due(t)
    BY <2>2 DEF Pop, Call, Due, Pushing, Popping
  <2>3. ASSUME ~Push(t), ~Pop(t) PROVE Due(t)' = Due(t)
    <3>1. /\ credit' = credit
          /\ pc'[t] \in Pushing <=> pc[t] \in Pushing
          /\ pc'[t] \in Popping <=> pc[t] \in Popping
      BY <1>6, <2>3 DEF Step, PushLock, PushNext, PopCheck, PopLock, PopRead, PopFree, Empty,
         EmptyCheck, Destroy, DestroyLock, DestroyStep, DestroyEnd, Return, Acquire, Call,
         caller, Pushing, Popping
    <3> QED BY <3>1 DEF Due
  <2>4. Due(t)' = Due(t)
    BY <2>1, <2>2, <2>3
  <2> QED BY <1>2, <1>3, <2>4 DEF Dues
<1> QED BY <1>4, <1>5, <1>6

LEMMA SolventStep ==
  ASSUME Inv, Listed, Pushed, Balance, balanced, balanced', -1 \notin Values,
         NEW t \in Threads, Step(t)
  PROVE  Solvent'
<1> USE DEF Inv, TypeOK
<1>1. Solvent /\ [Next]_vars
  BY DEF Balance, Next
<1>2. ASSUME NEW u \in Threads, u # t
      PROVE  ret'[u] = ret[u] /\ pc'[u] = pc[u] /\ credit'[u] = credit[u]
  BY <1>2 DEF Step, Push, PushLock, PushNext, PushHead, Pop, PopEmpty, PopCheck, PopLock,
     PopRead, PopTake, PopFault, PopFree, Empty, EmptyCheck, Destroy, DestroyLock,
     DestroyStep, DestroyEnd, Return, Acquire, Call, caller
<1>3. ~PopEmpty(t) /\ ~PopFault(t)
  BY PoppingFinds DEF PopEmpty, PopFault, Popping
<1>4. ret'[t] # -1
  <2>1. CASE PopTake(t)
    <3>1. ret'[t] = value[head] /\ head \in Linked
      BY <2>1, UnlinkNodes DEF Unlink, PopTake, Fresh
    <3> QED BY <3>1 DEF Pushed
  <2>2. CASE EmptyCheck(t)
    BY <2>2 DEF EmptyCheck
  <2>3. CASE ~PopTake(t) /\ ~EmptyCheck(t)
    <3>1. ret' = ret
      BY <1>3, <2>3 DEF Step, Push, PushLock, PushNext, PushHead, Pop, PopCheck, PopLock,
         PopRead, PopFree, Empty, Destroy, DestroyLock, DestroyStep, DestroyEnd, Return, Acquire
    <3> QED BY <1>1, <3>1 DEF Solvent
  <2> QED BY <2>1, <2>2, <2>3
<1>5. pc'[t] # "segv" /\ credit'[t] >= 0 /\ (pc'[t] \in Pushing => credit'[t] >= 1)
  <2>1. pc[t] # "segv" /\ credit[t] >= 0 /\ (pc[t] \in Pushing => credit[t] >= 1)
    BY <1>1 DEF Solvent
  <2>2. CASE Push(t)
    BY <2>1, <2>2 DEF Push, Call
  <2>3. CASE Pop(t)
    <3>1. balanced' = (balanced /\ credit[t] > 0) /\ credit'[t] = credit[t] - 1
      BY <2>3 DEF Pop
    <3>2. credit[t] \in Int /\ credit[t] > 0
      BY <3>1
    <3>3. pc'[t] = "pop_check"
      BY <2>3 DEF Pop, Call
    <3> QED BY <3>1, <3>2, <3>3 DEF Pushing
  <2>4. CASE ~Push(t) /\ ~Pop(t)
    <3>1. /\ credit' = credit /\ pc'[t] # "segv"
          /\ pc'[t] \in Pushing => pc[t] \in Pushing
      BY <1>3, <2>1, <2>4 DEF Step, PushLock, PushNext, PushHead, PopCheck, PopLock,
         PopRead, PopTake, PopFree, Empty, EmptyCheck, Destroy, DestroyLock,
         DestroyStep, DestroyEnd, Return, Acquire, Call, caller, Pushing
    <3> QED BY <2>1, <3>1
  <2> QED BY <2>2, <2>3, <2>4
<1>6. ASSUME NEW u \in Threads, pc'[u] \in Destroying PROVE Over'
  <2>1. CASE pc[u] \in Destroying
    BY <1>1, <2>1, OverStep DEF Solvent
  <2>2. CASE pc[u] \notin Destroying
    <3>1. u = t /\ Destroy(t)
      BY <1>2, <1>6, <2>2 DEF Step, Push, PushLock, PushNext, PushHead, Pop, PopEmpty,
         PopCheck, PopLock, PopRead, PopTake, PopFault, PopFree, Empty, EmptyCheck,
         DestroyLock, DestroyStep, DestroyEnd, Return, Acquire, Call, Destroying
    <3>2. /\ calls'[t] = MaxCalls
          /\ \A v \in Threads \ {t} : Finished(v) /\ pc'[v] = pc[v] /\ calls'[v] = calls[v]
      BY <3>1 DEF Destroy, Call
    <3> QED BY <1>6, <3>1, <3>2 DEF Over, Finished
  <2> QED BY <2>1, <2>2
<1>7. ASSUME NEW u \in Threads
      PROVE  /\ ret'[u] # -1 /\ pc'[u] # "segv" /\ credit'[u] >= 0
             /\ pc'[u] \in Pushing => credit'[u] >= 1
  BY <1>1, <1>2, <1>4, <1>5 DEF Solvent
<1> QED BY <1>6, <1>7 DEF Solvent

LEMMA PaidStep ==
  ASSUME Inv, Listed, Balance, balanced, ~Over, Paid, NEW t \in Threads, Step(t)
  PROVE  Paid'
<1>1. ~PopEmpty(t) /\ ~PopFault(t)
  BY PoppingFinds DEF PopEmpty, PopFault, Popping
<1>2. ~DestroyStep(t) /\ Solvent
  BY DEF Balance, Solvent, DestroyStep, Destroying
<1>3. IsFiniteSet(Linked)
  <2>1. Linked \in SUBSET Nodes
    BY DEF Linked, Inv, TypeOK
  <2> QED BY <2>1, FS_Subset
<1>4. Dues \in [Threads -> Int] /\ Dues[t] = Due(t)
  BY DEF Dues, Due, Inv, TypeOK
<1>5. CASE PushHead(t)
  <2>1. credit[t] >= 1 /\ credit[t] \in Int /\ pc[t] = "push_head"
    BY <1>2, <1>5 DEF PushHead, Solvent, Pushing, Inv, TypeOK
  <2>2. Dues[t] >= 0
    BY <1>4, <2>1 DEF Due, Pushing, Popping
  <2>3. Dues' = [Dues EXCEPT ![t] = Dues[t] + 1]
    BY <1>5, DuesStep
  <2>4. PICK x : x = <<t, Dues[t] + 1>>
    OBVIOUS
  <2>5. Tokens(Dues') = Tokens(Dues) \cup {x} /\ x \notin Tokens(Dues)
    BY <1>4, <2>2, <2>3, <2>4, TokenAdded
  <2>6. PICK n : Linked' = Linked \cup {n} /\ n \notin Linked
    BY <1>5, LinkNodes
  <2>7. Cardinality(Linked') = Cardinality(Linked) + 1
    BY <1>3, <2>6, FS_AddElement
  <2>8. /\ IsFiniteSet(Tokens(Dues'))
        /\ Cardinality(Tokens(Dues')) = Cardinality(Tokens(Dues)) + 1
    BY <2>5, FS_AddElement DEF Paid
  <2> QED BY <2>7, <2>8 DEF Paid
<1>6. CASE PopTake(t)
  <2>1. credit[t] >= 0 /\ credit[t] \in Int /\ pc[t] = "pop_take"
    BY <1>2, <1>6 DEF PopTake, Solvent, Inv, TypeOK
  <2>2. Dues[t] >= 1
    BY <1>4, <2>1 DEF Due, Pushing, Popping
  <2>3. Dues' = [Dues EXCEPT ![t] = Dues[t] - 1]
    BY <1>6, DuesStep
  <2>4. PICK d, e : d = Dues /\ e = Dues'
    OBVIOUS
  <2>5. e \in [Threads -> Int] /\ e[t] >= 0 /\ d = [e EXCEPT ![t] = e[t] + 1]
    <3>1. d \in [Threads -> Int] /\ d[t] >= 1 /\ e = [d EXCEPT ![t] = d[t] - 1]
      BY <1>4, <2>2, <2>3, <2>4
    <3>2. ASSUME NEW u \in Threads PROVE d[u] = [e EXCEPT ![t] = e[t] + 1][u]
      BY <3>1
    <3>3. e \in [Threads -> Int] /\ e[t] >= 0
      BY <3>1
    <3>4. d = [e EXCEPT ![t] = e[t] + 1]
      BY <3>1, <3>2, <3>3
    <3> QED BY <3>3, <3>4
  <2>6. PICK x : Tokens(e) = Tokens(d) \ {x} /\ x \in Tokens(d)
    <3>1. PICK y : y = <<t, e[t] + 1>>
      OBVIOUS
    <3>2. Tokens(d) = Tokens(e) \cup {y} /\ y \notin Tokens(e)
      BY <2>5, <3>1, TokenAdded
    <3> QED BY <3>2
  <2>7. Linked' = Linked \ {head} /\ head \in Linked
    BY <1>6, UnlinkNodes DEF Unlink
  <2>8. Cardinality(Linked') = Cardinality(Linked) - 1
    BY <1>3, <2>7, FS_RemoveElement
  <2>9. /\ IsFiniteSet(Tokens(Dues'))
        /\ Cardinality(Tokens(Dues')) = Cardinality(Tokens(Dues)) - 1
    BY <2>4, <2>6, FS_RemoveElement DEF Paid
  <2> QED BY <2>8, <2>9 DEF Paid
<1>7. CASE Quiet(t) /\ ~PushHead(t) /\ ~PopTake(t)
  <2>1. Linked' = Linked /\ Dues' = Dues
    BY <1>1, <1>7, QuietNodes, DuesStep
  <2> QED BY <2>1 DEF Paid
<1> QED BY <1>2, <1>5, <1>6, <1>7, StepKinds DEF Unlink

LEMMA BalanceStep ==
  ASSUME Inv, Listed, Pushed, Balance, -1 \notin Values, [Next]_vars PROVE Balance'
<1>1. ASSUME NEW t \in Threads, Step(t), balanced' PROVE balanced
  BY <1>1 DEF Step, Push, PushLock, PushNext, PushHead, Pop, PopEmpty, PopCheck, PopLock,
     PopRead, PopTake, PopFault, PopFree, Empty, EmptyCheck, Destroy, DestroyLock,
     DestroyStep, DestroyEnd, Return, Acquire, Call, caller
<1>2. ASSUME NEW t \in Threads, Step(t), balanced' PROVE Solvent' /\ (Over' \/ Paid')
  <2>1. balanced
    BY <1>1, <1>2
  <2>2. Solvent'
    BY <1>2, <2>1, SolventStep
  <2>3. CASE Over
    BY <2>2, <2>3, OverStep
  <2>4. CASE ~Over
    <3>1. Paid
      BY <2>1, <2>4 DEF Balance
    <3> QED BY <1>2, <2>1, <2>2, <2>4, <3>1, PaidStep
  <2> QED BY <2>3, <2>4
<1>3. CASE UNCHANGED vars
  <2>1. balanced' = balanced /\ Dues' = Dues /\ Linked' = Linked
    BY <1>3 DEF vars, heap, caller, Dues, Due, Linked, Holders
  <2>2. (Over' <=> Over) /\ (Solvent' <=> Solvent)
    BY <1>3 DEF vars, caller, Over, Solvent, Finished
  <2> QED BY <2>1, <2>2 DEF Balance, Paid
<1> QED BY <1>2, <1>3 DEF Balance, Next, Joined

(* While each thread pops only what it pushed, and the stack is destroyed  *)
(* when everybody is done, no pop of stack.cc comes back without a value   *)
(* (-1 is how it says so, hence nobody may push a -1) and none faults.     *)
THEOREM StackBalanced ==
  ASSUME -1 \notin Values PROVE Spec => []BalancedPopsSucceed
<1>1. Init => Balance
  <2> SUFFICES ASSUME Init PROVE Balance
    OBVIOUS
  <2>1. Solvent
    BY DEF Init, Solvent, Pushing, Destroying
  <2>2. Tokens(Dues) = {} /\ Linked = {}
    BY DEF Init, Tokens, Dues, Due, Pushing, Popping, Linked
  <2> QED BY <2>1, <2>2, FS_EmptySet DEF Balance, Paid
<1>2. Init => Pushed
  BY DEF Init, Pushed, Linked
<1>3. Inv /\ Listed /\ Pushed /\ Balance /\ [Next]_vars => Listed' /\ Pushed' /\ Balance'
  BY ListedStep, PushedStep, BalanceStep
<1>4. Balance => BalancedPopsSucceed
  BY DEF Balance, Solvent, BalancedPopsSucceed, Crashed
<1> QED BY <1>1, <1>2, <1>3, <1>4, ListedInit, StackInvariant, PTL DEF Spec
=============================================================================
