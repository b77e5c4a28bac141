------------------------- MODULE ParallelQueueProofs ------------------------
(***************************************************************************)
(* Proofs about ParallelQueue for any number of threads, values and nodes: *)
(* types, that neither head nor tail is ever used when it is null or       *)
(* points to freed memory, that tail is the end of the list, and that      *)
(* every operation takes effect at one instant (the refinement of          *)
(* AbstractQueue).  The invariant speaks of the list's nodes as a set S,   *)
(* and of one sequence c that lists them.                                  *)
(***************************************************************************)
EXTENDS ParallelQueue, LinkedListProofs, TLAPS

(* The mutex is held exactly by the thread inside a critical section.      *)
Critical == {"put_link", "put_tail", "put_advance", "take_head", "take_tail", "destroy_loop"}
Exclusion == \A t \in Threads : pc[t] \in Critical <=> lock = t

(* S is closed under next, no two of its nodes share a successor, and head *)
(* is its entry.                                                           *)
List(S) == /\ S \subseteq alloc
           /\ IF head = NULL THEN S = {} ELSE head \in S
           /\ \A n \in S : next[n] \in S \cup {NULL} /\ next[n] # head
           /\ \A m, n \in S : next[m] = next[n] /\ next[m] # NULL => m = n

(* last is the only node of S without a successor.                         *)
Last(S, last) == last \in S /\ next[last] = NULL /\ \A n \in S \ {last} : next[n] # NULL

(* What tail is worth, by what the holder of the mutex is doing.           *)
AtRest == \A t \in Threads : pc[t] \notin {"put_tail", "put_advance", "take_tail", "destroy_loop"}

TailInv(S) ==
  /\ AtRest => IF head = NULL THEN tail = NULL ELSE Last(S, tail)
  /\ \A t \in Threads :
       /\ pc[t] = "put_tail" => Last(S, newNode[t]) /\ head = newNode[t]
       /\ pc[t] = "put_advance" => Last(S, newNode[t]) /\ tail \in S /\ next[tail] = newNode[t]
       /\ pc[t] = "take_tail" => tail # NULL /\ (head # NULL => Last(S, tail))

(* A thread that has not linked its node is the only one to know it.       *)
Owners == {t \in Threads : pc[t] \in {"put_lock", "put_link"}}
Private(S) == /\ \A t \in Owners : /\ newNode[t] \in alloc \ S
                                   /\ next[newNode[t]] = NULL
              /\ \A t, u \in Owners : newNode[t] = newNode[u] => t = u

Inv(S) == TypeOK /\ Exclusion /\ List(S) /\ TailInv(S) /\ Private(S)
-----------------------------------------------------------------------------
USE QueueAssumption, ListAssumption DEF Goto

(* Every step keeps the types.                                             *)
LEMMA TypeStep == ASSUME NEW S, Inv(S), [Next]_vars PROVE TypeOK'
<1> USE DEF Inv, TypeOK
<1>1. ASSUME NEW t \in Threads, Put(t) PROVE TypeOK'
  BY <1>1 DEF Put, Call
<1>2. ASSUME NEW t \in Threads, PutLock(t) \/ TakeLock(t) \/ DestroyLock(t)
      PROVE  TypeOK'
  BY <1>2 DEF PutLock, TakeLock, DestroyLock, Acquire, heap
<1>3. ASSUME NEW t \in Threads, PutFirst(t) \/ PutFirstTail(t) PROVE TypeOK'
  BY <1>3 DEF PutFirst, PutFirstTail, Release, heap
<1>4. ASSUME NEW t \in Threads, PutNext(t) PROVE TypeOK'
  BY <1>4 DEF PutNext
<1>5. ASSUME NEW t \in Threads, PutAdvance(t) PROVE TypeOK'
  BY <1>5 DEF PutAdvance, Release, heap, TailInv, List
<1>6. ASSUME NEW t \in Threads, Take(t) \/ Empty(t) \/ Destroy(t) PROVE TypeOK'
  BY <1>6 DEF Take, Empty, Destroy, Call, heap
<1>7. ASSUME NEW t \in Threads, TakeEmpty(t) \/ EmptyCheck(t) PROVE TypeOK'
  BY <1>7 DEF TakeEmpty, EmptyCheck, Release, heap
<1>8. ASSUME NEW t \in Threads, TakeHead(t) \/ TakeTail(t) PROVE TypeOK'
  BY <1>8 DEF TakeHead, TakeTail, Release, heap
<1>9. ASSUME NEW t \in Threads, DestroyStep(t) \/ DestroyEnd(t) \/ Return(t)
      PROVE  TypeOK'
  BY <1>9 DEF DestroyStep, DestroyEnd, Return, Release, heap
<1>10. CASE UNCHANGED vars
  BY <1>10 DEF vars, heap
<1> QED
  BY <1>1, <1>2, <1>3, <1>4, <1>5, <1>6, <1>7, <1>8, <1>9, <1>10
  DEF Next, Step, Joined

(* The mutex excludes: a step enters a critical section only when it takes *)
(* the free mutex and leaves it only when it gives the mutex back.         *)
LEMMA ExclusionStep == ASSUME TypeOK, Exclusion, [Next]_vars PROVE Exclusion'
<1> USE DEF TypeOK, Exclusion, Critical
<1>1. ASSUME NEW t \in Threads, Put(t) \/ Take(t) \/ Empty(t) \/ Destroy(t)
      PROVE  Exclusion'
  BY <1>1 DEF Put, Take, Empty, Destroy, Call
<1>2. ASSUME NEW t \in Threads, PutLock(t) \/ TakeLock(t) \/ DestroyLock(t)
      PROVE  Exclusion'
  BY <1>2 DEF PutLock, TakeLock, DestroyLock, Acquire
<1>3. ASSUME NEW t \in Threads,
             PutFirst(t) \/ PutNext(t) \/ TakeHead(t) \/ DestroyStep(t)
      PROVE  Exclusion'
  BY <1>3 DEF PutFirst, PutNext, TakeHead, DestroyStep
<1>4. ASSUME NEW t \in Threads,
             \/ PutFirstTail(t) \/ PutAdvance(t) \/ TakeEmpty(t)
             \/ TakeTail(t) \/ DestroyEnd(t)
      PROVE  Exclusion'
  BY <1>4 DEF PutFirstTail, PutAdvance, TakeEmpty, TakeTail, DestroyEnd, Release
<1>5. ASSUME NEW t \in Threads, EmptyCheck(t) \/ Return(t) PROVE Exclusion'
  BY <1>5 DEF EmptyCheck, Return
<1>6. CASE UNCHANGED vars
  BY <1>6 DEF vars
<1> QED
  BY <1>1, <1>2, <1>3, <1>4, <1>5, <1>6 DEF Next, Step, Joined

(* While one thread is in a critical section no other one is.              *)
LEMMA Alone ==
  ASSUME Exclusion, NEW t \in Threads, pc[t] \in Critical
  PROVE  \A u \in Threads \ {t} : pc[u] \notin Critical
  BY DEF Exclusion

HeapInv(S) == List(S) /\ TailInv(S) /\ Private(S)

(* What the steps that change the list do to S.                            *)
LEMMA FirstHeap ==
  ASSUME NEW S, Inv(S), NEW t \in Threads, PutFirst(t), NEW R, R = {newNode[t]}
  PROVE  HeapInv(R)'
<1> USE DEF Inv, TypeOK, HeapInv
<1>1. /\ pc[t] = "put_link" /\ head' = newNode[t] /\ tail = NULL
      /\ pc' = [pc EXCEPT ![t] = "put_tail"]
      /\ UNCHANGED <<tail, next, alloc, newNode>>
  BY DEF PutFirst, heap
<1>2. \A u \in Threads \ {t} : pc[u] \notin Critical
  BY <1>1, Alone DEF Critical
<1>3. newNode[t] \in alloc /\ next[newNode[t]] = NULL /\ t \in Owners
  BY <1>1 DEF Private, Owners
<1>4. List(R)'
  BY <1>1, <1>3 DEF List
<1>5. TailInv(R)'
  BY <1>1, <1>2, <1>3 DEF TailInv, Last, AtRest, Critical
<1>6. Private(R)'
  BY <1>1, <1>3 DEF Private, Owners
<1> QED
  BY <1>4, <1>5, <1>6

LEMMA LinkHeap ==
  ASSUME NEW S, Inv(S), NEW t \in Threads, PutNext(t), NEW R, R = S \cup {newNode[t]}
  PROVE  HeapInv(R)'
<1> USE DEF Inv, TypeOK, HeapInv
<1>1. /\ pc[t] = "put_link" /\ tail # NULL
      /\ pc' = [pc EXCEPT ![t] = "put_advance"]
      /\ next' = [next EXCEPT ![tail] = newNode[t]]
      /\ UNCHANGED <<head, tail, alloc, newNode>>
  BY DEF PutNext
<1>2. \A u \in Threads \ {t} : pc[u] \notin Critical
  BY <1>1, Alone DEF Critical
<1>3. newNode[t] \in alloc \ S /\ next[newNode[t]] = NULL /\ t \in Owners
  BY <1>1 DEF Private, Owners
<1>4. AtRest
  BY <1>1, <1>2 DEF AtRest, Critical
<1>5. head \in S /\ Last(S, tail)
  BY <1>1, <1>4 DEF TailInv, List
<1>6. /\ next'[tail] = newNode[t]
      /\ \A n \in Nodes \ {tail} : next'[n] = next[n]
      /\ tail \in S /\ S \subseteq Nodes
  BY <1>1, <1>5 DEF Last, List
<1>7. List(R)'
  BY <1>1, <1>3, <1>5, <1>6 DEF List, Last
<1>8. TailInv(R)'
  BY <1>1, <1>2, <1>3, <1>5, <1>6 DEF TailInv, Last, AtRest, Critical
<1>9. Private(R)'
  BY <1>1, <1>3, <1>6 DEF Private, Owners
<1> QED
  BY <1>7, <1>8, <1>9

LEMMA TakeHeap ==
  ASSUME NEW S, Inv(S), NEW t \in Threads, TakeHead(t),
         NEW R, R = S \ {head}, next[head] = NULL => R = {}
  PROVE  HeapInv(R)'
<1> USE DEF Inv, TypeOK, HeapInv
<1>1. /\ pc[t] = "take_head" /\ tail # NULL /\ head # NULL
      /\ pc' = [pc EXCEPT ![t] = "take_tail"] /\ head' = next[head]
      /\ UNCHANGED <<tail, next, alloc, newNode>>
  BY DEF TakeHead, heap
<1>2. \A u \in Threads \ {t} : pc[u] \notin Critical
  BY <1>1, Alone DEF Critical
<1>3. AtRest
  BY <1>1, <1>2 DEF AtRest, Critical
<1>4. head \in S /\ Last(S, tail)
  BY <1>1, <1>3 DEF TailInv, List
<1>5. List(R)'
  BY <1>1, <1>4 DEF List
<1>6. TailInv(R)'
  BY <1>1, <1>2, <1>4 DEF TailInv, Last, AtRest, Critical
<1>7. Private(R)'
  BY <1>1 DEF Private, Owners
<1> QED
  BY <1>5, <1>6, <1>7

LEMMA DropHeap ==
  ASSUME NEW S, Inv(S), NEW t \in Threads, DestroyStep(t),
         NEW R, R = S \ {head}, next[head] = NULL => R = {}
  PROVE  HeapInv(R)'
<1> USE DEF Inv, TypeOK, HeapInv
<1>1. /\ pc[t] = "destroy_loop" /\ head # NULL /\ head' = next[head]
      /\ alloc' = alloc \ {head}
      /\ UNCHANGED <<pc, next, newNode>>
  BY DEF DestroyStep
<1>2. \A u \in Threads \ {t} : pc[u] \notin Critical
  BY <1>1, Alone DEF Critical
<1>3. List(R)'
  BY <1>1 DEF List
<1>4. TailInv(R)'
  BY <1>1, <1>2 DEF TailInv, AtRest, Critical
<1>5. Private(R)'
  BY <1>1 DEF Private, Owners, List
<1> QED
  BY <1>3, <1>4, <1>5

(* The other steps leave the list as it is.                                *)
Quiet(t) == \/ Put(t) \/ PutLock(t) \/ PutFirstTail(t) \/ PutAdvance(t)
            \/ Take(t) \/ TakeLock(t) \/ TakeEmpty(t) \/ TakeTail(t)
            \/ Empty(t) \/ EmptyCheck(t)
            \/ Destroy(t) \/ DestroyLock(t) \/ DestroyEnd(t) \/ Return(t)

LEMMA QuietHeap ==
  ASSUME NEW S, Inv(S), (\E t \in Threads : Quiet(t)) \/ UNCHANGED vars
  PROVE  HeapInv(S)'
<1> USE DEF Inv, TypeOK, HeapInv
<1>1. ASSUME NEW t \in Threads, Put(t) PROVE HeapInv(S)'
  <2> PICK v \in Values, n \in Nodes \ alloc :
        /\ Call(t, "put_lock")
        /\ alloc' = alloc \cup {n}
        /\ next' = [next EXCEPT ![n] = NULL]
        /\ newNode' = [newNode EXCEPT ![t] = n]
        /\ UNCHANGED <<head, tail, lock>>
    BY <1>1 DEF Put
  <2>1. n \notin S /\ \A m \in S : next'[m] = next[m]
    BY DEF List
  <2>2. \A u \in Threads \ {t} : pc'[u] = pc[u] /\ newNode'[u] = newNode[u]
    BY DEF Call
  <2>3. pc[t] = "idle" /\ pc'[t] = "put_lock" /\ newNode'[t] = n
    BY DEF Call
  <2>4. List(S)'
    BY <2>1 DEF List
  <2>5. TailInv(S)'
    BY <2>1, <2>2, <2>3 DEF TailInv, Last, AtRest, List
  <2>6. Private(S)'
    BY <2>1, <2>2, <2>3 DEF Private, Owners
  <2> QED
    BY <2>4, <2>5, <2>6
<1>2. ASSUME NEW t \in Threads, PutFirstTail(t) \/ PutAdvance(t)
      PROVE  HeapInv(S)'
  <2>1. /\ pc[t] \in {"put_tail", "put_advance"} /\ tail' = newNode[t]
        /\ pc' = [pc EXCEPT ![t] = "done"]
        /\ UNCHANGED <<head, next, alloc, newNode>>
    BY <1>2 DEF PutFirstTail, PutAdvance, TailInv, heap
  <2>2. \A u \in Threads \ {t} : pc[u] \notin Critical
    BY <2>1, Alone DEF Critical
  <2>3. Last(S, newNode[t]) /\ head # NULL
    BY <2>1 DEF TailInv, List, Last
  <2>4. List(S)'
    BY <2>1 DEF List
  <2>5. TailInv(S)'
    BY <2>1, <2>2, <2>3 DEF TailInv, Last, AtRest, Critical
  <2>6. Private(S)'
    BY <2>1 DEF Private, Owners
  <2> QED
    BY <2>4, <2>5, <2>6
<1>3. ASSUME NEW t \in Threads, TakeTail(t) PROVE HeapInv(S)'
  <2>1. /\ pc[t] = "take_tail" /\ pc' = [pc EXCEPT ![t] = "done"]
        /\ tail' = IF head = NULL THEN NULL ELSE tail
        /\ UNCHANGED <<head, next, alloc, newNode>>
    BY <1>3 DEF TakeTail, heap
  <2>2. \A u \in Threads \ {t} : pc[u] \notin Critical
    BY <2>1, Alone DEF Critical
  <2>3. List(S)'
    BY <2>1 DEF List
  <2>4. TailInv(S)'
    BY <2>1, <2>2 DEF TailInv, Last, AtRest, Critical
  <2>5. Private(S)'
    BY <2>1 DEF Private, Owners
  <2> QED
    BY <2>3, <2>4, <2>5
<1>4. ASSUME NEW t \in Threads, DestroyEnd(t) PROVE HeapInv(S)'
  <2>1. /\ pc[t] = "destroy_loop" /\ pc' = [pc EXCEPT ![t] = "done"]
        /\ head = NULL /\ tail' = NULL
        /\ UNCHANGED <<head, next, alloc, newNode>>
    BY <1>4 DEF DestroyEnd, heap
  <2>2. \A u \in Threads \ {t} : pc[u] \notin Critical
    BY <2>1, Alone DEF Critical
  <2>3. List(S)' /\ Private(S)'
    BY <2>1 DEF List, Private, Owners
  <2>4. TailInv(S)'
    BY <2>1, <2>2 DEF TailInv, AtRest, Critical
  <2> QED
    BY <2>3, <2>4
<1>5. ASSUME UNCHANGED <<head, tail, next, alloc, newNode>>,
             Owners' = Owners,
             \A u \in Threads : pc'[u] # pc[u] =>
               /\ pc[u] \notin {"put_tail", "put_advance", "take_tail", "destroy_loop"}
               /\ pc'[u] \notin {"put_tail", "put_advance", "take_tail"}
      PROVE  HeapInv(S)'
  <2>1. List(S)' /\ Private(S)'
    BY <1>5 DEF List, Private
  <2>2. TailInv(S)'
    BY <1>5 DEF TailInv, Last, AtRest
  <2> QED
    BY <2>1, <2>2
<1>6. ASSUME NEW t \in Threads, Take(t) \/ Empty(t) \/ Destroy(t) PROVE HeapInv(S)'
  BY <1>5, <1>6 DEF Take, Empty, Destroy, Call, Owners, heap
<1>7. ASSUME NEW t \in Threads, PutLock(t) \/ TakeLock(t) \/ DestroyLock(t)
       PROVE  HeapInv(S)'
  BY <1>5, <1>7 DEF PutLock, TakeLock, DestroyLock, Acquire, Owners, heap
<1>8. ASSUME NEW t \in Threads, TakeEmpty(t) \/ EmptyCheck(t) \/ Return(t)
       PROVE  HeapInv(S)'
  BY <1>5, <1>8 DEF TakeEmpty, EmptyCheck, Return, Owners, heap
<1>9. CASE UNCHANGED vars
  BY <1>5, <1>9 DEF vars, Owners, heap
<1> QED BY <1>1, <1>2, <1>3, <1>4, <1>6, <1>7, <1>8, <1>9 DEF Quiet

LEMMA QuietList ==
  ASSUME NEW S, Inv(S), (\E t \in Threads : Quiet(t)) \/ UNCHANGED vars
  PROVE  head' = head /\ \A n \in S : next'[n] = next[n] /\ data'[n] = data[n]
<1>1. ASSUME NEW t \in Threads, Put(t)
      PROVE  head' = head /\ \A n \in S : next'[n] = next[n] /\ data'[n] = data[n]
  BY <1>1 DEF Put, Inv, TypeOK, List
<1>2. ASSUME NEW t \in Threads, Quiet(t), ~Put(t) PROVE UNCHANGED <<head, next, data>>
  BY <1>2 DEF Quiet, PutLock, PutFirstTail, PutAdvance, Take, TakeLock, TakeEmpty, TakeTail,
     Empty, EmptyCheck, Destroy, DestroyLock, DestroyEnd, Return, Acquire, heap
<1> QED BY <1>1, <1>2 DEF vars, heap
-----------------------------------------------------------------------------
(* c is the queue's list, and its nodes satisfy the invariant.             *)
ListIs(c) == ListFrom(c, head, next) /\ Inv(NodesOf(c))
Listed == \E c : ListIs(c)

LEMMA InvStep ==
  ASSUME NEW S, Inv(S), [Next]_vars, NEW R, HeapInv(R)'
  PROVE  Inv(R)'
BY TypeStep, ExclusionStep DEF Inv, HeapInv

LEMMA QuietLists ==
  ASSUME NEW c, ListIs(c), [Next]_vars, (\E t \in Threads : Quiet(t)) \/ UNCHANGED vars
  PROVE  ListIs(c)' /\ ReadOff(c, data') = ReadOff(c, data)
<1>1. ListFrom(c, head, next) /\ c \in Seq(Nodes) /\ Inv(NodesOf(c))
  BY DEF ListIs, ListFrom
<1>2. head' = head /\ \A n \in NodesOf(c) : next'[n] = next[n] /\ data'[n] = data[n]
  BY <1>1, QuietList
<1>3. ListFrom(c, head, next') /\ ReadOff(c, data') = ReadOff(c, data)
  BY <1>1, <1>2, ListFrame, ReadSame
<1>4. Inv(NodesOf(c))'
  <2> PICK S : S = NodesOf(c)
    OBVIOUS
  <2>1. Inv(S)'
    BY <1>1, QuietHeap, InvStep
  <2> QED BY <2>1
<1> QED BY <1>2, <1>3, <1>4 DEF ListIs

LEMMA UnlinkLists ==
  ASSUME NEW c, ListIs(c), NEW t \in Threads, TakeHead(t) \/ DestroyStep(t)
  PROVE  ListIs(Tail(c))'
<1>1. ListFrom(c, head, next) /\ Inv(NodesOf(c)) /\ head # NULL
  BY DEF ListIs, TakeHead, DestroyStep
<1>2. ListFrom(Tail(c), next[head], next) /\ NodesOf(Tail(c)) = NodesOf(c) \ {head}
  BY <1>1, ListTail
<1> PICK R : R = NodesOf(Tail(c))
  OBVIOUS
<1>3. next[head] = NULL => R = {}
  <2>1. next[head] = NULL => Tail(c) = <<>>
    BY <1>2, ListEmpty
  <2>2. NodesOf(<<>>) = {}
    BY DEF NodesOf
  <2> QED BY <2>1, <2>2
<1>4. Inv(R)'
  BY <1>1, <1>2, <1>3, TakeHeap, DropHeap, InvStep DEF Next, Step
<1>5. head' = next[head] /\ next' = next
  BY DEF TakeHead, DestroyStep, heap
<1> QED BY <1>2, <1>4, <1>5 DEF ListIs
LEMMA FirstLists ==
  ASSUME NEW c, ListIs(c), NEW t \in Threads, PutFirst(t), NEW n, n = newNode[t]
  PROVE  /\ c = <<>> /\ n \in Nodes /\ ListIs(<<n>>)'
         /\ head = NULL /\ head' = n /\ UNCHANGED <<data, newNode>>
<1>1. ListFrom(c, head, next) /\ Inv(NodesOf(c))
  BY DEF ListIs
<1>2. /\ pc[t] = "put_link" /\ tail = NULL /\ head' = n /\ n \in Nodes
      /\ UNCHANGED <<next, data, newNode>>
  <2>1. t \in Owners /\ newNode[t] \in alloc /\ alloc \subseteq Nodes
    BY <1>1 DEF PutFirst, Owners, Inv, Private, TypeOK
  <2> QED BY <2>1 DEF PutFirst, heap
<1>3. next[n] = NULL
  BY <1>1, <1>2 DEF Inv, Private, Owners
<1>4. head = NULL
  <2>1. AtRest
    BY <1>1, <1>2, Alone DEF Inv, AtRest, Critical
  <2> QED BY <1>1, <1>2, <2>1 DEF Inv, TailInv, List, Last, TypeOK
<1>5. c = <<>>
  BY <1>1, <1>4, ListEmpty
<1>6. ListFrom(<<n>>, n, next) /\ NodesOf(<<n>>) = {n}
  BY <1>2, <1>3 DEF ListFrom, NodeAt, NodesOf
<1> PICK R : R = {n}
  OBVIOUS
<1>7. Inv(R)'
  BY <1>1, FirstHeap, InvStep DEF Next, Step
<1> QED BY <1>2, <1>4, <1>5, <1>6, <1>7 DEF ListIs

LEMMA LinkLists ==
  ASSUME NEW c, ListIs(c), NEW t \in Threads, PutNext(t), NEW n, n = newNode[t]
  PROVE  ListIs(Append(c, n))' /\ n \in Nodes /\ UNCHANGED data
<1>1. ListFrom(c, head, next) /\ Inv(NodesOf(c))
  BY DEF ListIs
<1>2. /\ pc[t] = "put_link" /\ tail # NULL /\ UNCHANGED <<head, data>>
      /\ next' = [next EXCEPT ![tail] = n]
  BY DEF PutNext
<1>3. tail \in NodesOf(c) /\ next[tail] = NULL
  <2>1. AtRest
    BY <1>1, <1>2, Alone DEF Inv, AtRest, Critical
  <2> QED BY <1>1, <1>2, <2>1 DEF Inv, TailInv, Last
<1>4. n \in Nodes /\ n \notin NodesOf(c) /\ next[n] = NULL
  BY <1>1, <1>2 DEF Inv, Private, Owners, TypeOK
<1>5. /\ next'[tail] = n /\ next'[n] = NULL
      /\ \A m \in NodesOf(c) \ {tail} : next'[m] = next[m]
  BY <1>1, <1>2, <1>3, <1>4 DEF Inv, TypeOK, List
<1> PICK after, last : after = next' /\ last = tail
  OBVIOUS
<1>6. ListFrom(Append(c, n), head, after) /\ NodesOf(Append(c, n)) = NodesOf(c) \cup {n}
  BY <1>1, <1>3, <1>4, <1>5, ListAppend
<1> PICK R : R = NodesOf(c) \cup {n}
  OBVIOUS
<1>7. Inv(R)'
  BY <1>1, LinkHeap, InvStep DEF Next, Step
<1> QED BY <1>2, <1>4, <1>6, <1>7 DEF ListIs

LEMMA StepKinds ==
  ASSUME NEW t \in Threads, Step(t)
  PROVE  Quiet(t) \/ PutFirst(t) \/ PutNext(t) \/ TakeHead(t) \/ DestroyStep(t)
BY DEF Step, Quiet

(* The list stays one, whoever steps.                                      *)
LEMMA ListedStep == ASSUME Listed, [Next]_vars PROVE Listed'
<1> PICK c : ListIs(c)
  BY DEF Listed
<1>1. ASSUME (\E t \in Threads : Quiet(t)) \/ UNCHANGED vars PROVE Listed'
  BY <1>1, QuietLists DEF Listed
<1>2. ASSUME NEW t \in Threads, Step(t) PROVE Listed'
  <2> PICK n : n = newNode[t]
    OBVIOUS
  <2> QED BY <1>1, <1>2, StepKinds, UnlinkLists, FirstLists, LinkLists DEF Listed
<1> QED BY <1>1, <1>2 DEF Next, Joined

(* There is such a list in every reachable state.                          *)
THEOREM QueueInvariant == Spec => []Listed
<1>1. Init => Listed
  <2> SUFFICES ASSUME Init PROVE Listed
    OBVIOUS
  <2>1. head = NULL /\ NodesOf(<<>>) = {}
    BY DEF Init, NodesOf
  <2>2. ListFrom(<<>>, NULL, next)
    BY ListEmpty
  <2>3. Inv({})
    BY DEF Init, Inv, TypeOK, Exclusion, Critical, List, TailInv, Last, AtRest,
           Private, Owners
  <2> QED BY <2>1, <2>2, <2>3 DEF Listed, ListIs
<1>2. Listed /\ [Next]_vars => Listed'
  BY ListedStep
<1> QED
  BY <1>1, <1>2, PTL DEF Spec

(* queue.cc keeps its data within their types whatever the threads call.   *)
THEOREM QueueTypes == Spec => []TypeOK
<1>1. Listed => TypeOK
  BY DEF Listed, ListIs, Inv
<1> QED
  BY <1>1, QueueInvariant, PTL

(* queue_take never reads, and queue_put never writes, through a null or a *)
(* dangling pointer, although both test nothing but tail.                  *)
THEOREM QueueNeverFaults == Spec => []NeverFaults
<1>1. ASSUME NEW S, Inv(S) PROVE NeverFaults
  <2> SUFFICES ASSUME NEW t \in Threads, pc[t] \in {"take_head", "put_link"},
                      tail # NULL
               PROVE  head \in alloc /\ tail \in alloc
    BY DEF NeverFaults
  <2>1. AtRest
    BY <1>1, Alone DEF Inv, AtRest, Critical
  <2> QED
    BY <1>1, <2>1 DEF Inv, TailInv, Last, List
<1>2. Listed => NeverFaults
  BY <1>1 DEF Listed, ListIs
<1> QED
  BY <1>2, QueueInvariant, PTL

(* Between any two operations of queue.cc the list is in order: tail is    *)
(* its last node, null just when head is, and no node of it is freed.      *)
THEOREM QueueTailIsLast == Spec => []TailIsLast
<1>1. ASSUME Listed, lock = Unlocked PROVE TailIsLast
  <2> PICK c : ListIs(c)
    BY <1>1 DEF Listed
  <2>1. Reachable(head, next) = NodesOf(c) /\ Inv(NodesOf(c))
    BY ReachableIsList DEF ListIs
  <2>2. AtRest
    BY <1>1, <2>1 DEF AtRest, Inv, Exclusion, Critical
  <2> QED BY <2>1, <2>2 DEF TailIsLast, Inv, TailInv, Last, List, TypeOK
<1>2. Listed => TailIsLast
  BY <1>1 DEF TailIsLast
<1> QED
  BY <1>2, QueueInvariant, PTL
-----------------------------------------------------------------------------
(* What a thread is about to add was handed over by a caller, the result   *)
(* of a call is 0 until it is known; tail is null before the first put is  *)
(* over, and not null before the last node is destroyed.                   *)
Putting == {"put_lock", "put_link", "put_tail"}
Taking == {"take_lock", "take_head", "take_tail"}
Destroying == {"destroy_lock", "destroy_loop"}
Pending == Putting \cup Destroying \cup {"put_advance", "take_lock", "take_head", "empty_check"}

CallInv == \A t \in Threads : /\ pc[t] \in Putting => data[newNode[t]] \in Values
                              /\ pc[t] \in Pending => ret[t] = 0
                              /\ pc[t] = "destroy_loop" /\ head # NULL => tail # NULL
                              /\ pc[t] = "put_tail" => tail = NULL

(* A step is seen by the others only through the list.                     *)
LEMMA OthersKeep ==
  ASSUME Listed, NEW t \in Threads, Step(t), NEW u \in Threads, u # t
  PROVE  /\ pc'[u] = pc[u] /\ newNode'[u] = newNode[u] /\ ret'[u] = ret[u]
         /\ pc[u] \in Putting => data'[newNode[u]] = data[newNode[u]]
<1> PICK c : ListIs(c)
  BY DEF Listed
<1> USE DEF ListIs, Inv, TypeOK
<1>1. pc'[u] = pc[u] /\ newNode'[u] = newNode[u] /\ ret'[u] = ret[u]
  BY DEF Step, Put, PutLock, PutFirst, PutFirstTail, PutNext, PutAdvance, Take, TakeLock,
     TakeEmpty, TakeHead, TakeTail, Empty, EmptyCheck, Destroy, DestroyLock, DestroyStep,
     DestroyEnd, Return, Acquire, Call, heap
<1>2. ASSUME pc[u] \in Putting PROVE data'[newNode[u]] = data[newNode[u]]
  <2>1. newNode[u] \in alloc
    BY <1>2 DEF Private, Owners, TailInv, Last, List, Putting
  <2>2. CASE Put(t)
    BY <2>1, <2>2 DEF Put
  <2>3. CASE ~Put(t)
    BY <2>3 DEF Step, PutLock, PutFirst, PutFirstTail, PutNext, PutAdvance, Take, TakeLock,
       TakeEmpty, TakeHead, TakeTail, Empty, EmptyCheck, Destroy, DestroyLock, DestroyStep,
       DestroyEnd, Return, Acquire, heap
  <2> QED BY <2>2, <2>3
<1> QED BY <1>1, <1>2

LEMMA CallInvStep == ASSUME Listed, CallInv, [Next]_vars PROVE CallInv'
<1> PICK c : ListIs(c)
  BY DEF Listed
<1>0. TypeOK /\ Exclusion /\ TailInv(NodesOf(c)) /\ List(NodesOf(c))
  BY DEF ListIs, Inv
<1>1. ASSUME NEW t \in Threads, Step(t), NEW u \in Threads
      PROVE  /\ pc'[u] \in Putting => data'[newNode'[u]] \in Values
             /\ pc'[u] \in Pending => ret'[u] = 0
  <2>1. CASE u # t
    BY <1>1, <2>1, OthersKeep DEF CallInv
  <2>2. CASE Put(t) /\ u = t
    <3> PICK v \in Values, n \in Nodes \ alloc : /\ Call(t, "put_lock")
                                               /\ data' = [data EXCEPT ![n] = v]
                                               /\ newNode' = [newNode EXCEPT ![t] = n]
      BY <2>2 DEF Put
    <3> QED BY <1>0, <2>2 DEF Call, TypeOK
  <2>3. CASE (Take(t) \/ Empty(t) \/ Destroy(t)) /\ u = t
    BY <1>0, <2>3 DEF Take, Empty, Destroy, Call, TypeOK, Putting
  <2>4. CASE ~Put(t) /\ ~Take(t) /\ ~Empty(t) /\ ~Destroy(t) /\ u = t
    <3>1. /\ data' = data /\ newNode' = newNode
          /\ pc'[t] \in Putting => pc[t] \in Putting
          /\ pc'[t] \in Pending => pc[t] \in Pending /\ ret' = ret
      BY <1>0, <1>1, <2>4 DEF Step, PutLock, PutFirst, PutFirstTail, PutNext, PutAdvance, TakeLock,
         TakeEmpty, TakeHead, TakeTail, EmptyCheck, DestroyLock, DestroyStep,
         DestroyEnd, Return, Acquire, TypeOK, heap, Putting, Pending, Destroying
    <3> QED BY <2>4, <3>1 DEF CallInv
  <2> QED BY <2>1, <2>2, <2>3, <2>4
<1>2. ASSUME NEW t \in Threads, Step(t), NEW u \in Threads, pc'[u] = "destroy_loop", head' # NULL
      PROVE  tail' # NULL
  <2>1. CASE u # t
    <3>1. pc[u] = "destroy_loop" /\ pc[t] \notin Critical
      BY <1>0, <1>1, <1>2, <2>1, OthersKeep, Alone DEF Critical
    <3>2. head' = head /\ tail' = tail
      BY <1>2, <3>1 DEF Step, Put, PutLock, PutFirst, PutFirstTail, PutNext, PutAdvance, Take,
         TakeLock, TakeEmpty, TakeHead, TakeTail, Empty, EmptyCheck, Destroy, DestroyLock,
         DestroyStep, DestroyEnd, Return, Acquire, Critical
    <3> QED BY <1>2, <3>1, <3>2 DEF CallInv
  <2>2. CASE DestroyLock(t) /\ u = t
    <3>1. lock = Unlocked /\ head' = head /\ tail' = tail
      BY <2>2 DEF DestroyLock, Acquire
    <3>2. AtRest
      BY <1>0, <3>1 DEF AtRest, Exclusion, Critical
    <3> QED BY <1>0, <1>2, <3>1, <3>2 DEF TailInv, Last, List, TypeOK
  <2>3. CASE DestroyStep(t) /\ u = t
    <3>1. pc[t] = "destroy_loop" /\ head # NULL /\ tail' = tail
      BY <2>3 DEF DestroyStep
    <3> QED BY <3>1 DEF CallInv
  <2>4. CASE ~DestroyLock(t) /\ ~DestroyStep(t) /\ u = t
    <3>1. pc'[t] # "destroy_loop"
      BY <1>0, <1>2, <2>4 DEF Step, Put, PutLock, PutFirst, PutFirstTail, PutNext, PutAdvance,
         Take, TakeLock, TakeEmpty, TakeHead, TakeTail, Empty, EmptyCheck, Destroy,
         DestroyEnd, Return, Acquire, Call, TypeOK
    <3> QED BY <1>2, <2>4, <3>1
  <2> QED BY <2>1, <2>2, <2>3, <2>4
<1>3. ASSUME NEW t \in Threads, Step(t), NEW u \in Threads, pc'[u] = "put_tail"
      PROVE  tail' = NULL
  <2>1. CASE u # t
    <3>1. pc[u] = "put_tail" /\ pc[t] \notin Critical
      BY <1>0, <1>3, <2>1, OthersKeep, Alone DEF Critical
    <3>2. tail' = tail
      BY <1>3, <3>1 DEF Step, Put, PutLock, PutFirst, PutFirstTail, PutNext, PutAdvance, Take,
         TakeLock, TakeEmpty, TakeHead, TakeTail, Empty, EmptyCheck, Destroy, DestroyLock,
         DestroyStep, DestroyEnd, Return, Acquire, Critical
    <3> QED BY <3>1, <3>2 DEF CallInv
  <2>2. CASE PutFirst(t) /\ u = t
    BY <2>2 DEF PutFirst
  <2>3. CASE ~PutFirst(t) /\ u = t
    <3>1. pc'[t] # "put_tail"
      BY <1>0, <1>3, <2>3 DEF Step, Put, PutLock, PutFirstTail, PutNext, PutAdvance,
         Take, TakeLock, TakeEmpty, TakeHead, TakeTail, Empty, EmptyCheck, Destroy, DestroyLock,
         DestroyStep, DestroyEnd, Return, Acquire, Call, TypeOK
    <3> QED BY <1>3, <2>3, <3>1
  <2> QED BY <2>1, <2>2, <2>3
<1>4. CASE UNCHANGED vars
  BY <1>4 DEF vars, heap, CallInv
<1> QED BY <1>1, <1>2, <1>3, <1>4 DEF CallInv, Next, Joined
-----------------------------------------------------------------------------
(* The abstract queue while the list is c.                                 *)
TakersResult == ret[CHOOSE t \in Takers : TRUE]

LEMMA ContentsIs ==
  ASSUME NEW c
  PROVE  /\ ListIs(c) => Contents = IF tail = NULL THEN <<>>
                                    ELSE IF Takers # {} THEN <<TakersResult>> \o ReadOff(c, data)
                                    ELSE ReadOff(c, data)
         /\ ListIs(c)' => Contents' = IF tail' = NULL THEN <<>>
                                      ELSE IF Takers' # {} THEN <<TakersResult'>> \o ReadOff(c, data')
                                      ELSE ReadOff(c, data')
<1>1. ASSUME ListIs(c)
      PROVE  [i \in DOMAIN Chain(head, next) |-> data[Chain(head, next)[i]]] = ReadOff(c, data)
  <2>1. ListFrom(c, head, next)
    BY <1>1 DEF ListIs
  <2> QED BY <2>1, ChainRead
<1>2. ASSUME ListIs(c)'
      PROVE  [i \in DOMAIN Chain(head', next') |-> data'[Chain(head', next')[i]]] = ReadOff(c, data')
  <2>1. ListFrom(c, head', next')
    BY <1>2 DEF ListIs
  <2> QED BY <2>1, ChainRead
<1> QED BY <1>1, <1>2 DEF Contents, TakersResult

(* The thread in a critical section is the only taker, or there is none.   *)
LEMMA TheTaker ==
  ASSUME Exclusion, NEW t \in Threads, pc[t] \in Critical
  PROVE  /\ pc[t] = "take_tail" => Takers = {t} /\ TakersResult = ret[t]
         /\ pc[t] # "take_tail" => Takers = {}
<1>1. \A u \in Takers : u = t
  BY Alone DEF Takers, Critical
<1>2. pc[t] = "take_tail" => Takers = {t}
  BY <1>1 DEF Takers
<1> QED BY <1>1, <1>2 DEF Takers, TakersResult

LEMMA ListFacts ==
  ASSUME NEW c, ListIs(c)
  PROVE  /\ c \in Seq(Nodes) /\ ListFrom(c, head, next) /\ data \in [Nodes -> Int]
         /\ TypeOK /\ Exclusion /\ ReadOff(c, data) \in Seq(Int)
         /\ head = NULL <=> c = <<>>
         /\ ReadOff(c, data) = <<>> <=> c = <<>>
<1>1. /\ c \in Seq(Nodes) /\ ListFrom(c, head, next) /\ data \in [Nodes -> Int]
      /\ TypeOK /\ Exclusion
  BY DEF ListIs, ListFrom, Inv, TypeOK
<1>2. head = NULL <=> c = <<>>
  BY <1>1, ListEmpty
<1>3. ReadOff(c, data) \in Seq(Int) /\ (ReadOff(c, data) = <<>> <=> c = <<>>)
  BY <1>1, ReadSeq
<1> QED BY <1>1, <1>2, <1>3

(* A step outside the list and outside tail changes nothing.               *)
LEMMA ContentsStay ==
  ASSUME Listed, NEW t \in Threads, Step(t), Quiet(t),
         ~PutFirstTail(t), ~TakeTail(t), ~DestroyEnd(t)
  PROVE  Contents' = Contents
<1> PICK c : ListIs(c)
  BY DEF Listed
<1>1. ListIs(c)' /\ ReadOff(c, data') = ReadOff(c, data)
  BY QuietLists DEF Next
<1>2. TypeOK /\ Exclusion /\ TailInv(NodesOf(c)) /\ List(NodesOf(c))
  BY DEF ListIs, Inv
<1>3. \A u \in Threads \ {t} : pc'[u] = pc[u] /\ ret'[u] = ret[u]
  BY OthersKeep
<1>4. Takers' = Takers /\ t \notin Takers
  BY <1>2, <1>3 DEF Takers, Quiet, Put, PutLock, PutFirstTail, PutAdvance, Take, TakeLock,
     TakeEmpty, TakeTail, Empty, EmptyCheck, Destroy, DestroyLock, DestroyEnd, Return,
     Acquire, Call, TypeOK
<1>5. Takers # {} => TakersResult' = TakersResult
  <2> SUFFICES ASSUME Takers # {} PROVE TakersResult' = TakersResult
    OBVIOUS
  <2> PICK u : u = CHOOSE x \in Takers : TRUE
    OBVIOUS
  <2>1. u \in Threads \ {t} /\ u = CHOOSE x \in Takers' : TRUE
    BY <1>4 DEF Takers
  <2> QED BY <1>3, <2>1 DEF TakersResult
<1>6. tail' = NULL <=> tail = NULL
  <2>1. CASE PutAdvance(t)
    BY <1>2, <2>1 DEF PutAdvance, TailInv, Last, List, TypeOK
  <2>2. CASE ~PutAdvance(t)
    BY <2>2 DEF Quiet, Put, PutLock, Take, TakeLock, TakeEmpty, Empty, EmptyCheck, Destroy,
       DestroyLock, Return, Acquire
  <2> QED BY <2>1, <2>2
<1> QED BY <1>1, <1>4, <1>5, <1>6, ContentsIs

LEMMA ContentsPutFirst ==
  ASSUME Listed, NEW t \in Threads, PutFirst(t) PROVE Contents' = Contents
BY DEF PutFirst, Contents

LEMMA ContentsPut ==
  ASSUME Listed, CallInv, NEW t \in Threads, Step(t), PutFirstTail(t) \/ PutNext(t)
  PROVE  Contents' = Append(Contents, data[newNode[t]])
<1> PICK c : ListIs(c)
  BY DEF Listed
<1> PICK n : n = newNode[t]
  OBVIOUS
<1>1. TypeOK /\ Exclusion /\ TailInv(NodesOf(c)) /\ List(NodesOf(c))
  BY DEF ListIs, Inv
<1>2. /\ pc[t] \in {"put_tail", "put_link"} /\ pc'[t] \in {"put_advance", "done"}
      /\ data' = data /\ pc' = [pc EXCEPT ![t] = pc'[t]]
  BY <1>1 DEF PutFirstTail, PutNext, TypeOK, heap
<1>3. Takers = {} /\ Takers' = {}
  <2>1. Takers = {}
    BY <1>1, <1>2, TheTaker DEF Critical
  <2> QED BY <1>1, <1>2, <2>1 DEF Takers, TypeOK
<1>4. CASE PutNext(t)
  <2>1. ListIs(Append(c, n))' /\ n \in Nodes
    BY <1>4, LinkLists
  <2>2. ReadOff(Append(c, n), data) = Append(ReadOff(c, data), data[n])
    BY <2>1, ListFacts, ReadAppend
  <2>3. tail # NULL /\ tail' = tail
    BY <1>4 DEF PutNext
  <2>4. Contents = ReadOff(c, data) /\ Contents' = ReadOff(Append(c, n), data)
    BY <1>2, <1>3, <2>1, <2>3, ContentsIs
  <2> QED BY <2>2, <2>4
<1>5. CASE PutFirstTail(t)
  <2>1. /\ head = n /\ n \in NodesOf(c) /\ next[n] = NULL
        /\ tail' = n /\ n \in Nodes /\ n # NULL
    BY <1>1, <1>5 DEF PutFirstTail, TailInv, Last, List, TypeOK
  <2>2. tail = NULL
    BY <1>5 DEF PutFirstTail, CallInv
  <2>3. c \in Seq(Nodes) /\ c # <<>> /\ c[1] = n /\ next[n] = NodeAt(c, 1 + 1)
    <3>1. ListFrom(c, n, next) /\ c \in Seq(Nodes) /\ c # <<>>
      BY <2>1, ListFacts
    <3>2. 1 \in 1..Len(c)
      BY <3>1
    <3> QED BY <3>1, <3>2 DEF ListFrom, NodeAt
  <2>4. Len(c) = 1
    <3>1. NodeAt(c, 1 + 1) = NULL <=> 1 + 1 > Len(c)
      BY <2>3, AtNull, 1 + 1 \in Nat \ {0}
    <3>2. Len(c) \in Nat \ {0}
      BY <2>3
    <3>3. 1 + 1 > Len(c)
      BY <2>1, <2>3, <3>1
    <3> QED BY <3>2, <3>3
  <2>5. ReadOff(c, data) = <<data[n]>>
    BY <2>3, <2>4 DEF ReadOff
  <2>6. ListIs(c)' /\ ReadOff(c, data') = ReadOff(c, data)
    BY <1>5, QuietLists DEF Quiet, Next
  <2>7. Contents = <<>> /\ Contents' = <<data[n]>>
    BY <1>3, <2>1, <2>2, <2>5, <2>6, ContentsIs
  <2> QED BY <2>7
<1> QED BY <1>4, <1>5

LEMMA ContentsTakeHead ==
  ASSUME Listed, NEW t \in Threads, Step(t), TakeHead(t)
  PROVE  Contents' = Contents /\ t \in Takers' /\ t \notin Takers
<1> PICK c : ListIs(c)
  BY DEF Listed
<1>1. TypeOK /\ Exclusion /\ Inv(NodesOf(c))
  BY DEF ListIs, Inv
<1>2. /\ pc[t] = "take_head" /\ pc' = [pc EXCEPT ![t] = "take_tail"]
      /\ tail # NULL /\ tail' = tail /\ head # NULL /\ data' = data
      /\ ret' = [ret EXCEPT ![t] = data[head]]
  BY DEF TakeHead, heap
<1>3. Takers = {}
  BY <1>1, <1>2, TheTaker DEF Critical
<1>4. Takers' = {t}
  BY <1>1, <1>2, <1>3 DEF Takers, TypeOK
<1>5. TakersResult' = data[head]
  BY <1>1, <1>2, <1>4 DEF TakersResult, TypeOK
<1>6. ListIs(Tail(c))'
  BY UnlinkLists
<1>7. c \in Seq(Nodes) /\ c # <<>> /\ Head(c) = head /\ data \in [Nodes -> Int]
  BY <1>2, ListFacts, ListEmpty
<1>8. Head(ReadOff(c, data)) = data[head] /\ ReadOff(Tail(c), data) = Tail(ReadOff(c, data))
  BY <1>7, ReadTail
<1>9. ReadOff(c, data) = <<data[head]>> \o ReadOff(Tail(c), data)
  <2> PICK r : r = ReadOff(c, data)
    OBVIOUS
  <2>1. r \in Seq(Int) /\ r # <<>> /\ Head(r) = data[head] /\ ReadOff(Tail(c), data) = Tail(r)
    BY <1>7, <1>8, ListFacts
  <2>2. r = <<Head(r)>> \o Tail(r)
    BY <2>1
  <2> QED BY <2>1, <2>2
<1> QED BY <1>2, <1>3, <1>4, <1>5, <1>6, <1>9, ContentsIs

LEMMA ContentsTakeTail ==
  ASSUME Listed, NEW t \in Threads, Step(t), TakeTail(t)
  PROVE  /\ Contents # <<>> /\ Head(Contents) = ret[t] /\ Contents' = Tail(Contents)
         /\ t \notin Takers'
<1> PICK c : ListIs(c)
  BY DEF Listed
<1>1. TypeOK /\ Exclusion /\ Inv(NodesOf(c))
  BY DEF ListIs, Inv
<1>2. /\ pc[t] = "take_tail" /\ pc' = [pc EXCEPT ![t] = "done"] /\ head' = head
      /\ tail' = IF head = NULL THEN NULL ELSE tail
  BY DEF TakeTail
<1>3. Takers = {t} /\ TakersResult = ret[t] /\ tail # NULL /\ ret[t] \in Int
  BY <1>1, <1>2, TheTaker DEF Critical, Inv, TailInv, TypeOK
<1>4. Takers' = {}
  BY <1>1, <1>2, <1>3 DEF Takers, TypeOK
<1>5. ListIs(c)' /\ ReadOff(c, data') = ReadOff(c, data)
  BY QuietLists DEF Quiet, Next
<1>6. Contents' = ReadOff(c, data)
  BY <1>2, <1>3, <1>4, <1>5, ContentsIs, ListFacts
<1>7. Contents = <<ret[t]>> \o ReadOff(c, data)
  BY <1>3, ContentsIs
<1>8. ReadOff(c, data) \in Seq(Int)
  BY ListFacts
<1> PICK r : r = ReadOff(c, data)
  OBVIOUS
<1>9. <<ret[t]>> \o r # <<>> /\ Head(<<ret[t]>> \o r) = ret[t] /\ Tail(<<ret[t]>> \o r) = r
  <2>1. r \in Seq(Int) /\ <<ret[t]>> \in Seq(Int) /\ Len(<<ret[t]>>) = 1
    BY <1>3, <1>8
  <2>2. /\ <<ret[t]>> \o r \in Seq(Int) /\ Len(<<ret[t]>> \o r) = 1 + Len(r)
        /\ \A i \in 1..(1 + Len(r)) : (<<ret[t]>> \o r)[i] = IF i <= 1 THEN <<ret[t]>>[i] ELSE r[i - 1]
    BY <2>1, ConcatProperties
  <2>3. <<ret[t]>> \o r # <<>> /\ Head(<<ret[t]>> \o r) = ret[t]
    BY <2>1, <2>2
  <2>4. /\ Tail(<<ret[t]>> \o r) \in Seq(Int) /\ Len(Tail(<<ret[t]>> \o r)) = Len(r)
        /\ \A i \in 1..Len(r) : Tail(<<ret[t]>> \o r)[i] = (<<ret[t]>> \o r)[i + 1]
    BY <2>1, <2>2, <2>3, HeadTailProperties
  <2>5. \A i \in 1..Len(r) : Tail(<<ret[t]>> \o r)[i] = r[i]
    BY <2>1, <2>2, <2>4
  <2> QED BY <2>1, <2>3, <2>4, <2>5, SeqEqual
<1> QED BY <1>4, <1>6, <1>7, <1>9

LEMMA ContentsDestroy ==
  ASSUME Listed, CallInv, NEW t \in Threads, Step(t), DestroyStep(t)
  PROVE  Contents # <<>> /\ Contents' = Tail(Contents) /\ Takers = {} /\ Takers' = {}
<1> PICK c : ListIs(c)
  BY DEF Listed
<1>1. TypeOK /\ Exclusion
  BY DEF ListIs, Inv
<1>2. /\ pc[t] = "destroy_loop" /\ pc' = pc /\ head # NULL /\ tail' = tail /\ data' = data
      /\ tail # NULL
  BY DEF DestroyStep, CallInv
<1>3. Takers = {} /\ Takers' = {}
  BY <1>1, <1>2, TheTaker DEF Takers, Critical
<1>4. ListIs(Tail(c))'
  BY UnlinkLists
<1>5. /\ c \in Seq(Nodes) /\ c # <<>> /\ data \in [Nodes -> Int] /\ ReadOff(c, data) # <<>>
  BY <1>2, ListFacts
<1>6. ReadOff(Tail(c), data) = Tail(ReadOff(c, data))
  BY <1>5, ReadTail
<1> QED BY <1>2, <1>3, <1>4, <1>5, <1>6, ContentsIs

LEMMA ContentsDestroyed ==
  ASSUME Listed, NEW t \in Threads, Step(t), DestroyEnd(t)
  PROVE  Contents = <<>> /\ Contents' = <<>>
<1> PICK c : ListIs(c)
  BY DEF Listed
<1>1. TypeOK /\ Exclusion
  BY DEF ListIs, Inv
<1>2. pc[t] = "destroy_loop" /\ head = NULL /\ tail' = NULL
  BY DEF DestroyEnd
<1>3. Takers = {}
  BY <1>1, <1>2, TheTaker DEF Critical
<1>4. ReadOff(c, data) = <<>>
  BY <1>2, ListFacts
<1> QED BY <1>2, <1>3, <1>4, ContentsIs DEF Contents

(* queue_empty and the others look at tail, not at the list.               *)
LEMMA ContentsEmpty ==
  ASSUME Listed
  PROVE  /\ tail = NULL => Contents = <<>>
         /\ tail # NULL /\ Contents = <<>> => \E u \in Threads : pc[u] = "destroy_loop"
<1> PICK c : ListIs(c)
  BY DEF Listed
<1>1. TypeOK /\ Exclusion /\ TailInv(NodesOf(c)) /\ List(NodesOf(c))
  BY DEF ListIs, Inv
<1>2. ASSUME tail # NULL, \A u \in Threads : pc[u] # "destroy_loop" PROVE Contents # <<>>
  <2>1. CASE Takers # {}
    <3>1. Contents = <<TakersResult>> \o ReadOff(c, data)
      BY <1>2, <2>1, ContentsIs
    <3> PICK r, x : r = ReadOff(c, data) /\ x = TakersResult
      OBVIOUS
    <3>2. r \in Seq(Int) /\ x \in Int
      BY <1>1, <2>1, ListFacts DEF TakersResult, Takers, TypeOK
    <3>3. <<x>> \o r # <<>>
      BY <3>2
    <3> QED BY <3>1, <3>3
  <2>2. CASE Takers = {}
    <3>1. head # NULL
      BY <1>1, <1>2, <2>2 DEF TailInv, AtRest, Takers, Last, List, TypeOK
    <3>2. ReadOff(c, data) # <<>>
      BY <3>1, ListFacts
    <3> QED BY <1>2, <2>2, <3>2, ContentsIs
  <2> QED BY <2>1, <2>2
<1> QED BY <1>2 DEF Contents
-----------------------------------------------------------------------------
(* What the abstract queue sees of each thread: its call, and its result,  *)
(* which a take keeps for itself until it is done with tail.               *)
CallsMade == [t \in Threads |-> CallOf(t)]
Results == [t \in Threads |-> IF t \in Takers THEN 0 ELSE ret[t]]
Shown == <<Contents, CallsMade, Results>>

LEMMA CallNames ==
  ASSUME NEW t \in Threads
  PROVE  /\ pc[t] = "idle" => CallOf(t) = Abstract!Idle
         /\ pc[t] \in Putting => CallOf(t) = <<"put", data[newNode[t]]>>
         /\ pc[t] \in Taking => CallOf(t) = <<"take">>
         /\ pc[t] = "empty_check" => CallOf(t) = <<"empty">>
         /\ pc[t] \in Destroying => CallOf(t) = <<"destroy">>
         /\ pc[t] \in {"done", "put_advance"} => CallOf(t) = Abstract!Done
BY DEF CallOf, Putting, Taking, Destroying, Abstract!Idle, Abstract!Done

(* The same facts about the state after a step.                            *)
LEMMA CallNamesAfter ==
  ASSUME NEW t \in Threads
  PROVE  /\ pc'[t] = "idle" => CallOf(t)' = Abstract!Idle
         /\ pc'[t] \in Putting => CallOf(t)' = <<"put", data'[newNode'[t]]>>
         /\ pc'[t] \in Taking => CallOf(t)' = <<"take">>
         /\ pc'[t] = "empty_check" => CallOf(t)' = <<"empty">>
         /\ pc'[t] \in Destroying => CallOf(t)' = <<"destroy">>
         /\ pc'[t] \in {"done", "put_advance"} => CallOf(t)' = Abstract!Done
BY DEF CallOf, Putting, Taking, Destroying, Abstract!Idle, Abstract!Done

(* A step is seen in the call and the result of its own thread only.       *)
LEMMA OwnChange ==
  ASSUME Listed, NEW t \in Threads, Step(t)
  PROVE  /\ CallsMade' = [CallsMade EXCEPT ![t] = CallOf(t)']
         /\ \A r : (IF t \in Takers' THEN 0 ELSE ret'[t]) = r => Results' = [Results EXCEPT ![t] = r]
<1>1. ASSUME NEW u \in Threads, u # t PROVE CallOf(u)' = CallOf(u)
  BY <1>1, OthersKeep DEF CallOf, Putting
<1>2. ASSUME NEW u \in Threads PROVE CallsMade'[u] = [CallsMade EXCEPT ![t] = CallOf(t)'][u]
  BY <1>1, <1>2 DEF CallsMade
<1>3. ASSUME NEW u \in Threads, u # t PROVE Results'[u] = Results[u]
  BY <1>3, OthersKeep DEF Results, Takers
<1>4. ASSUME NEW r, (IF t \in Takers' THEN 0 ELSE ret'[t]) = r
      PROVE  Results' = [Results EXCEPT ![t] = r]
  <2>1. ASSUME NEW u \in Threads PROVE Results'[u] = [Results EXCEPT ![t] = r][u]
    BY <1>3, <1>4, <2>1 DEF Results
  <2> QED BY <2>1 DEF Results
<1> QED BY <1>2, <1>4 DEF CallsMade

LEMMA Before ==
  ASSUME NEW t \in Threads
  PROVE  /\ CallsMade[t] = CallOf(t)
         /\ Results[t] = IF t \in Takers THEN 0 ELSE ret[t]
         /\ t \in Takers <=> pc[t] = "take_tail"
         /\ t \in Takers' <=> pc'[t] = "take_tail"
BY DEF CallsMade, Results, Takers

(* A call that begins.                                                     *)
LEMMA InvokeShows ==
  ASSUME Listed, CallInv', NEW t \in Threads, Step(t),
         Put(t) \/ Take(t) \/ Empty(t) \/ Destroy(t)
  PROVE  Abstract!Invoke(t)
<1>1. TypeOK
  BY DEF Listed, ListIs, Inv
<1>2. /\ pc[t] = "idle" /\ ret'[t] = 0
      /\ pc'[t] \in {"put_lock", "take_lock", "empty_check", "destroy_lock"}
  BY <1>1 DEF TypeOK, Put, Take, Empty, Destroy, Call
<1>3. Contents' = Contents
  BY <1>2, ContentsStay DEF Quiet, PutFirstTail, TakeTail, DestroyEnd
<1>4. CallsMade[t] = Abstract!Idle
  BY <1>2, CallNames, Before
<1>5. CallOf(t)' \in Abstract!Calls
  <2>1. CASE pc'[t] = "put_lock"
    <3>1. CallOf(t)' = <<"put", data'[newNode'[t]]>> /\ data'[newNode'[t]] \in Values
      BY <2>1, CallNamesAfter DEF CallInv, Putting
    <3> QED BY <3>1 DEF Abstract!Calls
  <2>2. CASE pc'[t] # "put_lock"
    <3>1. CallOf(t)' \in {<<"take">>, <<"empty">>, <<"destroy">>}
      BY <1>2, <2>2, CallNamesAfter DEF Taking, Destroying
    <3> QED BY <3>1 DEF Abstract!Calls
  <2> QED BY <2>1, <2>2
<1>6. CallsMade' = [CallsMade EXCEPT ![t] = CallOf(t)']
  BY OwnChange
<1>7. Results' = [Results EXCEPT ![t] = 0]
  BY <1>2, OwnChange, Before
<1> QED BY <1>3, <1>4, <1>5, <1>6, <1>7 DEF Abstract!Invoke, CallsMade, Results

(* The steps inside a call that nobody else can tell.                      *)
LEMMA HiddenShows ==
  ASSUME Listed, CallInv, NEW t \in Threads, Step(t),
         \/ PutLock(t) \/ PutFirst(t) \/ PutAdvance(t) \/ TakeLock(t) \/ TakeHead(t)
         \/ DestroyLock(t)
  PROVE  UNCHANGED Shown
<1>1. TypeOK
  BY DEF Listed, ListIs, Inv
<1>2. /\ data' = data /\ newNode' = newNode
      /\ \/ pc[t] \in Putting /\ pc'[t] \in Putting
         \/ pc[t] \in Taking /\ pc'[t] \in Taking
         \/ pc[t] \in Destroying /\ pc'[t] \in Destroying
         \/ pc[t] = "put_advance" /\ pc'[t] = "done"
  BY <1>1 DEF TypeOK, PutLock, PutFirst, PutAdvance, TakeLock, TakeHead, DestroyLock, Acquire,
     Putting, Taking, Destroying, heap
<1>3. Contents' = Contents
  <2>1. CASE PutFirst(t)
    BY <2>1, ContentsPutFirst
  <2>2. CASE TakeHead(t)
    BY <2>2, ContentsTakeHead
  <2>3. CASE PutLock(t) \/ PutAdvance(t) \/ TakeLock(t) \/ DestroyLock(t)
    <3>1. pc[t] \in {"put_lock", "put_advance", "take_lock", "destroy_lock"}
      BY <2>3 DEF PutLock, PutAdvance, TakeLock, DestroyLock, Acquire
    <3>2. ~PutFirstTail(t) /\ ~TakeTail(t) /\ ~DestroyEnd(t)
      BY <3>1 DEF PutFirstTail, TakeTail, DestroyEnd
    <3> QED BY <2>3, <3>2, ContentsStay DEF Quiet
  <2> QED BY <2>1, <2>2, <2>3
<1>4. CallOf(t)' = CallOf(t)
  BY <1>2, CallNames, CallNamesAfter
<1>5. CallsMade' = CallsMade
  BY <1>4, OwnChange DEF CallsMade
<1>6. (IF t \in Takers' THEN 0 ELSE ret'[t]) = Results[t]
  <2>1. CASE TakeHead(t)
    BY <2>1, ContentsTakeHead, Before DEF TakeHead, CallInv, Pending
  <2>2. CASE ~TakeHead(t)
    <3>1. ret' = ret /\ pc[t] # "take_tail" /\ pc'[t] # "take_tail"
      BY <1>1, <2>2 DEF TypeOK, PutLock, PutFirst, PutAdvance, TakeLock, DestroyLock, Acquire
    <3> QED BY <3>1, Before
  <2> QED BY <2>1, <2>2
<1>7. Results' = Results
  BY <1>6, OwnChange DEF Results
<1> QED BY <1>3, <1>5, <1>7 DEF Shown

(* A call that takes effect, with its result.                              *)
LEMMA FinishShows ==
  ASSUME Listed, NEW t \in Threads, Step(t),
         pc'[t] \in {"done", "put_advance"}, pc'[t] # "take_tail", NEW r, ret'[t] = r
  PROVE  Abstract!Finish(t, r)
<1>1. CallsMade' = [CallsMade EXCEPT ![t] = Abstract!Done]
  BY OwnChange, CallNamesAfter
<1>2. Results' = [Results EXCEPT ![t] = r]
  BY OwnChange, Before
<1> QED BY <1>1, <1>2 DEF Abstract!Finish, CallsMade, Results

LEMMA PutShows ==
  ASSUME Listed, CallInv, NEW t \in Threads, Step(t), PutFirstTail(t) \/ PutNext(t)
  PROVE  Abstract!Put(t)
<1>1. TypeOK
  BY DEF Listed, ListIs, Inv
<1>2. /\ pc[t] \in Putting /\ pc'[t] \in {"done", "put_advance"} /\ ret' = ret
      /\ ret[t] = 0 /\ data[newNode[t]] \in Values
  BY <1>1 DEF TypeOK, PutFirstTail, PutNext, CallInv, Putting, Pending
<1>3. CallsMade[t] = <<"put", data[newNode[t]]>>
  BY <1>2, CallNames, Before
<1>4. Abstract!Finish(t, 0)
  BY <1>2, FinishShows
<1>5. Contents' = Append(Contents, data[newNode[t]])
  BY ContentsPut
<1> QED BY <1>2, <1>3, <1>4, <1>5 DEF Abstract!Put, CallsMade

LEMMA TakeShows ==
  ASSUME Listed, NEW t \in Threads, Step(t), TakeEmpty(t) \/ TakeTail(t)
  PROVE  Abstract!Take(t)
<1>1. TypeOK
  BY DEF Listed, ListIs, Inv
<1>2. pc[t] \in Taking /\ pc'[t] = "done"
  BY <1>1 DEF TypeOK, TakeEmpty, TakeTail, Taking
<1>3. CallsMade[t] = <<"take">>
  BY <1>2, CallNames, Before
<1>4. CASE TakeEmpty(t)
  <2>1. tail = NULL /\ ret'[t] = -1
    BY <1>1, <1>4 DEF TypeOK, TakeEmpty
  <2>2. Contents = <<>> /\ Contents' = <<>>
    BY <1>4, <2>1, ContentsEmpty DEF TakeEmpty, Contents
  <2>3. Abstract!Finish(t, -1)
    BY <1>2, <2>1, FinishShows
  <2> QED BY <1>3, <2>2, <2>3 DEF Abstract!Take, CallsMade
<1>5. CASE TakeTail(t)
  <2>1. ret'[t] = ret[t]
    BY <1>5 DEF TakeTail
  <2>2. Contents # <<>> /\ Head(Contents) = ret[t] /\ Contents' = Tail(Contents)
    BY <1>5, ContentsTakeTail
  <2> PICK r : r = ret[t]
    OBVIOUS
  <2>3. Abstract!Finish(t, r)
    BY <1>2, <2>1, FinishShows
  <2>4. Abstract!Finish(t, Head(Contents))
    BY <2>2, <2>3 DEF Abstract!Finish
  <2> QED BY <1>3, <2>2, <2>4 DEF Abstract!Take, CallsMade
<1> QED BY <1>4, <1>5

LEMMA EmptyShows ==
  ASSUME Listed, NEW t \in Threads, Step(t), EmptyCheck(t)
  PROVE  Abstract!Empty(t)
<1>1. TypeOK
  BY DEF Listed, ListIs, Inv
<1>2. /\ pc[t] = "empty_check" /\ pc'[t] = "done"
      /\ ret'[t] = IF tail = NULL THEN 1 ELSE 0
  BY <1>1 DEF TypeOK, EmptyCheck
<1>3. CallsMade[t] = <<"empty">>
  BY <1>2, CallNames, Before
<1>4. Contents' = Contents
  BY <1>2, ContentsStay DEF Quiet, PutFirstTail, TakeTail, DestroyEnd
<1>5. CASE tail = NULL
  <2>1. Contents = <<>> /\ ret'[t] = 1
    BY <1>2, <1>5, ContentsEmpty
  <2>2. Abstract!Finish(t, 1)
    BY <1>2, <2>1, FinishShows
  <2>3. Abstract!Finish(t, IF Contents = <<>> THEN 1 ELSE 0)
    BY <2>1, <2>2 DEF Abstract!Finish
  <2> QED BY <1>3, <1>4, <2>3 DEF Abstract!Empty, CallsMade
<1>6. CASE tail # NULL /\ Contents # <<>>
  <2>1. ret'[t] = 0
    BY <1>2, <1>6
  <2>2. Abstract!Finish(t, 0)
    BY <1>2, <2>1, FinishShows
  <2>3. Abstract!Finish(t, IF Contents = <<>> THEN 1 ELSE 0)
    BY <1>6, <2>2 DEF Abstract!Finish
  <2> QED BY <1>3, <1>4, <2>3 DEF Abstract!Empty, CallsMade
<1>7. CASE tail # NULL /\ Contents = <<>>
  <2>1. Abstract!Finish(t, 0)
    <3>1. ret'[t] = 0
      BY <1>2, <1>7
    <3> QED BY <1>2, <3>1, FinishShows
  <2>2. PICK u \in Threads : pc[u] = "destroy_loop"
    BY <1>7, ContentsEmpty
  <2>3. CallsMade[u] = <<"destroy">>
    BY <2>2, CallNames, Before DEF Destroying
  <2> QED BY <1>3, <1>4, <2>1, <2>3 DEF Abstract!Empty, CallsMade
<1> QED BY <1>5, <1>6, <1>7

LEMMA DestroyShows ==
  ASSUME Listed, CallInv, NEW t \in Threads, Step(t), DestroyStep(t) \/ DestroyEnd(t)
  PROVE  Abstract!Destroy(t)
<1>1. TypeOK
  BY DEF Listed, ListIs, Inv
<1>2. pc[t] = "destroy_loop" /\ ret' = ret /\ ret[t] = 0
  BY DEF DestroyStep, DestroyEnd, CallInv, Pending, Destroying
<1>3. CallsMade[t] = <<"destroy">>
  BY <1>2, CallNames, Before DEF Destroying
<1>4. CASE DestroyStep(t)
  <2>1. Contents # <<>> /\ Contents' = Tail(Contents)
    BY <1>4, ContentsDestroy
  <2>2. pc' = pc
    BY <1>4 DEF DestroyStep
  <2>3. CallOf(t)' = CallOf(t)
    BY <1>2, <2>2, CallNames, CallNamesAfter DEF Destroying
  <2>4. CallsMade' = CallsMade
    BY <2>3, OwnChange DEF CallsMade
  <2>5. Results' = Results
    BY <1>2, <2>2 DEF Results, Takers
  <2> QED BY <1>3, <2>1, <2>4, <2>5 DEF Abstract!Destroy, CallsMade, Results
<1>5. CASE DestroyEnd(t)
  <2>1. Contents = <<>> /\ Contents' = <<>>
    BY <1>5, ContentsDestroyed
  <2>2. pc'[t] = "done"
    BY <1>1, <1>5 DEF TypeOK, DestroyEnd
  <2>3. Abstract!Finish(t, 0)
    BY <1>2, <2>2, FinishShows
  <2> QED BY <1>3, <2>1, <2>3 DEF Abstract!Destroy, CallsMade
<1> QED BY <1>4, <1>5

LEMMA ReturnShows ==
  ASSUME Listed, NEW t \in Threads, Step(t), Return(t)
  PROVE  Abstract!Return(t)
<1>1. TypeOK
  BY DEF Listed, ListIs, Inv
<1>2. pc[t] = "done" /\ pc'[t] = "idle" /\ ret' = ret
  BY <1>1 DEF TypeOK, Return
<1>3. CallsMade[t] = Abstract!Done /\ CallOf(t)' = Abstract!Idle
  BY <1>2, CallNames, CallNamesAfter, Before
<1>4. Contents' = Contents
  BY <1>2, ContentsStay DEF Quiet, PutFirstTail, TakeTail, DestroyEnd
<1>5. CallsMade' = [CallsMade EXCEPT ![t] = Abstract!Idle]
  BY <1>3, OwnChange
<1>6. Results' = Results
  <2>1. (IF t \in Takers' THEN 0 ELSE ret'[t]) = Results[t]
    BY <1>2, Before
  <2> QED BY <2>1, OwnChange DEF Results
<1> QED BY <1>3, <1>4, <1>5, <1>6 DEF Abstract!Return, CallsMade, Results

LEMMA StepShows ==
  ASSUME Listed, CallInv, CallInv', [Next]_vars PROVE [Abstract!Next]_Shown
<1>1. ASSUME NEW t \in Threads, Step(t) PROVE [Abstract!Next]_Shown
  <2>1. CASE Put(t) \/ Take(t) \/ Empty(t) \/ Destroy(t)
    BY <1>1, <2>1, InvokeShows DEF Abstract!Next
  <2>2. CASE \/ PutLock(t) \/ PutFirst(t) \/ PutAdvance(t) \/ TakeLock(t) \/ TakeHead(t)
             \/ DestroyLock(t)
    BY <1>1, <2>2, HiddenShows
  <2>3. CASE PutFirstTail(t) \/ PutNext(t)
    BY <1>1, <2>3, PutShows DEF Abstract!Next
  <2>4. CASE TakeEmpty(t) \/ TakeTail(t)
    BY <1>1, <2>4, TakeShows DEF Abstract!Next
  <2>5. CASE EmptyCheck(t)
    BY <1>1, <2>5, EmptyShows DEF Abstract!Next
  <2>6. CASE DestroyStep(t) \/ DestroyEnd(t)
    BY <1>1, <2>6, DestroyShows DEF Abstract!Next
  <2>7. CASE Return(t)
    BY <1>1, <2>7, ReturnShows DEF Abstract!Next
  <2> QED BY <1>1, <2>1, <2>2, <2>3, <2>4, <2>5, <2>6, <2>7 DEF Step
<1>2. CASE UNCHANGED vars
  BY <1>2 DEF vars, heap, Shown, Contents, CallsMade, CallOf, Results, Takers
<1> QED BY <1>1, <1>2 DEF Next, Joined

(* Every operation of queue.cc takes effect at one instant between its     *)
(* call and its return, on one sequence of values, first in first out.     *)
THEOREM QueueLinearizable == Spec => Linearizable
<1>1. Init => Abstract!Init
  <2> SUFFICES ASSUME Init PROVE Abstract!Init
    OBVIOUS
  <2>1. Contents = <<>>
    BY DEF Init, Contents
  <2>2. [t \in Threads |-> CallOf(t)] = [t \in Threads |-> Abstract!Idle]
    BY CallNames DEF Init
  <2>3. [t \in Threads |-> IF t \in Takers THEN 0 ELSE ret[t]] = [t \in Threads |-> 0]
    BY DEF Init
  <2> QED BY <2>1, <2>2, <2>3 DEF Abstract!Init
<1>2. Init => CallInv
  BY DEF Init, CallInv, Putting
<1>3. Listed /\ CallInv /\ [Next]_vars => CallInv'
  BY CallInvStep
<1>4. Listed /\ CallInv /\ CallInv' /\ [Next]_vars => [Abstract!Next]_Shown
  BY StepShows
<1>5. [Abstract!Next]_Shown => [Abstract!Next]_(Abstract!vars)
  BY DEF Shown, CallsMade, Results, Abstract!vars
<1> QED
  BY <1>1, <1>2, <1>3, <1>4, <1>5, QueueInvariant, PTL
  DEF Spec, Linearizable, Abstract!Spec
=============================================================================
