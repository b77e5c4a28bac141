------------------------------ MODULE SeqQueue ------------------------------
(***************************************************************************)
(* queue/queue.c: a queue in one thread, driven by the commands that main  *)
(* reads.  Taking the last node frees it and leaves tail as it is: only    *)
(* head tells whether the queue is empty.                                  *)
(***************************************************************************)
EXTENDS LinkedList

CONSTANT Numbers   \* what is put

VARIABLES head, tail, value, next, allocated,
          printed,    \* the answer to the latest command
          queue_main  \* "reading", "ended", or "fault" after a use of freed memory

queue_vars == <<head, tail, value, next, allocated, printed, queue_main>>

QueueNodes == Chain(head, next)

QueueInit == /\ head = NULL /\ tail = NULL  \* queue_init
             /\ value = [n \in Nodes |-> 0] /\ next = [n \in Nodes |-> NULL]
             /\ allocated = {} /\ printed = "nothing" /\ queue_main = "reading"

EmptyByTail == tail = NULL
Empty == head = NULL

(* queue_put: the node's predecessor is the tail, if there is a head.      *)
Put(n, v) ==
  /\ n \notin allocated /\ allocated' = allocated \cup {n}
  /\ value' = [value EXCEPT ![n] = v]
  /\ tail' = n
  /\ IF Empty
     THEN head' = n /\ next' = [next EXCEPT ![n] = NULL] /\ UNCHANGED queue_main
     ELSE /\ next' = [m \in Nodes |-> IF m = n THEN NULL ELSE IF m = tail THEN n ELSE next[m]]
          /\ queue_main' = IF tail \in allocated THEN queue_main ELSE "fault"
          /\ UNCHANGED head
  /\ printed' = "nothing"

Take == IF Empty
        THEN printed' = "empty" /\ UNCHANGED <<head, tail, value, next, allocated, queue_main>>
        ELSE /\ printed' = value[head]
             /\ head' = next[head] /\ allocated' = allocated \ {head}
             /\ UNCHANGED <<tail, value, next, queue_main>>

Command == /\ queue_main = "reading"
           /\ \/ \E n \in Nodes, v \in Numbers : Put(n, v)
              \/ Take
              \/ /\ printed' = "unrecognized"
                 /\ UNCHANGED <<head, tail, value, next, allocated, queue_main>>

(* At the end of the input queue_destroy frees the nodes one by one.       *)
Destroy == /\ queue_main = "reading" /\ queue_main' = "ended"
           /\ allocated' = allocated \ Reachable(head, next)
           /\ head' = NULL /\ tail' = NULL
           /\ UNCHANGED <<value, next, printed>>

QueueNext == Command \/ Destroy \/ (queue_main # "reading" /\ UNCHANGED queue_vars)
QueueSpec == QueueInit /\ [][QueueNext]_queue_vars
-----------------------------------------------------------------------------
QueueTypeOK ==
  /\ head \in Nodes \cup {NULL} /\ tail \in Nodes \cup {NULL}
  /\ next \in [Nodes -> Nodes \cup {NULL}] /\ allocated \subseteq Nodes
  /\ queue_main \in {"reading", "ended", "fault"}

Promise == INSTANCE AbstractFifo WITH
  Items <- Numbers,
  items <- [k \in DOMAIN QueueNodes |-> value[QueueNodes[k]]],
  reply <- printed,
  memory <- Cardinality(allocated),
  open <- (queue_main = "reading")

(* Whatever commands come in whatever order, the program answers like a    *)
(* FIFO sequence, uses no freed node although tail may point to one, and   *)
(* frees every node in the end.                                            *)
IsFifo == Promise!Spec
=============================================================================
