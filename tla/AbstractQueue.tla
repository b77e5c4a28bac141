--------------------------- MODULE AbstractQueue ----------------------------
(***************************************************************************)
(* What a shared queue promises its callers (queue.hh and the invariants   *)
(* at the top of queue-tests.cc): every call takes effect at one instant   *)
(* between its invocation and its return, on one FIFO sequence of values.  *)
(***************************************************************************)
EXTENDS Integers, Sequences

CONSTANTS Threads, Values

VARIABLES queue,   \* the values, oldest first
          call,    \* what each thread has called: a tuple naming the operation
          ret      \* the result of each thread's latest call, 0 until it is known

vars == <<queue, call, ret>>

Idle == <<"idle">>
Done == <<"done">>
Calls == {<<"put", v>> : v \in Values} \cup {<<"take">>, <<"empty">>, <<"destroy">>}

Init == /\ queue = <<>>
        /\ call = [t \in Threads |-> Idle]
        /\ ret = [t \in Threads |-> 0]

Finish(t, result) == /\ call' = [call EXCEPT ![t] = Done]
                     /\ ret' = [ret EXCEPT ![t] = result]

Invoke(t) == /\ call[t] = Idle
             /\ \E c \in Calls : call' = [call EXCEPT ![t] = c]
             /\ ret' = [ret EXCEPT ![t] = 0]
             /\ UNCHANGED queue

Put(t) == \E v \in Values : /\ call[t] = <<"put", v>>
                            /\ queue' = Append(queue, v)
                            /\ Finish(t, 0)

Take(t) == /\ call[t] = <<"take">>
           /\ \/ queue = <<>> /\ Finish(t, -1) /\ UNCHANGED queue
              \/ queue # <<>> /\ Finish(t, Head(queue)) /\ queue' = Tail(queue)

(* While a thread is destroying the queue, an empty one may not look so.   *)
Empty(t) == /\ call[t] = <<"empty">>
            /\ \/ Finish(t, IF queue = <<>> THEN 1 ELSE 0)
               \/ (\E u \in Threads : call[u] = <<"destroy">>) /\ Finish(t, 0)
            /\ UNCHANGED queue

(* Destroying drops the values one by one and is over when none is left.   *)
Destroy(t) == /\ call[t] = <<"destroy">>
              /\ \/ queue # <<>> /\ queue' = Tail(queue) /\ UNCHANGED <<call, ret>>
                 \/ queue = <<>> /\ Finish(t, 0) /\ UNCHANGED queue

Return(t) == /\ call[t] = Done
             /\ call' = [call EXCEPT ![t] = Idle]
             /\ UNCHANGED <<queue, ret>>

Next == \E t \in Threads : \/ Invoke(t) \/ Put(t) \/ Take(t)
                           \/ Empty(t) \/ Destroy(t) \/ Return(t)

Spec == Init /\ [][Next]_vars
=============================================================================
