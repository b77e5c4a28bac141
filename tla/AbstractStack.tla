--------------------------- MODULE AbstractStack ----------------------------
(***************************************************************************)
(* What a shared stack promises its callers (stack.hh and the invariants   *)
(* at the top of stack-tests.cc): every call takes effect at one instant   *)
(* between its invocation and its return, on one sequence of values.       *)
(***************************************************************************)
EXTENDS Integers, Sequences

CONSTANTS Threads, Values

VARIABLES stack,   \* the values, top first
          call,    \* what each thread has called: a tuple naming the operation
          ret      \* the result of each thread's last value-returning call

vars == <<stack, call, ret>>

Idle == <<"idle">>
Done == <<"done">>
Calls == {<<"push", v>> : v \in Values} \cup {<<"pop">>, <<"empty">>, <<"destroy">>}

Init == /\ stack = <<>>
        /\ call = [t \in Threads |-> Idle]
        /\ ret \in [Threads -> {0}]

Finish(t) == call' = [call EXCEPT ![t] = Done]

Invoke(t) == /\ call[t] = Idle
             /\ \E c \in Calls : call' = [call EXCEPT ![t] = c]
             /\ UNCHANGED <<stack, ret>>

Push(t) == \E v \in Values :
             /\ call[t] = <<"push", v>>
             /\ stack' = <<v>> \o stack
             /\ Finish(t)
             /\ UNCHANGED ret

PopEmpty(t) == /\ call[t] = <<"pop">>
               /\ stack = <<>>
               /\ ret' = [ret EXCEPT ![t] = -1]
               /\ Finish(t)
               /\ UNCHANGED stack

Pop(t) == /\ call[t] = <<"pop">>
          /\ stack # <<>>
          /\ ret' = [ret EXCEPT ![t] = Head(stack)]
          /\ stack' = Tail(stack)
          /\ Finish(t)

Empty(t) == /\ call[t] = <<"empty">>
            /\ ret' = [ret EXCEPT ![t] = IF stack = <<>> THEN 1 ELSE 0]
            /\ Finish(t)
            /\ UNCHANGED stack

(* Destroying drops the values one by one and is over when none is left.   *)
Destroy(t) == /\ call[t] = <<"destroy">>
              /\ \/ stack # <<>> /\ stack' = Tail(stack) /\ UNCHANGED call
                 \/ stack = <<>> /\ Finish(t) /\ UNCHANGED stack
              /\ UNCHANGED ret

Return(t) == /\ call[t] = Done
             /\ call' = [call EXCEPT ![t] = Idle]
             /\ UNCHANGED <<stack, ret>>

Next == \E t \in Threads : \/ Invoke(t) \/ Push(t) \/ Pop(t) \/ PopEmpty(t)
                           \/ Empty(t) \/ Destroy(t) \/ Return(t)

Spec == Init /\ [][Next]_vars
=============================================================================
