---------------------------- MODULE AbstractDict ----------------------------
(***************************************************************************)
(* What a shared dictionary promises its callers (dict.hh and the          *)
(* invariants at the top of dict-tests.cc): one mapping from keys to       *)
(* values, on which every call takes effect at one instant.  A key that is *)
(* not in the dictionary has the value -1, which dict_get returns for it.  *)
(***************************************************************************)
EXTENDS Integers

CONSTANTS Threads, Keys, Values

VARIABLES dict,   \* the value of each key
          call,   \* the call each thread is in, as a tuple naming the operation
          ret     \* the result of each thread's last dict_get or dict_contains

vars == <<dict, call, ret>>

Idle == <<"idle">>
Absent == -1
Calls == {<<"set", k, v>> : k \in Keys, v \in Values}
           \cup {<<"get", k>> : k \in Keys} \cup {<<"destroy">>}

Init == /\ dict = [k \in Keys |-> Absent]
        /\ call = [t \in Threads |-> Idle]
        /\ ret = [t \in Threads |-> 0]

Invoke(t) == /\ call[t] = Idle
             /\ \E c \in Calls : call' = [call EXCEPT ![t] = c]
             /\ UNCHANGED <<dict, ret>>

(* A call may take effect in the step that makes it, or later.             *)
Complete(t, c) == call[t] \in {Idle, c} /\ call' = [call EXCEPT ![t] = Idle]

Set(t, k, v) == /\ Complete(t, <<"set", k, v>>)
                /\ dict' = [dict EXCEPT ![k] = v]
                /\ UNCHANGED ret

Get(t, k) == /\ Complete(t, <<"get", k>>)
             /\ ret' = [ret EXCEPT ![t] = dict[k]]
             /\ UNCHANGED dict

Contains(t, k) == /\ Complete(t, Idle)
                  /\ ret' = [ret EXCEPT ![t] = IF dict[k] = Absent THEN 0 ELSE 1]
                  /\ UNCHANGED dict

Remove(t, k) == /\ Complete(t, Idle)
                /\ dict' = [dict EXCEPT ![k] = Absent]
                /\ UNCHANGED ret

(* Destroying drops keys in any number of steps, and in the end all.       *)
Destroy(t) ==
  /\ call[t] \in {Idle, <<"destroy">>}
  /\ \E dropped \in SUBSET Keys :
       /\ dict' = [k \in Keys |-> IF k \in dropped THEN Absent ELSE dict[k]]
       /\ \/ call' = [call EXCEPT ![t] = <<"destroy">>]
          \/ dropped = Keys /\ call' = [call EXCEPT ![t] = Idle]
  /\ UNCHANGED ret

Next == \E t \in Threads :
          \/ Invoke(t) \/ Destroy(t)
          \/ \E k \in Keys : \/ Get(t, k) \/ Contains(t, k) \/ Remove(t, k)
                             \/ \E v \in Values : Set(t, k, v)

Spec == Init /\ [][Next]_vars
=============================================================================
