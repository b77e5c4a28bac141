---------------------------- MODULE AbstractChunks --------------------------
(***************************************************************************)
(* What virtual-memory/lazycopy.h promises: chunks of memory that are      *)
(* allocated, copied and written, where a write to one chunk changes no    *)
(* other.  How a copy is made does not show.                               *)
(***************************************************************************)
EXTENDS Integers

CONSTANTS Chunks, Offsets, Values, NONE

VARIABLE contents

Zero == [o \in Offsets |-> 0]

Init == contents = [c \in Chunks |-> NONE]

Alloc(c) == /\ contents[c] = NONE
            /\ contents' = [contents EXCEPT ![c] = Zero]

Copy(c, d) == /\ contents[c] # NONE /\ contents[d] = NONE
              /\ contents' = [contents EXCEPT ![d] = contents[c]]

Write(c, o, v) == /\ contents[c] # NONE
                  /\ contents' = [contents EXCEPT ![c] = [contents[c] EXCEPT ![o] = v]]

Next == \E c \in Chunks :
          \/ Alloc(c)
          \/ \E d \in Chunks : Copy(c, d)
          \/ \E o \in Offsets, v \in Values : Write(c, o, v)

Spec == Init /\ [][Next]_contents
=============================================================================
