---------------------------- MODULE AbstractFifo ----------------------------
(***************************************************************************)
(* What queue/queue.c promises: a FIFO sequence that takes memory for the  *)
(* values it holds and no other, and no memory once it is destroyed.       *)
(***************************************************************************)
EXTENDS Naturals, Sequences

CONSTANT Items

VARIABLES items,   \* oldest first
          reply,   \* what the latest command made the program print
          memory,  \* nodes allocated
          open     \* not destroyed yet

fifo == <<items, reply, memory, open>>

Init == items = <<>> /\ reply = "nothing" /\ memory = 0 /\ open = TRUE

Put == /\ open
       /\ \E v \in Items : items' = Append(items, v)
       /\ memory' = memory + 1 /\ reply' = "nothing" /\ UNCHANGED open
Take == /\ open /\ items # <<>>
        /\ reply' = Head(items) /\ items' = Tail(items)
        /\ memory' = memory - 1 /\ UNCHANGED open
TakeNothing == open /\ items = <<>> /\ reply' = "empty" /\ UNCHANGED <<items, memory, open>>
Unrecognized == open /\ reply' = "unrecognized" /\ UNCHANGED <<items, memory, open>>
Destroy == open /\ items' = <<>> /\ memory' = 0 /\ open' = FALSE /\ UNCHANGED reply

Next == Put \/ Take \/ TakeNothing \/ Unrecognized \/ Destroy
Spec == Init /\ [][Next]_fifo
=============================================================================
