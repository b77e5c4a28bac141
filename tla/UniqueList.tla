----------------------------- MODULE UniqueList -----------------------------
(***************************************************************************)
(* uniquelist/uniquelist.c and its main: numbers are inserted at the end   *)
(* of a list unless it holds them.  The first node is a variable of main   *)
(* and its last field points to the end; inserting the first number is     *)
(* what sets its other fields.                                             *)
(***************************************************************************)
EXTENDS Naturals, Sequences, FiniteSets

CONSTANTS Inputs,     \* the numbers on stdin
          MaxInputs,  \* bound: how many there are
          GARBAGE     \* a field that was never set

ASSUME InputsAssumption == MaxInputs \in Nat /\ GARBAGE \notin Inputs \cup (0..(MaxInputs + 1))

S == 0                  \* the node of main, called s by the functions
NIL == MaxInputs + 1    \* the null pointer
Cells == 0..MaxInputs   \* cell k is what the k-th insert gets from malloc

VARIABLES val, nxt, last,   \* the fields of each node
          input, shown_list, \* the numbers read so far, and what was printed
          freed_cells,
          list_main         \* "reading", "ended" or "fault"

list_vars == <<val, nxt, last, input, shown_list, freed_cells, list_main>>

(* uniquelist_init sets last only.                                         *)
ListInit == /\ val = [c \in Cells |-> GARBAGE] /\ nxt = [c \in Cells |-> GARBAGE]
            /\ last = [c \in Cells |-> IF c = S THEN NIL ELSE GARBAGE]
            /\ input = <<>> /\ shown_list = <<>> /\ freed_cells = {} /\ list_main = "reading"

Heap == INSTANCE LinkedList WITH Nodes <- Cells, NULL <- NIL

(* The nodes that a walk along next meets, from s on.                      *)
Walk(next) == Heap!Chain(S, next)

(* uniquelist_insert: the first number goes into s itself and is then      *)
(* found; a number that is found leaves its new node unused.               *)
InsertAt(temp, n, end) ==
  LET first == last[S] = NIL
      val_s == IF first THEN [val EXCEPT ![S] = n] ELSE val
      nxt_s == IF first THEN [nxt EXCEPT ![S] = NIL] ELSE nxt
      last_s == IF first THEN [last EXCEPT ![S] = S] ELSE last
      found == \E k \in DOMAIN Walk(nxt_s) : val_s[Walk(nxt_s)[k]] = n
  IN  IF found THEN val' = val_s /\ nxt' = nxt_s /\ last' = last_s
      ELSE /\ val' = [val_s EXCEPT ![temp] = n]
           /\ nxt' = [[nxt_s EXCEPT ![temp] = NIL] EXCEPT ![last_s[S]] = temp]
           /\ last' = [[last_s EXCEPT ![temp] = NIL] EXCEPT ![S] = end]

InsertKeepsEnd(temp, n) == InsertAt(temp, n, IF last[S] = NIL THEN S ELSE last[S])
Insert(temp, n) == InsertAt(temp, n, temp)

ReadNumber == /\ list_main = "reading" /\ Len(input) < MaxInputs
              /\ \E n \in Inputs : input' = Append(input, n) /\ Insert(Len(input) + 1, n)
              /\ UNCHANGED <<shown_list, freed_cells, list_main>>

(* uniquelist_print_all and uniquelist_destroy follow the next field of s, *)
(* whatever it holds.                                                      *)
Finish == /\ list_main = "reading"
          /\ IF nxt[S] = GARBAGE
             THEN list_main' \in {"ended", "fault"} /\ UNCHANGED <<shown_list, freed_cells>>
             ELSE /\ list_main' = "ended"
                  /\ shown_list' = [k \in DOMAIN Walk(nxt) |-> val[Walk(nxt)[k]]]
                  /\ freed_cells' = Heap!Reachable(S, nxt) \ {S}
          /\ UNCHANGED <<val, nxt, last, input>>

ListNext == ReadNumber \/ Finish \/ (list_main # "reading" /\ UNCHANGED list_vars)
ListSpec == ListInit /\ [][ListNext]_list_vars
-----------------------------------------------------------------------------
ListTypeOK == /\ input \in Seq(Inputs) /\ list_main \in {"reading", "ended", "fault"}
              /\ val \in [Cells -> Inputs \cup {GARBAGE}]
              /\ nxt \in [Cells -> Cells \cup {NIL, GARBAGE}]
              /\ last \in [Cells -> Cells \cup {NIL, GARBAGE}]

FirstTimes == {k \in DOMAIN input : \A j \in 1..(k - 1) : input[j] # input[k]}

(* After any input that is not empty, each number is printed once, in the  *)
(* order of first appearance, and exactly the nodes made for a number that *)
(* was new, except the first, are freed.                                   *)
EachNumberOnce ==
  list_main # "reading" /\ input # <<>> =>
    /\ list_main = "ended"
    /\ \E times \in [1..Cardinality(FirstTimes) -> FirstTimes] :
         /\ \A j, k \in DOMAIN times : j < k => times[j] < times[k]
         /\ shown_list = [k \in DOMAIN times |-> input[times[k]]]
    /\ freed_cells = FirstTimes \ {1}
=============================================================================
