----------------------------- MODULE SudokuKernel ---------------------------
(***************************************************************************)
(* The kernel of sudoku/sudoku.cu for one board: a GPU thread per cell.    *)
(* In a round each thread reads the cells of its region, row and column    *)
(* one after the other, while their threads change them, and strikes the   *)
(* digits it finds settled there off its own cell.  A barrier counts the   *)
(* threads that changed something; the last round is one without changes.  *)
(***************************************************************************)
EXTENDS Integers, FiniteSets

CONSTANTS Window,  \* the cells whose threads are modelled, as <<y, x>>; a
                   \* window smaller than the board leaves the other cells blank
          Digits,  \* bound: the digits in use
          MaxGiven \* bound: cells of the window that are not blank

BOARD_DIM == 9
GROUP_DIM == 3
Board == (0..(BOARD_DIM - 1)) \X (0..(BOARD_DIM - 1))

ASSUME KernelAssumption == /\ Window \subseteq Board /\ Digits \subseteq 1..BOARD_DIM
                           /\ MaxGiven \in Nat

VARIABLES boards,   \* the board in global memory
          cells,    \* the board in shared memory: the digits each cell may hold
          previous, changed,  \* each thread's local variables
          at,       \* each thread: how many of its reads it is past
          pc,       \* each thread: "load", "vote", "pull", "store", "done"
          given     \* the board the kernel was started on (never changes)

vars == <<boards, cells, previous, changed, at, pc, given>>

(* What read_board makes of a digit or a 0.                                *)
digit_to_cell(d) == IF d = 0 THEN Digits ELSE {d}

(* The settled digit, 0 if there are several; of an empty cell, whose      *)
(* first bit is at -1, the kernel makes a digit that it strikes nowhere.   *)
LowestDigit(cell) == IF cell = {} THEN 0 ELSE CHOOSE d \in cell : \A e \in cell : d <= e
cell_to_digit(cell) == IF Cardinality(cell) = 1 THEN CHOOSE d \in cell : TRUE ELSE 0

(* The reads of the thread of cell c in their order: read k, counted from  *)
(* 0, is in the loops over the region, over its y and over its x.          *)
Reads == GROUP_DIM * GROUP_DIM + 2 * BOARD_DIM

Start(i) == (i \div GROUP_DIM) * GROUP_DIM
InRegion(k) == k < GROUP_DIM * GROUP_DIM
InLine(k) == k < GROUP_DIM * GROUP_DIM + BOARD_DIM

Source(c, k) ==
  LET i == k - GROUP_DIM * GROUP_DIM
      r == Start(c[1]) + (k \div GROUP_DIM)
      q == Start(c[2]) + (k % GROUP_DIM)
  IN  IF InRegion(k) THEN <<r, q>>
      ELSE IF InLine(k) THEN <<c[1], i>> ELSE <<i - BOARD_DIM, c[2]>>

PullsItselfToo(c, k) ==
  LET s == Source(c, k)
  IN  /\ s \in Window
      /\ InRegion(k) => s[1] # c[1] /\ s[2] # c[2]
Pulls(c, k) ==
  LET s == Source(c, k)
  IN  /\ s \in Window
      /\ IF InRegion(k) THEN s[1] # c[1] /\ s[2] # c[2] ELSE s # c

After == [c \in Window |-> [k \in 0..Reads |->
            CHOOSE j \in k..Reads : /\ j = Reads \/ Pulls(c, j)
                                   /\ \A i \in k..(j - 1) : ~Pulls(c, i)]]

Init == /\ \E puzzle \in [Window -> Digits \cup {0}] :
             /\ Cardinality({c \in Window : puzzle[c] # 0}) <= MaxGiven
             /\ given = [c \in Window |-> digit_to_cell(puzzle[c])]
        /\ boards = given
        /\ cells = [c \in Window |-> {}]
        /\ previous = [c \in Window |-> {}]
        /\ changed = [c \in Window |-> 1]
        /\ at = [c \in Window |-> 0]
        /\ pc = [c \in Window |-> "load"]

Goto(c, from, to) == pc[c] = from /\ pc' = [pc EXCEPT ![c] = to]

Load(c) == /\ Goto(c, "load", "vote")
           /\ cells' = [cells EXCEPT ![c] = boards[c]]
           /\ UNCHANGED <<boards, previous, changed, at, given>>

(* __syncthreads_count: all threads go on together, into a round if one of *)
(* them changed its cell in the last one.                                  *)
Vote == /\ \A c \in Window : pc[c] = "vote"
        /\ IF \E c \in Window : changed[c] # 0
           THEN /\ pc' = [c \in Window |-> "pull"]
                /\ changed' = [c \in Window |-> 1]
                /\ previous' = cells
                /\ at' = [c \in Window |-> After[c][0]]
           ELSE /\ pc' = [c \in Window |-> "store"]
                /\ UNCHANGED <<changed, previous, at>>
        /\ UNCHANGED <<boards, cells, given>>

(* Only the thread of c writes c, so reading another cell and then writing *)
(* its own is one step.  Nothing orders the read with the other thread's   *)
(* writes in this round: it may see none of them yet.                      *)
Pull(c) == /\ pc[c] = "pull"
           /\ at[c] \in 0..(Reads - 1) /\ Pulls(c, at[c])
           /\ \E seen \in {cells[Source(c, at[c])], previous[Source(c, at[c])]} :
                cells' = [cells EXCEPT ![c] = @ \ {cell_to_digit(seen)}]
           /\ at' = [at EXCEPT ![c] = After[c][@ + 1]]
           /\ UNCHANGED <<boards, previous, changed, pc, given>>

ArriveOnlyOnce(c) == /\ at[c] = Reads
                     /\ Goto(c, "pull", "vote")
                     /\ changed' = [changed EXCEPT ![c] = 0]
                     /\ UNCHANGED <<boards, cells, previous, at, given>>
ArriveChanged(c) == /\ at[c] = Reads
                    /\ Goto(c, "pull", "vote")
                    /\ UNCHANGED <<changed, boards, cells, previous, at, given>>
Arrive(c) == /\ at[c] = Reads
             /\ Goto(c, "pull", "vote")
             /\ changed' = [changed EXCEPT ![c] = IF previous[c] = cells[c] THEN 0 ELSE @]
             /\ UNCHANGED <<boards, cells, previous, at, given>>

Store(c) == /\ Goto(c, "store", "done")
            /\ boards' = [boards EXCEPT ![c] = cells[c]]
            /\ UNCHANGED <<cells, previous, changed, at, given>>

Finished == \A c \in Window : pc[c] = "done"

Step(c) == Load(c) \/ Pull(c) \/ Arrive(c) \/ Store(c)

Next == (\E c \in Window : Step(c)) \/ Vote \/ (Finished /\ UNCHANGED vars)

Spec == Init /\ [][Next]_vars
FairSpec == Spec /\ WF_vars(Vote) /\ \A c \in Window : WF_vars(Step(c))
-----------------------------------------------------------------------------
Control == {"load", "vote", "pull", "store", "done"}

TypeOK == /\ boards \in [Window -> SUBSET Digits] /\ cells \in [Window -> SUBSET Digits]
          /\ previous \in [Window -> SUBSET Digits] /\ given \in [Window -> SUBSET Digits]
          /\ changed \in [Window -> {0, 1}] /\ at \in [Window -> 0..Reads]
          /\ pc \in [Window -> Control]

(* The rules of Sudoku: two cells that may not hold one digit.             *)
Related(c, d) == /\ c # d
                 /\ \/ c[1] = d[1] \/ c[2] = d[2]
                    \/ /\ c[1] \div GROUP_DIM = d[1] \div GROUP_DIM
                       /\ c[2] \div GROUP_DIM = d[2] \div GROUP_DIM

Grids == {s \in [Window -> Digits] : \A c, d \in Window : Related(c, d) => s[c] # s[d]}

Solutions(board) == {s \in Grids : \A c \in Window : s[c] \in board[c]}

(* No thread ever strikes the digit that its cell has in a solution of the *)
(* board, so check_solutions counts no error.                              *)
Keeps(b) == \A c \in Window : /\ b[c] \subseteq boards[c]
                              /\ pc[c] # "load" => b[c] \subseteq cells[c]

SolutionsKept == \A s \in Solutions(given) : Keeps([c \in Window |-> {s[c]}])

(* When the kernel stops nothing is left to strike, although each thread   *)
(* read the other cells while they changed.                                *)
NothingLeft == Finished => \A c, d \in Window :
                 Related(c, d) => cell_to_digit(boards[d]) \notin boards[c]

(* The result does not depend on the schedule: on a board with a solution  *)
(* it is the greatest board, below the given one, in which no settled digit *)
(* can be struck anywhere.                                                 *)
Closed == {b \in [Window -> (SUBSET Digits) \ {{}}] :
             \A c, d \in Window : Related(c, d) => cell_to_digit(b[d]) \notin b[c]}

Below(b, board) == \A c \in Window : b[c] \subseteq board[c]

ResultIsUnique == Finished =>
                    /\ Solutions(given) # {} => boards \in Closed
                    /\ \A b \in Closed : Below(b, given) => Below(b, boards)

(* After each round the threads repeat their loop only if it struck a digit*)
(* and brought none back, so that the rounds are bounded by the digits.    *)
Strikes == Vote /\ (\E c \in Window : at[c] # 0 /\ changed[c] # 0) =>
             cells # previous /\ Below(cells, previous)
RoundsStrike == [][Strikes]_vars

(* The kernel ends on every board, one without a solution included, and    *)
(* each of its rounds but the last gets it closer to the end.              *)
Terminates == RoundsStrike /\ <>Finished
=============================================================================
