----------------------------- MODULE SudokuHost -----------------------------
(***************************************************************************)
(* The host side of sudoku/sudoku.cu: main reads lines, each a board and   *)
(* its solution, hands them to the GPU in batches and counts.  A board is  *)
(* named by its line's number; what the kernel makes of it (SudokuKernel)  *)
(* and whether its solution fits is the line's kind.                       *)
(***************************************************************************)
EXTENDS Naturals, Sequences, FiniteSets

CONSTANTS BATCH_SIZE,  \* 128 in the code
          MaxInputLines,  \* bound: lines in the file
          GpuBoards    \* boards the memory of the GPU has room for

ASSUME HostAssumption == /\ BATCH_SIZE \in Nat \ {0} /\ MaxInputLines \in Nat
                         /\ GpuBoards \in Nat

(* "solved" is solved by propagation, "open" is not, "wrong" contradicts   *)
(* its solution; the others do not parse.  "cut" is a board that the file  *)
(* ends right behind: getline's buffer still holds the end of the line     *)
(* before, which is then read as the solution.                             *)
WellFormed == {"solved", "open", "wrong"}
Kinds == WellFormed \cup {"bad_board", "bad_solution", "cut"}

JUNK == 0                   \* a slot never written, or in part
Slots == 0..(BATCH_SIZE - 1)

VARIABLES host,                   \* where main is
          lines,                  \* the kind of each line read so far
          host_boards, solutions, \* the lines the slots were read from
          contents,               \* what solve_boards left in each slot of boards
          batch_count, board_count, solved_count, error_count,
          gpu_used,               \* boards in GPU memory: none is ever freed
          cuda_ok,                \* no call failed in the last solve_boards
          doubtful                \* boards checked in batches for which one failed

counters == <<batch_count, board_count, solved_count, error_count>>
gpu_vars == <<contents, gpu_used, cuda_ok, doubtful>>
host_vars == <<host, lines, host_boards, solutions, counters, gpu_vars>>

(* A board as it was read, as the kernel leaves it, or any bytes at all.   *)
Contents == {"given", "propagated", "unknown"}

HostInit == /\ host = "read" /\ lines = <<>>
            /\ host_boards = [s \in Slots |-> JUNK] /\ solutions = [s \in Slots |-> JUNK]
            /\ batch_count = 0 /\ board_count = 0 /\ solved_count = 0 /\ error_count = 0
            /\ contents = [s \in Slots |-> "given"]
            /\ gpu_used = 0 /\ cuda_ok = TRUE /\ doubtful = 0

AtEnd == lines # <<>> /\ lines[Len(lines)] = "cut"

(* read_board writes the cells it can parse, up to the first it cannot.  A *)
(* board that did not parse may have left a solution behind, its own or    *)
(* one from before; a solution that did not parse leaves none.             *)
Leftovers ==
  LET before == Len(lines)
      complete == {n \in DOMAIN lines : lines[n] # "bad_solution"}
  IN  IF before \notin complete THEN {JUNK}
      ELSE IF lines[before] = "bad_board" THEN complete \cup {JUNK} ELSE {before}

SolutionRead(kind) == CASE kind \in WellFormed -> {Len(lines) + 1}
                        [] kind = "cut" -> Leftovers
                        [] OTHER -> {JUNK}

ReadLine ==
  /\ host = "read" /\ Len(lines) < MaxInputLines /\ ~AtEnd
  /\ \E kind \in Kinds : \E solution \in SolutionRead(kind) :
       LET n == Len(lines) + 1
           taken == kind # "bad_board" /\ solution # JUNK
       IN  /\ lines' = Append(lines, kind)
           /\ host_boards' = [host_boards EXCEPT ![batch_count] =
                               IF kind = "bad_board" THEN JUNK ELSE n]
           /\ solutions' = IF kind = "bad_board" THEN solutions
                           ELSE [solutions EXCEPT ![batch_count] = solution]
           /\ batch_count' = IF taken THEN batch_count + 1 ELSE batch_count
           /\ board_count' = IF taken THEN board_count + 1 ELSE board_count
           /\ host' = IF batch_count' = BATCH_SIZE THEN "solve" ELSE "read"
  /\ UNCHANGED <<solved_count, error_count, gpu_vars>>

EndOfFileForgets ==
  /\ host = "read" /\ host' = "print"
  /\ UNCHANGED <<lines, host_boards, solutions, counters, gpu_vars>>
EndOfFile == /\ host = "read"
             /\ host' = IF batch_count > 0 THEN "solve_rest" ELSE "print"
             /\ UNCHANGED <<lines, host_boards, solutions, counters, gpu_vars>>

(* solve_boards: only a failed allocation ends the program (a failure      *)
(* before may be why).  After any other failure it goes on.  Without the   *)
(* boards the kernel runs on whatever the memory held; a kernel that fails *)
(* may not have started, or end in the middle; what it left is copied back *)
(* all the same, and a copy that fails may have written a part.            *)
OnGpu(copied, ran) == IF ~copied THEN {"unknown"}
                      ELSE IF ran THEN {"propagated"} ELSE Contents
CopiedBack(result, complete) == IF complete THEN result ELSE result \cup {"given", "unknown"}

Solve(to) ==
  /\ \/ /\ gpu_used + batch_count > GpuBoards \/ ~cuda_ok
        /\ host' = "exit_2" /\ UNCHANGED gpu_vars
     \/ /\ gpu_used + batch_count <= GpuBoards
        /\ host' = to /\ gpu_used' = gpu_used + batch_count
        /\ \E copied, ran, complete \in BOOLEAN :
             /\ \E result \in [0..(batch_count - 1) -> CopiedBack(OnGpu(copied, ran), complete)] :
                  contents' = [s \in Slots |-> IF s < batch_count THEN result[s] ELSE contents[s]]
             /\ cuda_ok' = (copied /\ ran /\ complete)
        /\ UNCHANGED doubtful
  /\ UNCHANGED <<lines, host_boards, solutions, counters>>
SolveBatch == host = "solve" /\ Solve("check")
SolveRest == host = "solve_rest" /\ Solve("check_rest")

(* check_solutions.  A board that was only read may yet contradict its     *)
(* solution, or not, or be equal to one that breaks the rules.  Nothing is *)
(* known of a board that is compared with another line's solution.         *)
Verdicts == {"match", "error", "open"}
Outcomes(s) ==
  LET kind == lines[host_boards[s]]
  IN  CASE kind = "wrong" -> IF contents[s] = "propagated" THEN {"error"} ELSE Verdicts
        [] contents[s] = "unknown" -> Verdicts
        [] kind = "solved" -> IF contents[s] = "propagated" THEN {"match"} ELSE {"match", "open"}
        [] OTHER -> {"open"}

CheckSolutions(to) ==
  \E outcome \in [0..(batch_count - 1) -> Verdicts] :
    /\ \A s \in DOMAIN outcome : solutions[s] = host_boards[s] => outcome[s] \in Outcomes(s)
    /\ solved_count' = solved_count + Cardinality({s \in DOMAIN outcome : outcome[s] = "match"})
    /\ error_count' = error_count + Cardinality({s \in DOMAIN outcome : outcome[s] = "error"})
    /\ doubtful' = IF cuda_ok THEN doubtful ELSE doubtful + batch_count
    /\ contents' = [s \in Slots |-> "given"] /\ host' = to
    /\ UNCHANGED <<lines, host_boards, solutions, board_count, gpu_used, cuda_ok>>
CheckBatch == host = "check" /\ CheckSolutions("read") /\ batch_count' = 0
CheckRest == host = "check_rest" /\ CheckSolutions("print") /\ UNCHANGED batch_count

PrintStats == /\ host = "print" /\ host' = "exit_0"
              /\ UNCHANGED <<lines, host_boards, solutions, counters, gpu_vars>>

HostNext == \/ ReadLine \/ EndOfFile \/ SolveBatch \/ SolveRest
            \/ CheckBatch \/ CheckRest \/ PrintStats
            \/ host \in {"exit_0", "exit_2"} /\ UNCHANGED host_vars
HostSpec == HostInit /\ [][HostNext]_host_vars
-----------------------------------------------------------------------------
HostTypeOK ==
  /\ host \in {"read", "solve", "solve_rest", "check", "check_rest", "print", "exit_0", "exit_2"}
  /\ lines \in Seq(Kinds)
  /\ host_boards \in [Slots -> 0..MaxInputLines] /\ solutions \in [Slots -> 0..MaxInputLines]
  /\ contents \in [Slots -> Contents] /\ batch_count \in 0..BATCH_SIZE
  /\ board_count \in 0..MaxInputLines /\ doubtful \in Nat

(* What is printed agrees with the file, however lines that do not parse   *)
(* fall into batches: each line with a board and a solution is counted     *)
(* once, solved if propagation solves it, an error if it contradicts its   *)
(* solution.  Failures of the GPU that main ignores put the two counts out *)
(* by no more boards than the batches hold in which a call failed.  A last *)
(* line that is cut off is excepted.                                       *)
HowMany(kinds) == Cardinality({n \in DOMAIN lines : lines[n] \in kinds})
Near(count, exact) == count <= exact + doubtful /\ exact <= count + doubtful

CountsRight == host \in {"print", "exit_0"} /\ ~AtEnd =>
  /\ board_count = HowMany(WellFormed)
  /\ Near(error_count, HowMany({"wrong"}))
  /\ Near(solved_count, HowMany({"solved"}))
=============================================================================
