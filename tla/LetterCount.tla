----------------------------- MODULE LetterCount ----------------------------
(***************************************************************************)
(* lettercount/lettercount.c: num_threads threads count the letters of a   *)
(* file.  Each counts its part of the file Batch bytes at a time and adds  *)
(* what it counted to letter_counts under a mutex.  ints wrap around.      *)
(***************************************************************************)
EXTENDS Integers, FiniteSets

CONSTANTS num_threads,
          NumLetters,\* the length of letter_counts
          NOLETTER,  \* a byte that is no letter
          MaxSize,   \* bound: the longest of the files
          Files,     \* the files it may be run on: functions from positions
          Batch,     \* bytes between two updates of letter_counts
          IntRange   \* how many values an int has

Letters == 0..(NumLetters - 1)
Threads == 0..(num_threads - 1)

ASSUME CountAssumption ==
  /\ num_threads \in {1, 2, 4, 8}
  /\ NumLetters \in Nat \ {0} /\ NOLETTER \notin Letters
  /\ MaxSize \in Nat
  /\ Files \subseteq UNION {[0..(n - 1) -> Letters \cup {NOLETTER}] : n \in 1..MaxSize}
  /\ Batch \in Nat \ {0} /\ IntRange \in Nat \ {0} /\ IntRange % 2 = 0

VARIABLES file,
          startIndex, partition,  \* the arguments of each thread
          created,       \* how many threads main has created
          exit,          \* "running", "printed" or "segfault"
          step, i, local,\* each thread: control, position, local_letter_counts
          g, sum,        \* each thread: the letter it adds, its sum so far
          lock, letter_counts

threadVars == <<step, i, local, g, sum>>
mainVars == <<file, startIndex, partition, created, exit>>
count_vars == <<mainVars, threadVars, lock, letter_counts>>

file_size == Cardinality(DOMAIN file)
IntMax == IntRange \div 2 - 1

(* The value of an int variable, and of an int used as a size_t.  C leaves *)
(* the overflow of an int open; builds wrap around.                        *)
int(x) == LET r == x % IntRange IN IF r <= IntMax THEN r ELSE r - IntRange
size_t(x) == x % (IntRange * IntRange)

Zero == [l \in Letters |-> 0]

CountInit ==
  /\ file \in Files
  /\ startIndex = [t \in Threads |-> 0] /\ partition = [t \in Threads |-> 0]
  /\ created = 0 /\ exit = "running"
  /\ step = [t \in Threads |-> "none"] /\ i = [t \in Threads |-> 0]
  /\ local = [t \in Threads |-> Zero]
  /\ g = [t \in Threads |-> 0] /\ sum = [t \in Threads |-> 0]
  /\ lock = FALSE /\ letter_counts = Zero

(* count_letters: the last thread takes what the others leave.  The two    *)
(* branches for it assign the same sum.                                    *)
Share == int(file_size \div num_threads)
Rest == int(Share + (file_size - int(Share * num_threads)))

RestForgotten(t) ==
  /\ startIndex' = [startIndex EXCEPT ![t] = int(Share * t)]
  /\ partition' = [partition EXCEPT ![t] = Share]
Arguments(t) ==
  /\ startIndex' = [startIndex EXCEPT ![t] = int(Share * t)]
  /\ partition' = [partition EXCEPT ![t] = IF t = num_threads - 1 THEN Rest ELSE Share]

Create == /\ exit = "running" /\ created < num_threads
          /\ Arguments(created)
          /\ created' = created + 1
          /\ step' = [step EXCEPT ![created] = "scan"]
          /\ i' = [i EXCEPT ![created] = size_t(startIndex'[created])]
          /\ UNCHANGED <<file, exit, local, g, sum, lock, letter_counts>>

(* main joins the threads it created and prints the counts.                *)
PrintCounts ==
  /\ exit = "running" /\ created = num_threads
  /\ \A t \in Threads : step[t] = "done"
  /\ exit' = "printed"
  /\ UNCHANGED <<file, startIndex, partition, created, threadVars, lock, letter_counts>>

Moves(t, from, to) == exit = "running" /\ step[t] = from /\ step' = [step EXCEPT ![t] = to]

Limit(t) == size_t(int(startIndex[t] + partition[t]))
BatchEnd(t) == IF i[t] + Batch < Limit(t) THEN i[t] + Batch ELSE Limit(t)
Occurrences(l, from, to) ==
  Cardinality({p \in from..to : p \in DOMAIN file /\ file[p] = l})

(* The bytes of one batch are only read, and counted in local variables.   *)
Scan(t) == /\ Moves(t, "scan", "lock")
           /\ i[t] < Limit(t) /\ BatchEnd(t) <= file_size
           /\ local' = [local EXCEPT ![t] =
                [l \in Letters |-> @[l] + Occurrences(l, i[t], BatchEnd(t) - 1)]]
           /\ i' = [i EXCEPT ![t] = BatchEnd(t)]
           /\ UNCHANGED <<mainVars, g, sum, lock, letter_counts>>

(* A limit past the end of the file leads the loop out of the mapping.     *)
Fault(t) == /\ exit = "running" /\ step[t] = "scan"
            /\ i[t] < Limit(t) /\ BatchEnd(t) > file_size
            /\ exit' = "segfault"
            /\ UNCHANGED <<file, startIndex, partition, created, threadVars, lock, letter_counts>>

Exit(t) == /\ Moves(t, "scan", "done") /\ i[t] >= Limit(t)
           /\ UNCHANGED <<mainVars, i, local, g, sum, lock, letter_counts>>

AcquireFreely == lock' = TRUE
Acquire == lock = FALSE /\ lock' = TRUE

Lock(t) == /\ Moves(t, "lock", "load")
           /\ Acquire
           /\ g' = [g EXCEPT ![t] = 0]
           /\ UNCHANGED <<mainVars, i, local, sum, letter_counts>>

(* letter_counts[g] += local_letter_counts[g], which other threads could   *)
(* interrupt between its read and its write.                               *)
ReadCount(t) ==
  /\ Moves(t, "load", "store")
  /\ sum' = [sum EXCEPT ![t] = letter_counts[g[t]] + local[t][g[t]]]
  /\ UNCHANGED <<mainVars, i, local, g, lock, letter_counts>>

Last(t) == g[t] + 1 \notin Letters

WriteKeepsLocal(t) ==
  /\ Moves(t, "store", IF Last(t) THEN "unlock" ELSE "load")
  /\ letter_counts' = [letter_counts EXCEPT ![g[t]] = sum[t]]
  /\ g' = [g EXCEPT ![t] = IF Last(t) THEN 0 ELSE @ + 1]
  /\ sum' = [sum EXCEPT ![t] = 0]
  /\ UNCHANGED <<mainVars, i, local, lock>>
WriteCount(t) ==
  /\ Moves(t, "store", IF Last(t) THEN "unlock" ELSE "load")
  /\ letter_counts' = [letter_counts EXCEPT ![g[t]] = sum[t]]
  /\ local' = [local EXCEPT ![t][g[t]] = 0]
  /\ g' = [g EXCEPT ![t] = IF Last(t) THEN 0 ELSE @ + 1]
  /\ sum' = [sum EXCEPT ![t] = 0]
  /\ UNCHANGED <<mainVars, i, lock>>

Unlock(t) == /\ Moves(t, "unlock", "scan")
             /\ lock' = FALSE
             /\ UNCHANGED <<mainVars, i, local, g, sum, letter_counts>>

CountStep(t) == \/ Scan(t) \/ Fault(t) \/ Exit(t)
                \/ Lock(t) \/ ReadCount(t) \/ WriteCount(t) \/ Unlock(t)
Main == Create \/ PrintCounts

CountNext == \/ Main \/ \E t \in Threads : CountStep(t)
             \/ exit # "running" /\ UNCHANGED count_vars

CountSpec == CountInit /\ [][CountNext]_count_vars
CountFairSpec == /\ CountSpec /\ WF_count_vars(Main)
                 /\ \A t \in Threads : WF_count_vars(CountStep(t))
-----------------------------------------------------------------------------
(* The positions that a thread reads.                                      *)
Part(t) == startIndex[t]..(startIndex[t] + partition[t] - 1)

CountTypeOK ==
  /\ file \in Files /\ created \in 0..num_threads
  /\ exit \in {"running", "printed", "segfault"}
  /\ startIndex \in [Threads -> Int] /\ partition \in [Threads -> Int]
  /\ step \in [Threads -> {"none", "scan", "lock", "load", "store", "unlock", "done"}]
  /\ i \in [Threads -> Nat] /\ local \in [Threads -> [Letters -> 0..Batch]]
  /\ g \in [Threads -> Letters] /\ sum \in [Threads -> Nat]
  /\ lock \in BOOLEAN /\ letter_counts \in [Letters -> Nat]

(* What the threads hold in local counts, one pair for each letter counted,*)
(* and the positions of a letter that were read.                           *)
InHand(l) == {x \in Threads \X (1..Batch) : x[2] <= local[x[1]][l]}
Seen(l) == {p \in DOMAIN file :
              file[p] = l /\ \E t \in 0..(created - 1) : startIndex[t] <= p /\ p < i[t]}

(* At every moment each letter read so far is either in letter_counts or   *)
(* in one thread's local counts: the updates neither lose nor repeat one.  *)
Conserved == \A l \in Letters :
               letter_counts[l] + Cardinality(InHand(l)) = Cardinality(Seen(l))

(* As long as the file's size is an int: the parts of the threads split it,*)
(* so that no byte is read twice, none beyond its end, and none is left    *)
(* when all threads are created; no update of letter_counts is lost; and   *)
(* what is printed are the letters of the file.                            *)
EveryByteOnce ==
  file_size <= IntMax =>
    /\ \A t, u \in 0..(created - 1) : t # u => Part(t) \cap Part(u) = {}
    /\ created = num_threads => UNION {Part(t) : t \in Threads} = DOMAIN file
    /\ exit # "segfault"
    /\ Conserved
    /\ exit = "printed" => \A l \in Letters : letter_counts[l] = Occurrences(l, 0, file_size - 1)

(* Once it counts, the program ends, and prints how often each letter is   *)
(* in the file.                                                            *)
CountsPrinted ==
  created > 0 /\ file_size <= IntMax ~>
    exit = "printed" /\ \A l \in Letters : letter_counts[l] = Occurrences(l, 0, file_size - 1)
=============================================================================
