---------------------------- MODULE ProgramProofs ---------------------------
(***************************************************************************)
(* Proofs about the programs that MCPrograms runs side by side and about   *)
(* the Sudoku kernel, each in a section of its own; the last section puts  *)
(* the programs together.                                                  *)
(***************************************************************************)
EXTENDS MCPrograms, SudokuKernel, LinkedListProofs, FiniteSetTheorems, WellFoundedInduction, TLAPS

(***************************************************************************)
(* LetterCount: for every file whose size is an int, the parts of the      *)
(* threads split the file, for 1, 2, 4 or 8 threads, and what they add up  *)
(* under the mutex is the number of times each letter is in the file.      *)
(***************************************************************************)

(* What count_letters hands to the threads it has created.                 *)
Assigned == /\ file \in Files /\ created \in 0..num_threads
            /\ startIndex \in [Threads -> Int] /\ partition \in [Threads -> Int]
            /\ \A t \in 0..(created - 1) :
                 /\ startIndex[t] = int(Share * t)
                 /\ partition[t] = IF t = num_threads - 1 THEN Rest ELSE Share

USE CountAssumption DEF Threads

LEMMA IntType == ASSUME NEW x \in Int PROVE int(x) \in Int
BY DEF int, IntMax

(* An int holds what is in its range.                                      *)
LEMMA IntKeeps == ASSUME NEW x \in 0..IntMax PROVE int(x) = x
BY DEF int, IntMax

LEMMA SizeOfFile ==
  ASSUME file \in Files
  PROVE  file_size \in Nat \ {0} /\ DOMAIN file = 0..(file_size - 1)
<1>1. PICK n \in 1..MaxSize : file \in [0..(n - 1) -> Letters \cup {NOLETTER}]
  OBVIOUS
<1>2. 0 \in Int /\ n - 1 \in Int /\ n \in Nat \ {0}
  OBVIOUS
<1>3. Cardinality(0..(n - 1)) = n
  BY <1>2, FS_Interval
<1> QED BY <1>1, <1>2, <1>3 DEF file_size

LEMMA AssignedInit == CountInit => Assigned
BY DEF CountInit, Assigned

LEMMA AssignedNext == Assigned /\ [CountNext]_count_vars => Assigned'
<1> SUFFICES ASSUME Assigned, [CountNext]_count_vars PROVE Assigned'
  OBVIOUS
<1>1. CASE Create
  <2>1. file_size \in Nat /\ file' = file
    BY <1>1, SizeOfFile DEF Assigned, Create
  <2>2. num_threads \in Nat \ {0} /\ created \in Threads /\ created' = created + 1
    BY <1>1 DEF Assigned, Create
  <2>3. file_size \div num_threads \in Int
    BY <2>1, <2>2
  <2>4. Share \in Int
    BY <2>3, IntType DEF Share
  <2>5. Share * created \in Int /\ Share * num_threads \in Int
    BY <2>2, <2>4
  <2>6. int(Share * created) \in Int /\ Rest \in Int
    BY <2>1, <2>4, <2>5, IntType DEF Rest
  <2>7. Share' = Share /\ Rest' = Rest /\ \A x : int(x)' = int(x)
    BY <2>1 DEF Share, Rest, file_size, int, IntMax
  <2>8. /\ startIndex' = [startIndex EXCEPT ![created] = int(Share * created)]
        /\ partition' = [partition EXCEPT ![created] =
                            IF created = num_threads - 1 THEN Rest ELSE Share]
    BY <1>1 DEF Create, Arguments
  <2>9. \A t \in 0..created : /\ startIndex'[t] = int(Share * t)
                              /\ partition'[t] = IF t = num_threads - 1 THEN Rest ELSE Share
    BY <2>2, <2>8 DEF Assigned
  <2>10. /\ startIndex' \in [Threads -> Int] /\ partition' \in [Threads -> Int]
         /\ file' \in Files /\ created' \in 0..num_threads /\ created' - 1 = created
    BY <2>1, <2>2, <2>4, <2>6, <2>8 DEF Assigned
  <2> QED
    BY <2>7, <2>9, <2>10 DEF Assigned
<1>2. CASE UNCHANGED <<file, startIndex, partition, created>>
  BY <1>2 DEF Assigned, Share, Rest, file_size, int, IntMax
<1>3. CASE PrintCounts \/ UNCHANGED count_vars
  BY <1>2, <1>3 DEF PrintCounts, count_vars, mainVars
<1>4. ASSUME NEW t \in Threads, CountStep(t) PROVE Assigned'
  BY <1>2, <1>4 DEF CountStep, Scan, Fault, Exit, Lock, ReadCount, WriteCount, Unlock, mainVars
<1> QED BY <1>1, <1>3, <1>4 DEF CountNext, Main

(* The arithmetic of count_letters: no intermediate result leaves the      *)
(* range of an int, and the last part ends where the file ends.            *)
LEMMA PartsSplit ==
  ASSUME file \in Files, file_size <= IntMax
  PROVE  /\ Share \in Nat /\ Share * num_threads <= file_size
         /\ \A t \in Threads : int(Share * t) = Share * t
         /\ Rest = file_size - Share * (num_threads - 1)
<1> DEFINE s == file_size
           q == s \div num_threads
<1>1. s \in Nat /\ IntMax \in Int /\ s <= IntMax
  BY SizeOfFile DEF IntMax
<1>2. /\ q \in Nat /\ q * num_threads \in 0..s
      /\ \A t \in Threads : q * t \in 0..s
      /\ q + (s - q * num_threads) = s - q * (num_threads - 1)
      /\ q + (s - q * num_threads) \in 0..s
  <2>1. CASE num_threads = 1
    BY <1>1, <2>1
  <2>2. CASE num_threads = 2
    BY <1>1, <2>2
  <2>3. CASE num_threads = 4
    BY <1>1, <2>3
  <2>4. CASE num_threads = 8
    BY <1>1, <2>4
  <2> QED BY <2>1, <2>2, <2>3, <2>4
<1>3. 0..s \subseteq 0..IntMax
  BY <1>1
<1>4. q \in 0..s
  BY <1>1, <1>2
<1>5. Share = q
  BY <1>3, <1>4, IntKeeps DEF Share
<1>6. int(Share * num_threads) = q * num_threads
  BY <1>2, <1>3, <1>5, IntKeeps
<1>7. Rest = q + (s - q * num_threads)
  BY <1>2, <1>3, <1>5, <1>6, IntKeeps DEF Rest
<1>8. \A t \in Threads : int(Share * t) = Share * t
  BY <1>2, <1>3, <1>5, IntKeeps
<1> QED BY <1>1, <1>2, <1>5, <1>7, <1>8

LEMMA AssignedSplits ==
  ASSUME Assigned, file_size <= IntMax
  PROVE  /\ \A t, u \in 0..(created - 1) : t # u => Part(t) \cap Part(u) = {}
         /\ created = num_threads => UNION {Part(t) : t \in Threads} = DOMAIN file
<1> DEFINE s == file_size
           n == num_threads
           q == Share
<1>1. s \in Nat \ {0} /\ DOMAIN file = 0..(s - 1)
  BY SizeOfFile DEF Assigned
<1>2. /\ q \in Nat /\ q * n <= s
      /\ \A t \in Threads : int(q * t) = q * t
      /\ Rest = s - q * (n - 1)
  BY PartsSplit DEF Assigned
<1>3. 0..(created - 1) \subseteq Threads
  BY DEF Assigned
<1>4. ASSUME NEW t \in 0..(created - 1)
      PROVE  Part(t) = q * t..(IF t = n - 1 THEN s - 1 ELSE q * t + q - 1)
  <2>1. startIndex[t] = q * t /\ partition[t] = IF t = n - 1 THEN s - q * (n - 1) ELSE q
    BY <1>2, <1>3, <1>4 DEF Assigned
  <2>2. CASE t = n - 1
    <3>1. q * t \in Int /\ q * t + (s - q * t) - 1 = s - 1
      BY <1>1, <1>2, <1>4
    <3> QED BY <2>1, <2>2, <3>1 DEF Part
  <2>3. CASE t # n - 1
    BY <2>1, <2>3 DEF Part
  <2> QED BY <2>2, <2>3
<1>5. ASSUME NEW t \in 0..(created - 1), NEW u \in 0..(created - 1), t < u
      PROVE  Part(t) \cap Part(u) = {}
  <2>1. t # n - 1
    BY <1>3, <1>5
  <2>2. PICK a \in Int, b \in Int : a = q * t /\ b = q * u
    BY <1>2, <1>5
  <2>3. a + q <= b
    BY <1>2, <1>3, <1>5, <2>2
  <2>4. Part(t) = a..(a + q - 1) /\ \E c \in Int : Part(u) = b..c
    <3>1. Part(t) = a..(a + q - 1)
      BY <1>4, <2>1, <2>2
    <3>2. Part(u) = b..(IF u = n - 1 THEN s - 1 ELSE b + q - 1)
      BY <1>4, <2>2
    <3>3. (IF u = n - 1 THEN s - 1 ELSE b + q - 1) \in Int
      BY <1>1, <1>2
    <3> QED BY <3>1, <3>2, <3>3
  <2> QED BY <1>2, <2>3, <2>4
<1>6. \A t, u \in 0..(created - 1) : t # u => Part(t) \cap Part(u) = {}
  <2> TAKE t, u \in 0..(created - 1)
  <2>1. t < u \/ u < t \/ t = u
    BY DEF Assigned
  <2> QED BY <1>5, <2>1
<1>7. ASSUME created = n PROVE UNION {Part(t) : t \in Threads} = DOMAIN file
  <2>1. \A t \in Threads : Part(t) = q * t..(IF t = n - 1 THEN s - 1 ELSE q * t + q - 1)
    BY <1>4, <1>7
  <2>2. ASSUME NEW t \in Threads PROVE Part(t) \subseteq 0..(s - 1)
    <3>1. PICK a \in Nat : a = q * t
      BY <1>2
    <3>2. t # n - 1 => a + q <= s
      <4>1. t # n - 1 => q * t + q <= q * n
        BY <1>2
      <4>2. q * n \in Int
        BY <1>2
      <4> QED BY <1>1, <1>2, <3>1, <4>1, <4>2
    <3>3. Part(t) = a..(IF t = n - 1 THEN s - 1 ELSE a + q - 1)
      BY <2>1, <3>1
    <3> QED BY <1>1, <1>2, <3>1, <3>2, <3>3
  <2>3. ASSUME NEW p \in 0..(s - 1) PROVE \E t \in Threads : p \in Part(t)
    <3>1. CASE p >= q * (n - 1)
      BY <1>1, <1>2, <2>1, <3>1
    <3>2. CASE p < q * (n - 1)
      <4>1. q # 0
        BY <1>2, <3>2
      <4>2. p \div q \in 0..(n - 2) /\ q * (p \div q) <= p /\ p < q * (p \div q) + q
        BY <1>2, <3>2, <4>1
      <4>3. PICK t \in 0..(n - 2) : q * t <= p /\ p < q * t + q
        BY <4>2
      <4>4. t \in Threads /\ Part(t) = q * t..(q * t + q - 1)
        BY <2>1, <4>3
      <4>5. PICK a \in Nat : a = q * t
        BY <1>2, <4>3
      <4> QED BY <1>2, <4>3, <4>4, <4>5
    <3> QED BY <1>2, <3>1, <3>2
  <2> QED BY <1>1, <2>2, <2>3
<1> QED BY <1>6, <1>7

(* Where a thread of a created part reads.                                 *)
LEMMA PartBounds ==
  ASSUME Assigned, file_size <= IntMax, NEW t \in 0..(created - 1)
  PROVE  /\ startIndex[t] \in Nat /\ partition[t] \in Nat
         /\ startIndex[t] + partition[t] <= file_size
         /\ Limit(t) = startIndex[t] + partition[t]
         /\ size_t(startIndex[t]) = startIndex[t]
<1> DEFINE n == num_threads
           q == Share
<1>1. file_size \in Nat \ {0} /\ n \in Nat \ {0} /\ t \in 0..(n - 1)
  BY SizeOfFile DEF Assigned
<1>2. q \in Nat /\ q * n <= file_size /\ Rest = file_size - q * (n - 1) /\ int(q * t) = q * t
  BY <1>1, PartsSplit DEF Assigned
<1>3. startIndex[t] = q * t /\ partition[t] = IF t = n - 1 THEN file_size - q * (n - 1) ELSE q
  BY <1>2 DEF Assigned
<1>4. PICK a \in Nat : a = q * t
  BY <1>1, <1>2
<1>5. t # n - 1 => a + q <= file_size
  <2>1. t # n - 1 => q * t + q <= q * n
    BY <1>1, <1>2
  <2>2. q * n \in Int
    BY <1>1, <1>2
  <2> QED BY <1>1, <1>2, <1>4, <2>1, <2>2
<1>6. a <= file_size
  <2>1. q * t <= q * n /\ q * n \in Int
    BY <1>1, <1>2
  <2> QED BY <1>1, <1>2, <1>4, <2>1
<1>7. /\ startIndex[t] = a /\ partition[t] \in Nat
      /\ startIndex[t] + partition[t] \in 0..file_size
  <2>1. CASE t = n - 1
    BY <1>1, <1>3, <1>4, <1>6, <2>1
  <2>2. CASE t # n - 1
    BY <1>1, <1>2, <1>3, <1>4, <1>5, <2>2
  <2> QED BY <2>1, <2>2
<1>8. ASSUME NEW x \in 0..file_size PROVE int(x) = x /\ size_t(x) = x
  <2>1. IntMax \in Int /\ x \in 0..IntMax
    BY <1>1 DEF IntMax
  <2>2. IntRange \in Nat \ {0} /\ IntMax < IntRange
    BY DEF IntMax
  <2>3. IntRange <= IntRange * IntRange /\ IntRange * IntRange \in Nat
    BY <2>2
  <2>4. x < IntRange * IntRange
    BY <2>1, <2>2, <2>3
  <2>5. PICK m : m = IntRange * IntRange
    OBVIOUS
  <2>6. x % m = x
    BY <2>1, <2>3, <2>4, <2>5
  <2> QED BY <2>1, <2>5, <2>6, IntKeeps DEF size_t
<1> QED BY <1>1, <1>4, <1>6, <1>7, <1>8 DEF Limit

LEMMA DisjointUnion ==
  ASSUME NEW P, NEW Q, IsFiniteSet(P), IsFiniteSet(Q), P \cap Q = {}
  PROVE  Cardinality(P \cup Q) = Cardinality(P) + Cardinality(Q)
<1>1. Cardinality(P \cup Q) = Cardinality(P) + Cardinality(Q) - Cardinality(P \cap Q)
  BY FS_Union, Zenon
<1>2. Cardinality(P) \in Nat /\ Cardinality(Q) \in Nat /\ Cardinality(P \cap Q) = 0
  BY FS_CardinalityType, FS_EmptySet
<1> QED BY <1>1, <1>2

(* A count is the number of the pairs that stand for it.                   *)
Pairs(n) == {x \in Threads \X (1..Batch) : x[2] <= n[x[1]]}

LEMMA PairsFinite == ASSUME NEW n PROVE IsFiniteSet(Pairs(n))
<1>1. num_threads - 1 \in Int /\ Batch \in Int
  OBVIOUS
<1>2. IsFiniteSet(0..(num_threads - 1)) /\ IsFiniteSet(1..Batch)
  BY <1>1, FS_Interval
<1>3. IsFiniteSet(Threads \X (1..Batch))
  BY <1>2, FS_Product
<1> QED BY <1>3, FS_Subset DEF Pairs

Adds(n, m, t, k) == /\ n \in [Threads -> 0..Batch] /\ t \in Threads /\ n[t] = 0
                    /\ k \in 0..Batch /\ m = [n EXCEPT ![t] = k]

LEMMA PairsAdded ==
  ASSUME NEW n, NEW m, NEW t, NEW k, Adds(n, m, t, k)
  PROVE  Cardinality(Pairs(m)) = Cardinality(Pairs(n)) + k
<1> USE DEF Adds
<1>1. IsFiniteSet({t} \X (1..k)) /\ Cardinality({t} \X (1..k)) = k
  <2>1. k \in Nat /\ 1 \in Int /\ k \in Int
    OBVIOUS
  <2>2. IsFiniteSet(1..k) /\ Cardinality(1..k) = k
    BY <2>1, FS_Interval
  <2>3. IsFiniteSet({t}) /\ Cardinality({t}) = 1
    BY FS_Singleton
  <2>4. /\ IsFiniteSet({t} \X (1..k))
        /\ Cardinality({t} \X (1..k)) = Cardinality({t}) * Cardinality(1..k)
    BY <2>2, <2>3, FS_Product, Zenon
  <2>5. 1 * k = k
    OBVIOUS
  <2> QED BY <2>2, <2>3, <2>4, <2>5
<1>2. Pairs(m) = Pairs(n) \cup ({t} \X (1..k))
  <2>1. ASSUME NEW x \in Threads \X (1..Batch) PROVE x \in Pairs(m) <=> x \in Pairs(n) \cup ({t} \X (1..k))
    <3>1. x = <<x[1], x[2]>> /\ x[1] \in Threads /\ x[2] \in 1..Batch
      BY <2>1
    <3>2. CASE x[1] = t
      BY <3>1, <3>2 DEF Pairs
    <3>3. CASE x[1] # t
      BY <3>1, <3>3 DEF Pairs
    <3> QED BY <3>2, <3>3
  <2>2. {t} \X (1..k) \subseteq Threads \X (1..Batch)
    OBVIOUS
  <2> QED BY <2>1, <2>2 DEF Pairs
<1>3. Pairs(n) \cap ({t} \X (1..k)) = {}
  BY DEF Pairs
<1>4. Cardinality(Pairs(n) \cup ({t} \X (1..k))) = Cardinality(Pairs(n)) + Cardinality({t} \X (1..k))
  BY <1>1, <1>3, PairsFinite, DisjointUnion, Zenon
<1> QED BY <1>1, <1>2, <1>4, Zenon

(* The mutex is held by the thread that adds its counts; a thread has      *)
(* local counts between a scan and their addition only.                    *)
Adding(t) == step[t] \in {"load", "store", "unlock"}
AddsAlone == /\ \A t \in Threads : Adding(t) => lock
             /\ \A t, u \in Threads : Adding(t) /\ Adding(u) => t = u

LocalCounts == \A t \in Threads :
  /\ step[t] = "none" <=> created <= t
  /\ step[t] \in {"none", "scan", "unlock", "done"} => local[t] = Zero
  /\ step[t] \in {"load", "store"} => \A l \in Letters : l < g[t] => local[t][l] = 0
  /\ step[t] = "store" => sum[t] = letter_counts[g[t]] + local[t][g[t]]

(* A thread has read its part up to its position.                          *)
Positions == \A t \in 0..(created - 1) :
  /\ startIndex[t] <= i[t] /\ i[t] <= startIndex[t] + partition[t]
  /\ step[t] = "done" => i[t] = startIndex[t] + partition[t]

Printed == exit = "printed" => created = num_threads /\ \A t \in Threads : step[t] = "done"

CountControl == CountTypeOK /\ Assigned /\ AddsAlone /\ LocalCounts /\ Printed
CountInv == /\ CountControl
            /\ file_size <= IntMax => exit # "segfault" /\ Positions /\ Conserved

LEMMA SizeType == ASSUME NEW x \in Int PROVE size_t(x) \in Nat
<1>1. IntRange \in Nat \ {0}
  OBVIOUS
<1>2. PICK m : m = IntRange * IntRange
  OBVIOUS
<1>3. m \in Nat \ {0}
  BY <1>1, <1>2
<1>4. x % m \in Nat
  BY <1>3
<1> QED BY <1>2, <1>4 DEF size_t

LEMMA ZeroIsLetter == 0 \in Letters /\ \A l \in Letters : l \in Nat /\ (l + 1 \notin Letters => \A m \in Letters : m <= l)
BY DEF Letters

LEMMA OccurrencesInBatch ==
  ASSUME NEW l, NEW a \in Nat, NEW b \in Nat, a <= b, b <= a + Batch
  PROVE  Occurrences(l, a, b - 1) \in 0..Batch
<1>1. a \in Int /\ b - 1 \in Int /\ Batch \in Nat
  OBVIOUS
<1>2. IsFiniteSet(a..(b - 1)) /\ Cardinality(a..(b - 1)) = IF a > b - 1 THEN 0 ELSE (b - 1) - a + 1
  BY <1>1, FS_Interval
<1>3. Cardinality(a..(b - 1)) <= Batch /\ Cardinality(a..(b - 1)) \in Nat
  BY <1>1, <1>2
<1> DEFINE T == {p \in a..(b - 1) : p \in DOMAIN file /\ file[p] = l}
<1>4. IsFiniteSet(T) /\ Cardinality(T) <= Cardinality(a..(b - 1))
  <2>1. T \in SUBSET (a..(b - 1))
    OBVIOUS
  <2> QED BY <1>2, <2>1, FS_Subset
<1>5. Cardinality(T) \in Nat
  BY <1>4, FS_CardinalityType
<1> QED BY <1>1, <1>3, <1>4, <1>5 DEF Occurrences

LEMMA ControlInit == CountInit => CountControl
<1> SUFFICES ASSUME CountInit PROVE CountControl
  OBVIOUS
<1>1. Zero \in [Letters -> 0..Batch] /\ Zero \in [Letters -> Nat]
  BY DEF Zero
<1>2. CountTypeOK
  <2>1. 0 \in Int /\ 0 \in 0..num_threads
    OBVIOUS
  <2>2. /\ startIndex \in [Threads -> Int] /\ partition \in [Threads -> Int]
        /\ i \in [Threads -> Nat] /\ g \in [Threads -> Letters] /\ sum \in [Threads -> Nat]
    BY <2>1, ZeroIsLetter DEF CountInit
  <2>3. local \in [Threads -> [Letters -> 0..Batch]] /\ letter_counts \in [Letters -> Nat]
    BY <1>1 DEF CountInit
  <2> QED BY <2>1, <2>2, <2>3 DEF CountInit, CountTypeOK
<1>3. AddsAlone /\ Printed
  BY DEF CountInit, AddsAlone, Adding, Printed
<1>4. LocalCounts
  BY DEF CountInit, LocalCounts
<1> QED BY <1>2, <1>3, <1>4, AssignedInit DEF CountControl

(* A batch ends behind where it begins, and not farther than Batch.        *)
LEMMA BatchIsNext ==
  ASSUME CountControl, NEW t \in Threads, i[t] < Limit(t)
  PROVE  BatchEnd(t) \in Nat /\ i[t] < BatchEnd(t) /\ BatchEnd(t) <= i[t] + Batch /\ BatchEnd(t) <= Limit(t)
<1>1. startIndex[t] \in Int /\ partition[t] \in Int /\ i[t] \in Nat
  BY DEF CountControl, CountTypeOK
<1>2. int(startIndex[t] + partition[t]) \in Int
  <2>1. startIndex[t] + partition[t] \in Int
    BY <1>1
  <2> QED BY <2>1, IntType
<1>3. Limit(t) \in Nat
  BY <1>2, SizeType DEF Limit
<1> QED BY <1>1, <1>3 DEF BatchEnd

LEMMA CreateControl == CountControl /\ Create => CountControl'
<1> SUFFICES ASSUME CountControl, Create PROVE CountControl'
  OBVIOUS
<1> USE DEF CountControl, CountTypeOK
<1>1. /\ created \in Threads /\ created' = created + 1 /\ exit = "running" /\ exit' = exit
      /\ step' = [step EXCEPT ![created] = "scan"]
      /\ i' = [i EXCEPT ![created] = size_t(startIndex'[created])]
      /\ UNCHANGED <<file, local, g, sum, lock, letter_counts>>
  BY DEF Create
<1>2. Assigned'
  BY AssignedNext DEF CountNext, Main
<1>3. startIndex'[created] \in Int
  BY <1>1, <1>2 DEF Assigned
<1>4. size_t(startIndex'[created]) \in Nat
  BY <1>3, SizeType
<1>5. CountTypeOK'
  BY <1>1, <1>2, <1>4 DEF Assigned
<1>6. step[created] = "none"
  BY <1>1 DEF LocalCounts
<1>7. AddsAlone' /\ Printed'
  BY <1>1 DEF AddsAlone, Adding, Printed
<1>8. LocalCounts'
  <2> SUFFICES ASSUME NEW t \in Threads
               PROVE  /\ step'[t] = "none" <=> created' <= t
                      /\ step'[t] \in {"none", "scan", "unlock", "done"} => local'[t] = Zero
                      /\ step'[t] \in {"load", "store"} => \A l \in Letters : l < g'[t] => local'[t][l] = 0
                      /\ step'[t] = "store" => sum'[t] = letter_counts'[g'[t]] + local'[t][g'[t]]
    BY DEF LocalCounts, Zero
  <2>1. created \in Nat /\ t \in Nat
    OBVIOUS
  <2>2. CASE t = created
    <3>1. step'[t] = "scan" /\ ~(created' <= t)
      BY <1>1, <2>1, <2>2
    <3> QED BY <1>1, <1>6, <2>2, <3>1 DEF LocalCounts
  <2>3. CASE t # created
    <3>1. step'[t] = step[t] /\ (created' <= t <=> created <= t)
      BY <1>1, <2>1, <2>3
    <3> QED BY <1>1, <3>1 DEF LocalCounts
  <2> QED BY <2>2, <2>3
<1> QED BY <1>2, <1>5, <1>7, <1>8

(* A step of a thread leaves what main and the other threads keep.         *)
LEMMA StepControl ==
  ASSUME CountControl, NEW t \in Threads, CountStep(t)
  PROVE  CountControl'
<1>a. i[t] < Limit(t) => /\ BatchEnd(t) \in Nat /\ i[t] < BatchEnd(t) /\ BatchEnd(t) <= i[t] + Batch
                         /\ BatchEnd(t) <= Limit(t)
  BY BatchIsNext
<1> USE DEF CountControl, CountTypeOK
<1>1. Assigned'
  BY AssignedNext DEF CountNext
<1>2. UNCHANGED <<file, startIndex, partition, created>> /\ exit = "running"
  BY DEF CountStep, Scan, Fault, Exit, Lock, ReadCount, WriteCount, Unlock, mainVars, Moves
<1>3. Printed'
  BY <1>2 DEF Printed, CountStep, Scan, Fault, Exit, Lock, ReadCount, WriteCount, Unlock, mainVars
<1>4. Zero' = Zero /\ Zero \in [Letters -> 0..Batch]
  BY DEF Zero
<1>5. CASE Scan(t)
  <2>1. /\ step[t] = "scan" /\ step' = [step EXCEPT ![t] = "lock"] /\ exit' = exit
        /\ i' = [i EXCEPT ![t] = BatchEnd(t)] /\ i[t] < Limit(t)
        /\ local' = [local EXCEPT ![t] =
             [l \in Letters |-> local[t][l] + Occurrences(l, i[t], BatchEnd(t) - 1)]]
        /\ UNCHANGED <<g, sum, lock, letter_counts>>
    BY <1>5 DEF Scan, Moves, mainVars
  <2>2. BatchEnd(t) \in Nat /\ i[t] <= BatchEnd(t) /\ BatchEnd(t) <= i[t] + Batch /\ i[t] \in Nat
    BY <1>a, <2>1
  <2>3. \A l \in Letters : local[t][l] = 0
    BY <2>1 DEF LocalCounts, Zero
  <2>4. \A l : Occurrences(l, i[t], BatchEnd(t) - 1) \in 0..Batch
    BY <2>2, OccurrencesInBatch
  <2>5. [l \in Letters |-> local[t][l] + Occurrences(l, i[t], BatchEnd(t) - 1)] \in [Letters -> 0..Batch]
    <3>1. ASSUME NEW l \in Letters
          PROVE  local[t][l] + Occurrences(l, i[t], BatchEnd(t) - 1) \in 0..Batch
      <4>1. PICK n \in 0..Batch : n = Occurrences(l, i[t], BatchEnd(t) - 1)
        BY <2>4
      <4>2. 0 + n = n
        OBVIOUS
      <4> QED BY <2>3, <4>1, <4>2
    <3> QED BY <3>1
  <2>6. CountTypeOK'
    BY <1>1, <1>2, <2>1, <2>2, <2>5 DEF Assigned
  <2>7. AddsAlone'
    BY <2>1 DEF AddsAlone, Adding
  <2>8. LocalCounts'
    BY <1>2, <1>4, <2>1 DEF LocalCounts
  <2> QED BY <1>1, <1>3, <2>6, <2>7, <2>8
<1>6. CASE Fault(t)
  <2>1. UNCHANGED <<step, i, local, g, sum, lock, letter_counts>> /\ exit' = "segfault"
    BY <1>6 DEF Fault, threadVars
  <2>2. CountTypeOK'
    BY <1>1, <1>2, <2>1 DEF Assigned
  <2>3. AddsAlone' /\ LocalCounts'
    BY <1>2, <1>4, <2>1 DEF AddsAlone, Adding, LocalCounts
  <2> QED BY <1>1, <1>3, <2>2, <2>3
<1>7. CASE Exit(t)
  <2>1. /\ step[t] = "scan" /\ step' = [step EXCEPT ![t] = "done"] /\ exit' = exit
        /\ UNCHANGED <<i, local, g, sum, lock, letter_counts>>
    BY <1>7 DEF Exit, Moves, mainVars
  <2>2. CountTypeOK'
    BY <1>1, <1>2, <2>1 DEF Assigned
  <2>3. AddsAlone' /\ LocalCounts'
    BY <1>2, <1>4, <2>1 DEF AddsAlone, Adding, LocalCounts
  <2> QED BY <1>1, <1>3, <2>2, <2>3
<1>8. CASE Lock(t)
  <2>1. /\ step[t] = "lock" /\ step' = [step EXCEPT ![t] = "load"] /\ exit' = exit
        /\ lock = FALSE /\ lock' = TRUE /\ g' = [g EXCEPT ![t] = 0]
        /\ UNCHANGED <<i, local, sum, letter_counts>>
    BY <1>8 DEF Lock, Acquire, Moves, mainVars
  <2>2. CountTypeOK'
    BY <1>1, <1>2, <2>1, ZeroIsLetter DEF Assigned
  <2>3. AddsAlone'
    BY <2>1 DEF AddsAlone, Adding
  <2>4. \A l \in Letters : ~(l < 0)
    BY DEF Letters
  <2>5. g'[t] = 0 /\ step'[t] = "load" /\ \A u \in Threads \ {t} : g'[u] = g[u] /\ step'[u] = step[u]
    BY <2>1
  <2>6. LocalCounts'
    <3>1. \A u \in Threads : /\ step'[u] = "none" <=> step[u] = "none"
                             /\ step'[u] \in {"none", "scan", "unlock", "done"} => step[u] = step'[u]
                             /\ step'[u] = "store" => u # t /\ step[u] = "store"
      BY <2>1, <2>5
    <3>2. ASSUME NEW u \in Threads, step'[u] \in {"load", "store"}, NEW l \in Letters, l < g'[u]
          PROVE  local[u][l] = 0
      BY <2>4, <2>5, <3>2 DEF LocalCounts
    <3>3. UNCHANGED <<local, sum, letter_counts, created, Zero>>
      BY <1>2, <1>4, <2>1
    <3>4. ASSUME NEW u \in Threads, step'[u] = "store"
          PROVE  sum[u] = letter_counts[g'[u]] + local[u][g'[u]]
      BY <2>5, <3>1, <3>4 DEF LocalCounts
    <3>5. ASSUME NEW u \in Threads PROVE step'[u] = "none" <=> created' <= u
      BY <3>1, <3>3 DEF LocalCounts
    <3>6. ASSUME NEW u \in Threads, step'[u] \in {"none", "scan", "unlock", "done"}
          PROVE  local'[u] = Zero
      BY <3>1, <3>3, <3>6 DEF LocalCounts
    <3>7. ASSUME NEW u \in Threads, step'[u] \in {"load", "store"}, NEW l \in Letters, l < g'[u]
          PROVE  local'[u][l] = 0
      BY <3>2, <3>3, <3>7, Zenon
    <3>8. ASSUME NEW u \in Threads, step'[u] = "store"
          PROVE  sum'[u] = letter_counts'[g'[u]] + local'[u][g'[u]]
      BY <3>3, <3>4, <3>8, Zenon
    <3> QED BY <3>3, <3>5, <3>6, <3>7, <3>8, Zenon DEF LocalCounts
  <2> QED BY <1>1, <1>3, <2>2, <2>3, <2>6
<1>9. CASE ReadCount(t)
  <2>1. /\ step[t] = "load" /\ step' = [step EXCEPT ![t] = "store"] /\ exit' = exit
        /\ sum' = [sum EXCEPT ![t] = letter_counts[g[t]] + local[t][g[t]]]
        /\ UNCHANGED <<i, local, g, lock, letter_counts>>
    BY <1>9 DEF ReadCount, Moves, mainVars
  <2>2. g[t] \in Letters /\ letter_counts[g[t]] + local[t][g[t]] \in Nat
    BY DEF LocalCounts
  <2>3. CountTypeOK'
    BY <1>1, <1>2, <2>1, <2>2 DEF Assigned
  <2>4. AddsAlone'
    BY <2>1 DEF AddsAlone, Adding
  <2>5. LocalCounts'
    BY <1>2, <1>4, <2>1 DEF LocalCounts
  <2> QED BY <1>1, <1>3, <2>3, <2>4, <2>5
<1>10. CASE WriteCount(t)
  <2>1. /\ step[t] = "store" /\ step' = [step EXCEPT ![t] = IF Last(t) THEN "unlock" ELSE "load"]
        /\ letter_counts' = [letter_counts EXCEPT ![g[t]] = sum[t]]
        /\ local' = [local EXCEPT ![t][g[t]] = 0] /\ exit' = exit
        /\ g' = [g EXCEPT ![t] = IF Last(t) THEN 0 ELSE g[t] + 1]
        /\ sum' = [sum EXCEPT ![t] = 0] /\ UNCHANGED <<i, lock>>
    BY <1>10 DEF WriteCount, Moves, mainVars
  <2>2. g[t] \in Letters /\ g'[t] \in Letters /\ sum[t] \in Nat
    BY <2>1, ZeroIsLetter DEF Last
  <2>3. local' \in [Threads -> [Letters -> 0..Batch]]
    <3>1. 0 \in 0..Batch
      OBVIOUS
    <3>2. local' = [local EXCEPT ![t] = [local[t] EXCEPT ![g[t]] = 0]]
      BY <2>1
    <3>3. [local[t] EXCEPT ![g[t]] = 0] \in [Letters -> 0..Batch]
      BY <3>1
    <3> QED BY <3>2, <3>3
  <2>4. CountTypeOK'
    BY <1>1, <1>2, <2>1, <2>2, <2>3 DEF Assigned
  <2>5. AddsAlone'
    BY <2>1 DEF AddsAlone, Adding
  <2>6. \A l \in Letters : l <= g[t] => local'[t][l] = 0
    <3>1. local'[t] = [local[t] EXCEPT ![g[t]] = 0]
      BY <2>1
    <3>2. \A l \in Letters : l < g[t] => local[t][l] = 0
      BY <2>1 DEF LocalCounts
    <3>3. \A l \in Letters : l <= g[t] => l = g[t] \/ l < g[t]
      BY <2>2 DEF Letters
    <3> QED BY <3>1, <3>2, <3>3
  <2>7. ASSUME Last(t) PROVE local'[t] = Zero
    BY <2>2, <2>3, <2>6, <2>7, ZeroIsLetter DEF Last, Zero
  <2>8. LocalCounts'
    <3> SUFFICES ASSUME NEW u \in Threads
        PROVE  /\ step'[u] = "none" <=> created' <= u
               /\ step'[u] \in {"none", "scan", "unlock", "done"} => local'[u] = Zero
               /\ step'[u] \in {"load", "store"} => \A l \in Letters : l < g'[u] => local'[u][l] = 0
               /\ step'[u] = "store" => sum'[u] = letter_counts'[g'[u]] + local'[u][g'[u]]
      BY <1>4 DEF LocalCounts
    <3>1. CASE u = t
      <4>1. CASE Last(t)
        BY <1>2, <2>1, <2>7, <3>1, <4>1 DEF LocalCounts
      <4>2. CASE ~Last(t)
        <5>1. step'[t] = "load" /\ g'[t] = g[t] + 1
          BY <2>1, <4>2
        <5>2. \A l \in Letters : l < g'[t] => local'[t][l] = 0
          <6>1. \A l \in Letters : l < g[t] + 1 => l <= g[t]
            BY <2>2 DEF Letters
          <6> QED BY <2>6, <5>1, <6>1
        <5> QED BY <1>2, <2>1, <3>1, <5>1, <5>2 DEF LocalCounts
      <4> QED BY <4>1, <4>2
    <3>2. CASE u # t
      <4>1. ~Adding(u)
        BY <2>1, <3>2 DEF AddsAlone, Adding
      <4> QED BY <1>2, <2>1, <3>2, <4>1 DEF LocalCounts, Adding
    <3> QED BY <3>1, <3>2
  <2> QED BY <1>1, <1>3, <2>4, <2>5, <2>8
<1>11. CASE Unlock(t)
  <2>1. /\ step[t] = "unlock" /\ step' = [step EXCEPT ![t] = "scan"] /\ exit' = exit
        /\ lock' = FALSE /\ UNCHANGED <<i, local, g, sum, letter_counts>>
    BY <1>11 DEF Unlock, Moves, mainVars
  <2>2. CountTypeOK'
    BY <1>1, <1>2, <2>1 DEF Assigned
  <2>3. AddsAlone'
    BY <2>1 DEF AddsAlone, Adding
  <2>4. LocalCounts'
    BY <1>2, <1>4, <2>1 DEF LocalCounts
  <2> QED BY <1>1, <1>3, <2>2, <2>3, <2>4
<1> QED BY <1>5, <1>6, <1>7, <1>8, <1>9, <1>10, <1>11 DEF CountStep

LEMMA ControlNext == CountControl /\ [CountNext]_count_vars => CountControl'
<1>1. ASSUME CountControl, PrintCounts PROVE CountControl'
  <2>1. /\ exit' = "printed" /\ created = num_threads /\ \A t \in Threads : step[t] = "done"
        /\ UNCHANGED <<file, startIndex, partition, created, step, i, local, g, sum, lock, letter_counts>>
    BY <1>1 DEF PrintCounts, threadVars
  <2>2. Assigned'
    BY <1>1, AssignedNext DEF CountNext, Main, CountControl
  <2> QED BY <1>1, <2>1, <2>2
          DEF CountControl, CountTypeOK, AddsAlone, Adding, LocalCounts, Printed, Zero
<1>2. ASSUME CountControl, UNCHANGED count_vars PROVE CountControl'
  <2>1. Assigned'
    BY <1>2, AssignedNext DEF CountControl
  <2> QED BY <1>2, <2>1 DEF CountControl, CountTypeOK, AddsAlone, Adding, LocalCounts, Printed, Zero,
          count_vars, mainVars, threadVars
<1> QED BY <1>1, <1>2, CreateControl, StepControl DEF CountNext, Main

(* The parts of a file whose size is an int, and where each one ends.      *)
Bounds == file_size <= IntMax =>
  /\ \A t, u \in 0..(created - 1) : t # u => Part(t) \cap Part(u) = {}
  /\ created = num_threads => UNION {Part(t) : t \in Threads} = DOMAIN file
  /\ \A t \in 0..(created - 1) :
       /\ startIndex[t] \in Nat /\ partition[t] \in Nat
       /\ startIndex[t] + partition[t] <= file_size
       /\ Limit(t) = startIndex[t] + partition[t] /\ size_t(startIndex[t]) = startIndex[t]

LEMMA BoundsHold == Assigned => Bounds
BY AssignedSplits, PartBounds DEF Bounds

LocalOf(l) == [t \in Threads |-> local[t][l]]

LEMMA HandIsPairs == ASSUME NEW l PROVE InHand(l) = Pairs(LocalOf(l))
BY DEF InHand, Pairs, LocalOf

LEMMA HandAfter == ASSUME NEW l PROVE InHand(l)' = Pairs(LocalOf(l)')
BY DEF InHand, Pairs, LocalOf

LEMMA SeenFinite == ASSUME file \in Files, NEW l PROVE IsFiniteSet(Seen(l)) /\ Cardinality(Seen(l)) \in Nat
<1>1. DOMAIN file = 0..(file_size - 1) /\ file_size - 1 \in Int /\ 0 \in Int
  BY SizeOfFile
<1>2. IsFiniteSet(DOMAIN file)
  BY <1>1, FS_Interval
<1>3. Seen(l) \in SUBSET (DOMAIN file)
  BY DEF Seen
<1> QED BY <1>2, <1>3, FS_Subset, FS_CardinalityType

LEMMA PairsNat == ASSUME NEW n PROVE Cardinality(Pairs(n)) \in Nat
BY PairsFinite, FS_CardinalityType

Counted == exit # "segfault" /\ Positions /\ Conserved

(* Nothing is counted or read.                                             *)
LEMMA SameCounts ==
  ASSUME UNCHANGED <<file, startIndex, partition, created, i, local, letter_counts>>, Conserved
  PROVE  Conserved'
BY DEF Conserved, Letters, InHand, Seen

LEMMA StepDomain == ASSUME CountControl PROVE DOMAIN step = Threads
<1>1. step \in [Threads -> {"none", "scan", "lock", "load", "store", "unlock", "done"}]
  BY DEF CountControl, CountTypeOK
<1> QED BY <1>1, Zenon

LEMMA CreatedType ==
  ASSUME CountControl PROVE created \in Nat /\ created <= num_threads /\ i \in [Threads -> Nat]
BY DEF CountControl, CountTypeOK

LEMMA CreateCounts ==
  ASSUME CountControl, Counted, Bounds', file_size <= IntMax, Create
  PROVE  Counted'
<1>1. /\ created \in Threads /\ created' = created + 1 /\ exit = "running" /\ exit' = exit
      /\ step' = [step EXCEPT ![created] = "scan"]
      /\ i' = [i EXCEPT ![created] = size_t(startIndex'[created])]
      /\ startIndex' = [startIndex EXCEPT ![created] = int(Share * created)]
      /\ partition' = [partition EXCEPT ![created] = IF created = num_threads - 1 THEN Rest ELSE Share]
      /\ UNCHANGED <<file, local, g, sum, lock, letter_counts>>
  BY DEF Create, Arguments, CountControl, CountTypeOK
<1>2. /\ created \in Nat /\ created' - 1 = created /\ DOMAIN step = Threads /\ i \in [Threads -> Nat]
      /\ startIndex \in [Threads -> Int] /\ partition \in [Threads -> Int]
  <2>1. created \in Nat /\ created' - 1 = created
    BY <1>1 DEF CountControl, CountTypeOK
  <2>2. /\ i \in [Threads -> Nat] /\ startIndex \in [Threads -> Int]
        /\ partition \in [Threads -> Int]
    BY DEF CountControl, CountTypeOK
  <2> QED BY <2>1, <2>2, StepDomain, Zenon
<1>3. file_size' <= IntMax' /\ \A t : size_t(t)' = size_t(t)
  BY <1>1 DEF file_size, IntMax, size_t
<1>4. \A t \in 0..created : /\ startIndex'[t] \in Nat /\ partition'[t] \in Nat
                            /\ size_t(startIndex'[t]) = startIndex'[t]
  BY <1>2, <1>3 DEF Bounds
<1>5. i'[created] = startIndex'[created] /\ step'[created] = "scan"
  BY <1>1, <1>2, <1>4
<1>6. \A t \in 0..(created - 1) : /\ i'[t] = i[t] /\ startIndex'[t] = startIndex[t] /\ step'[t] = step[t]
                                  /\ partition'[t] = partition[t]
  BY <1>1, <1>2
<1>7. \A t \in 0..created : t \in 0..(created - 1) \/ t = created
  BY <1>2
<1>a. \A t \in 0..(created - 1) :
        /\ startIndex[t] <= i[t] /\ i[t] <= startIndex[t] + partition[t]
        /\ step[t] = "done" => i[t] = startIndex[t] + partition[t]
  BY DEF Positions, Counted
<1>b. created \in 0..created
  BY <1>2
<1>8. Positions'
  <2> SUFFICES ASSUME NEW t \in 0..created
               PROVE  /\ startIndex'[t] <= i'[t] /\ i'[t] <= startIndex'[t] + partition'[t]
                      /\ step'[t] = "done" => i'[t] = startIndex'[t] + partition'[t]
    BY <1>2 DEF Positions
  <2>1. CASE t = created
    <3>1. startIndex'[t] \in Nat /\ partition'[t] \in Nat
      BY <1>4
    <3>2. i'[t] = startIndex'[t] /\ step'[t] = "scan"
      BY <1>5, <2>1
    <3> QED BY <3>1, <3>2
  <2>2. CASE t \in 0..(created - 1)
    BY <1>6, <1>a, <2>2
  <2> QED BY <1>7, <2>1, <2>2
<1>9. \A l : Seen(l)' = Seen(l)
  <2> TAKE l
  <2>1. ASSUME NEW p \in DOMAIN file
        PROVE  (\E t \in 0..created : startIndex'[t] <= p /\ p < i'[t])
                 <=> (\E t \in 0..(created - 1) : startIndex[t] <= p /\ p < i[t])
    <3>1. ~(startIndex'[created] <= p /\ p < i'[created])
      <4>1. p \in Nat
        BY SizeOfFile DEF CountControl, Assigned
      <4>2. startIndex'[created] \in Nat
        BY <1>4, <1>b
      <4> QED BY <1>5, <4>1, <4>2
    <3>2. \A t \in 0..(created - 1) : t \in 0..created
      BY <1>2
    <3> QED BY <1>6, <1>7, <3>1, <3>2, Zenon
  <2>2. Seen(l)' = {p \in DOMAIN file : file[p] = l /\ \E t \in 0..created :
                                           startIndex'[t] <= p /\ p < i'[t]}
    BY <1>1, <1>2 DEF Seen
  <2> QED BY <2>1, <2>2 DEF Seen
<1>10. \A l : InHand(l)' = InHand(l)
  BY <1>1 DEF InHand
<1>11. Conserved'
  BY <1>1, <1>9, <1>10 DEF Conserved, Counted, Letters
<1> QED BY <1>1, <1>8, <1>11 DEF Counted

(* What a batch adds to the local counts was not seen before.              *)
LEMMA ScanCounts ==
  ASSUME CountControl, Counted, Bounds, file_size <= IntMax, NEW t \in Threads, Scan(t)
  PROVE  Counted'
<1>1. /\ step[t] = "scan" /\ step' = [step EXCEPT ![t] = "lock"] /\ exit' = exit
      /\ i' = [i EXCEPT ![t] = BatchEnd(t)] /\ i[t] < Limit(t)
      /\ local' = [local EXCEPT ![t] =
           [l \in Letters |-> local[t][l] + Occurrences(l, i[t], BatchEnd(t) - 1)]]
      /\ UNCHANGED <<file, startIndex, partition, created, letter_counts>>
  BY DEF Scan, Moves, mainVars
<1>2. /\ created \in Nat /\ created <= num_threads /\ DOMAIN step = Threads /\ i \in [Threads -> Nat]
      /\ local \in [Threads -> [Letters -> 0..Batch]] /\ letter_counts \in [Letters -> Nat]
  <2>1. created \in Nat /\ created <= num_threads
    BY DEF CountControl, CountTypeOK
  <2>2. /\ i \in [Threads -> Nat] /\ local \in [Threads -> [Letters -> 0..Batch]]
        /\ letter_counts \in [Letters -> Nat]
    BY DEF CountControl, CountTypeOK
  <2> QED BY <2>1, <2>2, StepDomain, Zenon
<1>3. t \in 0..(created - 1)
  <2>1. ~(created <= t)
    BY <1>1 DEF CountControl, LocalCounts
  <2> QED BY <1>2, <2>1
<1>4. PICK b : b = BatchEnd(t)
  OBVIOUS
<1>5. /\ b \in Nat /\ i[t] < b /\ b <= i[t] + Batch /\ b <= startIndex[t] + partition[t]
      /\ startIndex[t] \in Nat /\ partition[t] \in Nat
  BY <1>1, <1>3, <1>4, BatchIsNext DEF Bounds
<1>6. /\ \A u \in 0..(created - 1) : startIndex[u] <= i[u] /\ i[u] <= startIndex[u] + partition[u]
      /\ \A u \in 0..(created - 1) : step[u] = "done" => i[u] = startIndex[u] + partition[u]
  BY DEF Counted, Positions
<1>7. /\ i'[t] = b /\ step'[t] = "lock" /\ i[t] \in Nat
      /\ \A u \in Threads \ {t} : i'[u] = i[u] /\ step'[u] = step[u]
  BY <1>1, <1>2, <1>4
<1>8. Positions'
  <2> SUFFICES ASSUME NEW u \in 0..(created - 1)
               PROVE  /\ startIndex[u] <= i'[u] /\ i'[u] <= startIndex[u] + partition[u]
                      /\ step'[u] = "done" => i'[u] = startIndex[u] + partition[u]
    BY <1>1 DEF Positions
  <2>1. u \in Threads
    BY <1>2
  <2>2. CASE u = t
    BY <1>5, <1>6, <1>7, <2>2
  <2>3. CASE u # t
    BY <1>6, <1>7, <2>1, <2>3
  <2> QED BY <2>2, <2>3
<1>9. ASSUME NEW l \in Letters
      PROVE  letter_counts'[l] + Cardinality(InHand(l)') = Cardinality(Seen(l)')
  <2> DEFINE Batched == {p \in i[t]..(b - 1) : p \in DOMAIN file /\ file[p] = l}
  <2>1. PICK k \in 0..Batch : k = Occurrences(l, i[t], b - 1)
    BY <1>2, <1>5, <1>7, OccurrencesInBatch
  <2>2. Cardinality(Batched) = k
    BY <2>1 DEF Occurrences
  <2>3. IsFiniteSet(Batched)
    <3>1. i[t] \in Int /\ b - 1 \in Int
      BY <1>5, <1>7
    <3>2. IsFiniteSet(i[t]..(b - 1)) /\ Batched \in SUBSET (i[t]..(b - 1))
      BY <3>1, FS_Interval
    <3> QED BY <3>2, FS_Subset
  <2>4. Cardinality(InHand(l)') = Cardinality(InHand(l)) + k
    <3>1. LocalOf(l) \in [Threads -> 0..Batch] /\ LocalOf(l)[t] = 0
      BY <1>1, <1>2 DEF LocalOf, CountControl, LocalCounts, Zero
    <3>2. LocalOf(l)' = [LocalOf(l) EXCEPT ![t] = k]
      <4>1. local'[t][l] = k /\ \A u \in Threads \ {t} : local'[u][l] = local[u][l]
        <5>1. local'[t] = [m \in Letters |-> local[t][m] + Occurrences(m, i[t], b - 1)]
          BY <1>1, <1>2, <1>4
        <5>2. local'[t][l] = local[t][l] + k
          BY <2>1, <5>1
        <5>3. local[t][l] = 0
          BY <3>1 DEF LocalOf
        <5> QED BY <1>1, <1>2, <5>2, <5>3
      <4> QED BY <3>1, <4>1 DEF LocalOf
    <3>3. PICK m : m = LocalOf(l)'
      OBVIOUS
    <3>4. Adds(LocalOf(l), m, t, k)
      BY <3>1, <3>2, <3>3 DEF Adds
    <3>5. Cardinality(Pairs(m)) = Cardinality(Pairs(LocalOf(l))) + k
      BY <3>4, PairsAdded, Zenon
    <3> QED BY <3>3, <3>5, HandIsPairs, HandAfter
  <2>5. Seen(l)' = Seen(l) \cup Batched
    <3>1. ASSUME NEW p \in DOMAIN file
          PROVE  (\E u \in 0..(created - 1) : startIndex[u] <= p /\ p < i'[u])
                   <=> \/ \E u \in 0..(created - 1) : startIndex[u] <= p /\ p < i[u]
                       \/ p \in i[t]..(b - 1)
      <4>1. p \in Nat
        BY SizeOfFile DEF CountControl, Assigned
      <4>2. ASSUME NEW u \in 0..(created - 1), u # t PROVE i'[u] = i[u]
        BY <1>2, <1>7, <4>2
      <4>3. p < b <=> p < i[t] \/ p \in i[t]..(b - 1)
        BY <1>5, <1>7, <4>1
      <4>4. p \in i[t]..(b - 1) => startIndex[t] <= p /\ p < b
        BY <1>3, <1>5, <1>6, <1>7, <4>1
      <4> QED BY <1>3, <1>7, <4>2, <4>3, <4>4
    <3>2. Seen(l)' = {p \in DOMAIN file : file[p] = l /\ \E u \in 0..(created - 1) :
                                             startIndex[u] <= p /\ p < i'[u]}
      BY <1>1 DEF Seen
    <3> QED BY <3>1, <3>2 DEF Seen
  <2>6. Seen(l) \cap Batched = {}
    <3> SUFFICES ASSUME NEW p \in Seen(l), p \in i[t]..(b - 1) PROVE FALSE
      OBVIOUS
    <3>1. PICK u \in 0..(created - 1) : startIndex[u] <= p /\ p < i[u]
      BY DEF Seen
    <3>2. p \in Nat /\ u \in Threads /\ startIndex[u] \in Nat /\ partition[u] \in Nat /\ i[u] \in Nat
      <4>1. p \in Nat
        BY SizeOfFile DEF CountControl, Assigned, Seen
      <4>2. u \in Threads
        BY <1>2
      <4>3. startIndex[u] \in Nat /\ partition[u] \in Nat
        BY DEF Bounds
      <4> QED BY <1>2, <4>1, <4>2, <4>3
    <3>3. u # t
      BY <1>7, <3>1, <3>2
    <3>4. p \in Part(u)
      <4>1. i[u] <= startIndex[u] + partition[u]
        BY <1>6
      <4> QED BY <3>1, <3>2, <4>1 DEF Part
    <3>5. p \in Part(t)
      <4>1. startIndex[t] <= i[t]
        BY <1>3, <1>6
      <4>2. startIndex[t] <= p /\ p < startIndex[t] + partition[t]
        BY <1>5, <1>7, <3>2, <4>1
      <4>3. startIndex[t] \in Int /\ partition[t] \in Int
        BY <1>5, <1>7
      <4> QED BY <3>2, <4>2, <4>3 DEF Part
    <3> QED BY <1>3, <3>3, <3>4, <3>5 DEF Bounds
  <2>7. Cardinality(Seen(l)') = Cardinality(Seen(l)) + k
    <3>1. file \in Files
      BY DEF CountControl, Assigned
    <3>2. IsFiniteSet(Seen(l)) /\ Cardinality(Seen(l)) \in Nat
      BY <3>1, SeenFinite, Zenon
    <3>3. Cardinality(Seen(l) \cup Batched) = Cardinality(Seen(l)) + Cardinality(Batched)
      BY <2>3, <2>6, <3>2, DisjointUnion, Zenon
    <3>4. Cardinality(Seen(l)') = Cardinality(Seen(l)) + Cardinality(Batched)
      BY <2>5, <3>3, Zenon
    <3> QED BY <2>1, <2>2, <3>2, <3>4
  <2>8. letter_counts[l] + Cardinality(InHand(l)) = Cardinality(Seen(l))
    BY DEF Counted, Conserved
  <2>9. Cardinality(InHand(l)) \in Nat /\ letter_counts[l] \in Nat /\ letter_counts' = letter_counts
    BY <1>1, <1>2, HandIsPairs, PairsNat
  <2> QED BY <2>1, <2>4, <2>7, <2>8, <2>9
<1>10. Conserved'
  BY <1>9 DEF Conserved, Letters
<1> QED BY <1>1, <1>8, <1>10 DEF Counted

(* An update moves a count from the thread's letters to all threads'.      *)
LEMMA WriteCounts ==
  ASSUME CountControl, Counted, NEW t \in Threads, WriteCount(t)
  PROVE  Conserved'
<1>1. /\ step[t] = "store"
      /\ letter_counts' = [letter_counts EXCEPT ![g[t]] = sum[t]]
      /\ local' = [local EXCEPT ![t][g[t]] = 0]
      /\ UNCHANGED <<file, startIndex, partition, created, i>>
  BY DEF WriteCount, Moves, mainVars
<1>2. /\ g[t] \in Letters /\ sum[t] = letter_counts[g[t]] + local[t][g[t]]
      /\ local \in [Threads -> [Letters -> 0..Batch]] /\ letter_counts \in [Letters -> Nat]
  BY <1>1 DEF CountControl, CountTypeOK, LocalCounts
<1>3. \A l : Seen(l)' = Seen(l)
  BY <1>1 DEF Seen
<1>4. ASSUME NEW l \in Letters
      PROVE  letter_counts'[l] + Cardinality(InHand(l)') = Cardinality(Seen(l))
  <2>1. letter_counts[l] + Cardinality(InHand(l)) = Cardinality(Seen(l))
    BY DEF Counted, Conserved
  <2>2. local' = [local EXCEPT ![t] = [local[t] EXCEPT ![g[t]] = 0]]
    BY <1>1
  <2>3. CASE l # g[t]
    <3>1. LocalOf(l)' = LocalOf(l) /\ letter_counts'[l] = letter_counts[l]
      BY <1>1, <1>2, <2>2, <2>3 DEF LocalOf
    <3> QED BY <2>1, <3>1, HandIsPairs, HandAfter
  <2>4. CASE l = g[t]
    <3>1. PICK k \in 0..Batch : k = local[t][l]
      BY <1>2
    <3>2. LocalOf(l)' \in [Threads -> 0..Batch] /\ LocalOf(l)'[t] = 0
      <4>1. 0 \in 0..Batch
        OBVIOUS
      <4> QED BY <1>2, <2>2, <2>4, <4>1 DEF LocalOf
    <3>3. LocalOf(l) = [LocalOf(l)' EXCEPT ![t] = k]
      <4>1. \A u \in Threads \ {t} : local'[u] = local[u]
        BY <1>2, <2>2
      <4> QED BY <3>1, <4>1 DEF LocalOf
    <3>a. PICK n : n = LocalOf(l)'
      OBVIOUS
    <3>b. Adds(n, LocalOf(l), t, k)
      BY <3>2, <3>3, <3>a DEF Adds
    <3>c. Cardinality(Pairs(LocalOf(l))) = Cardinality(Pairs(n)) + k
      BY <3>b, PairsAdded, Zenon
    <3>4. Cardinality(Pairs(LocalOf(l))) = Cardinality(Pairs(LocalOf(l)')) + k
      BY <3>a, <3>c
    <3>5. letter_counts'[l] = letter_counts[l] + k /\ letter_counts[l] \in Nat
      BY <1>1, <1>2, <2>4, <3>1
    <3>6. Cardinality(Pairs(LocalOf(l)')) \in Nat
      BY PairsNat
    <3> QED BY <2>1, <3>1, <3>4, <3>5, <3>6, HandIsPairs, HandAfter
  <2> QED BY <2>3, <2>4
<1> QED BY <1>3, <1>4 DEF Conserved, Letters

LEMMA CountNextInv == CountInv /\ Bounds /\ Bounds' /\ [CountNext]_count_vars => CountInv'
<1> SUFFICES ASSUME CountInv, Bounds, Bounds', [CountNext]_count_vars PROVE CountInv'
  OBVIOUS
<1>1. CountControl /\ CountControl'
  BY ControlNext DEF CountInv
<1>2. file' = file
  BY DEF CountNext, Main, Create, PrintCounts, CountStep, Scan, Fault, Exit, Lock, ReadCount,
         WriteCount, Unlock, mainVars, count_vars
<1>3. SUFFICES ASSUME file_size <= IntMax PROVE Counted'
  BY <1>1, <1>2 DEF CountInv, Counted, file_size, IntMax
<1>4. Counted
  BY <1>3 DEF CountInv, Counted
<1>5. CASE Create
  BY <1>1, <1>3, <1>4, <1>5, CreateCounts
<1>6. CASE PrintCounts \/ UNCHANGED count_vars
  <2>1. UNCHANGED <<startIndex, partition, created, step, i, local, letter_counts>> /\ exit' # "segfault"
    BY <1>4, <1>6 DEF PrintCounts, threadVars, mainVars, count_vars, Counted
  <2> QED BY <1>2, <1>4, <2>1, SameCounts DEF Counted, Positions
<1>7. ASSUME NEW t \in Threads, CountStep(t) PROVE Counted'
  <2>1. CASE Scan(t)
    BY <1>1, <1>3, <1>4, <2>1, ScanCounts
  <2>2. ~Fault(t)
    <3> SUFFICES ASSUME Fault(t) PROVE FALSE
      OBVIOUS
    <3>1. step[t] = "scan" /\ i[t] < Limit(t) /\ BatchEnd(t) > file_size
      BY DEF Fault
    <3>2. ~(created <= t) /\ created \in Nat
      BY <1>1, <3>1 DEF CountControl, LocalCounts, CountTypeOK
    <3>3. t \in 0..(created - 1)
      BY <3>2
    <3>4. BatchEnd(t) \in Nat /\ BatchEnd(t) <= Limit(t)
      BY <1>1, <3>1, BatchIsNext
    <3>5. Limit(t) \in Nat /\ Limit(t) <= file_size /\ file_size \in Nat
      <4>1. /\ startIndex[t] \in Nat /\ partition[t] \in Nat
            /\ startIndex[t] + partition[t] <= file_size
            /\ Limit(t) = startIndex[t] + partition[t]
        BY <1>3, <3>3 DEF Bounds
      <4>2. file_size \in Nat
        BY <1>1, SizeOfFile DEF CountControl, Assigned
      <4> QED BY <4>1, <4>2
    <3> QED BY <3>1, <3>4, <3>5
  <2>3. CASE Exit(t)
    <3>1. /\ step[t] = "scan" /\ step' = [step EXCEPT ![t] = "done"] /\ exit' = exit /\ i[t] >= Limit(t)
          /\ UNCHANGED <<startIndex, partition, created, i, local, letter_counts>>
      BY <2>3 DEF Exit, Moves, mainVars
    <3>2. \A u \in 0..(created - 1) : startIndex[u] <= i[u] /\ i[u] <= startIndex[u] + partition[u]
      BY <1>4 DEF Counted, Positions
    <3>3. /\ created \in Nat /\ created <= num_threads /\ ~(created <= t)
          /\ DOMAIN step = Threads /\ i \in [Threads -> Nat]
      <4>1. created \in Nat /\ created <= num_threads /\ i \in [Threads -> Nat]
        BY <1>1, CreatedType
      <4>2. ~(created <= t)
        BY <1>1, <3>1 DEF CountControl, LocalCounts
      <4> QED BY <1>1, <4>1, <4>2, StepDomain, Zenon
    <3>4. t \in 0..(created - 1)
      BY <3>3
    <3>5. i[t] = startIndex[t] + partition[t]
      <4>1. Limit(t) = startIndex[t] + partition[t] /\ startIndex[t] \in Nat /\ partition[t] \in Nat
        BY <1>3, <3>4 DEF Bounds
      <4>2. i[t] \in Nat /\ i[t] <= startIndex[t] + partition[t]
        BY <3>2, <3>3, <3>4
      <4>3. i[t] >= startIndex[t] + partition[t]
        BY <3>1, <4>1
      <4> QED BY <4>1, <4>2, <4>3
    <3>6. \A u \in 0..(created - 1) : u # t => step'[u] = step[u]
      BY <3>1, <3>3
    <3>7. Positions'
      BY <1>4, <3>1, <3>2, <3>5, <3>6 DEF Counted, Positions
    <3> QED BY <1>2, <1>4, <3>1, <3>7, SameCounts DEF Counted
  <2>4. CASE Lock(t) \/ ReadCount(t) \/ Unlock(t) \/ WriteCount(t)
    <3>1. /\ step[t] # "done" /\ (\A u \in Threads : step'[u] = "done" => step[u] = "done") /\ exit' = exit
          /\ UNCHANGED <<startIndex, partition, created, i>>
          /\ WriteCount(t) \/ UNCHANGED <<local, letter_counts>>
      <4>1. DOMAIN step = Threads
        BY <1>1, StepDomain
      <4> QED BY <2>4, <4>1 DEF Lock, ReadCount, Unlock, WriteCount, Moves, mainVars
    <3>2. 0..(created - 1) \subseteq Threads
      BY <1>1 DEF CountControl, CountTypeOK
    <3>3. Positions'
      BY <1>4, <3>1, <3>2 DEF Counted, Positions
    <3>4. Conserved'
      BY <1>1, <1>2, <1>4, <3>1, SameCounts, WriteCounts DEF Counted
    <3> QED BY <1>4, <3>1, <3>3, <3>4 DEF Counted
  <2> QED BY <1>7, <2>1, <2>2, <2>3, <2>4 DEF CountStep
<1> QED BY <1>5, <1>6, <1>7 DEF CountNext, Main

LEMMA CountInitInv == CountInit => CountInv
<1> SUFFICES ASSUME CountInit PROVE CountInv
  OBVIOUS
<1>1. CountControl /\ file \in Files
  BY ControlInit DEF CountControl, CountTypeOK
<1>2. exit # "segfault" /\ Positions
  BY DEF CountInit, Positions
<1>3. \A l \in Letters : InHand(l) = {} /\ Seen(l) = {}
  BY DEF CountInit, InHand, Seen, Zero
<1>4. Conserved
  <2> SUFFICES ASSUME NEW l \in Letters
               PROVE  letter_counts[l] + Cardinality(InHand(l)) = Cardinality(Seen(l))
    BY DEF Conserved
  <2>1. letter_counts[l] = 0
    BY DEF CountInit, Zero
  <2>2. Cardinality(InHand(l)) = 0 /\ Cardinality(Seen(l)) = 0
    BY <1>3, FS_EmptySet
  <2> QED BY <2>1, <2>2
<1> QED BY <1>1, <1>2, <1>4 DEF CountInv

(* When the threads have read their parts, every letter was seen.          *)
LEMMA AllCounted == CountInv /\ Bounds => EveryByteOnce
<1> SUFFICES ASSUME CountInv, Bounds, file_size <= IntMax, exit = "printed", NEW l \in Letters
             PROVE  letter_counts[l] = Occurrences(l, 0, file_size - 1)
  BY DEF CountInv, Bounds, EveryByteOnce
<1>1. created = num_threads /\ \A t \in Threads : step[t] = "done" /\ local[t] = Zero
  BY DEF CountInv, CountControl, Printed, LocalCounts
<1>2. InHand(l) = {}
  BY <1>1 DEF InHand, Zero
<1>3. DOMAIN file = 0..(file_size - 1) /\ UNION {Part(t) : t \in Threads} = DOMAIN file
  BY <1>1, SizeOfFile DEF Bounds, CountInv, CountControl, Assigned
<1>4. Seen(l) = {p \in 0..(file_size - 1) : p \in DOMAIN file /\ file[p] = l}
  <2>1. ASSUME NEW p \in DOMAIN file PROVE \E t \in 0..(created - 1) : startIndex[t] <= p /\ p < i[t]
    <3>1. PICK t \in Threads : p \in Part(t)
      BY <1>3
    <3>2. t \in 0..(created - 1)
      BY <1>1
    <3>3. i[t] = startIndex[t] + partition[t] /\ startIndex[t] \in Nat /\ partition[t] \in Nat
      BY <1>1, <3>2 DEF CountInv, Positions, Bounds
    <3> QED BY <3>1, <3>2, <3>3 DEF Part
  <2> QED BY <1>3, <2>1 DEF Seen
<1>5. letter_counts[l] + Cardinality(InHand(l)) = Cardinality(Seen(l)) /\ letter_counts[l] \in Nat
  BY DEF CountInv, Conserved, CountControl, CountTypeOK
<1> QED BY <1>2, <1>4, <1>5, FS_EmptySet DEF Occurrences

LEMMA CountInvariant == CountSpec => [](CountInv /\ Bounds)
<1>1. CountSpec => []Bounds
  BY AssignedInit, AssignedNext, BoundsHold, PTL DEF CountSpec
<1> QED BY <1>1, CountInitInv, CountNextInv, PTL DEF CountSpec

(* Every variable of lettercount.c keeps its type, for any file.           *)
THEOREM CountTypes == CountSpec => []CountTypeOK
<1>1. CountInv => CountTypeOK
  BY DEF CountInv, CountControl
<1> QED BY <1>1, CountInvariant, PTL

(* However long the file, up to the largest int: the parts that            *)
(* count_letters hands out overlap nowhere and miss no byte                *)
(* (lettercount.c:82-109), no thread reads past the file's end, no update  *)
(* of letter_counts is lost, and what is printed are the file's letters.   *)
THEOREM EveryLetterCounted == CountSpec => []EveryByteOnce
BY CountInvariant, AllCounted, PTL


HIDE CountAssumption DEF Threads
-----------------------------------------------------------------------------
(* The forms.  What keeps them alive is that ui_running only changes under *)
(* the mutex, and only in the UI thread.                                   *)
Displaying == {"test", "display_form", "printf", "display_unlock"}
Exiting == {"stop", "free", "exit_unlock"}
FromRun == {"exit", "callback_done"} \cup Exiting

(* How often a thread has taken the mutex: ui_run once while it handles a  *)
(* key, and ui_display or ui_exit once more.                               *)
InRun(t) == t = UIThread /\ (in_callback # "no" \/ ui_pc[t] \in {"input_form", "unlock"})
InCall(t) == ui_pc[t] \in Displaying \cup Exiting
Depth(t) == (IF InRun(t) THEN 1 ELSE 0) + (IF InCall(t) THEN 1 ELSE 0)

Exclusion == /\ \A t \in Users : Depth(t) > 0 <=> ui_lock = t
             /\ ui_depth = IF ui_lock = NOBODY THEN 0 ELSE Depth(ui_lock)

(* Where each thread can be.                                               *)
Places == /\ \A t \in Receivers : ui_pc[t] \in Displaying \cup {"receive", "display"}
          /\ ui_pc[UIThread] # "receive"
          /\ ui_pc[UIThread] \in FromRun => in_callback # "no"
          /\ ui_pc[UIThread] \in {"run", "key", "input_form", "unlock", "returned"}
               => in_callback = "no"

(* Who may rely on ui_running, and that forms are freed only after it was  *)
(* set to false.                                                           *)
Running == /\ \A t \in Users : ui_pc[t] = "display_form" => ui_running
           /\ ui_pc[UIThread] \in {"key", "input_form", "exit"} => ui_running
           /\ ui_pc[UIThread] = "free" => ~ui_running
           /\ freed # {} => ~ui_running

UIInv == UITypeOK /\ Exclusion /\ Places /\ Running
-----------------------------------------------------------------------------
USE UIAssumption DEF Users, Displaying, Exiting, FromRun

LEMMA UIInitInv == UIInit => UIInv
<1> SUFFICES ASSUME UIInit PROVE UIInv
  OBVIOUS
<1>1. UITypeOK
  BY DEF UIInit, UITypeOK
<1>2. Places
  BY DEF UIInit, Places
<1>3. Running
  BY DEF UIInit, Running
<1>4. Exclusion
  <2>1. ASSUME NEW t \in Users PROVE Depth(t) = 0 /\ t # NOBODY
    BY DEF UIInit, Depth, InRun, InCall
  <2> QED BY <2>1 DEF UIInit, Exclusion
<1> QED BY <1>1, <1>2, <1>3, <1>4 DEF UIInv

(* No two threads hold the mutex.                                          *)
LEMMA Alone ==
  ASSUME Exclusion, NEW t \in Users, NEW u \in Users, Depth(t) > 0, Depth(u) > 0
  PROVE  t = u
BY DEF Exclusion

LEMMA TypeStep == ASSUME UIInv, [UINext]_ui_vars PROVE UITypeOK'
<1> USE DEF UIInv, UITypeOK, Move, mutex
<1>1. ASSUME NEW t \in Users, DisplayLock(t) PROVE UITypeOK'
  BY <1>1 DEF DisplayLock, Enter, Exclusion, Depth, InRun, InCall, Places
<1>2. ASSUME NEW t \in Users, DisplayTest(t) PROVE UITypeOK'
  BY <1>2 DEF DisplayTest, Go
<1>3. ASSUME NEW t \in Users, DisplayShow(t) PROVE UITypeOK'
  BY <1>3 DEF DisplayShow, Go
<1>4. ASSUME NEW t \in Users, DisplayUnlock(t) PROVE UITypeOK'
  BY <1>4 DEF DisplayUnlock, Leave, Exclusion, Depth, InRun, InCall, Places
<1>5. ASSUME NEW t \in Users, Receive(t) PROVE UITypeOK'
  BY <1>5 DEF Receive, Go
<1>6. CASE Return \/ Key \/ Edit
  BY <1>6 DEF Return, Key, Edit, Go
<1>7. CASE KeyLock
  BY <1>7 DEF KeyLock, Enter, Edited, Exclusion, Depth, InRun, InCall, Places
<1>8. CASE CallbackDone
  BY <1>8 DEF CallbackDone
<1>9. CASE KeyUnlock
  BY <1>9 DEF KeyUnlock, Leave, Exclusion, Depth, InRun, InCall, Places
<1>10. CASE ExitLock
  BY <1>10 DEF ExitLock, Enter, Exclusion, Depth, InRun, InCall, Places
<1>11. CASE ExitStop \/ ExitFree
  BY <1>11 DEF ExitStop, ExitFree
<1>12. CASE ExitUnlock
  BY <1>12 DEF ExitUnlock, Leave, Exclusion, Depth, InRun, InCall, Places
<1>13. CASE UNCHANGED ui_vars
  BY <1>13 DEF ui_vars
<1> QED BY <1>1, <1>2, <1>3, <1>4, <1>5, <1>6, <1>7, <1>8, <1>9, <1>10, <1>11, <1>12, <1>13
        DEF UINext, Display, Run

LEMMA PlacesStep == ASSUME UIInv, [UINext]_ui_vars PROVE Places'
<1> USE DEF UIInv, UITypeOK, Places, Move, mutex
<1>1. ASSUME NEW t \in Users, Display(t) \/ Receive(t) PROVE Places'
  BY <1>1 DEF Display, DisplayLock, DisplayTest, DisplayShow, DisplayUnlock, Receive, Go
<1>2. CASE Run \/ Key
  BY <1>2 DEF Run, Key, Return, KeyLock, Edited, Edit, CallbackDone, KeyUnlock,
              ExitLock, ExitStop, ExitFree, ExitUnlock, Go
<1>3. CASE UNCHANGED ui_vars
  BY <1>3 DEF ui_vars
<1> QED BY <1>1, <1>2, <1>3 DEF UINext

LEMMA RunningStep == ASSUME UIInv, [UINext]_ui_vars PROVE Running'
<1> USE DEF UIInv, UITypeOK, Running, Move, mutex
<1>1. ASSUME NEW t \in Users, Display(t) \/ Receive(t) PROVE Running'
  BY <1>1 DEF Display, DisplayLock, DisplayTest, DisplayShow, DisplayUnlock, Receive, Go
<1>2. CASE Run \/ Key
  <2>1. CASE ExitStop
    <3>1. Depth(UIThread) > 0
      BY <2>1 DEF ExitStop, Depth, InRun, InCall
    <3>2. \A t \in Receivers : ui_pc[t] # "display_form"
      BY <3>1, Alone DEF Depth, InRun, InCall
    <3> QED BY <2>1, <3>2 DEF ExitStop
  <2>2. CASE ExitFree
    BY <2>2 DEF ExitFree
  <2>3. CASE Return \/ Key \/ KeyLock \/ Edit \/ CallbackDone \/ KeyUnlock
             \/ ExitLock \/ ExitUnlock
    BY <2>3 DEF Return, Key, KeyLock, Edited, Edit, CallbackDone, KeyUnlock,
                ExitLock, ExitUnlock, Go
  <2> QED BY <1>2, <2>1, <2>2, <2>3 DEF Run
<1>3. CASE UNCHANGED ui_vars
  BY <1>3 DEF ui_vars
<1> QED BY <1>1, <1>2, <1>3 DEF UINext

(* A step of thread t that takes the mutex, leaves it, or does neither.    *)
LEMMA ExclusionStep == ASSUME UIInv, [UINext]_ui_vars PROVE Exclusion'
<1> USE DEF UIInv, UITypeOK, Exclusion, Depth, InRun, InCall, Places, Move, mutex
<1>1. ASSUME NEW t \in Users, DisplayLock(t) PROVE Exclusion'
  BY <1>1 DEF DisplayLock, Enter
<1>2. ASSUME NEW t \in Users, DisplayTest(t) PROVE Exclusion'
  BY <1>2 DEF DisplayTest, Go
<1>3. ASSUME NEW t \in Users, DisplayShow(t) PROVE Exclusion'
  BY <1>3 DEF DisplayShow, Go
<1>4. ASSUME NEW t \in Users, DisplayUnlock(t) PROVE Exclusion'
  BY <1>4 DEF DisplayUnlock, Leave
<1>5. ASSUME NEW t \in Users, Receive(t) PROVE Exclusion'
  BY <1>5 DEF Receive, Go
<1>6. CASE Return \/ Key \/ Edit
  BY <1>6 DEF Return, Key, Edit, Go
<1>7. CASE KeyLock
  BY <1>7 DEF KeyLock, Enter, Edited
<1>8. CASE CallbackDone
  BY <1>8 DEF CallbackDone
<1>9. CASE KeyUnlock
  BY <1>9 DEF KeyUnlock, Leave
<1>10. CASE ExitLock
  BY <1>10 DEF ExitLock, Enter
<1>11. CASE ExitStop \/ ExitFree
  BY <1>11 DEF ExitStop, ExitFree
<1>12. CASE ExitUnlock
  BY <1>12 DEF ExitUnlock, Leave
<1>13. CASE UNCHANGED ui_vars
  BY <1>13 DEF ui_vars
<1> QED BY <1>1, <1>2, <1>3, <1>4, <1>5, <1>6, <1>7, <1>8, <1>9, <1>10, <1>11, <1>12, <1>13
        DEF UINext, Display, Run
-----------------------------------------------------------------------------
(* The mutex, the places of the threads and ui_running agree in every      *)
(* reachable state of ui.c and its callers.                                *)
THEOREM UIInvariant == UISpec => []UIInv
<1>1. UIInv /\ [UINext]_ui_vars => UIInv'
  BY TypeStep, ExclusionStep, PlacesStep, RunningStep DEF UIInv
<1> QED BY <1>1, UIInitInv, PTL DEF UISpec

(* For any number of receivers, neither a thread that waited for the mutex *)
(* while the user quit nor ui_run itself uses a form that ui_exit freed.   *)
THEOREM UIFormsLive == UISpec => []FormsLive
<1>1. UIInv => FormsLive
  BY DEF UIInv, UITypeOK, Running, FormsLive
<1> QED BY <1>1, UIInvariant, PTL

HIDE UIAssumption DEF Users, Displaying, Exiting, FromRun
-----------------------------------------------------------------------------
(* ChatStream, for any lengths and any number of messages: the bytes that  *)
(* are written have places, message n behind place start[n], and the reader *)
(* has taken those up to Taken(start).                                     *)
Lengths == UserLengths \X MessageLengths
StreamBytes == {"len", "user", "message"} \X Nat \X Nat
Coming == arrived \o in_flight

ByteAt(sizes, n, q) == CASE q = 1 -> <<"len", n, sizes[n][2]>>
                         [] q = 2 -> <<"len", n, sizes[n][1]>>
                         [] q > 2 /\ q <= 2 + sizes[n][1] -> <<"user", n, q - 2>>
                         [] q > 2 + sizes[n][1] -> <<"message", n, q - (2 + sizes[n][1])>>

Layout(sizes, start) ==
  /\ start \in [1..(Len(sizes) + 1) -> Nat] /\ start[1] = 0
  /\ \A n \in 1..Len(sizes) : start[n + 1] = start[n] + (2 + sizes[n][1]) + sizes[n][2]
  /\ \A j, k \in 1..(Len(sizes) + 1) : j <= k => start[j] <= start[k]

(* The bytes of a sequence whose first has place from + 1.                 *)
Placed(sizes, start, from, bytes) ==
  \A n \in 1..Len(sizes), k \in 1..Len(bytes) :
    start[n] < from + k /\ from + k <= start[n + 1] => bytes[k] = ByteAt(sizes, n, (from + k) - start[n])

Turn == Len(displayed) + 1
Taken(start) == IF reader = "header" THEN start[Turn]
                ELSE IF reader = "user" THEN start[Turn] + 2
                ELSE start[Turn] + (2 + forwarded[Turn][1])
Written(start) == IF writer = "idle" THEN start[N + 1]
                  ELSE IF writer = "user" THEN start[N] + 2
                  ELSE start[N] + (2 + forwarded[N][1])

Tracking(start) ==
  /\ Layout(forwarded, start)
  /\ Taken(start) + Len(Coming) <= Written(start)
  /\ line = "up" => Taken(start) + Len(Coming) = Written(start)
  /\ Placed(forwarded, start, Taken(start), Coming)

Reading ==
  /\ reader # "header" =>
       Turn <= N /\ header = [msg_len |-> forwarded[Turn][2], usr_len |-> forwarded[Turn][1]]
  /\ reader = "message" => usr = Bytes("user", Turn, forwarded[Turn][1])

StreamTypes ==
  /\ forwarded \in Seq(Lengths) /\ writer \in {"idle", "user", "message"}
  /\ writer # "idle" => N # 0
  /\ in_flight \in Seq(StreamBytes) /\ arrived \in Seq(StreamBytes)
  /\ line \in {"up", "cut"} /\ (line = "cut" => in_flight = <<>>)
  /\ reader \in {"header", "user", "message", "ended"}
  /\ displayed \in Seq(Seq(StreamBytes) \X Seq(StreamBytes)) /\ short \in BOOLEAN

Whole == /\ Len(displayed) <= N
         /\ \A n \in 1..Len(displayed) :
              displayed[n] = <<Bytes("user", n, forwarded[n][1]),
                               Bytes("message", n, forwarded[n][2])>>

(* Nothing is known once a read was short.                                 *)
StreamInv == short \/ /\ StreamTypes /\ Whole
                      /\ reader = "ended" \/ (Reading /\ \E start : Tracking(start))

LEMMA LengthsPositive ==
  ASSUME NEW sizes \in Seq(Lengths), NEW n \in 1..Len(sizes)
  PROVE  sizes[n][1] \in Nat \ {0} /\ sizes[n][2] \in Nat \ {0}
<1>1. sizes[n] \in Lengths
  OBVIOUS
<1> QED BY <1>1, StreamAssumption DEF StreamAssumption, Lengths

(* Bytes that arrive only change sides; bytes that are read leave at the   *)
(* front.                                                                  *)
LEMMA Joined ==
  ASSUME NEW B, NEW a \in Seq(B), NEW f \in Seq(B)
  PROVE  /\ a \o f \in Seq(B) /\ Len(a \o f) = Len(a) + Len(f)
         /\ Len(a) \in Nat /\ Len(f) \in Nat
         /\ \A j \in 1..(Len(a) + Len(f)) : (a \o f)[j] = IF j <= Len(a) THEN a[j] ELSE f[j - Len(a)]
OBVIOUS

LEMMA JoinedTwice ==
  ASSUME NEW B, NEW a \in Seq(B), NEW f \in Seq(B), NEW b \in Seq(B)
  PROVE  a \o (f \o b) = (a \o f) \o b
OBVIOUS

LEMMA Cut2 ==
  ASSUME NEW B, NEW f \in Seq(B), NEW k \in 0..Len(f)
  PROVE  /\ SubSeq(f, 1, k) \in Seq(B) /\ Len(SubSeq(f, 1, k)) = k
         /\ \A j \in 1..k : SubSeq(f, 1, k)[j] = f[j]
         /\ SubSeq(f, k + 1, Len(f)) \in Seq(B) /\ Len(SubSeq(f, k + 1, Len(f))) = Len(f) - k
         /\ \A j \in 1..(Len(f) - k) : SubSeq(f, k + 1, Len(f))[j] = f[k + j]
OBVIOUS

LEMMA ArriveConcat ==
  ASSUME NEW B, NEW a \in Seq(B), NEW f \in Seq(B), NEW k \in 1..Len(f)
  PROVE  (a \o SubSeq(f, 1, k)) \o SubSeq(f, k + 1, Len(f)) = a \o f
<1>1. PICK e, h : e = SubSeq(f, 1, k) /\ h = SubSeq(f, k + 1, Len(f))
  OBVIOUS
<1>2. /\ e \in Seq(B) /\ Len(e) = k /\ \A j \in 1..k : e[j] = f[j]
      /\ h \in Seq(B) /\ Len(h) = Len(f) - k /\ \A j \in 1..(Len(f) - k) : h[j] = f[k + j]
  <2>1. k \in 0..Len(f)
    OBVIOUS
  <2> QED BY <1>1, <2>1, Cut2
<1>3. PICK b : b = a \o e
  OBVIOUS
<1>4. PICK u, v : u = b \o h /\ v = a \o f
  OBVIOUS
<1>5. /\ b \in Seq(B) /\ Len(b) = Len(a) + k /\ Len(a) \in Nat /\ Len(f) \in Nat
      /\ \A j \in 1..(Len(a) + k) : b[j] = IF j <= Len(a) THEN a[j] ELSE f[j - Len(a)]
  <2>1. e \in Seq(B) /\ Len(e) = k
    BY <1>2
  <2>2. /\ b \in Seq(B) /\ Len(b) = Len(a) + Len(e) /\ Len(a) \in Nat
        /\ \A j \in 1..(Len(a) + Len(e)) : b[j] = IF j <= Len(a) THEN a[j] ELSE e[j - Len(a)]
    BY <1>3, <2>1, Joined
  <2>3. Len(f) \in Nat
    OBVIOUS
  <2>4. ASSUME NEW j \in 1..(Len(a) + k), ~(j <= Len(a)) PROVE b[j] = f[j - Len(a)]
    <3>1. j - Len(a) \in 1..k
      BY <2>2, <2>4
    <3> QED BY <1>2, <2>1, <2>2, <2>4, <3>1
  <2> QED BY <2>1, <2>2, <2>3, <2>4
<1>6. /\ v \in Seq(B) /\ Len(v) = Len(a) + Len(f)
      /\ \A j \in 1..(Len(a) + Len(f)) : v[j] = IF j <= Len(a) THEN a[j] ELSE f[j - Len(a)]
  BY <1>4, Joined
<1>7. /\ u \in Seq(B) /\ Len(u) = Len(a) + Len(f)
      /\ \A j \in 1..(Len(a) + Len(f)) : u[j] = IF j <= Len(b) THEN b[j] ELSE h[j - Len(b)]
  <2>1. /\ u \in Seq(B) /\ Len(u) = Len(b) + Len(h)
        /\ \A j \in 1..(Len(b) + Len(h)) : u[j] = IF j <= Len(b) THEN b[j] ELSE h[j - Len(b)]
    <3>1. b \in Seq(B) /\ h \in Seq(B)
      BY <1>2, <1>5
    <3> QED BY <1>4, <3>1, Joined
  <2>2. Len(b) + Len(h) = Len(a) + Len(f)
    BY <1>2, <1>5
  <2> QED BY <2>1, <2>2
<1>8. ASSUME NEW j \in 1..(Len(a) + Len(f)) PROVE u[j] = v[j]
  <2>1. CASE j <= Len(a) + k
    <3>1. j \in 1..(Len(a) + k) /\ u[j] = b[j]
      BY <1>5, <1>7, <2>1
    <3> QED BY <1>5, <1>6, <3>1
  <2>2. CASE j > Len(a) + k
    <3>1. j - (Len(a) + k) \in 1..(Len(f) - k) /\ k + (j - (Len(a) + k)) = j - Len(a) /\ ~(j <= Len(a))
      BY <1>5, <2>2
    <3>2. u[j] = f[j - Len(a)]
      <4>1. u[j] = h[j - (Len(a) + k)]
        BY <1>5, <1>7, <2>2
      <4> QED BY <1>2, <3>1, <4>1
    <3> QED BY <1>6, <3>1, <3>2
  <2> QED BY <1>5, <2>1, <2>2
<1>9. u = v
  BY <1>6, <1>7, <1>8
<1> QED BY <1>1, <1>3, <1>4, <1>9

Starts(p, a) == \A j \in 1..Len(a) : p[j] = a[j]
Behind(p, d, q) == /\ Len(p) \in Nat /\ d <= Len(p) /\ Len(q) = Len(p) - d
                   /\ \A j \in 1..(Len(p) - d) : q[j] = p[d + j]

LEMMA TakeConcat ==
  ASSUME NEW B, NEW a \in Seq(B), NEW f \in Seq(B), NEW r \in 0..Len(a)
  PROVE  \A p, e, q :
           p = a \o f /\ e = SubSeq(a, r + 1, Len(a)) /\ q = e \o f =>
             e \in Seq(B) /\ Behind(p, r, q) /\ Starts(p, a)
<1>1. SUFFICES ASSUME NEW p, NEW e, NEW q, p = a \o f /\ e = SubSeq(a, r + 1, Len(a)) /\ q = e \o f
               PROVE  e \in Seq(B) /\ Behind(p, r, q) /\ Starts(p, a)
  OBVIOUS
<1>2. e \in Seq(B) /\ Len(e) = Len(a) - r /\ \A j \in 1..(Len(a) - r) : e[j] = a[r + j]
  BY <1>1, Cut2
<1>3. /\ Len(p) = Len(a) + Len(f) /\ Len(a) \in Nat /\ Len(f) \in Nat
      /\ \A j \in 1..(Len(a) + Len(f)) : p[j] = IF j <= Len(a) THEN a[j] ELSE f[j - Len(a)]
  BY <1>1, Joined
<1>4. /\ Len(q) = Len(e) + Len(f)
      /\ \A j \in 1..(Len(e) + Len(f)) : q[j] = IF j <= Len(e) THEN e[j] ELSE f[j - Len(e)]
  <2>1. e \in Seq(B)
    BY <1>2
  <2> QED BY <1>1, <2>1, Joined
<1>5. Len(p) \in Nat /\ r <= Len(p) /\ Len(q) = Len(p) - r
  BY <1>2, <1>3, <1>4
<1>6. ASSUME NEW j \in 1..(Len(p) - r) PROVE q[j] = p[r + j]
  <2>1. r + j \in 1..(Len(a) + Len(f)) /\ j \in 1..(Len(e) + Len(f))
    BY <1>2, <1>3
  <2>2. CASE j <= Len(a) - r
    <3>1. j \in 1..(Len(a) - r) /\ j <= Len(e) /\ r + j <= Len(a)
      BY <1>2, <1>3, <2>2
    <3>2. q[j] = e[j] /\ p[r + j] = a[r + j]
      BY <1>3, <1>4, <2>1, <3>1
    <3> QED BY <1>2, <3>1, <3>2
  <2>3. CASE j > Len(a) - r
    <3>1. j - (Len(a) - r) = (r + j) - Len(a) /\ ~(r + j <= Len(a)) /\ ~(j <= Len(e))
      BY <1>2, <1>3, <2>1, <2>3
    <3>2. q[j] = f[j - Len(e)]
      BY <1>4, <2>1, <3>1
    <3>3. p[r + j] = f[(r + j) - Len(a)]
      BY <1>3, <2>1, <3>1
    <3>4. j - Len(e) = (r + j) - Len(a)
      BY <1>2, <3>1
    <3> QED BY <3>2, <3>3, <3>4
  <2> QED BY <1>3, <2>2, <2>3
<1>7. \A j \in 1..Len(a) : p[j] = a[j]
  BY <1>3
<1> QED BY <1>2, <1>5, <1>6, <1>7 DEF Behind, Starts

LEMMA StreamInitInv == StreamInit => StreamInv
<1> SUFFICES ASSUME StreamInit PROVE StreamInv
  OBVIOUS
<1>1. PICK start : start = [n \in 1..1 |-> 0]
  OBVIOUS
<1>2. Coming = <<>> /\ Len(Coming) = 0 /\ N = 0 /\ Turn = 1 /\ forwarded = <<>>
  BY DEF StreamInit, Coming, N, Turn
<1>3. Layout(forwarded, start)
  BY <1>1, <1>2 DEF Layout
<1>4. Taken(start) = 0 /\ Written(start) = 0
  BY <1>1, <1>2 DEF StreamInit, Taken, Written
<1>5. Placed(forwarded, start, Taken(start), Coming)
  BY <1>2 DEF Placed
<1>6. Tracking(start) /\ Reading
  BY <1>2, <1>3, <1>4, <1>5 DEF Tracking, Reading, StreamInit
<1>7. StreamTypes
  <2>1. <<>> \in Seq(Lengths) /\ <<>> \in Seq(StreamBytes)
        /\ <<>> \in Seq(Seq(StreamBytes) \X Seq(StreamBytes))
    OBVIOUS
  <2> QED BY <2>1 DEF StreamTypes, StreamInit
<1>8. Whole
  BY <1>2 DEF Whole, StreamInit
<1> QED BY <1>6, <1>7, <1>8 DEF StreamInv

LEMMA PlacesOrdered ==
  ASSUME NEW sizes, NEW start, Len(sizes) \in Nat, Layout(sizes, start),
         NEW j \in 1..(Len(sizes) + 1), NEW k \in 1..(Len(sizes) + 1), j <= k
  PROVE  start[j] \in Nat /\ start[k] \in Nat /\ start[j] <= start[k]
BY DEF Layout

LEMMA PlacesApart ==
  ASSUME NEW sizes, NEW start, Len(sizes) \in Nat, Layout(sizes, start),
         NEW m \in 1..Len(sizes), NEW n \in 1..Len(sizes), NEW place \in Nat,
         start[m] < place, place <= start[m + 1], start[n] < place, place <= start[n + 1]
  PROVE  m = n
<1>1. /\ m \in 1..(Len(sizes) + 1) /\ n \in 1..(Len(sizes) + 1)
      /\ m + 1 \in 1..(Len(sizes) + 1) /\ n + 1 \in 1..(Len(sizes) + 1)
  OBVIOUS
<1>2. ASSUME m < n PROVE FALSE
  <2>1. m + 1 <= n
    BY <1>1, <1>2
  <2>2. start[m + 1] \in Nat /\ start[n] \in Nat /\ start[m + 1] <= start[n]
    BY <1>1, <2>1, PlacesOrdered
  <2> QED BY <2>2
<1>3. ASSUME n < m PROVE FALSE
  <2>1. n + 1 <= m
    BY <1>1, <1>3
  <2>2. start[n + 1] \in Nat /\ start[m] \in Nat /\ start[n + 1] <= start[m]
    BY <1>1, <2>1, PlacesOrdered
  <2> QED BY <2>2
<1> QED BY <1>2, <1>3

(* What more is written, in the place of message n.                        *)
LEMMA PlacedMore ==
  ASSUME NEW sizes \in Seq(Lengths), NEW start, Layout(sizes, start), NEW from \in Nat,
         NEW p \in Seq(StreamBytes), Placed(sizes, start, from, p), NEW b \in Seq(StreamBytes),
         NEW n \in 1..Len(sizes), start[n] <= from + Len(p),
         from + Len(p) + Len(b) <= start[n + 1],
         \A k \in 1..Len(b) : b[k] = ByteAt(sizes, n, ((from + Len(p)) + k) - start[n])
  PROVE  Placed(sizes, start, from, p \o b)
<1>1. PICK q : q = p \o b
  OBVIOUS
<1>2. /\ Len(q) = Len(p) + Len(b) /\ Len(p) \in Nat /\ Len(b) \in Nat /\ Len(sizes) \in Nat
      /\ \A k \in 1..(Len(p) + Len(b)) : q[k] = IF k <= Len(p) THEN p[k] ELSE b[k - Len(p)]
  BY <1>1, Joined
<1>3. \A m \in 1..(Len(sizes) + 1) : start[m] \in Nat
  BY DEF Layout
<1>4. ASSUME NEW m \in 1..Len(sizes), NEW k \in 1..Len(q),
             start[m] < from + k, from + k <= start[m + 1]
      PROVE  q[k] = ByteAt(sizes, m, (from + k) - start[m])
  <2>1. CASE k <= Len(p)
    <3>1. k \in 1..Len(p) /\ q[k] = p[k]
      BY <1>2, <2>1
    <3> QED BY <1>4, <3>1 DEF Placed
  <2>2. CASE k > Len(p)
    <3>1. k \in Nat /\ from + k > from + Len(p) /\ from + k <= from + Len(p) + Len(b)
      BY <1>2, <2>2
    <3>2. PICK low, high : low = start[n] /\ high = start[n + 1]
      OBVIOUS
    <3>3. low \in Nat /\ high \in Nat
      <4>1. n \in 1..(Len(sizes) + 1) /\ n + 1 \in 1..(Len(sizes) + 1)
        BY <1>2
      <4> QED BY <1>3, <3>2, <4>1
    <3>4. low <= from + Len(p) /\ from + Len(p) + Len(b) <= high
      BY <3>2
    <3>5. low < from + k /\ from + k <= high /\ from + k \in Nat
      BY <1>2, <3>1, <3>3, <3>4
    <3>6. m = n
      BY <1>2, <1>4, <3>2, <3>5, PlacesApart
    <3>7. k - Len(p) \in 1..Len(b) /\ (from + Len(p)) + (k - Len(p)) = from + k
          /\ q[k] = b[k - Len(p)]
      BY <1>2, <2>2, <3>1
    <3> QED BY <3>6, <3>7
  <2> QED BY <1>2, <2>1, <2>2
<1> QED BY <1>1, <1>4 DEF Placed

(* What is left when the first bytes have been taken, and when the last are *)
(* lost.                                                                   *)
LEMMA PlacedLess ==
  ASSUME NEW sizes, NEW start, NEW from \in Nat, NEW p, NEW q, NEW d \in Nat,
         Len(p) \in Nat, d <= Len(p), Len(q) \in Nat, Len(q) <= Len(p) - d,
         \A k \in 1..Len(q) : q[k] = p[d + k], Placed(sizes, start, from, p)
  PROVE  Placed(sizes, start, from + d, q)
<1>1. ASSUME NEW k \in 1..Len(q) PROVE d + k \in 1..Len(p) /\ (from + d) + k = from + (d + k)
  OBVIOUS
<1>2. ASSUME NEW n \in 1..Len(sizes), NEW k \in 1..Len(q),
             start[n] < (from + d) + k, (from + d) + k <= start[n + 1]
      PROVE  q[k] = ByteAt(sizes, n, ((from + d) + k) - start[n])
  <2>1. PICK j : j = d + k /\ j \in 1..Len(p) /\ (from + d) + k = from + j
    BY <1>1
  <2>2. p[j] = ByteAt(sizes, n, (from + j) - start[n])
    BY <1>2, <2>1 DEF Placed
  <2> QED BY <2>1, <2>2
<1> QED BY <1>2 DEF Placed

LEMMA MoreOfThem ==
  ASSUME NEW x \in Nat, NEW u \in Nat, NEW m \in Nat
  PROVE  x + (2 + u) + m \in Nat /\ x <= x + (2 + u) + m
OBVIOUS

(* A new message gets the place behind the others.                         *)
PlacesWith(sizes, start, u, m) ==
  [n \in 1..(Len(sizes) + 2) |-> IF n = Len(sizes) + 2 THEN start[Len(sizes) + 1] + (2 + u) + m
                                 ELSE start[n]]
Extended(sizes, start, more, then) ==
  /\ Layout(more, then)
  /\ \A n \in 1..(Len(sizes) + 1) : then[n] = start[n]
  /\ \A from \in Nat : \A p : /\ Len(p) \in Nat /\ Placed(sizes, start, from, p)
                              /\ from + Len(p) <= start[Len(sizes) + 1]
                              => Placed(more, then, from, p)

LEMMA LayoutGrown ==
  ASSUME NEW sizes \in Seq(Lengths), NEW start, Layout(sizes, start), NEW u \in UserLengths,
         NEW m \in MessageLengths
  PROVE  \A more, then : more = Append(sizes, <<u, m>>) /\ then = PlacesWith(sizes, start, u, m) =>
           Extended(sizes, start, more, then)
<1>0. SUFFICES ASSUME NEW more, NEW then,
                      more = Append(sizes, <<u, m>>) /\ then = PlacesWith(sizes, start, u, m)
               PROVE  Extended(sizes, start, more, then)
  OBVIOUS
<1>1. PICK l : l = Len(sizes)
  OBVIOUS
<1>2. /\ l \in Nat /\ more \in Seq(Lengths) /\ Len(more) = l + 1 /\ more[l + 1] = <<u, m>>
      /\ \A n \in 1..l : more[n] = sizes[n]
  BY <1>0, <1>1 DEF Lengths
<1>3. u \in Nat \ {0} /\ m \in Nat \ {0}
  BY StreamAssumption DEF StreamAssumption
<1>4. /\ \A n \in 1..(l + 1) : then[n] = start[n] /\ start[n] \in Nat
      /\ then[l + 2] = start[l + 1] + (2 + u) + m /\ DOMAIN then = 1..(l + 2)
  <2>1. \A n \in 1..(l + 1) : start[n] \in Nat
    BY <1>1 DEF Layout
  <2>2. \A n \in 1..(l + 1) : n \in 1..(l + 2) /\ n # l + 2
    BY <1>2
  <2>3. l + 2 \in 1..(l + 2)
    BY <1>2
  <2>4. then = [n \in 1..(l + 2) |-> IF n = l + 2 THEN start[l + 1] + (2 + u) + m ELSE start[n]]
    BY <1>0, <1>1 DEF PlacesWith
  <2>5. \A n \in 1..(l + 1) : then[n] = start[n]
    BY <2>2, <2>4
  <2>6. then[l + 2] = start[l + 1] + (2 + u) + m
    BY <2>3, <2>4
  <2>7. DOMAIN then = 1..(l + 2)
    BY <2>4
  <2> QED BY <2>1, <2>5, <2>6, <2>7
<1>ends. PICK x, y : x = start[l + 1] /\ y = then[l + 2] /\ x \in Nat /\ y \in Nat /\ x <= y
  <2>1. l + 1 \in 1..(l + 1)
    BY <1>2
  <2>2. PICK x, y : x = start[l + 1] /\ y = then[l + 2] /\ x \in Nat /\ y = x + (2 + u) + m
    BY <1>4, <2>1
  <2>3. y \in Nat /\ x <= y
    <3>1. u \in Nat /\ m \in Nat
      BY <1>3
    <3> QED BY <2>2, <3>1, MoreOfThem
  <2> QED BY <2>2, <2>3
<1>5. then \in [1..(Len(more) + 1) -> Nat] /\ then[1] = 0
  <2>1. start[l + 1] \in Nat /\ start[1] = 0 /\ 1 \in 1..(l + 1)
    BY <1>1, <1>2, <1>4 DEF Layout
  <2>2. \A n \in 1..(l + 2) : then[n] \in Nat
    <3>1. ASSUME NEW n \in 1..(l + 2), n # l + 2 PROVE n \in 1..(l + 1)
      BY <1>2, <3>1
    <3> QED BY <1>4, <1>ends, <3>1
  <2>3. Len(more) + 1 = l + 2
    BY <1>2
  <2>4. then = [n \in 1..(l + 2) |-> IF n = l + 2 THEN start[l + 1] + (2 + u) + m ELSE start[n]]
    BY <1>0, <1>1 DEF PlacesWith
  <2>5. then = [n \in 1..(l + 2) |-> then[n]]
    BY <2>4, Zenon
  <2>6. then \in [1..(l + 2) -> Nat]
    BY <2>2, <2>5
  <2> QED BY <1>4, <2>1, <2>3, <2>6
<1>6. ASSUME NEW n \in 1..Len(more) PROVE then[n + 1] = then[n] + (2 + more[n][1]) + more[n][2]
  <2>1. CASE n = l + 1
    BY <1>2, <1>4, <2>1
  <2>2. CASE n # l + 1
    <3>1. n \in 1..l /\ n \in 1..(l + 1) /\ n + 1 \in 1..(l + 1)
      BY <1>2, <2>2
    <3>2. start[n + 1] = start[n] + (2 + sizes[n][1]) + sizes[n][2]
      BY <1>1, <3>1 DEF Layout
    <3> QED BY <1>2, <1>4, <3>1, <3>2
  <2> QED BY <2>1, <2>2
<1>7. ASSUME NEW j \in 1..(Len(more) + 1), NEW k \in 1..(Len(more) + 1), j <= k PROVE then[j] <= then[k]
  <2>1. start[l + 1] \in Nat /\ start[l + 1] <= then[l + 2] /\ then[l + 2] \in Nat
    BY <1>ends
  <2>2. CASE k # l + 2
    <3>1. j \in 1..(l + 1) /\ k \in 1..(l + 1)
      BY <1>2, <1>7, <2>2
    <3> QED BY <1>1, <1>4, <1>7, <3>1 DEF Layout
  <2>3. CASE k = l + 2 /\ j # l + 2
    <3>1. j \in 1..(l + 1) /\ l + 1 \in 1..(l + 1) /\ j <= l + 1
      BY <1>2, <2>3
    <3>2. start[j] <= start[l + 1] /\ start[j] \in Nat
      BY <1>1, <1>4, <3>1 DEF Layout
    <3> QED BY <1>4, <2>1, <2>3, <3>1, <3>2
  <2>4. CASE k = l + 2 /\ j = l + 2
    BY <2>1, <2>4
  <2> QED BY <2>2, <2>3, <2>4
<1>8. ASSUME NEW from \in Nat, NEW p, Len(p) \in Nat, Placed(sizes, start, from, p),
             from + Len(p) <= start[l + 1]
      PROVE  Placed(more, then, from, p)
  <2>1. SUFFICES ASSUME NEW n \in 1..Len(more), NEW k \in 1..Len(p),
                        then[n] < from + k, from + k <= then[n + 1]
                 PROVE  p[k] = ByteAt(more, n, (from + k) - then[n])
    BY DEF Placed
  <2>2. start[l + 1] \in Nat /\ from + k <= start[l + 1]
    BY <1>8, <1>ends
  <2>3. n # l + 1
    BY <1>2, <1>4, <2>1, <2>2
  <2>4. n \in 1..l /\ n \in 1..(l + 1) /\ n + 1 \in 1..(l + 1)
    BY <1>2, <2>3
  <2>5. then[n] = start[n] /\ then[n + 1] = start[n + 1] /\ more[n] = sizes[n]
    BY <1>2, <1>4, <2>4
  <2>6. p[k] = ByteAt(sizes, n, (from + k) - start[n])
    BY <1>1, <1>8, <2>1, <2>4, <2>5 DEF Placed
  <2> QED BY <2>5, <2>6 DEF ByteAt
<1>9. Layout(more, then)
  BY <1>5, <1>6, <1>7 DEF Layout
<1> QED BY <1>1, <1>4, <1>8, <1>9 DEF Extended

(* A read that returns all it asked for.                                   *)
LEMMA ReadKeeps ==
  ASSUME StreamTypes, NEW start, Tracking(start), Taken(start) \in Nat,
         NEW from, NEW to, NEW size \in Nat \ {0}, Read(from, to, size), ~short', reader' # "ended"
  PROVE  /\ reader' = to /\ size <= Len(Coming) /\ Len(Coming)' = Len(Coming) - size /\ Len(Coming) \in Nat
         /\ Placed(forwarded, start, Taken(start) + size, Coming')
         /\ \A k \in 1..size : Array(size)[k] = Coming[k] /\ k \in 1..Len(Coming)
         /\ arrived' \in Seq(StreamBytes)
<1>1. /\ arrived \in Seq(StreamBytes) /\ in_flight \in Seq(StreamBytes) /\ Len(arrived) \in Nat
      /\ in_flight' = in_flight
  BY DEF StreamTypes, Read
<1>2. /\ Returned(size) # 0 /\ ~(Returned(size) \in 1..(size - 1)) /\ reader' = to
      /\ arrived' = SubSeq(arrived, Returned(size) + 1, Len(arrived))
  BY DEF Read
<1>3. Returned(size) = size /\ size <= Len(arrived) /\ size \in 0..Len(arrived) /\ size \in Nat
  BY <1>1, <1>2 DEF Returned
<1>4. PICK p, e : p = Coming /\ e = SubSeq(arrived, size + 1, Len(arrived))
  OBVIOUS
<1>rest. PICK q : q = e \o in_flight
  OBVIOUS
<1>5. q = Coming'
  BY <1>1, <1>2, <1>3, <1>4, <1>rest DEF Coming
<1>6. p = arrived \o in_flight
  BY <1>4 DEF Coming
<1>7. /\ e \in Seq(StreamBytes)
      /\ Len(p) \in Nat /\ size <= Len(p) /\ Len(q) = Len(p) - size
      /\ \A k \in 1..(Len(p) - size) : q[k] = p[size + k]
      /\ \A k \in 1..Len(arrived) : p[k] = arrived[k]
  <2>1. arrived \in Seq(StreamBytes)
    BY <1>1
  <2>2. in_flight \in Seq(StreamBytes)
    BY <1>1
  <2>3. size \in 0..Len(arrived)
    BY <1>3
  <2>4. e = SubSeq(arrived, size + 1, Len(arrived))
    BY <1>4
  <2>5. p = arrived \o in_flight /\ q = e \o in_flight
    BY <1>6, <1>rest
  <2>6. \A x, y, z : /\ x = arrived \o in_flight /\ y = SubSeq(arrived, size + 1, Len(arrived))
                     /\ z = y \o in_flight
                     => y \in Seq(StreamBytes) /\ Behind(x, size, z) /\ Starts(x, arrived)
    BY <2>1, <2>2, <2>3, TakeConcat, Zenon
  <2>7. e \in Seq(StreamBytes) /\ Behind(p, size, q) /\ Starts(p, arrived)
    BY <2>4, <2>5, <2>6, Zenon
  <2> QED BY <2>7 DEF Behind, Starts
<1>8. Placed(forwarded, start, Taken(start), p)
  BY <1>4 DEF Tracking
<1>9. Placed(forwarded, start, Taken(start) + size, q)
  <2>1. Len(q) \in Nat /\ Len(q) <= Len(p) - size /\ \A k \in 1..Len(q) : q[k] = p[size + k]
    <3>1. PICK x, y : x = Len(p) /\ y = Len(q)
      OBVIOUS
    <3>2. x \in Nat /\ size \in Nat /\ size <= x /\ y = x - size
      BY <1>3, <1>7, <3>1
    <3>3. y \in Nat /\ y <= x - size
      BY <3>2
    <3>4. \A k \in 1..y : q[k] = p[size + k]
      BY <1>7, <3>1, <3>2, Zenon
    <3> QED BY <3>1, <3>3, <3>4, Zenon
  <2> QED BY <1>3, <1>7, <1>8, <2>1, PlacedLess
<1>10. ASSUME NEW k \in 1..size PROVE Array(size)[k] = p[k] /\ k \in 1..Len(p)
  <2>1. k \in 1..Len(arrived) /\ k \in 1..Len(p)
    BY <1>1, <1>3, <1>7
  <2> QED BY <1>3, <1>7, <2>1 DEF Array
<1>11. arrived' = e
  BY <1>2, <1>3, <1>4
<1> QED BY <1>2, <1>3, <1>4, <1>5, <1>7, <1>9, <1>10, <1>11

(* Which byte is where in a message.                                       *)
LEMMA BytePlaces ==
  ASSUME NEW sizes \in Seq(Lengths), NEW n \in 1..Len(sizes)
  PROVE  /\ ByteAt(sizes, n, 1) = <<"len", n, sizes[n][2]>>
         /\ ByteAt(sizes, n, 2) = <<"len", n, sizes[n][1]>>
         /\ \A k \in 1..sizes[n][1] : ByteAt(sizes, n, 2 + k) = <<"user", n, k>>
         /\ \A k \in 1..sizes[n][2] : ByteAt(sizes, n, (2 + sizes[n][1]) + k) = <<"message", n, k>>
<1>1. PICK u, m : u = sizes[n][1] /\ m = sizes[n][2] /\ u \in Nat \ {0} /\ m \in Nat \ {0}
  BY LengthsPositive
<1>2. ASSUME NEW k \in 1..u PROVE ByteAt(sizes, n, 2 + k) = <<"user", n, k>>
  <2>1. PICK q : q = 2 + k /\ q > 2 /\ q <= 2 + u /\ q - 2 = k /\ q # 1 /\ q # 2
    BY <1>1
  <2> QED BY <1>1, <2>1 DEF ByteAt
<1>3. ASSUME NEW k \in 1..m PROVE ByteAt(sizes, n, (2 + u) + k) = <<"message", n, k>>
  <2>1. PICK q : q = (2 + u) + k
    OBVIOUS
  <2>2. u \in Nat /\ k \in Nat \ {0}
    BY <1>1
  <2>3. q > 2 + u /\ q - (2 + u) = k /\ q # 1 /\ q # 2 /\ ~(q <= 2 + u)
    BY <2>1, <2>2
  <2> QED BY <1>1, <2>1, <2>3 DEF ByteAt
<1>4. /\ ByteAt(sizes, n, 1) = <<"len", n, sizes[n][2]>>
      /\ ByteAt(sizes, n, 2) = <<"len", n, sizes[n][1]>>
  <2>1. ~(1 > 2) /\ ~(2 > 2) /\ ~(1 > 2 + u) /\ ~(2 > 2 + u)
    BY <1>1
  <2> QED BY <1>1, <2>1 DEF ByteAt
<1> QED BY <1>1, <1>2, <1>3, <1>4

(* b is written at w, in the place of message n.                           *)
CanWrite(sizes, start, from, w, p, b, n) ==
  /\ sizes \in Seq(Lengths) /\ Layout(sizes, start) /\ from \in Nat /\ w \in Nat
  /\ p \in Seq(StreamBytes) /\ Placed(sizes, start, from, p) /\ from + Len(p) <= w
  /\ b \in Seq(StreamBytes) /\ n \in 1..Len(sizes) /\ start[n] <= w /\ w + Len(b) <= start[n + 1]
  /\ \A k \in 1..Len(b) : b[k] = ByteAt(sizes, n, (w + k) - start[n])
HasWritten(sizes, start, from, w, p, b) ==
  /\ from + Len(p) <= w + Len(b)
  /\ from + Len(p) = w => /\ Placed(sizes, start, from, p \o b) /\ p \o b \in Seq(StreamBytes)
                          /\ from + Len(p \o b) = w + Len(b)

LEMMA WroteMore ==
  ASSUME NEW sizes, NEW start, NEW from, NEW w, NEW p, NEW b, NEW n,
         CanWrite(sizes, start, from, w, p, b, n)
  PROVE  HasWritten(sizes, start, from, w, p, b)
<1>0. /\ sizes \in Seq(Lengths) /\ Layout(sizes, start) /\ from \in Nat /\ w \in Nat
      /\ p \in Seq(StreamBytes) /\ Placed(sizes, start, from, p) /\ from + Len(p) <= w
      /\ b \in Seq(StreamBytes) /\ n \in 1..Len(sizes) /\ start[n] <= w /\ w + Len(b) <= start[n + 1]
      /\ \A k \in 1..Len(b) : b[k] = ByteAt(sizes, n, (w + k) - start[n])
  BY DEF CanWrite
<1>1. Len(p) \in Nat /\ Len(b) \in Nat
  BY <1>0
<1>2. ASSUME from + Len(p) = w
      PROVE  /\ Placed(sizes, start, from, p \o b) /\ p \o b \in Seq(StreamBytes)
             /\ from + Len(p \o b) = w + Len(b)
  <2>1. p \o b \in Seq(StreamBytes) /\ Len(p \o b) = Len(p) + Len(b)
    BY <1>0, Joined
  <2>2. from + (Len(p) + Len(b)) = w + Len(b)
    <3>1. PICK x, y : x = Len(p) /\ y = Len(b) /\ x \in Nat /\ y \in Nat /\ from + x = w
      BY <1>0, <1>1, <1>2
    <3>2. from + (x + y) = (from + x) + y
      BY <1>0, <3>1
    <3> QED BY <3>1, <3>2
  <2>3. /\ start[n] <= from + Len(p) /\ from + Len(p) + Len(b) <= start[n + 1]
        /\ \A k \in 1..Len(b) : b[k] = ByteAt(sizes, n, ((from + Len(p)) + k) - start[n])
    BY <1>0, <1>2
  <2>4. Placed(sizes, start, from, p \o b)
    BY <1>0, <2>3, PlacedMore
  <2> QED BY <2>1, <2>2, <2>4
<1> QED BY <1>0, <1>1, <1>2 DEF HasWritten

(* The writer puts down a header, a user or a message.                     *)
LEMMA TakenNat ==
  ASSUME StreamTypes, Whole, Reading, reader # "ended", NEW start, Layout(forwarded, start)
  PROVE  /\ Turn \in 1..(N + 1) /\ N \in Nat /\ Taken(start) \in Nat
         /\ start[Turn] <= Taken(start)
<1>1. Turn \in 1..(N + 1) /\ N \in Nat
  BY DEF StreamTypes, Whole, Turn, N
<1>2. start[Turn] \in Nat
  BY <1>1 DEF Layout, N
<1>3. reader # "header" => forwarded[Turn][1] \in Nat
  <2>1. reader # "header" => Turn \in 1..Len(forwarded)
    BY <1>1 DEF Reading, N
  <2> QED BY <2>1, LengthsPositive DEF StreamTypes
<1>4. PICK s : s = start[Turn] /\ s \in Nat
  BY <1>2
<1>5. CASE reader = "header"
  BY <1>1, <1>4, <1>5 DEF Taken
<1>6. CASE reader = "user"
  <2>1. Taken(start) = s + 2
    BY <1>4, <1>6 DEF Taken
  <2> QED BY <1>1, <1>4, <2>1
<1>7. CASE reader = "message"
  <2>1. PICK u \in Nat : u = forwarded[Turn][1]
    BY <1>3, <1>7
  <2>2. Taken(start) = s + (2 + u)
    BY <1>4, <1>7, <2>1 DEF Taken
  <2> QED BY <1>1, <1>4, <2>2
<1> QED BY <1>5, <1>6, <1>7 DEF StreamTypes

LEMMA WrittenNat ==
  ASSUME StreamTypes, NEW start, Layout(forwarded, start)
  PROVE  /\ Written(start) \in Nat /\ start[N + 1] \in Nat /\ Written(start) <= start[N + 1]
<1>1. forwarded \in Seq(Lengths) /\ N = Len(forwarded) /\ N \in Nat
  BY DEF StreamTypes, N
<1>2. start[N + 1] \in Nat
  <2>1. N + 1 \in 1..(Len(forwarded) + 1)
    BY <1>1
  <2> QED BY <2>1 DEF Layout
<1>3. CASE writer = "idle"
  BY <1>2, <1>3 DEF Written
<1>4. CASE writer # "idle"
  <2>1. N \in 1..Len(forwarded) /\ N \in 1..(Len(forwarded) + 1)
    BY <1>1, <1>4 DEF StreamTypes
  <2>2. PICK u \in Nat, m \in Nat : u = forwarded[N][1] /\ m = forwarded[N][2]
    BY <1>1, <2>1, LengthsPositive
  <2>3. PICK s \in Nat : s = start[N]
    BY <2>1 DEF Layout
  <2>4. start[N + 1] = s + (2 + u) + m
    BY <2>1, <2>2, <2>3 DEF Layout
  <2>5. Written(start) \in {s + 2, s + (2 + u)}
    BY <1>4, <2>2, <2>3 DEF Written
  <2>6. /\ s + 2 \in Nat /\ s + (2 + u) \in Nat /\ s + 2 <= s + (2 + u) + m
        /\ s + (2 + u) <= s + (2 + u) + m
    BY <2>2, <2>3
  <2> QED BY <1>2, <2>4, <2>5, <2>6
<1> QED BY <1>3, <1>4

LEMMA BytesTyped ==
  ASSUME NEW what \in {"user", "message"}, NEW n \in Nat, NEW l \in Nat
  PROVE  Bytes(what, n, l) \in Seq(StreamBytes) /\ Len(Bytes(what, n, l)) = l
BY DEF Bytes, StreamBytes

LEMMA HeaderTyped ==
  ASSUME NEW n \in Nat, NEW u \in Nat, NEW m \in Nat
  PROVE  HeaderBytes(n, u, m) \in Seq(StreamBytes) /\ Len(HeaderBytes(n, u, m)) = 2
BY DEF HeaderBytes, StreamBytes

(* What a write leaves in flight, and what the reader is left with.        *)
LEMMA WriteTypes ==
  ASSUME StreamTypes, NEW from, NEW to \in {"idle", "user", "message"}, NEW b \in Seq(StreamBytes),
         Writes(from, to, b), forwarded' \in Seq(Lengths), to # "idle" => N' # 0
  PROVE  /\ StreamTypes'
         /\ Coming' = IF line = "up" THEN Coming \o b ELSE Coming
         /\ Coming \in Seq(StreamBytes)
<1>1. /\ writer' = to /\ UNCHANGED <<arrived, line, reader, displayed, short>>
      /\ in_flight' = IF line = "up" THEN in_flight \o b ELSE in_flight
  BY DEF Writes
<1>2. arrived \in Seq(StreamBytes) /\ in_flight \in Seq(StreamBytes)
  BY DEF StreamTypes
<1>3. in_flight \o b \in Seq(StreamBytes) /\ arrived \o in_flight \in Seq(StreamBytes)
  BY <1>2, Joined
<1>4. StreamTypes'
  BY <1>1, <1>2, <1>3 DEF StreamTypes
<1>5. arrived \o (in_flight \o b) = (arrived \o in_flight) \o b
  BY <1>2, JoinedTwice
<1> QED BY <1>1, <1>3, <1>4, <1>5 DEF Coming

LEMMA WriteHeaderInv == StreamInv /\ WriteHeader => StreamInv'
<1> SUFFICES ASSUME StreamInv, ~short, WriteHeader PROVE StreamInv'
  BY DEF StreamInv, WriteHeader, Writes
<1>1. StreamTypes /\ Whole /\ (reader = "ended" \/ (Reading /\ \E start : Tracking(start)))
  BY DEF StreamInv
<1>2. PICK u \in UserLengths, m \in MessageLengths :
        /\ Writes("idle", "user", HeaderBytes(N + 1, u, m))
        /\ forwarded' = Append(forwarded, <<u, m>>)
  BY DEF WriteHeader
<1>3. /\ writer = "idle" /\ writer' = "user"
      /\ UNCHANGED <<arrived, line, reader, header, usr, displayed, short>>
  BY <1>2 DEF Writes
<1>4. PICK l : l = N /\ l \in Nat /\ l = Len(forwarded)
  <2>1. forwarded \in Seq(Lengths)
    BY <1>1 DEF StreamTypes
  <2>2. Len(forwarded) \in Nat
    BY <2>1
  <2> QED BY <2>2 DEF N
<1>5. /\ forwarded \in Seq(Lengths) /\ forwarded' \in Seq(Lengths) /\ N' = l + 1
      /\ forwarded'[l + 1] = <<u, m>> /\ \A n \in 1..l : forwarded'[n] = forwarded[n]
  BY <1>1, <1>2, <1>4 DEF StreamTypes, Lengths, N
<1>6. u \in Nat \ {0} /\ m \in Nat \ {0}
  BY StreamAssumption DEF StreamAssumption
<1>7. PICK b : /\ b = HeaderBytes(l + 1, u, m) /\ b \in Seq(StreamBytes) /\ Len(b) = 2
               /\ b[1] = <<"len", l + 1, m>> /\ b[2] = <<"len", l + 1, u>>
  <2>1. l + 1 \in Nat /\ u \in Nat /\ m \in Nat
    BY <1>4, <1>6
  <2>2. PICK b : b = HeaderBytes(l + 1, u, m)
    OBVIOUS
  <2>3. b \in Seq(StreamBytes) /\ Len(b) = 2
    BY <2>1, <2>2, HeaderTyped
  <2>4. b[1] = <<"len", l + 1, m>> /\ b[2] = <<"len", l + 1, u>>
    BY <2>2 DEF HeaderBytes
  <2> QED BY <2>2, <2>3, <2>4
<1>8. /\ StreamTypes' /\ Coming \in Seq(StreamBytes)
      /\ Coming' = IF line = "up" THEN Coming \o b ELSE Coming
  <2>1. Writes("idle", "user", b) /\ "user" \in {"idle", "user", "message"} /\ N' # 0
    BY <1>2, <1>4, <1>5, <1>7
  <2> QED BY <1>1, <1>5, <1>7, <2>1, WriteTypes
<1>9. Whole'
  <2>1. Len(displayed) \in Nat /\ Len(displayed) <= l
    BY <1>1, <1>4 DEF StreamTypes, Whole
  <2>2. \A n \in 1..Len(displayed) : n \in 1..l
    BY <1>4, <2>1
  <2>3. \A n \in 1..Len(displayed) : displayed[n] = <<Bytes("user", n, forwarded'[n][1]),
                                                     Bytes("message", n, forwarded'[n][2])>>
    BY <1>1, <1>5, <2>2 DEF Whole
  <2>4. Len(displayed) <= N'
    BY <1>4, <1>5, <2>1
  <2> QED BY <1>3, <2>3, <2>4 DEF Whole
<1>10. SUFFICES ASSUME reader # "ended" PROVE Reading' /\ \E start : Tracking(start)'
  BY <1>3, <1>8, <1>9 DEF StreamInv
<1>11. PICK start : Tracking(start) /\ Layout(forwarded, start)
  BY <1>1, <1>10 DEF Tracking
<1>12. /\ Turn \in 1..(l + 1) /\ Taken(start) \in Nat /\ Reading
  BY <1>1, <1>4, <1>10, <1>11, TakenNat
<1>13. Reading'
  <2>1. reader # "header" => Turn \in 1..l /\ forwarded'[Turn] = forwarded[Turn]
    BY <1>4, <1>5, <1>12 DEF Reading
  <2>2. Turn' = Turn
    BY <1>3 DEF Turn
  <2>3. reader # "header" => Turn <= N'
    BY <1>4, <1>5, <2>1
  <2> QED BY <1>3, <1>12, <2>1, <2>2, <2>3 DEF Reading
<1>14. PICK then : then = PlacesWith(forwarded, start, u, m)
  OBVIOUS
<1>15. /\ Layout(forwarded', then) /\ \A n \in 1..(l + 1) : then[n] = start[n]
       /\ \A from \in Nat : \A p : /\ Len(p) \in Nat /\ Placed(forwarded, start, from, p)
                                  /\ from + Len(p) <= start[l + 1]
                                  => Placed(forwarded', then, from, p)
  <2>1. PICK more : more = forwarded' /\ more = Append(forwarded, <<u, m>>)
    BY <1>2
  <2>2. forwarded \in Seq(Lengths) /\ Layout(forwarded, start)
    BY <1>5, <1>11
  <2>3. \A x, y : x = Append(forwarded, <<u, m>>) /\ y = PlacesWith(forwarded, start, u, m) =>
                   Extended(forwarded, start, x, y)
    BY <2>2, LayoutGrown, Zenon
  <2>4. Extended(forwarded, start, more, then)
    BY <1>14, <2>1, <2>3, Zenon
  <2> QED BY <1>4, <2>1, <2>4 DEF Extended
<1>16. PICK w : w = start[l + 1] /\ w = then[l + 1] /\ w \in Nat /\ Written(start) = w
  <2>1. l + 1 \in 1..(l + 1)
    BY <1>4
  <2> QED BY <1>3, <1>4, <1>11, <1>15, <2>1 DEF Layout, Written
<1>17. /\ Taken(start) + Len(Coming) <= w /\ (line = "up" => Taken(start) + Len(Coming) = w)
       /\ Placed(forwarded, start, Taken(start), Coming) /\ Len(Coming) \in Nat
  BY <1>8, <1>11, <1>16 DEF Tracking
<1>18. Placed(forwarded', then, Taken(start), Coming)
  BY <1>12, <1>15, <1>16, <1>17
<1>19. Taken(then)' = Taken(start)
  <2>1. then[Turn] = start[Turn] /\ (reader # "header" => forwarded'[Turn] = forwarded[Turn])
    BY <1>4, <1>5, <1>12, <1>15 DEF Reading
  <2>2. Turn' = Turn
    BY <1>3 DEF Turn
  <2> QED BY <1>3, <1>8, <1>10, <2>1, <2>2 DEF Taken, StreamTypes
<1>20. Written(then)' = w + 2
  BY <1>3, <1>5, <1>16 DEF Written
<1>21. /\ Taken(start) + Len(Coming) <= w + 2
       /\ Taken(start) + Len(Coming) = w => /\ Placed(forwarded', then, Taken(start), Coming \o b)
                                           /\ Taken(start) + Len(Coming \o b) = w + 2
  <2>1. l + 1 \in 1..Len(forwarded') /\ then[l + 1] <= w
    BY <1>4, <1>5, <1>16 DEF N
  <2>2. PICK high : high = then[(l + 1) + 1]
    OBVIOUS
  <2>3. high = w + (2 + u) + m
    BY <1>5, <1>15, <1>16, <2>1, <2>2 DEF Layout
  <2>4. w + Len(b) <= then[(l + 1) + 1]
    <3>1. PICK x, y : x = u /\ y = m /\ x \in Nat /\ y \in Nat
      BY <1>6
    <3>2. w + 2 <= w + (2 + x) + y
      BY <1>16, <3>1
    <3> QED BY <1>7, <2>2, <2>3, <3>1, <3>2
  <2>5. \A k \in 1..Len(b) : b[k] = ByteAt(forwarded', l + 1, (w + k) - then[l + 1])
    <3>1. (w + 1) - w = 1 /\ (w + 2) - w = 2 /\ 1..2 = {1, 2}
      BY <1>16
    <3>2. b[1] = ByteAt(forwarded', l + 1, 1) /\ b[2] = ByteAt(forwarded', l + 1, 2)
      <4>1. PICK fw : fw = forwarded' /\ fw \in Seq(Lengths) /\ l + 1 \in 1..Len(fw) /\ fw[l + 1] = <<u, m>>
        BY <1>5, <2>1
      <4>2. /\ ByteAt(fw, l + 1, 1) = <<"len", l + 1, fw[l + 1][2]>>
            /\ ByteAt(fw, l + 1, 2) = <<"len", l + 1, fw[l + 1][1]>>
        BY <4>1, BytePlaces
      <4> QED BY <1>7, <4>1, <4>2
    <3> QED BY <1>7, <1>16, <3>1, <3>2
  <2>6. PICK fw, from, p : fw = forwarded' /\ from = Taken(start) /\ p = Coming
    OBVIOUS
  <2>7. CanWrite(fw, then, from, w, p, b, l + 1)
    <3>1. /\ fw \in Seq(Lengths) /\ Layout(fw, then) /\ from \in Nat /\ w \in Nat /\ p \in Seq(StreamBytes)
          /\ Placed(fw, then, from, p)
      BY <1>5, <1>8, <1>12, <1>15, <1>16, <1>18, <2>6
    <3>2. /\ from + Len(p) <= w /\ b \in Seq(StreamBytes)
          /\ l + 1 \in 1..Len(fw) /\ then[l + 1] <= w /\ w + Len(b) <= then[(l + 1) + 1]
      BY <1>7, <1>17, <2>1, <2>4, <2>6
    <3>3. \A k \in 1..Len(b) : b[k] = ByteAt(fw, l + 1, (w + k) - then[l + 1])
      BY <2>5, <2>6
    <3> QED BY <3>1, <3>2, <3>3 DEF CanWrite
  <2>8. HasWritten(fw, then, from, w, p, b)
    BY <2>7, WroteMore
  <2> QED BY <1>7, <2>6, <2>8 DEF HasWritten
<1>22. Tracking(then)'
  <2>1. CASE line = "up"
    <3>1. Coming' = Coming \o b /\ Taken(start) + Len(Coming) = w
      BY <1>8, <1>17, <2>1
    <3>2. /\ Placed(forwarded', then, Taken(then)', Coming')
          /\ Taken(then)' + Len(Coming') = Written(then)'
      BY <1>19, <1>20, <1>21, <3>1
    <3>3. Written(then)' <= Written(then)'
      BY <1>16, <1>20
    <3> QED BY <1>15, <3>2, <3>3 DEF Tracking
  <2>2. CASE line # "up"
    <3>1. /\ Placed(forwarded', then, Taken(then)', Coming') /\ line' # "up"
          /\ Taken(then)' + Len(Coming') <= Written(then)'
      BY <1>3, <1>8, <1>18, <1>19, <1>20, <1>21, <2>2
    <3> QED BY <1>15, <3>1 DEF Tracking
  <2> QED BY <2>1, <2>2
<1> QED BY <1>13, <1>22

(* The user and the message follow their header.                           *)
Fits(start, b) ==
  /\ N \in 1..Len(forwarded) /\ Written(start) \in Nat /\ start[N] <= Written(start)
  /\ Written(start) + Len(b) <= start[N + 1]
  /\ \A k \in 1..Len(b) : b[k] = ByteAt(forwarded, N, (Written(start) + k) - start[N])

LEMMA WriteFits ==
  ASSUME StreamInv, ~short, NEW from, NEW to \in {"message", "idle"}, NEW b \in Seq(StreamBytes),
         Writes(from, to, b), UNCHANGED forwarded, N # 0,
         \A start : Layout(forwarded, start) =>
                      Fits(start, b) /\ Written(start)' = Written(start) + Len(b)
  PROVE  StreamInv'
<1>1. StreamTypes /\ Whole /\ (reader = "ended" \/ (Reading /\ \E start : Tracking(start)))
  BY DEF StreamInv
<1>2. UNCHANGED <<arrived, line, reader, header, usr, displayed, short>> /\ N' = N /\ Turn' = Turn
  BY DEF Writes, N, Turn
<1>3. /\ StreamTypes' /\ Coming \in Seq(StreamBytes)
      /\ Coming' = IF line = "up" THEN Coming \o b ELSE Coming
  <2>1. to \in {"idle", "user", "message"} /\ forwarded' \in Seq(Lengths) /\ (to # "idle" => N' # 0)
    BY <1>1, <1>2 DEF StreamTypes
  <2> QED BY <1>1, <2>1, WriteTypes
<1>4. Whole'
  BY <1>1, <1>2 DEF Whole
<1>5. SUFFICES ASSUME reader # "ended" PROVE Reading' /\ \E start : Tracking(start)'
  BY <1>2, <1>3, <1>4 DEF StreamInv
<1>6. Reading'
  BY <1>1, <1>2, <1>5 DEF Reading
<1>7. PICK start : Tracking(start) /\ Layout(forwarded, start)
  BY <1>1, <1>5 DEF Tracking
<1>8. Taken(start) \in Nat
  BY <1>1, <1>5, <1>7, TakenNat
<1>9. Taken(start)' = Taken(start)
  BY <1>2 DEF Taken
<1>10. Fits(start, b) /\ Written(start)' = Written(start) + Len(b)
  BY <1>7
<1>11. PICK w, p, t : w = Written(start) /\ p = Coming /\ t = Taken(start)
  OBVIOUS
<1>12. CanWrite(forwarded, start, t, w, p, b, N)
  <2>1. forwarded \in Seq(Lengths) /\ Layout(forwarded, start) /\ t \in Nat /\ p \in Seq(StreamBytes)
    BY <1>1, <1>3, <1>7, <1>8, <1>11 DEF StreamTypes
  <2>2. Placed(forwarded, start, t, p) /\ t + Len(p) <= w
    BY <1>7, <1>11 DEF Tracking
  <2>3. /\ w \in Nat /\ N \in 1..Len(forwarded) /\ start[N] <= w /\ w + Len(b) <= start[N + 1]
        /\ \A k \in 1..Len(b) : b[k] = ByteAt(forwarded, N, (w + k) - start[N])
    BY <1>10, <1>11 DEF Fits
  <2> QED BY <2>1, <2>2, <2>3 DEF CanWrite
<1>13. HasWritten(forwarded, start, t, w, p, b)
  BY <1>12, WroteMore
<1>14. w \in Nat /\ Len(b) \in Nat /\ (line = "up" => t + Len(p) = w) /\ Placed(forwarded, start, t, p)
  BY <1>7, <1>10, <1>11 DEF Fits, Tracking
<1>15. Tracking(start)'
  <2>1. CASE line = "up"
    <3>1. /\ Placed(forwarded, start, t, p \o b) /\ t + Len(p \o b) = w + Len(b) /\ Coming' = p \o b
      BY <1>3, <1>11, <1>13, <1>14, <2>1 DEF HasWritten
    <3>2. /\ Placed(forwarded', start, Taken(start)', Coming')
          /\ Taken(start)' + Len(Coming') = Written(start)'
      BY <1>9, <1>10, <1>11, <3>1
    <3>3. Written(start)' <= Written(start)'
      BY <1>10, <1>11, <1>14
    <3> QED BY <1>7, <3>2, <3>3 DEF Tracking
  <2>2. CASE line # "up"
    <3>1. Coming' = p /\ t + Len(p) <= w + Len(b)
      BY <1>3, <1>11, <1>13, <2>2 DEF HasWritten
    <3>2. /\ Placed(forwarded', start, Taken(start)', Coming') /\ line' # "up"
          /\ Taken(start)' + Len(Coming') <= Written(start)'
      BY <1>2, <1>9, <1>10, <1>11, <1>14, <2>2, <3>1
    <3> QED BY <1>7, <3>2 DEF Tracking
  <2> QED BY <2>1, <2>2
<1> QED BY <1>6, <1>15

LEMMA WriteUserInv == StreamInv /\ WriteUser => StreamInv'
<1> SUFFICES ASSUME StreamInv, ~short, WriteUser PROVE StreamInv'
  BY DEF StreamInv, WriteUser, Writes
<1>1. PICK b : b = Bytes("user", N, forwarded[N][1])
  OBVIOUS
<1>2. Writes("user", "message", b) /\ UNCHANGED forwarded /\ writer = "user" /\ writer' = "message"
  BY <1>1 DEF WriteUser, Writes
<1>3. forwarded \in Seq(Lengths) /\ N \in 1..Len(forwarded) /\ N' = N /\ N # 0
  BY <1>2 DEF StreamInv, StreamTypes, N
<1>4. PICK u \in Nat, m \in Nat : u = forwarded[N][1] /\ m = forwarded[N][2]
  BY <1>3, LengthsPositive
<1>5. b \in Seq(StreamBytes) /\ Len(b) = u /\ \A k \in 1..u : b[k] = <<"user", N, k>>
  <2>1. N \in Nat /\ "user" \in {"user", "message"}
    BY <1>3
  <2>2. b \in Seq(StreamBytes) /\ Len(b) = u
    BY <1>1, <1>4, <2>1, BytesTyped
  <2> QED BY <1>1, <1>4, <2>2 DEF Bytes
<1>6. ASSUME NEW start, Layout(forwarded, start)
      PROVE  Fits(start, b) /\ Written(start)' = Written(start) + Len(b)
  <2>1. PICK s : s = start[N] /\ s \in Nat
    <3>1. N \in 1..(Len(forwarded) + 1)
      BY <1>3
    <3> QED BY <1>6, <3>1 DEF Layout
  <2>2. start[N + 1] = s + (2 + u) + m
    BY <1>3, <1>4, <1>6, <2>1 DEF Layout
  <2>3. Written(start) = s + 2 /\ Written(start)' = s + (2 + u)
    BY <1>2, <1>3, <1>4, <2>1 DEF Written
  <2>4. s + (2 + u) = (s + 2) + u /\ (s + 2) + u <= s + (2 + u) + m /\ s <= s + 2 /\ s + 2 \in Nat
    BY <1>4, <2>1
  <2>5. ASSUME NEW k \in 1..Len(b) PROVE b[k] = ByteAt(forwarded, N, (Written(start) + k) - s)
    <3>1. (s + 2 + k) - s = 2 + k
      BY <1>5, <2>1
    <3>2. k \in 1..forwarded[N][1]
      BY <1>4, <1>5
    <3>3. ByteAt(forwarded, N, 2 + k) = <<"user", N, k>>
      BY <1>3, <3>2, BytePlaces
    <3> QED BY <1>5, <2>3, <3>1, <3>3
  <2> QED BY <1>3, <1>5, <2>1, <2>2, <2>3, <2>4, <2>5 DEF Fits
<1> QED BY <1>2, <1>3, <1>5, <1>6, WriteFits

LEMMA WriteMessageInv == StreamInv /\ WriteMessage => StreamInv'
<1> SUFFICES ASSUME StreamInv, ~short, WriteMessage PROVE StreamInv'
  BY DEF StreamInv, WriteMessage, Writes
<1>1. PICK b : b = Bytes("message", N, forwarded[N][2])
  OBVIOUS
<1>2. Writes("message", "idle", b) /\ UNCHANGED forwarded /\ writer = "message" /\ writer' = "idle"
  BY <1>1 DEF WriteMessage, Writes
<1>3. forwarded \in Seq(Lengths) /\ N \in 1..Len(forwarded) /\ N' = N /\ N # 0
  BY <1>2 DEF StreamInv, StreamTypes, N
<1>4. PICK u \in Nat, m \in Nat : u = forwarded[N][1] /\ m = forwarded[N][2]
  BY <1>3, LengthsPositive
<1>5. b \in Seq(StreamBytes) /\ Len(b) = m /\ \A k \in 1..m : b[k] = <<"message", N, k>>
  <2>1. N \in Nat /\ "message" \in {"user", "message"}
    BY <1>3
  <2>2. b \in Seq(StreamBytes) /\ Len(b) = m
    BY <1>1, <1>4, <2>1, BytesTyped
  <2> QED BY <1>1, <1>4, <2>2 DEF Bytes
<1>6. ASSUME NEW start, Layout(forwarded, start)
      PROVE  Fits(start, b) /\ Written(start)' = Written(start) + Len(b)
  <2>1. PICK s : s = start[N] /\ s \in Nat
    <3>1. N \in 1..(Len(forwarded) + 1)
      BY <1>3
    <3> QED BY <1>6, <3>1 DEF Layout
  <2>2. start[N + 1] = s + (2 + u) + m
    BY <1>3, <1>4, <1>6, <2>1 DEF Layout
  <2>3. Written(start) = s + (2 + u) /\ Written(start)' = s + (2 + u) + m
    BY <1>2, <1>3, <1>4, <2>1, <2>2 DEF Written
  <2>4. /\ s + (2 + u) + m <= s + (2 + u) + m /\ s <= s + (2 + u) /\ s + (2 + u) \in Nat
    BY <1>4, <2>1
  <2>5. ASSUME NEW k \in 1..Len(b) PROVE b[k] = ByteAt(forwarded, N, (Written(start) + k) - s)
    <3>1. (s + (2 + u) + k) - s = (2 + u) + k
      <4>1. s \in Nat /\ u \in Nat /\ k \in Nat
        BY <1>4, <1>5, <2>1
      <4> QED BY <4>1
    <3>2. k \in 1..forwarded[N][2]
      BY <1>4, <1>5
    <3>3. ByteAt(forwarded, N, (2 + u) + k) = <<"message", N, k>>
      BY <1>3, <1>4, <3>2, BytePlaces
    <3> QED BY <1>5, <2>3, <3>1, <3>3
  <2> QED BY <1>3, <1>5, <2>1, <2>2, <2>3, <2>4, <2>5 DEF Fits
<1> QED BY <1>2, <1>3, <1>5, <1>6, WriteFits

(* Bytes arrive, or the rest is lost.                                      *)
LEMMA ArriveInv == StreamInv /\ BytesArrive => StreamInv'
<1>0. BytesArrive => short' = short
  BY Zenon DEF BytesArrive
<1> SUFFICES ASSUME StreamInv, ~short, BytesArrive PROVE StreamInv'
  BY <1>0 DEF StreamInv
<1>1. StreamTypes /\ Whole /\ (reader = "ended" \/ (Reading /\ \E start : Tracking(start)))
  BY DEF StreamInv
<1>2. PICK k \in 1..Len(in_flight) :
        /\ arrived' = arrived \o SubSeq(in_flight, 1, k)
        /\ in_flight' = SubSeq(in_flight, k + 1, Len(in_flight))
        /\ UNCHANGED <<forwarded, writer, line, reader, header, usr, displayed, short>>
  BY DEF BytesArrive
<1>3. arrived \in Seq(StreamBytes) /\ in_flight \in Seq(StreamBytes)
  BY <1>1 DEF StreamTypes
<1>4. Coming' = Coming
  <2>1. (arrived \o SubSeq(in_flight, 1, k)) \o SubSeq(in_flight, k + 1, Len(in_flight)) = arrived \o in_flight
    BY <1>3, ArriveConcat
  <2> QED BY <1>2, <2>1 DEF Coming
<1>5. StreamTypes'
  <2>1. /\ SubSeq(in_flight, 1, k) \in Seq(StreamBytes)
        /\ SubSeq(in_flight, k + 1, Len(in_flight)) \in Seq(StreamBytes)
    <3>1. k \in 0..Len(in_flight)
      OBVIOUS
    <3> QED BY <1>3, <3>1, Cut2
  <2>2. arrived' \in Seq(StreamBytes) /\ in_flight' \in Seq(StreamBytes)
    BY <1>2, <1>3, <2>1, Joined
  <2>3. in_flight # <<>>
    BY <1>3
  <2>4. line' # "cut"
    BY <1>1, <1>2, <2>3 DEF StreamTypes
  <2> QED BY <1>1, <1>2, <2>2, <2>4 DEF StreamTypes, N
<1>6. N' = N /\ Turn' = Turn /\ Whole' /\ (Reading => Reading')
  BY <1>1, <1>2 DEF N, Turn, Whole, Reading
<1>7. ASSUME NEW start, Tracking(start) PROVE Tracking(start)'
  <2>1. Taken(start)' = Taken(start) /\ Written(start)' = Written(start)
    BY <1>2, <1>6 DEF Taken, Written
  <2> QED BY <1>2, <1>4, <1>7, <2>1 DEF Tracking
<1>8. CASE reader = "ended"
  BY <1>2, <1>5, <1>6, <1>8 DEF StreamInv
<1>9. CASE Reading /\ \E start : Tracking(start)
  <2>1. Reading' /\ \E start : Tracking(start)'
    BY <1>6, <1>7, <1>9
  <2> QED BY <1>5, <1>6, <2>1 DEF StreamInv
<1> QED BY <1>1, <1>8, <1>9

LEMMA CutInv == StreamInv /\ Cut => StreamInv'
<1> SUFFICES ASSUME StreamInv, ~short, Cut PROVE StreamInv'
  BY DEF StreamInv, Cut
<1>1. StreamTypes /\ Whole /\ (reader = "ended" \/ (Reading /\ \E start : Tracking(start)))
  BY DEF StreamInv
<1>2. /\ line' = "cut" /\ in_flight' = <<>>
      /\ UNCHANGED <<forwarded, writer, arrived, reader, header, usr, displayed, short>>
  BY DEF Cut
<1>3. arrived \in Seq(StreamBytes) /\ in_flight \in Seq(StreamBytes) /\ <<>> \in Seq(StreamBytes)
  BY <1>1 DEF StreamTypes
<1>4. StreamTypes' /\ N' = N /\ Turn' = Turn /\ Whole' /\ (Reading => Reading')
  BY <1>1, <1>2, <1>3 DEF StreamTypes, N, Turn, Whole, Reading
<1>5. PICK p, q : p = Coming /\ q = Coming'
  OBVIOUS
<1>6. /\ Len(p) \in Nat /\ Len(q) \in Nat /\ Len(q) <= Len(p) /\ \A k \in 1..Len(q) : q[k] = p[k]
  <2>1. /\ Len(p) = Len(arrived) + Len(in_flight) /\ Len(arrived) \in Nat /\ Len(in_flight) \in Nat
        /\ \A j \in 1..(Len(arrived) + Len(in_flight)) :
             p[j] = IF j <= Len(arrived) THEN arrived[j] ELSE in_flight[j - Len(arrived)]
    <3>1. p = arrived \o in_flight
      BY <1>5 DEF Coming
    <3> QED BY <1>3, <3>1, Joined
  <2>2. q = arrived
    <3>1. q = arrived \o <<>>
      BY <1>2, <1>5 DEF Coming
    <3> QED BY <1>3, <3>1
  <2> QED BY <2>1, <2>2
<1>7. ASSUME reader # "ended", Reading, NEW start, Tracking(start) PROVE Tracking(start)'
  <2>1. Taken(start)' = Taken(start) /\ Written(start)' = Written(start)
    BY <1>2, <1>4 DEF Taken, Written
  <2>2. PICK t : t = Taken(start) /\ t \in Nat
    BY <1>1, <1>7, TakenNat DEF Tracking
  <2>3. PICK w : w = Written(start) /\ w \in Nat
    BY <1>1, <1>7, WrittenNat DEF Tracking
  <2>4. Placed(forwarded, start, t, q)
    <3>1. Placed(forwarded, start, t, p)
      BY <1>5, <1>7, <2>2 DEF Tracking
    <3>2. Len(q) <= Len(p) - 0 /\ 0 <= Len(p) /\ \A k \in 1..Len(q) : q[k] = p[0 + k]
      BY <1>6
    <3>3. Placed(forwarded, start, t + 0, q)
      BY <1>6, <2>2, <3>1, <3>2, PlacedLess
    <3>4. t + 0 = t
      BY <2>2
    <3> QED BY <3>3, <3>4
  <2>5. t + Len(q) <= w
    <3>1. t + Len(p) <= w
      BY <1>5, <1>7, <2>2, <2>3 DEF Tracking
    <3> QED BY <1>6, <2>2, <2>3, <3>1
  <2> QED BY <1>2, <1>5, <1>7, <2>1, <2>2, <2>3, <2>4, <2>5 DEF Tracking
<1>8. CASE reader = "ended"
  BY <1>2, <1>4, <1>8 DEF StreamInv
<1>9. CASE reader # "ended"
  <2>1. Reading' /\ \E start : Tracking(start)'
    BY <1>1, <1>4, <1>7, <1>9
  <2> QED BY <1>4, <2>1 DEF StreamInv
<1> QED BY <1>8, <1>9

(* A read that returned all it asked for, inside the place of a message.   *)
ReadsPlace(start, size) ==
  /\ reader # "ended" /\ StreamTypes /\ Whole /\ Reading /\ Tracking(start) /\ size \in Nat \ {0}

StandsAt(start, size, off) ==
  /\ off \in Nat /\ Taken(start) = start[Turn] + off
  /\ off + size <= (2 + forwarded[Turn][1]) + forwarded[Turn][2]

LEMMA ReadTracks ==
  ASSUME NEW start, NEW size, ReadsPlace(start, size), NEW from, NEW to,
         Read(from, to, size), ~short', reader' # "ended", Taken(start)' = Taken(start) + size
  PROVE  Tracking(start)'
<1>1. StreamTypes /\ Tracking(start) /\ Layout(forwarded, start) /\ size \in Nat \ {0}
  BY DEF ReadsPlace, Tracking
<1>2. PICK t \in Nat : t = Taken(start)
  BY <1>1, TakenNat DEF ReadsPlace
<1>3. /\ size <= Len(Coming) /\ Len(Coming)' = Len(Coming) - size /\ Len(Coming) \in Nat
      /\ Placed(forwarded, start, Taken(start) + size, Coming')
  BY <1>1, <1>2, ReadKeeps
<1>4. UNCHANGED <<forwarded, writer, line>> /\ Written(start)' = Written(start)
  BY DEF Read, Written, N
<1>5. PICK w \in Nat : w = Written(start)
  BY <1>1, WrittenNat
<1>6. PICK c, d : c = Len(Coming) /\ c \in Nat /\ d = Len(Coming') /\ d = c - size
  BY <1>3
<1>7. t + c <= w /\ (line = "up" => t + c = w)
  BY <1>1, <1>2, <1>5, <1>6 DEF Tracking
<1>8. (t + size) + d = t + c
  BY <1>1, <1>2, <1>6
<1>9. /\ Taken(start)' + Len(Coming') <= w /\ (line = "up" => Taken(start)' + Len(Coming') = w)
  BY <1>2, <1>6, <1>7, <1>8
<1> QED BY <1>1, <1>3, <1>4, <1>5, <1>9 DEF Tracking

LEMMA ReadFinds ==
  ASSUME NEW start, NEW size, ReadsPlace(start, size), NEW from, NEW to,
         Read(from, to, size), ~short', reader' # "ended"
  PROVE  /\ reader' = to /\ Turn \in 1..N
         /\ \A off : StandsAt(start, size, off) =>
                      \A k \in 1..size : Array(size)[k] = ByteAt(forwarded, Turn, off + k)
<1>1. /\ StreamTypes /\ Tracking(start) /\ Layout(forwarded, start) /\ size \in Nat \ {0}
      /\ forwarded \in Seq(Lengths) /\ N = Len(forwarded)
  BY DEF ReadsPlace, Tracking, StreamTypes, N
<1>2. PICK t \in Nat : t = Taken(start) /\ Turn \in 1..(N + 1) /\ N \in Nat /\ start[Turn] <= t
  BY <1>1, TakenNat DEF ReadsPlace
<1>3. /\ reader' = to /\ size <= Len(Coming) /\ Len(Coming) \in Nat
      /\ \A k \in 1..size : Array(size)[k] = Coming[k] /\ k \in 1..Len(Coming)
  BY <1>1, <1>2, ReadKeeps
<1>4. PICK w \in Nat, e \in Nat : w = Written(start) /\ e = start[N + 1] /\ w <= e
  BY <1>1, WrittenNat
<1>5. t + Len(Coming) <= w /\ Placed(forwarded, start, t, Coming)
  BY <1>1, <1>2, <1>4 DEF Tracking
<1>6. Turn \in 1..N
  <2>1. ASSUME Turn = N + 1 PROVE FALSE
    <3>1. e <= t
      BY <1>2, <1>4, <2>1
    <3> QED BY <1>1, <1>3, <1>4, <1>5, <3>1
  <2> QED BY <1>2, <2>1
<1>7. ASSUME NEW off, StandsAt(start, size, off), NEW k \in 1..size
      PROVE  Array(size)[k] = ByteAt(forwarded, Turn, off + k)
  <2>1. PICK n : n = Turn /\ n \in 1..Len(forwarded)
    BY <1>1, <1>6
  <2>2. PICK x \in Nat, y \in Nat : x = forwarded[Turn][1] /\ y = forwarded[Turn][2]
    BY <1>1, <2>1, LengthsPositive
  <2>3. PICK s \in Nat : s = start[n] /\ t = s + off /\ off \in Nat
    <3>1. n \in 1..(Len(forwarded) + 1)
      BY <2>1
    <3>2. start[n] \in Nat
      BY <1>1, <3>1 DEF Layout
    <3> QED BY <1>2, <1>7, <2>1, <3>2 DEF StandsAt
  <2>4. start[n + 1] = s + (2 + x) + y
    BY <1>1, <2>1, <2>2, <2>3 DEF Layout
  <2>5. off + size <= (2 + x) + y
    BY <1>7, <2>2 DEF StandsAt
  <2>6. start[n] < t + k /\ t + k <= start[n + 1] /\ (t + k) - start[n] = off + k
    <3>1. PICK z : z = size /\ z \in Nat /\ k \in Nat /\ 0 < k /\ k <= z
      BY <1>1
    <3>2. PICK o : o = off /\ o \in Nat /\ o + z <= (2 + x) + y /\ t = s + o
      BY <2>3, <2>5, <3>1
    <3>3. s < (s + o) + k /\ (s + o) + k <= s + (2 + x) + y /\ ((s + o) + k) - s = o + k
      BY <3>1, <3>2
    <3> QED BY <2>3, <2>4, <3>2, <3>3
  <2>7. k \in 1..Len(Coming) /\ Array(size)[k] = Coming[k]
    BY <1>3
  <2>8. Coming[k] = ByteAt(forwarded, n, (t + k) - start[n])
    BY <1>5, <2>1, <2>6, <2>7 DEF Placed
  <2> QED BY <2>1, <2>6, <2>7, <2>8
<1> QED BY <1>3, <1>6, <1>7

LEMMA ReadTypes ==
  ASSUME StreamTypes, Whole, NEW from, NEW to \in {"header", "user", "message"}, NEW size \in Nat \ {0},
         Read(from, to, size)
  PROVE  /\ UNCHANGED <<forwarded, writer, in_flight, line>> /\ N' = N
         /\ reader = from /\ reader' \in {"ended", to}
         /\ displayed' \in Seq(Seq(StreamBytes) \X Seq(StreamBytes)) => StreamTypes'
         /\ displayed' = displayed /\ reader' = "ended" => StreamInv'
<1>1. /\ UNCHANGED <<forwarded, writer, in_flight, line>> /\ reader = from /\ reader' \in {"ended", to}
      /\ short' \in BOOLEAN /\ arrived' = SubSeq(arrived, Returned(size) + 1, Len(arrived))
  BY DEF Read, StreamTypes
<1>2. arrived \in Seq(StreamBytes) /\ Returned(size) \in 0..Len(arrived)
  BY DEF StreamTypes, Returned
<1>3. arrived' \in Seq(StreamBytes)
  <2>1. SubSeq(arrived, Returned(size) + 1, Len(arrived)) \in Seq(StreamBytes)
    BY <1>2, Cut2
  <2> QED BY <1>1, <2>1
<1>4. displayed' \in Seq(Seq(StreamBytes) \X Seq(StreamBytes)) => StreamTypes'
  BY <1>1, <1>3 DEF StreamTypes, N
<1>5. N' = N
  BY <1>1 DEF N
<1>6. displayed' = displayed => Whole'
  BY <1>1, <1>5 DEF Whole
<1>7. displayed' = displayed /\ reader' = "ended" => StreamInv'
  <2> SUFFICES ASSUME displayed' = displayed, reader' = "ended" PROVE StreamInv'
    OBVIOUS
  <2>1. StreamTypes' /\ Whole'
    BY <1>4, <1>6 DEF StreamTypes
  <2> QED BY <2>1 DEF StreamInv
<1> QED BY <1>1, <1>4, <1>5, <1>7

LEMMA ReadHeaderInv == StreamInv /\ ReadHeader => StreamInv'
<1>0. short => short' \/ ~ReadHeader
  BY Zenon DEF ReadHeader, Read
<1> SUFFICES ASSUME StreamInv, ~short, ~short', ReadHeader PROVE StreamInv'
  BY <1>0 DEF StreamInv
<1>1. Read("header", "user", 2) /\ displayed' = displayed
  BY DEF ReadHeader
<1>2. StreamTypes /\ Whole /\ Reading /\ reader = "header" /\ \E start : Tracking(start)
  BY <1>1 DEF StreamInv, Read
<1>3. /\ UNCHANGED <<forwarded, writer, in_flight, line>> /\ N' = N /\ reader' \in {"ended", "user"}
      /\ StreamTypes' /\ (reader' = "ended" => StreamInv') /\ Turn' = Turn
  <2>1. "user" \in {"header", "user", "message"} /\ 2 \in Nat \ {0}
    OBVIOUS
  <2>2. displayed' \in Seq(Seq(StreamBytes) \X Seq(StreamBytes))
    BY <1>1, <1>2 DEF StreamTypes
  <2> QED BY <1>1, <1>2, <2>1, <2>2, ReadTypes DEF Turn
<1>4. SUFFICES ASSUME reader' = "user" PROVE StreamInv'
  BY <1>3
<1>5. PICK start : Tracking(start)
  BY <1>2
<1>6. ReadsPlace(start, 2)
  BY <1>2, <1>5 DEF ReadsPlace
<1>7. /\ Turn \in 1..N
      /\ \A off : StandsAt(start, 2, off) =>
                   \A k \in 1..2 : Array(2)[k] = ByteAt(forwarded, Turn, off + k)
  BY <1>1, <1>4, <1>6, ReadFinds
<1>8. forwarded \in Seq(Lengths) /\ Turn \in 1..Len(forwarded) /\ Layout(forwarded, start)
  BY <1>2, <1>5, <1>7 DEF StreamTypes, Tracking, N
<1>9. PICK u \in Nat, m \in Nat : u = forwarded[Turn][1] /\ m = forwarded[Turn][2]
  BY <1>8, LengthsPositive
<1>10. PICK s \in Nat : s = start[Turn] /\ Taken(start) = s
  <2>1. Turn \in 1..(Len(forwarded) + 1)
    BY <1>8
  <2> QED BY <1>2, <1>8, <2>1 DEF Layout, Taken
<1>11. Array(2)[1] = <<"len", Turn, m>> /\ Array(2)[2] = <<"len", Turn, u>>
  <2>1. StandsAt(start, 2, 0)
    BY <1>9, <1>10 DEF StandsAt
  <2>2. \A k \in 1..2 : Array(2)[k] = ByteAt(forwarded, Turn, 0 + k)
    BY <1>7, <2>1
  <2>3. 1 \in 1..2 /\ 2 \in 1..2 /\ 0 + 1 = 1 /\ 0 + 2 = 2
    OBVIOUS
  <2>4. Array(2)[1] = ByteAt(forwarded, Turn, 1) /\ Array(2)[2] = ByteAt(forwarded, Turn, 2)
    BY <2>2, <2>3
  <2> QED BY <1>8, <1>9, <2>4, BytePlaces
<1>12. header' = [msg_len |-> m, usr_len |-> u]
  <2>1. \A l \in Nat : \A old : LengthIn(<<"len", Turn, l>>, old) = {l}
    <3>1. Turn \in Nat
      BY <1>8
    <3>2. \A l \in Nat : <<"len", Turn, l>> # UNSET
      BY <3>1, StreamAssumption DEF StreamAssumption
    <3> QED BY <3>2 DEF LengthIn
  <2>2. PICK x \in LengthIn(Array(2)[1], header.msg_len), y \in LengthIn(Array(2)[2], header.usr_len) :
          header' = [msg_len |-> x, usr_len |-> y]
    BY DEF ReadHeader
  <2>3. x = m /\ y = u
    BY <1>11, <2>1, <2>2
  <2> QED BY <2>2, <2>3
<1>13. Tracking(start)'
  <2>1. Taken(start)' = Taken(start) + 2
    BY <1>3, <1>4, <1>10 DEF Taken
  <2> QED BY <1>1, <1>4, <1>6, <2>1, ReadTracks
<1>14. Reading'
  <2>1. Turn <= N
    BY <1>7
  <2> QED BY <1>3, <1>4, <1>9, <1>12, <2>1 DEF Reading
<1>15. Whole'
  BY <1>1, <1>2, <1>3 DEF Whole
<1> QED BY <1>3, <1>13, <1>14, <1>15 DEF StreamInv

LEMMA ReadUserInv == StreamInv /\ ReadUser => StreamInv'
<1>0. short => short' \/ ~ReadUser
  BY Zenon DEF ReadUser, Read
<1> SUFFICES ASSUME StreamInv, ~short, ~short', ReadUser PROVE StreamInv'
  BY <1>0 DEF StreamInv
<1>1. PICK u : /\ u = header.usr_len /\ Read("user", "message", u) /\ usr' = Array(u)
               /\ header' = header /\ displayed' = displayed
  BY DEF ReadUser
<1>2. StreamTypes /\ Whole /\ Reading /\ reader = "user" /\ \E start : Tracking(start)
  BY <1>1 DEF StreamInv, Read
<1>3. forwarded \in Seq(Lengths) /\ Turn \in 1..Len(forwarded) /\ u = forwarded[Turn][1]
  BY <1>1, <1>2 DEF StreamTypes, Reading, Turn, N
<1>4. u \in Nat \ {0} /\ forwarded[Turn][2] \in Nat
  BY <1>3, LengthsPositive
<1>5. PICK m \in Nat : m = forwarded[Turn][2]
  BY <1>4
<1>6. /\ UNCHANGED <<forwarded, writer, in_flight, line>> /\ N' = N /\ reader' \in {"ended", "message"}
      /\ StreamTypes' /\ (reader' = "ended" => StreamInv') /\ Turn' = Turn
  <2>1. "message" \in {"header", "user", "message"}
    OBVIOUS
  <2>2. displayed' \in Seq(Seq(StreamBytes) \X Seq(StreamBytes))
    BY <1>1, <1>2 DEF StreamTypes
  <2> QED BY <1>1, <1>2, <1>4, <2>1, <2>2, ReadTypes DEF Turn
<1>7. SUFFICES ASSUME reader' = "message" PROVE StreamInv'
  BY <1>6
<1>8. PICK start : Tracking(start)
  BY <1>2
<1>9. ReadsPlace(start, u)
  BY <1>2, <1>4, <1>8 DEF ReadsPlace
<1>10. /\ Turn \in 1..N
       /\ \A off : StandsAt(start, u, off) =>
                    \A k \in 1..u : Array(u)[k] = ByteAt(forwarded, Turn, off + k)
  BY <1>1, <1>7, <1>9, ReadFinds
<1>11. PICK s \in Nat : s = start[Turn] /\ Taken(start) = s + 2
  <2>1. Turn \in 1..(Len(forwarded) + 1) /\ Layout(forwarded, start)
    BY <1>3, <1>8 DEF Tracking
  <2> QED BY <1>2, <2>1 DEF Layout, Taken
<1>12. usr' = Bytes("user", Turn, u)
  <2>1. StandsAt(start, u, 2)
    BY <1>3, <1>4, <1>5, <1>11 DEF StandsAt
  <2>2. \A k \in 1..u : Array(u)[k] = ByteAt(forwarded, Turn, 2 + k)
    BY <1>10, <2>1
  <2>3. \A k \in 1..u : ByteAt(forwarded, Turn, 2 + k) = <<"user", Turn, k>>
    BY <1>3, BytePlaces
  <2>4. \A k \in 1..u : Array(u)[k] = <<"user", Turn, k>>
    BY <2>2, <2>3
  <2>5. Array(u) = [k \in 1..u |-> Array(u)[k]]
    BY DEF Array
  <2> QED BY <1>1, <2>4, <2>5 DEF Bytes
<1>13. Tracking(start)'
  <2>1. Taken(start)' = s + (2 + u)
    BY <1>3, <1>6, <1>7, <1>11 DEF Taken
  <2>2. Taken(start)' = Taken(start) + u
    BY <1>4, <1>11, <2>1
  <2> QED BY <1>1, <1>7, <1>9, <2>2, ReadTracks
<1>14. Reading'
  BY <1>1, <1>2, <1>3, <1>6, <1>7, <1>12 DEF Reading
<1>15. Whole'
  BY <1>1, <1>2, <1>6 DEF Whole
<1> QED BY <1>6, <1>13, <1>14, <1>15 DEF StreamInv

LEMMA ReadMessageInv == StreamInv /\ ReadMessage => StreamInv'
<1>0. short => short' \/ ~ReadMessage
  BY Zenon DEF ReadMessage, Read
<1> SUFFICES ASSUME StreamInv, ~short, ~short', ReadMessage PROVE StreamInv'
  BY <1>0 DEF StreamInv
<1>1. PICK m : /\ m = header.msg_len /\ Read("message", "header", m) /\ header' = header
               /\ displayed' = IF reader' = "ended" THEN displayed
                               ELSE Append(displayed, <<usr, Array(m)>>)
  BY DEF ReadMessage
<1>2. StreamTypes /\ Whole /\ Reading /\ reader = "message" /\ \E start : Tracking(start)
  BY <1>1 DEF StreamInv, Read
<1>3. forwarded \in Seq(Lengths) /\ Turn \in 1..Len(forwarded) /\ m = forwarded[Turn][2]
  BY <1>1, <1>2 DEF StreamTypes, Reading, Turn, N
<1>4. m \in Nat \ {0} /\ forwarded[Turn][1] \in Nat
  BY <1>3, LengthsPositive
<1>5. PICK u \in Nat : u = forwarded[Turn][1]
  BY <1>4
<1>6. /\ UNCHANGED <<forwarded, writer, in_flight, line>> /\ N' = N /\ reader' \in {"ended", "header"}
      /\ displayed' \in Seq(Seq(StreamBytes) \X Seq(StreamBytes)) => StreamTypes'
      /\ displayed' = displayed /\ reader' = "ended" => StreamInv'
  <2>1. "header" \in {"header", "user", "message"}
    OBVIOUS
  <2> QED BY <1>1, <1>2, <1>4, <2>1, ReadTypes
<1>7. SUFFICES ASSUME reader' = "header" PROVE StreamInv'
  BY <1>1, <1>6
<1>8. PICK start : Tracking(start) /\ Layout(forwarded, start)
  BY <1>2 DEF Tracking
<1>9. ReadsPlace(start, m)
  BY <1>2, <1>4, <1>8 DEF ReadsPlace
<1>10. /\ Turn \in 1..N
       /\ \A off : StandsAt(start, m, off) =>
                    \A k \in 1..m : Array(m)[k] = ByteAt(forwarded, Turn, off + k)
  BY <1>1, <1>7, <1>9, ReadFinds
<1>11. PICK s \in Nat : s = start[Turn] /\ Taken(start) = s + (2 + u)
  <2>1. Turn \in 1..(Len(forwarded) + 1)
    BY <1>3
  <2> QED BY <1>2, <1>5, <1>8, <2>1 DEF Layout, Taken
<1>12. PICK text : text = Array(m) /\ text = Bytes("message", Turn, m)
  <2>1. StandsAt(start, m, 2 + u)
    BY <1>3, <1>4, <1>5, <1>11 DEF StandsAt
  <2>2. \A k \in 1..m : Array(m)[k] = ByteAt(forwarded, Turn, (2 + u) + k)
    BY <1>10, <2>1
  <2>3. \A k \in 1..m : ByteAt(forwarded, Turn, (2 + u) + k) = <<"message", Turn, k>>
    BY <1>3, <1>5, BytePlaces
  <2>4. \A k \in 1..m : Array(m)[k] = <<"message", Turn, k>>
    BY <2>2, <2>3
  <2>5. Array(m) = [k \in 1..m |-> Array(m)[k]]
    BY DEF Array
  <2> QED BY <2>4, <2>5 DEF Bytes
<1>13. PICK l \in Nat : /\ l = Len(displayed) /\ Turn = l + 1 /\ Turn' = Len(displayed') + 1
                        /\ displayed' = Append(displayed, <<usr, text>>)
                        /\ usr = Bytes("user", Turn, u)
  <2>1. Len(displayed) \in Nat
    BY <1>2 DEF StreamTypes
  <2>2. displayed' = Append(displayed, <<usr, text>>)
    BY <1>1, <1>7, <1>12
  <2>3. usr = Bytes("user", Turn, u)
    BY <1>2, <1>5 DEF Reading
  <2> QED BY <2>1, <2>2, <2>3 DEF Turn
<1>14. /\ displayed' \in Seq(Seq(StreamBytes) \X Seq(StreamBytes)) /\ Len(displayed') = l + 1
       /\ displayed'[l + 1] = <<usr, text>> /\ \A n \in 1..l : displayed'[n] = displayed[n]
  <2>1. usr \in Seq(StreamBytes) /\ text \in Seq(StreamBytes)
    <3>1. Turn \in Nat /\ "user" \in {"user", "message"} /\ "message" \in {"user", "message"}
      BY <1>3
    <3> QED BY <1>4, <1>12, <1>13, <3>1, BytesTyped
  <2>2. displayed \in Seq(Seq(StreamBytes) \X Seq(StreamBytes))
    BY <1>2 DEF StreamTypes
  <2> QED BY <1>13, <2>1, <2>2
<1>15. StreamTypes'
  BY <1>6, <1>14
<1>16. Whole'
  <2>1. Len(displayed') <= N'
    BY <1>6, <1>10, <1>13, <1>14
  <2>2. ASSUME NEW n \in 1..Len(displayed')
        PROVE  displayed'[n] = <<Bytes("user", n, forwarded'[n][1]), Bytes("message", n, forwarded'[n][2])>>
    <3>1. CASE n = l + 1
      BY <1>3, <1>5, <1>6, <1>12, <1>13, <1>14, <3>1
    <3>2. CASE n # l + 1
      <4>1. n \in 1..l
        BY <1>14, <3>2
      <4> QED BY <1>2, <1>6, <1>13, <1>14, <4>1 DEF Whole
    <3> QED BY <3>1, <3>2
  <2> QED BY <2>1, <2>2 DEF Whole
<1>17. Tracking(start)'
  <2>1. Turn' = Turn + 1 /\ start[Turn + 1] = s + (2 + u) + m
    BY <1>3, <1>5, <1>8, <1>11, <1>13, <1>14 DEF Layout
  <2>2. Taken(start)' = s + (2 + u) + m
    BY <1>7, <2>1 DEF Taken
  <2>3. Taken(start)' = Taken(start) + m
    BY <1>4, <1>11, <2>2
  <2> QED BY <1>1, <1>7, <1>9, <2>3, ReadTracks
<1>18. Reading'
  BY <1>7 DEF Reading
<1> QED BY <1>15, <1>16, <1>17, <1>18 DEF StreamInv

LEMMA StreamNextInv == StreamInv /\ [StreamNext]_stream_vars => StreamInv'
<1> SUFFICES ASSUME StreamInv, [StreamNext]_stream_vars PROVE StreamInv'
  OBVIOUS
<1>1. CASE WriteHeader
  BY <1>1, WriteHeaderInv
<1>2. CASE WriteUser
  BY <1>2, WriteUserInv
<1>3. CASE WriteMessage
  BY <1>3, WriteMessageInv
<1>4. CASE BytesArrive
  BY <1>4, ArriveInv
<1>5. CASE Cut
  BY <1>5, CutInv
<1>6. CASE ReadHeader
  BY <1>6, ReadHeaderInv
<1>7. CASE ReadUser
  BY <1>7, ReadUserInv
<1>8. CASE ReadMessage
  BY <1>8, ReadMessageInv
<1>9. CASE UNCHANGED stream_vars
  BY <1>9 DEF StreamInv, StreamTypes, Whole, Reading, Tracking, Taken, Written, Coming, Turn, N, stream_vars
<1> QED BY <1>1, <1>2, <1>3, <1>4, <1>5, <1>6, <1>7, <1>8, <1>9 DEF StreamNext, Writer, Reader

(* Whatever the lengths and however many messages: while no read was short,  *)
(* ui_display gets the messages that forward_message wrote, whole, in order *)
(* and under their own users, and a cut only ends the list.                *)
THEOREM StreamShownWhole == StreamSpec => []ShownWhole
<1>1. StreamInv => ShownWhole
  <2> SUFFICES ASSUME StreamInv, ~short PROVE Whole /\ DOMAIN displayed = 1..Len(displayed)
    BY DEF ShownWhole, Whole
  <2> QED BY DEF StreamInv, StreamTypes
<1> QED BY StreamInitInv, StreamNextInv, <1>1, PTL DEF StreamSpec

USE StreamAssumption

(* Every variable keeps its type, also after a read that was short: a byte *)
(* of a header is a length wherever it ends up.                            *)
AnyByte == ({"len"} \X Nat \X AnyLength) \cup ({"user", "message"} \X Nat \X Nat)

StreamTyped ==
  /\ StreamTypeOK
  /\ header \in [msg_len : AnyLength \cup {UNSET}, usr_len : AnyLength \cup {UNSET}]
  /\ in_flight \in Seq(AnyByte) /\ arrived \in Seq(AnyByte)
  /\ writer # "idle" => N # 0
  /\ reader \in {"user", "message"} => header.msg_len \in AnyLength /\ header.usr_len \in AnyLength

LEMMA AnyLengthNat == AnyLength \subseteq Nat /\ UserLengths \subseteq AnyLength /\ MessageLengths \subseteq AnyLength
BY DEF AnyLength

LEMMA ByteLength ==
  ASSUME NEW byte \in AnyByte \cup {UNSET}, NEW old \in AnyLength \cup {UNSET}
  PROVE  LengthIn(byte, old) \subseteq AnyLength
<1>1. CASE byte = UNSET
  BY <1>1 DEF LengthIn
<1>2. CASE byte # UNSET /\ byte[1] = "len"
  <2>1. byte \in {"len"} \X Nat \X AnyLength
    BY <1>2 DEF AnyByte
  <2>2. byte[3] \in AnyLength
    BY <2>1
  <2> QED BY <1>2, <2>2 DEF LengthIn
<1>3. CASE byte # UNSET /\ byte[1] # "len"
  BY <1>3 DEF LengthIn
<1> QED BY <1>1, <1>2, <1>3

LEMMA ReturnedNat ==
  ASSUME arrived \in Seq(AnyByte), NEW size \in Nat
  PROVE  Returned(size) \in Nat /\ Returned(size) <= size /\ Returned(size) <= Len(arrived)
BY DEF Returned

LEMMA ReadTyped ==
  ASSUME StreamTyped, NEW from, NEW to \in {"header", "user", "message"}, NEW size \in Nat, Read(from, to, size)
  PROVE  /\ reader' \in {to, "ended"} /\ short' \in BOOLEAN /\ arrived' \in Seq(AnyByte)
         /\ UNCHANGED <<forwarded, writer, in_flight, line>> /\ N' = N
         /\ \A k \in 1..size : Array(size)[k] \in AnyByte \cup {UNSET}
<1>1. arrived \in Seq(AnyByte) /\ Returned(size) \in Nat /\ Returned(size) <= Len(arrived) /\ Len(arrived) \in Nat
  BY ReturnedNat DEF StreamTyped
<1>2. arrived' = SubSeq(arrived, Returned(size) + 1, Len(arrived))
  BY DEF Read
<1>3. arrived' \in Seq(AnyByte)
  <2>1. PICK r \in Nat : r = Returned(size)
    BY <1>1
  <2>2. SubSeq(arrived, r + 1, Len(arrived)) \in Seq(AnyByte)
    BY <1>1, <2>1
  <2> QED BY <1>2, <2>1, <2>2
<1>4. reader' \in {to, "ended"} /\ short' \in BOOLEAN /\ UNCHANGED <<forwarded, writer, in_flight, line>> /\ N' = N
  BY DEF Read, StreamTyped, StreamTypeOK, N
<1>5. \A k \in 1..size : Array(size)[k] \in AnyByte \cup {UNSET}
  BY <1>1 DEF Array
<1> QED BY <1>3, <1>4, <1>5

LEMMA WriteTyped ==
  ASSUME StreamTyped, NEW from, NEW to \in {"idle", "user", "message"}, NEW bytes \in Seq(AnyByte),
         Writes(from, to, bytes), forwarded' \in Seq(UserLengths \X MessageLengths), N' # 0
  PROVE  StreamTyped'
<1>1. in_flight' \in Seq(AnyByte)
  BY DEF Writes, StreamTyped
<1>2. writer' = to /\ UNCHANGED <<arrived, line, reader, header, short>>
  BY DEF Writes
<1> QED BY <1>1, <1>2 DEF StreamTyped, StreamTypeOK

LEMMA StreamTypedNext == StreamTyped /\ [StreamNext]_stream_vars => StreamTyped'
<1> SUFFICES ASSUME StreamTyped, [StreamNext]_stream_vars PROVE StreamTyped'
  OBVIOUS
<1>1. forwarded \in Seq(UserLengths \X MessageLengths) /\ N \in Nat
  BY DEF StreamTyped, StreamTypeOK, N
<1>2. CASE WriteHeader
  <2>1. PICK u \in UserLengths, m \in MessageLengths :
          Writes("idle", "user", HeaderBytes(N + 1, u, m)) /\ forwarded' = Append(forwarded, <<u, m>>)
    BY <1>2 DEF WriteHeader
  <2>2. <<"len", N + 1, m>> \in AnyByte /\ <<"len", N + 1, u>> \in AnyByte
    BY <1>1, AnyLengthNat DEF AnyByte
  <2>3. HeaderBytes(N + 1, u, m) \in Seq(AnyByte)
    BY <2>2 DEF HeaderBytes
  <2>4. forwarded' \in Seq(UserLengths \X MessageLengths) /\ N' # 0
    BY <1>1, <2>1 DEF N
  <2> QED BY <2>1, <2>3, <2>4, WriteTyped
<1>3. ASSUME NEW what \in {"user", "message"}, NEW len \in Nat
      PROVE  Bytes(what, N, len) \in Seq(AnyByte)
  <2>1. \A k \in 1..len : <<what, N, k>> \in AnyByte
    BY <1>1 DEF AnyByte
  <2> QED BY <2>1 DEF Bytes
<1>4. CASE WriteUser
  <2>1. /\ Writes("user", "message", Bytes("user", N, forwarded[N][1])) /\ forwarded' = forwarded
    BY <1>4 DEF WriteUser
  <2>2. N # 0
    BY <2>1 DEF Writes, StreamTyped
  <2>3. forwarded[N] \in UserLengths \X MessageLengths
    BY <1>1, <2>2 DEF N
  <2>4. forwarded[N][1] \in Nat
    BY <2>3, AnyLengthNat
  <2>5. Bytes("user", N, forwarded[N][1]) \in Seq(AnyByte) /\ N' # 0
    BY <1>3, <2>1, <2>2, <2>4 DEF N
  <2> QED BY <1>1, <2>1, <2>5, WriteTyped
<1>5. CASE WriteMessage
  <2>1. /\ Writes("message", "idle", Bytes("message", N, forwarded[N][2])) /\ forwarded' = forwarded
    BY <1>5 DEF WriteMessage
  <2>2. N # 0
    BY <2>1 DEF Writes, StreamTyped
  <2>3. forwarded[N] \in UserLengths \X MessageLengths
    BY <1>1, <2>2 DEF N
  <2>4. forwarded[N][2] \in Nat
    BY <2>3, AnyLengthNat
  <2>5. Bytes("message", N, forwarded[N][2]) \in Seq(AnyByte) /\ N' # 0
    BY <1>3, <2>1, <2>2, <2>4 DEF N
  <2> QED BY <1>1, <2>1, <2>5, WriteTyped
<1>6. CASE BytesArrive
  <2>1. PICK k \in 1..Len(in_flight) :
          /\ arrived' = arrived \o SubSeq(in_flight, 1, k)
          /\ in_flight' = SubSeq(in_flight, k + 1, Len(in_flight))
          /\ UNCHANGED <<forwarded, writer, line, reader, header, short>>
    BY <1>6 DEF BytesArrive
  <2>2. in_flight \in Seq(AnyByte) /\ arrived \in Seq(AnyByte) /\ k \in Nat /\ Len(in_flight) \in Nat /\ k <= Len(in_flight)
    BY DEF StreamTyped
  <2>3. SubSeq(in_flight, 1, k) \in Seq(AnyByte) /\ SubSeq(in_flight, k + 1, Len(in_flight)) \in Seq(AnyByte)
    BY <2>2
  <2>4. arrived' \in Seq(AnyByte) /\ in_flight' \in Seq(AnyByte)
    BY <2>1, <2>2, <2>3
  <2> QED BY <2>1, <2>4 DEF StreamTyped, StreamTypeOK, N
<1>7. CASE Cut
  <2>1. <<>> \in Seq(AnyByte)
    OBVIOUS
  <2>2. line' = "cut" /\ in_flight' = <<>> /\ UNCHANGED <<forwarded, writer, arrived, reader, header, short>>
    BY <1>7 DEF Cut
  <2> QED BY <2>1, <2>2 DEF StreamTyped, StreamTypeOK, N
<1>8. CASE ReadHeader
  <2>1. Read("header", "user", 2)
    BY <1>8 DEF ReadHeader
  <2>2. /\ reader' \in {"user", "ended"} /\ short' \in BOOLEAN /\ arrived' \in Seq(AnyByte)
        /\ UNCHANGED <<forwarded, writer, in_flight, line>> /\ N' = N
        /\ Array(2)[1] \in AnyByte \cup {UNSET} /\ Array(2)[2] \in AnyByte \cup {UNSET}
    <3>1. 2 \in Nat /\ 1 \in 1..2 /\ 2 \in 1..2
      OBVIOUS
    <3> QED BY <2>1, <3>1, ReadTyped
  <2>3. header.msg_len \in AnyLength \cup {UNSET} /\ header.usr_len \in AnyLength \cup {UNSET}
    BY DEF StreamTyped
  <2>4. LengthIn(Array(2)[1], header.msg_len) \subseteq AnyLength /\ LengthIn(Array(2)[2], header.usr_len) \subseteq AnyLength
    BY <2>2, <2>3, ByteLength
  <2>5. PICK m \in AnyLength, u \in AnyLength : header' = [msg_len |-> m, usr_len |-> u]
    BY <1>8, <2>4 DEF ReadHeader
  <2> QED BY <2>2, <2>5 DEF StreamTyped, StreamTypeOK
<1>9. CASE ReadUser
  <2>1. Read("user", "message", header.usr_len) /\ header' = header
    BY <1>9 DEF ReadUser
  <2>2. header.msg_len \in AnyLength /\ header.usr_len \in AnyLength /\ header.usr_len \in Nat
    BY <2>1, AnyLengthNat DEF Read, StreamTyped
  <2>3. /\ reader' \in {"message", "ended"} /\ short' \in BOOLEAN /\ arrived' \in Seq(AnyByte)
        /\ UNCHANGED <<forwarded, writer, in_flight, line>> /\ N' = N
    BY <2>1, <2>2, ReadTyped
  <2> QED BY <2>1, <2>2, <2>3 DEF StreamTyped, StreamTypeOK
<1>10. CASE ReadMessage
  <2>1. Read("message", "header", header.msg_len) /\ header' = header
    BY <1>10 DEF ReadMessage
  <2>2. header.msg_len \in AnyLength /\ header.usr_len \in AnyLength /\ header.msg_len \in Nat
    BY <2>1, AnyLengthNat DEF Read, StreamTyped
  <2>3. /\ reader' \in {"header", "ended"} /\ short' \in BOOLEAN /\ arrived' \in Seq(AnyByte)
        /\ UNCHANGED <<forwarded, writer, in_flight, line>> /\ N' = N
    BY <2>1, <2>2, ReadTyped
  <2> QED BY <2>1, <2>2, <2>3 DEF StreamTyped, StreamTypeOK
<1>11. CASE UNCHANGED stream_vars
  BY <1>11 DEF stream_vars, StreamTyped, StreamTypeOK, N
<1> QED BY <1>2, <1>4, <1>5, <1>6, <1>7, <1>8, <1>9, <1>10, <1>11 DEF StreamNext, Writer, Reader

LEMMA StreamTypesKept == StreamSpec => []StreamTypeOK
<1>1. ASSUME StreamInit PROVE StreamTyped
  <2>1. <<>> \in Seq(AnyByte) /\ <<>> \in Seq(UserLengths \X MessageLengths)
    OBVIOUS
  <2>2. header \in [msg_len : AnyLength \cup {UNSET}, usr_len : AnyLength \cup {UNSET}]
    BY <1>1 DEF StreamInit
  <2>3. StreamTypeOK
    BY <1>1, <2>1, <2>2 DEF StreamInit, StreamTypeOK
  <2> QED BY <1>1, <2>1, <2>2, <2>3 DEF StreamInit, StreamTyped
<1>2. StreamTyped => StreamTypeOK
  BY DEF StreamTyped
<1> QED BY <1>1, <1>2, StreamTypedNext, PTL DEF StreamSpec

HIDE StreamAssumption

(***************************************************************************)
(* EchoServer, for any number of clients and descriptors: as long as every *)
(* worker reads the address it was given before the next accept, every     *)
(* client gets its own lines back.                                         *)
(***************************************************************************)

(* A line of a client that waits is in one place: on its way to the        *)
(* server, or back.                                                        *)
Typed(c) == <<c, sent[c], "typed">>
Answer(c) == <<c, sent[c], "upper">>
OnTheWay(c) == \/ inbox[c] = <<Typed(c)>> /\ outbox[c] = <<>>
               \/ inbox[c] = <<>> /\ outbox[c] = <<Answer(c)>>

Silent(c) == inbox[c] = <<>> /\ outbox[c] = <<>>

Lines == \A c \in Clients :
  /\ client[c] \in {"new", "refused", "ready", "stuck"} => Silent(c)
  /\ client[c] \in {"new", "refused", "ready"} => sent[c] = Len(got[c])
  /\ client[c] = "waiting" => sent[c] = Len(got[c]) + 1 /\ OnTheWay(c)

Told == \A c \in Clients : \A k \in 1..Len(got[c]) : got[c][k] = <<c, k, "upper">>

(* Every worker has a descriptor of its own, for both directions.          *)
Serving(w) == worker[w] \in {"dup_out", "dup_in", "serve"}

OwnDescriptor ==
  /\ \A w \in Workers : Serving(w) => my_fd[w] \in Descriptors /\ sock[my_fd[w]] \in Clients
  /\ \A w, v \in Workers : Serving(w) /\ Serving(v) /\ my_fd[w] = my_fd[v] => w = v

OneClient == \A w \in Workers :
  /\ worker[w] = "dup_in" => to_client[w] = sock[my_fd[w]]
  /\ worker[w] = "serve" => to_client[w] = from_client[w] /\ from_client[w] \in Clients

(* client_socket_fd is the business of one worker at a time: the one that  *)
(* is to be created, or the one that has not read it yet.                  *)
Created(w) == worker[w] = "created"

Argument ==
  /\ (main_at = "create" \/ \E w \in Workers : Created(w)) =>
       /\ client_socket_fd \in Descriptors /\ sock[client_socket_fd] \in Clients
       /\ \A w \in Workers : Serving(w) => my_fd[w] # client_socket_fd
  /\ \A w \in Workers : Created(w) => main_at # "create" /\ \A v \in Workers : Created(v) => v = w

TypedLines == Clients \X Nat \X {"typed"}
Replies == Clients \X Nat \X {"upper"}

EchoTypes ==
  /\ backlog \subseteq Clients
  /\ sock \in [Descriptors -> Clients \cup {NONE}]
  /\ worker \in [Workers -> {"none", "created", "dup_out", "dup_in", "serve", "done"}]
  /\ my_fd \in [Workers -> Descriptors \cup {NONE}]
  /\ to_client \in [Workers -> Clients \cup {NONE}]
  /\ from_client \in [Workers -> Clients \cup {NONE}]
  /\ client \in [Clients -> {"new", "refused", "ready", "waiting", "stuck", "quit",
                             "dropped", "cut"}]
  /\ sent \in [Clients -> Nat]
  /\ got \in [Clients -> Seq(Replies)] /\ outbox \in [Clients -> Seq(Replies)]
  /\ inbox \in [Clients -> Seq(TypedLines \cup {Quit})]

Serves == OwnDescriptor /\ OneClient /\ Argument
EchoInv == timely => EchoTypes /\ Lines /\ Told /\ (Up => Serves)
-----------------------------------------------------------------------------
USE EchoAssumption

LEMMA Single ==
  ASSUME NEW x
  PROVE  /\ <<x>> # <<>> /\ Head(<<x>>) = x /\ Tail(<<x>>) = <<>> /\ Append(<<>>, x) = <<x>>
OBVIOUS

LEMMA TypedIsNoQuit == \A c \in Clients : Typed(c) # Quit
BY DEF Typed, Quit

LEMMA EchoInitInv == EchoInit => EchoInv
<1> SUFFICES ASSUME EchoInit PROVE EchoInv
  OBVIOUS
<1>1. EchoTypes
  BY DEF EchoInit, EchoTypes
<1>2. Lines /\ Told
  BY DEF EchoInit, Lines, Told, Silent
<1>3. Serves
  BY DEF EchoInit, Serves, OwnDescriptor, OneClient, Argument, Serving, Created
<1> QED BY <1>1, <1>2, <1>3 DEF EchoInv

LEMMA ListenStep == ASSUME EchoInv, Listen PROVE EchoInv'
<1> SUFFICES ASSUME timely' PROVE (EchoTypes /\ Lines /\ Told /\ (Up => Serves))'
  BY DEF EchoInv
<1> USE DEF EchoInv, Listen, Up, main_vars, worker_vars, client_vars
<1>1. (EchoTypes /\ Lines /\ Told)'
  BY DEF EchoTypes, Lines, Told, Silent, OnTheWay, Typed, Answer
<1>2. Serves'
  BY DEF Serves, OwnDescriptor, OneClient, Argument, Serving, Created
<1> QED BY <1>1, <1>2

LEMMA AcceptStep == ASSUME EchoInv, Accept PROVE EchoInv'
<1> SUFFICES ASSUME timely' PROVE (EchoTypes /\ Lines /\ Told /\ (Up => Serves))'
  BY DEF EchoInv
<1> USE DEF EchoInv, Up, main_vars, worker_vars, client_vars
<1>1. (Lines /\ Told)'
  BY DEF Accept, Lines, Told, Silent, OnTheWay, Typed, Answer
<1> PICK c \in backlog, f \in {d \in Descriptors : sock[d] = NONE} :
       backlog' = backlog \ {c} /\ sock' = [sock EXCEPT ![f] = c] /\ client_socket_fd' = f
  BY DEF Accept
<1>2. EchoTypes'
  BY DEF Accept, EchoTypes
<1>3. \A w \in Workers : Serving(w) => my_fd[w] # f
  <2>1. EchoTypes /\ OwnDescriptor
    BY DEF Accept, Serves
  <2>2. sock[f] \notin Clients
    BY EchoAssumption
  <2> QED BY <2>1, <2>2 DEF OwnDescriptor
<1>4. (OwnDescriptor /\ OneClient)'
  BY <1>3 DEF Accept, EchoTypes, Serves, OwnDescriptor, OneClient, Serving
<1>5. Argument'
  BY <1>3 DEF Accept, EchoTypes, Argument, Serving, Created
<1> QED BY <1>1, <1>2, <1>4, <1>5 DEF Serves

LEMMA CreateWorkerStep == ASSUME EchoInv, CreateWorker PROVE EchoInv'
<1> SUFFICES ASSUME timely' PROVE (EchoTypes /\ Lines /\ Told /\ (Up => Serves))'
  BY DEF EchoInv
<1> USE DEF EchoInv, CreateWorker, Up, main_vars, worker_vars, client_vars
<1>1. (Lines /\ Told)'
  BY DEF Lines, Told, Silent, OnTheWay, Typed, Answer
<1>2. EchoTypes'
  BY DEF EchoTypes
<1>3. \A w \in Workers : worker'[w] = IF w = started' THEN "created" ELSE worker[w]
  BY DEF EchoTypes
<1>4. (OwnDescriptor /\ OneClient)'
  BY <1>3 DEF Serves, OwnDescriptor, OneClient, Serving
<1>5. Argument'
  BY <1>3 DEF Serves, Argument, Serving, Created
<1> QED BY <1>1, <1>2, <1>4, <1>5 DEF Serves

LEMMA ReadArgStep == ASSUME EchoInv, NEW w \in Workers, ReadArg(w) PROVE EchoInv'
<1> SUFFICES ASSUME timely' PROVE (EchoTypes /\ Lines /\ Told /\ (Up => Serves))'
  BY DEF EchoInv
<1> USE DEF EchoInv, ReadArg, At, Up, main_vars, worker_vars, client_vars
<1>1. (Lines /\ Told)'
  BY DEF Lines, Told, Silent, OnTheWay, Typed, Answer
<1>2. client_socket_fd \in Descriptors /\ sock[client_socket_fd] \in Clients
  BY DEF Serves, Argument, Created
<1>3. EchoTypes'
  BY <1>2 DEF EchoTypes
<1>4. \A v \in Workers : /\ worker'[v] = IF v = w THEN "dup_out" ELSE worker[v]
                         /\ my_fd'[v] = IF v = w THEN client_socket_fd ELSE my_fd[v]
  BY DEF EchoTypes
<1>5. (OwnDescriptor /\ OneClient)'
  BY <1>2, <1>4 DEF Serves, OwnDescriptor, OneClient, Argument, Serving, Created
<1>6. Argument'
  BY <1>2, <1>4 DEF Serves, Argument, Serving, Created
<1> QED BY <1>1, <1>3, <1>5, <1>6 DEF Serves

LEMMA DupStep == ASSUME EchoInv, NEW w \in Workers, DupOut(w) \/ DupIn(w) PROVE EchoInv'
<1> SUFFICES ASSUME timely' PROVE (EchoTypes /\ Lines /\ Told /\ (Up => Serves))'
  BY DEF EchoInv
<1> USE DEF EchoInv, DupOut, DupIn, At, Up, main_vars, worker_vars, client_vars
<1>1. (Lines /\ Told)'
  BY DEF Lines, Told, Silent, OnTheWay, Typed, Answer
<1>2. my_fd[w] \in Descriptors /\ sock[my_fd[w]] \in Clients
  BY DEF Serves, OwnDescriptor, Serving
<1>3. EchoTypes'
  BY <1>2 DEF EchoTypes
<1>4. \A v \in Workers : Serving(v)' <=> Serving(v)
  BY DEF EchoTypes, Serving
<1>5. OwnDescriptor'
  BY <1>4 DEF Serves, OwnDescriptor
<1>6. OneClient'
  <2>1. CASE DupOut(w)
    BY <1>2, <2>1 DEF EchoTypes, Serves, OneClient
  <2>2. CASE DupIn(w)
    BY <1>2, <2>2 DEF EchoTypes, Serves, OneClient
  <2> QED BY <2>1, <2>2
<1>7. Argument'
  <2>1. \A v \in Workers : Created(v)' <=> Created(v)
    BY DEF EchoTypes, Created
  <2>2. UNCHANGED <<main_at, client_socket_fd, sock, my_fd>> /\ Argument
    BY DEF Serves
  <2> QED BY <1>4, <2>1, <2>2 DEF Argument
<1> QED BY <1>1, <1>3, <1>5, <1>6, <1>7 DEF Serves

(* The worker's streams lead to one client, so the line goes back to where *)
(* it came from.                                                           *)
LEMMA EchoStep == ASSUME EchoInv, NEW w \in Workers, Echo(w) PROVE EchoInv'
<1> SUFFICES ASSUME timely' PROVE (EchoTypes /\ Lines /\ Told /\ (Up => Serves))'
  BY DEF EchoInv
<1> USE DEF EchoInv, At, Up, main_vars, worker_vars, client_vars
<1> DEFINE c == from_client[w]
<1>1. /\ c \in Clients /\ to_client[w] = c /\ worker' = worker
      /\ inbox[c] # <<>> /\ Head(inbox[c]) # Quit
      /\ inbox' = [inbox EXCEPT ![c] = Tail(@)]
      /\ outbox' = [outbox EXCEPT ![c] = Append(@, Upper(Head(inbox[c])))]
      /\ UNCHANGED <<backlog, sock, my_fd, to_client, from_client, client, sent, got>>
      /\ UNCHANGED main_vars
  <2>1. Up /\ timely /\ worker[w] = "serve" /\ worker' = [worker EXCEPT ![w] = "serve"]
    BY DEF Echo
  <2>2. c \in Clients /\ to_client[w] = c
    BY <2>1 DEF Serves, OneClient
  <2>3. worker' = worker
    BY <2>1 DEF EchoTypes
  <2> QED BY <2>2, <2>3 DEF Echo
<1>2. EchoTypes'
  <2>1. Head(inbox[c]) \in TypedLines /\ Tail(inbox[c]) \in Seq(TypedLines \cup {Quit})
    BY <1>1 DEF EchoTypes
  <2>2. Upper(Head(inbox[c])) \in Replies
    BY <2>1 DEF Upper, TypedLines, Replies
  <2> QED BY <1>1, <2>1, <2>2 DEF EchoTypes
<1>3. ASSUME client[c] = "waiting"
      PROVE  inbox'[c] = <<>> /\ outbox'[c] = <<Answer(c)>>
  <2>1. inbox[c] = <<Typed(c)>> /\ outbox[c] = <<>>
    BY <1>1, <1>3 DEF Lines, OnTheWay
  <2>2. Head(inbox[c]) = Typed(c) /\ Upper(Typed(c)) = Answer(c)
    BY <2>1, Single DEF Upper, Typed, Answer
  <2> QED BY <1>1, <2>1, <2>2, Single DEF EchoTypes
<1>4. Lines'
  BY <1>1, <1>3 DEF EchoTypes, Lines, Silent, OnTheWay, Typed, Answer
<1>5. Told'
  BY <1>1 DEF Told
<1>6. Serves'
  BY <1>1 DEF Echo, Serves, OwnDescriptor, OneClient, Argument, Serving, Created
<1> QED BY <1>2, <1>4, <1>5, <1>6

LEMMA QuitReadStep == ASSUME EchoInv, NEW w \in Workers, QuitRead(w) PROVE EchoInv'
<1> SUFFICES ASSUME timely' PROVE (EchoTypes /\ Lines /\ Told /\ (Up => Serves))'
  BY DEF EchoInv
<1> USE DEF EchoInv, QuitRead, At, Up, main_vars, worker_vars, client_vars
<1> DEFINE c == from_client[w]
<1>1. c \in Clients
  BY DEF Serves, OneClient
<1>2. EchoTypes'
  <2>1. Tail(inbox[c]) \in Seq(TypedLines \cup {Quit})
    BY <1>1 DEF EchoTypes
  <2> QED BY <1>1, <2>1 DEF EchoTypes
<1>3. client[c] # "waiting"
  BY <1>1, TypedIsNoQuit, Single DEF Lines, OnTheWay
<1>4. (Lines /\ Told)'
  BY <1>1, <1>3 DEF EchoTypes, Lines, Told, Silent, OnTheWay, Typed, Answer
<1>5. \A v \in Workers \ {w} : Serving(v) => my_fd[v] # my_fd[w]
  BY DEF Serves, OwnDescriptor, Serving
<1>6. (OwnDescriptor /\ OneClient)'
  BY <1>5 DEF EchoTypes, Serves, OwnDescriptor, OneClient, Serving
<1>7. Argument'
  BY <1>5 DEF EchoTypes, Serves, Argument, Serving, Created
<1> QED BY <1>2, <1>4, <1>6, <1>7 DEF Serves

LEMMA EndStep ==
  ASSUME EchoInv, MainFails \/ \E w \in Workers : EndRead(w)
  PROVE  EchoInv'
<1> USE DEF EchoInv, MainFails, EndRead, At, Up, main_vars, worker_vars, client_vars
<1>1. EchoTypes => EchoTypes'
  BY DEF EchoTypes
<1>2. Lines /\ Told => (Lines /\ Told)'
  BY DEF Lines, Told, Silent, OnTheWay, Typed, Answer
<1> QED BY <1>1, <1>2

(* The clients' steps leave the workers alone.                             *)
LEMMA UseStep == ASSUME EchoInv, NEW c \in Clients, Hear(c) \/ Use(c) PROVE EchoInv'
<1> SUFFICES ASSUME timely PROVE (EchoTypes /\ Lines /\ Told /\ (Up => Serves))'
  BY DEF EchoInv, Hear, Use, Reply, CutOff, Connect, Send, SendUnended, SendQuit, Drop, main_vars
<1> USE DEF EchoInv, Become, main_vars, worker_vars
<1>1. (Up => Serves)'
  <2>1. UNCHANGED <<server, main_vars, sock, worker_vars>>
    BY DEF Hear, Use, Reply, CutOff, Connect, Send, SendUnended, SendQuit, Drop
  <2> QED BY <2>1 DEF Up, Serves, OwnDescriptor, OneClient, Argument, Serving, Created
<1>2. CASE Reply(c)
  <2>1. outbox[c] = <<Answer(c)>> /\ inbox[c] = <<>> /\ sent[c] = Len(got[c]) + 1
    BY <1>2 DEF Reply, Lines, OnTheWay
  <2>2. got' = [got EXCEPT ![c] = Append(@, Answer(c))] /\ outbox' = [outbox EXCEPT ![c] = <<>>]
    BY <1>2, <2>1, Single DEF Reply
  <2>3. EchoTypes'
    <3>1. Answer(c) \in Replies /\ <<>> \in Seq(Replies)
      BY DEF EchoTypes, Answer, Replies
    <3>2. Append(got[c], Answer(c)) \in Seq(Replies)
      BY <3>1 DEF EchoTypes
    <3> QED BY <1>2, <2>2, <3>1, <3>2 DEF Reply, EchoTypes
  <2>4. Lines'
    BY <1>2, <2>1, <2>2 DEF Reply, EchoTypes, Lines, Silent, OnTheWay, Typed, Answer
  <2>5. Told'
    <3>1. got[c] \in Seq(Replies) /\ got'[c] = Append(got[c], Answer(c))
      BY <2>2 DEF EchoTypes
    <3>2. /\ Len(got'[c]) = Len(got[c]) + 1
          /\ \A k \in 1..Len(got[c]) : got'[c][k] = got[c][k]
          /\ got'[c][Len(got[c]) + 1] = <<c, Len(got[c]) + 1, "upper">>
      BY <2>1, <3>1 DEF Answer
    <3>3. \A k \in 1..Len(got'[c]) : k \in 1..Len(got[c]) \/ k = Len(got[c]) + 1
      BY <3>1, <3>2
    <3>4. \A d \in Clients \ {c} : got'[d] = got[d]
      BY <2>2 DEF EchoTypes
    <3> QED BY <3>2, <3>3, <3>4 DEF Told
  <2> QED BY <1>1, <2>3, <2>4, <2>5
<1>3. CASE Send(c)
  <2>1. inbox[c] = <<>> /\ outbox[c] = <<>>
    BY <1>3 DEF Send, Lines, Silent
  <2>2. inbox' = [inbox EXCEPT ![c] = <<(<<c, sent'[c], "typed">>)>>]
    BY <1>3, <2>1, Single DEF Send
  <2>3. EchoTypes'
    <3>1. <<c, sent'[c], "typed">> \in TypedLines /\ sent' \in [Clients -> Nat]
      BY <1>3 DEF Send, EchoTypes, TypedLines
    <3>2. <<(<<c, sent'[c], "typed">>)>> \in Seq(TypedLines \cup {Quit})
      BY <3>1
    <3>3. inbox' \in [Clients -> Seq(TypedLines \cup {Quit})]
      BY <2>2, <3>2 DEF EchoTypes
    <3>4. client' \in [Clients -> {"new", "refused", "ready", "waiting", "stuck", "quit",
                                   "dropped", "cut"}]
      BY <1>3 DEF Send, Become, EchoTypes
    <3>5. UNCHANGED <<backlog, sock, worker, my_fd, to_client, from_client, got, outbox>>
      BY <1>3 DEF Send
    <3> QED BY <3>1, <3>3, <3>4, <3>5 DEF EchoTypes
  <2>4. Lines'
    BY <1>3, <2>1, <2>2 DEF Send, EchoTypes, Lines, Silent, OnTheWay, Typed, Answer
  <2> QED BY <1>1, <1>3, <2>3, <2>4 DEF Send, Told
<1>4. CASE Connect(c) \/ SendUnended(c) \/ Drop(c) \/ CutOff(c)
  <2>1. PICK to \in {"ready", "refused", "stuck", "dropped", "cut"} :
          /\ client' = [client EXCEPT ![c] = to]
          /\ to \in {"ready", "refused"} => client[c] = "new"
          /\ to = "stuck" => client[c] = "ready"
    <3>1. CASE Connect(c)
      BY <3>1 DEF Connect
    <3>2. CASE SendUnended(c)
      BY <3>2 DEF SendUnended
    <3>3. CASE Drop(c) \/ CutOff(c)
      BY <3>3 DEF Drop, CutOff
    <3> QED BY <1>4, <3>1, <3>2, <3>3
  <2>2. /\ backlog' = backlog \/ backlog' = backlog \cup {c}
        /\ UNCHANGED <<sock, worker, my_fd, to_client, from_client, sent, got, inbox, outbox>>
    BY <1>4 DEF Connect, SendUnended, Drop, CutOff
  <2>3. EchoTypes'
    BY <2>1, <2>2 DEF EchoTypes
  <2>4. Lines'
    <3>1. client \in [Clients -> {"new", "refused", "ready", "waiting", "stuck", "quit",
                                  "dropped", "cut"}]
      BY DEF EchoTypes
    <3>2. \A d \in Clients \ {c} : client'[d] = client[d]
      BY <2>1, <3>1
    <3>3. client'[c] = to
      BY <2>1, <3>1
    <3>4. UNCHANGED <<sent, got, inbox, outbox>>
      BY <2>2
    <3>5. \A d \in Clients : (Silent(d)' <=> Silent(d)) /\ (OnTheWay(d)' <=> OnTheWay(d))
      BY <3>4 DEF Silent, OnTheWay, Typed, Answer
    <3> QED BY <2>1, <3>2, <3>3, <3>4, <3>5 DEF Lines
  <2>5. Told'
    BY <2>2 DEF Told
  <2> QED BY <1>1, <2>3, <2>4, <2>5
<1>5. CASE SendQuit(c)
  <2>1. EchoTypes'
    BY <1>5 DEF SendQuit, EchoTypes
  <2>2. Lines'
    BY <1>5 DEF SendQuit, EchoTypes, Lines, Silent, OnTheWay, Typed, Answer
  <2> QED BY <1>1, <1>5, <2>1, <2>2 DEF SendQuit, Told
<1> QED BY <1>2, <1>3, <1>4, <1>5 DEF Hear, Use

LEMMA EchoStutter == ASSUME EchoInv, UNCHANGED echo_vars PROVE EchoInv'
<1> USE DEF EchoInv, echo_vars, main_vars, worker_vars, client_vars
<1>1. EchoTypes => EchoTypes'
  BY DEF EchoTypes
<1>2. Lines /\ Told => (Lines /\ Told)'
  BY DEF Lines, Told, Silent, OnTheWay, Typed, Answer
<1>3. (Up => Serves) => (Up => Serves)'
  BY DEF Up, Serves, OwnDescriptor, OneClient, Argument, Serving, Created
<1> QED BY <1>1, <1>2, <1>3
-----------------------------------------------------------------------------
(* For any number of clients and descriptors: unless main accepts again    *)
(* before a worker has read client_socket_fd, no client is told another    *)
(* one's line, a line twice, or a line out of order, and one that is ready *)
(* for its next line was told them all.                                    *)
THEOREM EchoOwnLinesBack == EchoSpec => []OwnLinesBack
<1>1. EchoInv /\ [EchoNext]_echo_vars => EchoInv'
  BY ListenStep, AcceptStep, CreateWorkerStep, ReadArgStep, DupStep, EchoStep, QuitReadStep,
     EndStep, UseStep, EchoStutter DEF EchoNext, EchoMain, Work
<1>2. EchoInv => OwnLinesBack
  BY DEF EchoInv, EchoTypes, Lines, Told, OwnLinesBack
<1> QED BY <1>1, <1>2, EchoInitInv, PTL DEF EchoSpec

(* Every variable keeps its type, also when a worker reads its argument    *)
(* too late.  No more workers are started than there are clients, because  *)
(* each client connects once; what is still to come are the connections to *)
(* accept and the clients that have not started.                           *)
ToCome == backlog \cup {c \in Clients : client[c] = "new"}

EchoTyped ==
  /\ EchoTypeOK
  /\ \A c \in backlog : client[c] # "new"
  /\ Cardinality(ToCome) + started + (IF main_at = "create" THEN 1 ELSE 0) <= Cardinality(Clients)
  /\ started # 0 \/ main_at = "create" => client_socket_fd \in Descriptors
  /\ \A w \in Workers : worker[w] # "none" => started # 0
  /\ \A w \in Workers : worker[w] \notin {"none", "created"} => my_fd[w] \in Descriptors

LEMMA ToComeFinite ==
  ASSUME backlog \subseteq Clients
  PROVE  IsFiniteSet(ToCome) /\ Cardinality(ToCome) \in Nat /\ Cardinality(Clients) \in Nat
<1>1. ToCome \in SUBSET Clients
  BY DEF ToCome
<1> QED BY <1>1, FS_Subset, FS_CardinalityType

(* A step that leaves main and the descriptor of accept alone.             *)
LEMMA TypedLater ==
  ASSUME EchoTyped, EchoTypeOK', UNCHANGED main_vars,
         backlog' \subseteq backlog \cup ToCome, ToCome' \subseteq ToCome,
         \A c \in backlog' : client'[c] # "new",
         \A w \in Workers : worker'[w] # "none" => worker[w] # "none",
         \A w \in Workers : worker'[w] \notin {"none", "created"} => my_fd'[w] \in Descriptors
  PROVE  EchoTyped'
<1>1. Cardinality(ToCome') <= Cardinality(ToCome) /\ Cardinality(ToCome') \in Nat /\ Cardinality(ToCome) \in Nat
      /\ Cardinality(Clients) \in Nat
  <2>1. IsFiniteSet(ToCome) /\ Cardinality(ToCome) \in Nat /\ Cardinality(Clients) \in Nat
    BY ToComeFinite DEF EchoTyped, EchoTypeOK
  <2>2. ToCome' \in SUBSET ToCome
    OBVIOUS
  <2> QED BY <2>1, <2>2, FS_Subset, FS_CardinalityType
<1>2. UNCHANGED <<main_at, started, client_socket_fd>> /\ started \in Nat
  BY <1>1 DEF main_vars, EchoTyped, EchoTypeOK
<1>3. Cardinality(ToCome') + started' + (IF main_at' = "create" THEN 1 ELSE 0) <= Cardinality(Clients)
  <2>1. Cardinality(ToCome) + started + (IF main_at = "create" THEN 1 ELSE 0) <= Cardinality(Clients)
    BY DEF EchoTyped
  <2> QED BY <1>1, <1>2, <2>1
<1> QED BY <1>2, <1>3 DEF EchoTyped

LEMMA TypedInit == EchoInit => EchoTyped
<1> SUFFICES ASSUME EchoInit PROVE EchoTyped
  OBVIOUS
<1>1. ToCome = Clients
  BY DEF EchoInit, ToCome
<1>2. Cardinality(Clients) \in Nat
  BY FS_CardinalityType
<1>3. EchoTypeOK
  BY <1>2 DEF EchoInit, EchoTypeOK
<1>4. Cardinality(ToCome) + started + (IF main_at = "create" THEN 1 ELSE 0) <= Cardinality(Clients)
  BY <1>1, <1>2 DEF EchoInit
<1> QED BY <1>3, <1>4 DEF EchoInit, EchoTyped

LEMMA TypedMain == ASSUME EchoTyped, EchoMain \/ MainFails PROVE EchoTyped'
<1>1. /\ EchoTypeOK /\ (\A c \in backlog : client[c] # "new") /\ started \in Nat /\ Cardinality(Clients) \in Nat
      /\ Cardinality(ToCome) \in Nat /\ IsFiniteSet(ToCome)
      /\ Cardinality(ToCome) + started + (IF main_at = "create" THEN 1 ELSE 0) <= Cardinality(Clients)
  <2>1. Cardinality(Clients) \in Nat /\ Cardinality(ToCome) \in Nat /\ IsFiniteSet(ToCome)
    BY ToComeFinite DEF EchoTyped, EchoTypeOK
  <2> QED BY <2>1 DEF EchoTyped, EchoTypeOK
<1>2. CASE Listen
  <2>1. /\ main_at = "open" /\ main_at' = "accept" /\ ToCome' = ToCome
        /\ UNCHANGED <<server, started, client_socket_fd, timely, backlog, sock, worker, my_fd,
                       to_client, from_client, client, sent>>
    BY <1>2 DEF Listen, worker_vars, client_vars, ToCome
  <2> QED BY <1>1, <2>1 DEF EchoTyped, EchoTypeOK
<1>3. CASE Accept
  <2>1. PICK c \in backlog, f \in Descriptors :
          backlog' = backlog \ {c} /\ sock' = [sock EXCEPT ![f] = c] /\ client_socket_fd' = f
    BY <1>3 DEF Accept
  <2>2. /\ main_at = "accept" /\ main_at' = "create" /\ timely' \in BOOLEAN
        /\ UNCHANGED <<server, started, worker, my_fd, to_client, from_client, client, sent>>
    BY <1>3 DEF Accept, worker_vars, client_vars
  <2>3. ToCome' = ToCome \ {c} /\ c \in ToCome
    BY <1>1, <2>1, <2>2 DEF ToCome
  <2>4. Cardinality(ToCome') = Cardinality(ToCome) - 1
    <3>1. Cardinality(ToCome \ {c}) = Cardinality(ToCome) - 1
      BY <1>1, <2>3, FS_RemoveElement
    <3> QED BY <2>3, <3>1
  <2>5. Cardinality(ToCome') + started' + (IF main_at' = "create" THEN 1 ELSE 0) <= Cardinality(Clients)
    BY <1>1, <2>2, <2>4
  <2>6. EchoTypeOK'
    BY <1>1, <2>1, <2>2 DEF EchoTypeOK
  <2> QED BY <1>1, <2>1, <2>2, <2>5, <2>6 DEF EchoTyped
<1>4. CASE CreateWorker
  <2>1. /\ main_at = "create" /\ main_at' = "accept" /\ started' = started + 1 /\ ToCome' = ToCome
        /\ worker' = [worker EXCEPT ![started + 1] = "created"]
        /\ UNCHANGED <<server, client_socket_fd, timely, backlog, sock, my_fd,
                       to_client, from_client, client, sent>>
    BY <1>4 DEF CreateWorker, client_vars, ToCome
  <2>2. started + 1 \in Workers /\ started + 1 # 0 /\ started' \in 0..Cardinality(Clients)
    BY <1>1, <2>1 DEF Workers
  <2>3. Cardinality(ToCome') + started' + (IF main_at' = "create" THEN 1 ELSE 0) <= Cardinality(Clients)
    BY <1>1, <2>1
  <2>4. EchoTypeOK'
    BY <1>1, <2>1, <2>2 DEF EchoTypeOK
  <2>5. \A w \in Workers : worker'[w] \notin {"none", "created"} => my_fd'[w] \in Descriptors
    BY <2>1 DEF EchoTyped, EchoTypeOK
  <2>6. client_socket_fd' \in Descriptors
    BY <2>1 DEF EchoTyped
  <2> QED BY <1>1, <2>1, <2>2, <2>3, <2>4, <2>5, <2>6 DEF EchoTyped
<1>5. CASE MainFails
  <2>1. /\ server' = "failed" /\ ToCome' = ToCome /\ UNCHANGED main_vars
        /\ UNCHANGED <<main_at, started, client_socket_fd, timely, backlog, sock, worker, my_fd,
                       to_client, from_client, client, sent>>
    BY <1>5 DEF MainFails, main_vars, worker_vars, client_vars, ToCome
  <2>2. EchoTypeOK'
    BY <1>1, <2>1 DEF EchoTypeOK
  <2> QED BY <1>1, <2>1, <2>2 DEF EchoTyped
<1> QED BY <1>2, <1>3, <1>4, <1>5 DEF EchoMain

LEMMA TypedWork == ASSUME EchoTyped, NEW w \in Workers, Work(w) PROVE EchoTyped'
<1>1. UNCHANGED main_vars /\ UNCHANGED <<main_at, started, client_socket_fd, timely, backlog, client, sent>>
      /\ ToCome' = ToCome
  BY DEF Work, ReadArg, DupOut, DupIn, Echo, QuitRead, EndRead, main_vars, client_vars, ToCome
<1>2. EchoTypeOK /\ (\A c \in backlog : client[c] # "new") /\ worker[w] # "none"
      /\ client_socket_fd \in Descriptors
  <2>1. worker[w] # "none"
    BY DEF Work, ReadArg, DupOut, DupIn, Echo, QuitRead, EndRead, At
  <2> QED BY <2>1 DEF EchoTyped
<1>3. ASSUME EchoTypeOK', \A v \in Workers : worker'[v] # "none" => worker[v] # "none",
             \A v \in Workers : worker'[v] \notin {"none", "created"} => my_fd'[v] \in Descriptors
      PROVE  EchoTyped'
  BY <1>1, <1>2, <1>3, TypedLater
<1>4. \A v \in Workers : worker[v] \notin {"none", "created"} => my_fd[v] \in Descriptors
  BY DEF EchoTyped
<1> USE DEF EchoTypeOK
<1>5. CASE ReadArg(w)
  <2>1. /\ worker' = [worker EXCEPT ![w] = "dup_out"] /\ my_fd' = [my_fd EXCEPT ![w] = client_socket_fd]
        /\ UNCHANGED <<server, sock, to_client, from_client>>
    BY <1>5 DEF ReadArg, At
  <2> QED BY <1>1, <1>2, <1>3, <1>4, <2>1
<1>6. CASE DupOut(w)
  <2>1. /\ worker[w] = "dup_out" /\ worker' = [worker EXCEPT ![w] = "dup_in"]
        /\ to_client' = [to_client EXCEPT ![w] = sock[my_fd[w]]]
        /\ server' = IF sock[my_fd[w]] = NONE THEN "exited" ELSE server
        /\ UNCHANGED <<my_fd, sock, from_client>>
    BY <1>6 DEF DupOut, At
  <2>2. sock[my_fd[w]] \in Clients \cup {NONE}
    BY <1>2, <1>4, <2>1
  <2> QED BY <1>1, <1>2, <1>3, <1>4, <2>1, <2>2
<1>7. CASE DupIn(w)
  <2>1. /\ worker[w] = "dup_in" /\ worker' = [worker EXCEPT ![w] = "serve"]
        /\ from_client' = [from_client EXCEPT ![w] = sock[my_fd[w]]]
        /\ server' = IF sock[my_fd[w]] = NONE THEN "exited" ELSE server
        /\ UNCHANGED <<my_fd, sock, to_client>>
    BY <1>7 DEF DupIn, At
  <2>2. sock[my_fd[w]] \in Clients \cup {NONE}
    BY <1>2, <1>4, <2>1
  <2> QED BY <1>1, <1>2, <1>3, <1>4, <2>1, <2>2
<1>8. CASE Echo(w)
  <2>1. /\ worker[w] = "serve" /\ worker' = [worker EXCEPT ![w] = "serve"] /\ server' \in {"up", "exited"}
        /\ UNCHANGED <<my_fd, sock, to_client, from_client>>
    BY <1>8 DEF Echo, At
  <2> QED BY <1>1, <1>2, <1>3, <1>4, <2>1
<1>9. CASE QuitRead(w)
  <2>1. /\ worker[w] = "serve" /\ worker' = [worker EXCEPT ![w] = "done"]
        /\ to_client' = [to_client EXCEPT ![w] = NONE] /\ from_client' = [from_client EXCEPT ![w] = NONE]
        /\ sock' = [sock EXCEPT ![my_fd[w]] = NONE] /\ UNCHANGED <<server, my_fd>>
    BY <1>9 DEF QuitRead, At
  <2> QED BY <1>1, <1>2, <1>3, <1>4, <2>1
<1>10. CASE EndRead(w)
  <2>1. /\ worker[w] = "serve" /\ worker' = [worker EXCEPT ![w] = "done"] /\ server' = "exited"
        /\ UNCHANGED <<my_fd, sock, to_client, from_client>>
    BY <1>10 DEF EndRead, At
  <2> QED BY <1>1, <1>2, <1>3, <1>4, <2>1
<1> QED BY <1>5, <1>6, <1>7, <1>8, <1>9, <1>10 DEF Work

LEMMA TypedClient == ASSUME EchoTyped, NEW c \in Clients, Hear(c) \/ Use(c) PROVE EchoTyped'
<1>1. UNCHANGED main_vars /\ UNCHANGED <<server, main_at, started, client_socket_fd, timely, sock, worker, my_fd,
                                         to_client, from_client>>
  BY DEF Hear, Use, Reply, CutOff, Connect, Send, SendUnended, SendQuit, Drop, main_vars, worker_vars
<1>2. /\ EchoTypeOK /\ (\A d \in backlog : client[d] # "new")
      /\ \A v \in Workers : worker[v] \notin {"none", "created"} => my_fd[v] \in Descriptors
  BY DEF EchoTyped
<1>3. PICK to : client' = [client EXCEPT ![c] = to] /\ to \in {"ready", "refused", "waiting", "stuck", "quit", "dropped", "cut"}
  BY DEF Hear, Use, Reply, CutOff, Connect, Send, SendUnended, SendQuit, Drop, Become
<1>4. backlog' = backlog \/ (client[c] = "new" /\ backlog' = backlog \cup {c})
  BY DEF Hear, Use, Reply, CutOff, Connect, Send, SendUnended, SendQuit, Drop, Become
<1>5. sent' = sent \/ (sent[c] < MaxLines /\ sent' = [sent EXCEPT ![c] = sent[c] + 1])
  BY DEF Hear, Use, Reply, CutOff, Connect, Send, SendUnended, SendQuit, Drop
<1>6. sent' \in [Clients -> 0..MaxLines]
  BY <1>2, <1>5 DEF EchoTypeOK
<1>7. EchoTypeOK'
  BY <1>1, <1>2, <1>3, <1>4, <1>6 DEF EchoTypeOK
<1>8. backlog' \subseteq backlog \cup ToCome /\ ToCome' \subseteq ToCome /\ \A d \in backlog' : client'[d] # "new"
  BY <1>2, <1>3, <1>4 DEF ToCome, EchoTypeOK
<1> QED BY <1>1, <1>2, <1>7, <1>8, TypedLater

LEMMA EchoTypesKept == EchoSpec => []EchoTypeOK
<1>1. ASSUME EchoTyped, UNCHANGED echo_vars PROVE EchoTyped'
  BY <1>1 DEF echo_vars, main_vars, worker_vars, client_vars, EchoTyped, EchoTypeOK, ToCome
<1>2. EchoTyped /\ [EchoNext]_echo_vars => EchoTyped'
  BY <1>1, TypedMain, TypedWork, TypedClient DEF EchoNext
<1>3. EchoTyped => EchoTypeOK
  BY DEF EchoTyped
<1> QED BY <1>2, <1>3, TypedInit, PTL DEF EchoSpec

HIDE EchoAssumption

(***************************************************************************)
(* SudokuKernel, for any window of the board and any digits: what a thread *)
(* strikes is struck in every schedule, and in no solution.                *)
(***************************************************************************)

(* Nobody reads or strikes while a cell is still to be loaded.             *)
LoadedFirst == \A c, d \in Window : pc[c] = "load" => pc[d] \in {"load", "vote"}

KernelTypes ==
  /\ given \in [Window -> SUBSET Digits] /\ boards \in [Window -> SUBSET Digits]
  /\ cells \in [Window -> SUBSET Digits] /\ pc \in [Window -> Control]
  /\ previous \in [Window -> SUBSET Digits]

(* A closed board below the given one stays below what the threads hold,   *)
(* and below what they may read of each other in a round.                  *)
KeepsSeen(b) == \A c, d \in Window : pc[c] = "pull" => b[d] \subseteq previous[d]

ClosedKept == \A b \in Closed : Below(b, given) => Keeps(b) /\ KeepsSeen(b)

KernelInv == KernelTypes /\ LoadedFirst /\ ClosedKept
-----------------------------------------------------------------------------
USE KernelAssumption DEF Goto, Control

(* The geometry of the kernel: whatever a thread reads is another cell of  *)
(* its region, row or column.                                              *)
LEMMA SourcesRelated ==
  ASSUME NEW c \in Window, NEW k \in 0..(Reads - 1), Pulls(c, k)
  PROVE  Source(c, k) \in Window /\ Related(c, Source(c, k))
<1> DEFINE y == c[1]
           x == c[2]
<1>1. y \in 0..8 /\ x \in 0..8 /\ c = <<y, x>>
  BY DEF Board, BOARD_DIM
<1>2. Source(c, k) \in Window
  BY DEF Pulls
<1>3. CASE InRegion(k)
  <2>1. k \in 0..8 /\ Source(c, k) = <<Start(y) + (k \div 3), Start(x) + (k % 3)>>
    BY <1>3 DEF InRegion, Source, GROUP_DIM, Reads, BOARD_DIM
  <2>2. /\ (Start(y) + (k \div 3)) \div 3 = y \div 3
        /\ (Start(x) + (k % 3)) \div 3 = x \div 3
    <3>1. k \div 3 \in 0..2 /\ k % 3 \in 0..2
      BY <2>1
    <3>2. \A m \in 0..8, n \in 0..2 : ((m \div 3) * 3 + n) \div 3 = m \div 3
      OBVIOUS
    <3> QED
      BY <1>1, <3>1, <3>2 DEF Start, GROUP_DIM
  <2> QED
    BY <1>1, <1>2, <1>3, <2>1, <2>2 DEF Pulls, Related, GROUP_DIM
<1>4. CASE ~InRegion(k)
  BY <1>1, <1>2, <1>4 DEF Pulls, Source, Related
<1> QED
  BY <1>3, <1>4

(* A digit that is settled in one cell of a board is struck in no closed   *)
(* board below it that could need it.                                      *)
LEMMA StrikesForced ==
  ASSUME NEW b \in Closed, NEW c \in Window, NEW d \in Window, Related(c, d),
         NEW cell \in SUBSET Digits, b[d] \subseteq cell
  PROVE  cell_to_digit(cell) \notin b[c]
<1>1. /\ b[d] # {} /\ b[c] \subseteq Digits
      /\ cell_to_digit(b[d]) \notin b[c]
  BY DEF Closed
<1>2. CASE Cardinality(cell) = 1
  <2>1. IsFiniteSet(cell)
    <3>1. 1 \in Int /\ BOARD_DIM \in Int
      BY DEF BOARD_DIM
    <3>2. IsFiniteSet(1..BOARD_DIM)
      BY <3>1, FS_Interval
    <3>3. cell \subseteq 1..BOARD_DIM
      OBVIOUS
    <3> QED
      BY <3>2, <3>3, FS_Subset
  <2>2. PICK x : cell = {x}
    BY <1>2, <2>1, FS_Singleton
  <2>3. b[d] = cell
    BY <1>1, <2>2
  <2> QED
    BY <1>1, <2>3
<1>3. CASE Cardinality(cell) # 1
  BY <1>1, <1>3 DEF cell_to_digit, BOARD_DIM
<1> QED
  BY <1>2, <1>3

LEMMA KernelInitInv == Init => KernelInv
<1> SUFFICES ASSUME Init PROVE KernelInv
  OBVIOUS
<1>1. PICK puzzle \in [Window -> Digits \cup {0}] :
        given = [c \in Window |-> digit_to_cell(puzzle[c])]
  BY DEF Init
<1>2. given \in [Window -> SUBSET Digits]
  BY <1>1 DEF digit_to_cell
<1> QED
  BY <1>2 DEF Init, KernelInv, KernelTypes, LoadedFirst, ClosedKept, Keeps, KeepsSeen, Below

LEMMA KernelNextInv == KernelInv /\ [Next]_vars => KernelInv'
<1> SUFFICES ASSUME KernelInv, [Next]_vars PROVE KernelInv'
  OBVIOUS
<1> USE DEF KernelInv
<1>1. ASSUME NEW c \in Window, Load(c) PROVE KernelInv'
  <2>1. KernelTypes' /\ LoadedFirst'
    BY <1>1 DEF Load, KernelTypes, LoadedFirst
  <2>2. ClosedKept'
    BY <1>1 DEF Load, KernelTypes, ClosedKept, Keeps, KeepsSeen, Below
  <2> QED
    BY <2>1, <2>2
<1>2. ASSUME Vote PROVE KernelInv'
  <2>1. KernelTypes' /\ LoadedFirst'
    BY <1>2 DEF Vote, KernelTypes, LoadedFirst
  <2>2. ClosedKept'
    BY <1>2 DEF Vote, KernelTypes, LoadedFirst, ClosedKept, Keeps, KeepsSeen, Below
  <2> QED
    BY <2>1, <2>2
<1>3. ASSUME NEW c \in Window, Pull(c) PROVE KernelInv'
  <2> DEFINE d == Source(c, at[c])
  <2>1. PICK seen \in {cells[d], previous[d]} :
           cells' = [cells EXCEPT ![c] = @ \ {cell_to_digit(seen)}]
    BY <1>3 DEF Pull
  <2>2. /\ at[c] \in 0..(Reads - 1) /\ Pulls(c, at[c]) /\ pc[c] = "pull"
        /\ UNCHANGED <<boards, previous, pc, given>>
    BY <1>3 DEF Pull
  <2>3. d \in Window /\ Related(c, d)
    BY <2>2, SourcesRelated
  <2>4. KernelTypes' /\ LoadedFirst'
    BY <2>1, <2>2 DEF KernelTypes, LoadedFirst
  <2>5. pc[d] # "load"
    BY <2>2, <2>3 DEF LoadedFirst
  <2>6. ASSUME NEW b \in Closed, Below(b, given) PROVE Keeps(b)' /\ KeepsSeen(b)'
    <3>1. Keeps(b) /\ KeepsSeen(b)
      BY <2>6 DEF ClosedKept
    <3>2. b[d] \subseteq seen /\ seen \in SUBSET Digits
      BY <2>1, <2>2, <2>3, <2>5, <3>1 DEF Keeps, KeepsSeen, KernelTypes
    <3>3. cell_to_digit(seen) \notin b[c]
      BY <2>3, <3>2, StrikesForced
    <3> QED
      BY <2>1, <2>2, <3>1, <3>3 DEF Keeps, KeepsSeen, KernelTypes
  <2> QED
    BY <2>2, <2>4, <2>6 DEF ClosedKept, Below
<1>4. ASSUME NEW c \in Window, Arrive(c) PROVE KernelInv'
  <2>1. KernelTypes' /\ LoadedFirst'
    BY <1>4 DEF Arrive, KernelTypes, LoadedFirst
  <2>2. ClosedKept'
    BY <1>4 DEF Arrive, KernelTypes, LoadedFirst, ClosedKept, Keeps, KeepsSeen, Below
  <2> QED
    BY <2>1, <2>2
<1>5. ASSUME NEW c \in Window, Store(c) PROVE KernelInv'
  <2>1. KernelTypes' /\ LoadedFirst'
    BY <1>5 DEF Store, KernelTypes, LoadedFirst
  <2>2. ClosedKept'
    BY <1>5 DEF Store, KernelTypes, LoadedFirst, ClosedKept, Keeps, KeepsSeen, Below
  <2> QED
    BY <2>1, <2>2
<1>6. CASE UNCHANGED vars
  BY <1>6 DEF vars, KernelTypes, LoadedFirst, ClosedKept, Keeps, KeepsSeen, Below
<1> QED
  BY <1>1, <1>2, <1>3, <1>4, <1>5, <1>6 DEF Next, Step

(* A solution, as a board of settled cells, is closed.                     *)
LEMMA SolutionsClosed ==
  ASSUME NEW board \in [Window -> SUBSET Digits], NEW s \in Solutions(board)
  PROVE  /\ [c \in Window |-> {s[c]}] \in Closed
         /\ Below([c \in Window |-> {s[c]}], board)
<1> DEFINE b == [c \in Window |-> {s[c]}]
<1>1. s \in [Window -> Digits] /\ \A c \in Window : s[c] \in board[c]
  BY DEF Solutions, Grids
<1>2. \A c, d \in Window : Related(c, d) => s[c] # s[d]
  BY DEF Solutions, Grids
<1>3. \A d \in Window : cell_to_digit(b[d]) = s[d]
  BY <1>1, FS_Singleton DEF cell_to_digit
<1>4. b \in [Window -> (SUBSET Digits) \ {{}}]
  BY <1>1
<1>5. \A c, d \in Window : Related(c, d) => cell_to_digit(b[d]) \notin b[c]
  BY <1>2, <1>3
<1> QED
  BY <1>1, <1>4, <1>5 DEF Closed, Below

(* No reachable state of the kernel has lost a digit of a solution, on any *)
(* board and in any schedule of its threads.                               *)
THEOREM SudokuSolutionsKept == Spec => []SolutionsKept
<1>1. KernelInv => SolutionsKept
  BY SolutionsClosed DEF KernelInv, KernelTypes, ClosedKept, SolutionsKept
<1> QED
  BY <1>1, KernelInitInv, KernelNextInv, PTL DEF Spec
-----------------------------------------------------------------------------
(* When nobody changes anything in a round, everybody has seen the round's *)
(* own board, although threads read each other's cells at any time in it.  *)
Checked(c, k) == LET d == Source(c, k) IN \/ cell_to_digit(previous[d]) \notin cells[c]
                                          \/ cells[d] # previous[d]

Passes == \A c \in Window :
  /\ pc[c] = "load" => \A d \in Window : at[d] = 0 /\ changed[d] = 1
  /\ pc[c] = "pull" => cells[c] \subseteq previous[c] /\ changed[c] = 1
  /\ changed[c] = 0 => at[c] = Reads /\ cells[c] = previous[c] /\ pc[c] \notin {"load", "pull"}
  /\ pc[c] \in {"store", "done"} => \A d \in Window : changed[d] = 0
  /\ pc[c] = "done" => boards[c] = cells[c]
  /\ \A k \in 0..(at[c] - 1) : Pulls(c, k) => Checked(c, k)

RoundInv == /\ KernelInv /\ changed \in [Window -> {0, 1}] /\ at \in [Window -> 0..Reads]
            /\ Passes

(* Every set of numbers that is not empty has a least element, so After    *)
(* skips only reads that strike nothing.                                   *)
LEMMA LeastNumber ==
  ASSUME NEW T, T \subseteq Nat, T # {}
  PROVE  \E x \in T : \A y \in T : x <= y
<1>1. PICK x \in T : \A y \in T : ~ (<<y, x>> \in OpToRel(<, Nat))
  BY NatLessThanWellFounded, WFMin
<1>2. \A a, b \in Nat : a < b => <<a, b>> \in OpToRel(<, Nat)
  BY DEF OpToRel
<1>3. ASSUME NEW y \in T PROVE x <= y
  <2>1. x \in Nat /\ y \in Nat /\ ~(y < x)
    BY <1>1, <1>2
  <2> QED BY <2>1
<1> QED BY <1>3

LEMMA ReadsNat == Reads \in Nat /\ Reads = 27
BY DEF Reads, GROUP_DIM, BOARD_DIM

LEMMA AfterSkips ==
  ASSUME NEW c \in Window, NEW k \in 0..Reads
  PROVE  /\ After[c][k] \in k..Reads
         /\ \A n \in k..(After[c][k] - 1) : ~Pulls(c, n)
<1> DEFINE Stop(j) == (j = Reads \/ Pulls(c, j)) /\ \A n \in k..(j - 1) : ~Pulls(c, n)
<1>1. \E j \in k..Reads : Stop(j)
  <2>1. PICK T : T = {j \in k..Reads : j = Reads \/ Pulls(c, j)}
    OBVIOUS
  <2>2. T \subseteq Nat /\ Reads \in T
    BY <2>1, ReadsNat
  <2>3. PICK j \in T : \A y \in T : j <= y
    BY <2>2, LeastNumber
  <2>4. ASSUME NEW n \in k..(j - 1) PROVE ~Pulls(c, n)
    <3>1. j \in k..Reads /\ n \in k..Reads /\ ~(j <= n)
      BY <2>1, <2>3, ReadsNat
    <3> QED BY <2>1, <2>3, <3>1
  <2> QED BY <2>1, <2>3, <2>4
<1>2. After[c][k] = CHOOSE j \in k..Reads : Stop(j)
  BY DEF After
<1> QED BY <1>1, <1>2

(* The geometry again: a thread reads every cell that its own must differ  *)
(* from.                                                                   *)
LEMMA RelatedRead ==
  ASSUME NEW c \in Window, NEW d \in Window, Related(c, d)
  PROVE  \E k \in 0..(Reads - 1) : Pulls(c, k) /\ Source(c, k) = d
<1>1. /\ c[1] \in 0..8 /\ c[2] \in 0..8 /\ c = <<c[1], c[2]>>
      /\ d[1] \in 0..8 /\ d[2] \in 0..8 /\ d = <<d[1], d[2]>> /\ c # d
  BY DEF Board, BOARD_DIM, Related
<1>2. CASE c[1] = d[1]
  <2>1. PICK k \in 9..17 : k = 9 + d[2] /\ k - 9 = d[2]
    BY <1>1
  <2>2. Source(c, k) = d /\ ~InRegion(k)
    BY <1>1, <1>2, <2>1 DEF Source, InRegion, InLine, GROUP_DIM, BOARD_DIM
  <2>3. k \in 0..(Reads - 1)
    BY <2>1, ReadsNat
  <2> QED BY <1>1, <2>2, <2>3 DEF Pulls
<1>3. CASE c[2] = d[2]
  <2>1. PICK k \in 18..26 : k = 18 + d[1] /\ (k - 9) - 9 = d[1]
    BY <1>1
  <2>2. Source(c, k) = d /\ ~InRegion(k)
    BY <1>1, <1>3, <2>1 DEF Source, InRegion, InLine, GROUP_DIM, BOARD_DIM
  <2>3. k \in 0..(Reads - 1)
    BY <2>1, ReadsNat
  <2> QED BY <1>1, <2>2, <2>3 DEF Pulls
<1>4. CASE c[1] # d[1] /\ c[2] # d[2]
  <2>1. c[1] \div 3 = d[1] \div 3 /\ c[2] \div 3 = d[2] \div 3
    BY <1>4 DEF Related, GROUP_DIM
  <2>2. \A n \in 0..8 : n % 3 \in 0..2 /\ (n \div 3) * 3 + (n % 3) = n
    OBVIOUS
  <2>3. PICK a, b : a = d[1] % 3 /\ b = d[2] % 3
    OBVIOUS
  <2>4. a \in 0..2 /\ b \in 0..2
    BY <1>1, <2>2, <2>3
  <2>5. PICK k \in 0..8 : k = 3 * a + b /\ k \div 3 = a /\ k % 3 = b
    BY <2>4
  <2>6. Start(c[1]) + a = d[1] /\ Start(c[2]) + b = d[2]
    BY <1>1, <2>1, <2>2, <2>3 DEF Start, GROUP_DIM
  <2>7. Source(c, k) = d /\ InRegion(k)
    BY <1>1, <2>5, <2>6 DEF Source, InRegion, GROUP_DIM
  <2>8. k \in 0..(Reads - 1)
    BY <2>5, ReadsNat
  <2> QED BY <1>1, <1>4, <2>7, <2>8 DEF Pulls
<1> QED BY <1>2, <1>3, <1>4

LEMMA RoundInitInv == Init => RoundInv
<1> SUFFICES ASSUME Init PROVE RoundInv
  OBVIOUS
<1>1. KernelInv /\ changed \in [Window -> {0, 1}] /\ at \in [Window -> 0..Reads]
  <2>1. 0 \in 0..Reads
    BY ReadsNat
  <2> QED BY <2>1, KernelInitInv DEF Init
<1>2. Passes
  <2>1. \A c \in Window : pc[c] = "load" /\ at[c] = 0 /\ changed[c] = 1
    BY DEF Init
  <2>2. 0..(0 - 1) = {}
    OBVIOUS
  <2> QED BY <2>1, <2>2 DEF Passes
<1> QED BY <1>1, <1>2 DEF RoundInv

LEMMA RoundNextInv == RoundInv /\ [Next]_vars => RoundInv'
<1> SUFFICES ASSUME RoundInv, [Next]_vars PROVE RoundInv'
  OBVIOUS
<1>1. /\ KernelInv /\ KernelInv' /\ Passes /\ KernelTypes /\ LoadedFirst
      /\ changed \in [Window -> {0, 1}] /\ at \in [Window -> 0..Reads]
  BY KernelNextInv DEF RoundInv, KernelInv
<1>2. /\ changed' \in [Window -> {0, 1}]
      /\ at' \in [Window -> 0..Reads]
  <2>1. \A c \in Window : After[c][0] \in 0..Reads
    BY AfterSkips, ReadsNat
  <2>2. ASSUME NEW c \in Window, at[c] \in 0..(Reads - 1)
        PROVE  After[c][at[c] + 1] \in 0..Reads
    <3>1. at[c] + 1 \in 0..Reads
      BY <2>2, ReadsNat
    <3>2. After[c][at[c] + 1] \in (at[c] + 1)..Reads
      BY <3>1, AfterSkips
    <3> QED BY <3>1, <3>2, ReadsNat
  <2> QED BY <1>1, <2>1, <2>2 DEF Next, Step, Load, Pull, Arrive, Store, Vote, vars
<1>3. ASSUME NEW c \in Window, Load(c) PROVE Passes'
  <2>1. \A d \in Window : at[d] = 0 /\ changed[d] = 1
    BY <1>1, <1>3 DEF Load, Passes
  <2>2. 0..(0 - 1) = {}
    OBVIOUS
  <2>3. \A d \in Window : pc'[d] \in {"load", "vote"}
    BY <1>1, <1>3 DEF Load, LoadedFirst, KernelTypes
  <2> QED BY <1>3, <2>1, <2>2, <2>3 DEF Load, Passes
<1>4. ASSUME Vote PROVE Passes'
  <2>1. CASE \E c \in Window : changed[c] # 0
    <3>1. \A c \in Window : /\ pc'[c] = "pull" /\ changed'[c] = 1 /\ at'[c] = After[c][0]
                            /\ previous' = cells /\ cells' = cells
      BY <1>4, <2>1 DEF Vote
    <3>2. \A c \in Window : \A k \in 0..(at'[c] - 1) : ~Pulls(c, k)
      BY <3>1, AfterSkips, ReadsNat
    <3> QED BY <3>1, <3>2 DEF Passes
  <2>2. CASE ~ \E c \in Window : changed[c] # 0
    <3>1. /\ \A c \in Window : pc'[c] = "store" /\ changed[c] = 0
          /\ UNCHANGED <<changed, previous, at, boards, cells>>
      BY <1>4, <2>2 DEF Vote
    <3> QED BY <1>1, <3>1 DEF Passes, Checked
  <2> QED BY <2>1, <2>2
<1>5. ASSUME NEW c \in Window, Pull(c) PROVE Passes'
  <2>1. PICK k \in 0..(Reads - 1) : k = at[c]
    BY <1>5 DEF Pull
  <2>2. PICK d : d = Source(c, k)
    OBVIOUS
  <2>3. /\ pc[c] = "pull" /\ Pulls(c, k) /\ UNCHANGED <<boards, previous, changed, pc>>
        /\ \E seen \in {cells[d], previous[d]} :
             cells' = [cells EXCEPT ![c] = @ \ {cell_to_digit(seen)}]
        /\ at' = [at EXCEPT ![c] = After[c][k + 1]]
    BY <1>5, <2>1, <2>2 DEF Pull
  <2>4. d \in Window /\ d # c
    BY <2>2, <2>3, SourcesRelated DEF Related
  <2>5. /\ cells'[c] \subseteq cells[c] /\ \A e \in Window : e # c => cells'[e] = cells[e]
        /\ \/ cell_to_digit(previous[d]) \notin cells'[c]
           \/ cells[d] # previous[d]
    BY <1>1, <2>3 DEF KernelTypes
  <2>6. /\ at'[c] = After[c][k + 1] /\ \A e \in Window : e # c => at'[e] = at[e]
    BY <1>1, <2>3
  <2>7. \A e \in Window : cells[e] # previous[e] => cells'[e] # previous[e]
    BY <1>1, <2>3, <2>5 DEF Passes
  <2>8. ASSUME NEW e \in Window, NEW n \in 0..(at'[e] - 1), Pulls(e, n)
        PROVE  Checked(e, n)'
    <3>1. PICK s : s = Source(e, n)
      OBVIOUS
    <3>2. SUFFICES cell_to_digit(previous[s]) \notin cells'[e] \/ cells'[s] # previous[s]
      BY <2>3, <3>1 DEF Checked
    <3>3. n \in 0..(Reads - 1) /\ n \in Nat
      BY <1>2, <2>8, ReadsNat
    <3>4. s \in Window
      BY <2>8, <3>1, <3>3, SourcesRelated
    <3>5. CASE n \in 0..(at[e] - 1)
      <4>1. cell_to_digit(previous[s]) \notin cells[e] \/ cells[s] # previous[s]
        BY <1>1, <2>8, <3>1, <3>5 DEF Passes, Checked
      <4> QED BY <2>5, <2>7, <3>4, <4>1
    <3>6. CASE n \notin 0..(at[e] - 1)
      <4>1. e = c
        BY <2>6, <2>8, <3>6
      <4>2. k + 1 \in 0..Reads /\ After[c][k + 1] \in (k + 1)..Reads
        <5>1. k + 1 \in 0..Reads
          BY ReadsNat
        <5> QED BY <5>1, AfterSkips
      <4>3. n = k
        <5>1. n \notin (k + 1)..(After[c][k + 1] - 1)
          BY <2>8, <4>1, <4>2, AfterSkips
        <5>2. n \in 0..(After[c][k + 1] - 1) /\ n \notin 0..(k - 1)
          BY <2>1, <2>6, <2>8, <3>6, <4>1
        <5> QED BY <3>3, <4>2, <5>1, <5>2, ReadsNat
      <4>4. s = d
        BY <2>2, <3>1, <4>1, <4>3
      <4> QED BY <2>4, <2>5, <4>1, <4>4
    <3> QED BY <3>5, <3>6
  <2>9. ASSUME NEW e \in Window
        PROVE  /\ pc'[e] = "load" => \A x \in Window : at'[x] = 0 /\ changed'[x] = 1
               /\ pc'[e] = "pull" => cells'[e] \subseteq previous'[e] /\ changed'[e] = 1
               /\ changed'[e] = 0 => /\ at'[e] = Reads /\ cells'[e] = previous'[e]
                                     /\ pc'[e] \notin {"load", "pull"}
               /\ pc'[e] \in {"store", "done"} => \A x \in Window : changed'[x] = 0
               /\ pc'[e] = "done" => boards'[e] = cells'[e]
    <3>1. pc[e] # "load"
      BY <1>1, <2>3 DEF LoadedFirst
    <3>2. changed[c] = 1
      BY <1>1, <2>3 DEF Passes
    <3> QED BY <1>1, <2>3, <2>5, <2>6, <3>1, <3>2 DEF Passes
  <2> QED BY <2>8, <2>9, <2>3 DEF Passes, Pulls
<1>6. ASSUME NEW c \in Window, Arrive(c) PROVE Passes'
  <2>1. /\ at[c] = Reads /\ pc[c] = "pull" /\ pc' = [pc EXCEPT ![c] = "vote"]
        /\ changed' = [changed EXCEPT ![c] = IF previous[c] = cells[c] THEN 0 ELSE @]
        /\ UNCHANGED <<boards, cells, previous, at>>
    BY <1>6 DEF Arrive
  <2>2. \A e \in Window : /\ e # c => pc'[e] = pc[e] /\ changed'[e] = changed[e]
                          /\ pc'[e] # "load"
    BY <1>1, <2>1 DEF KernelTypes, LoadedFirst
  <2>3. pc'[c] = "vote" /\ (changed'[c] = 0 => previous[c] = cells[c])
    BY <1>1, <2>1 DEF KernelTypes, Passes
  <2>4. \A e \in Window : pc[e] \notin {"store", "done"}
    BY <1>1, <2>1 DEF Passes
  <2>5. \A e \in Window : \A k \in 0..(at[e] - 1) : Pulls(e, k) => Checked(e, k)'
    BY <1>1, <2>1 DEF Passes, Checked
  <2> QED BY <1>1, <2>1, <2>2, <2>3, <2>4, <2>5 DEF Passes
<1>7. ASSUME NEW c \in Window, Store(c) PROVE Passes'
  <2>1. /\ pc[c] = "store" /\ pc' = [pc EXCEPT ![c] = "done"]
        /\ boards' = [boards EXCEPT ![c] = cells[c]]
        /\ UNCHANGED <<cells, previous, changed, at>>
    BY <1>7 DEF Store
  <2>2. /\ pc'[c] = "done" /\ boards'[c] = cells[c]
        /\ \A e \in Window : e # c => pc'[e] = pc[e] /\ boards'[e] = boards[e]
    BY <1>1, <2>1 DEF KernelTypes
  <2>3. \A e \in Window : \A k \in 0..(at[e] - 1) : Pulls(e, k) => Checked(e, k)'
    BY <1>1, <2>1 DEF Passes, Checked
  <2> QED BY <1>1, <2>1, <2>2, <2>3 DEF Passes
<1>8. ASSUME UNCHANGED vars PROVE Passes'
  <2>1. UNCHANGED <<boards, cells, previous, changed, at, pc>>
    BY <1>8 DEF vars
  <2>2. \A e \in Window : \A k \in 0..(at[e] - 1) : Pulls(e, k) => Checked(e, k)'
    BY <1>1, <2>1 DEF Passes, Checked
  <2> QED BY <1>1, <2>1, <2>2 DEF Passes
<1>9. Passes'
  BY <1>3, <1>4, <1>5, <1>6, <1>7, <1>8 DEF Next, Step
<1> QED BY <1>1, <1>2, <1>9 DEF RoundInv

LEMMA RoundInvariant == Spec => []RoundInv
BY RoundInitInv, RoundNextInv, PTL DEF Spec

LEMMA NothingLeftIf == RoundInv => NothingLeft
<1> SUFFICES ASSUME RoundInv, Finished, NEW c \in Window, NEW d \in Window, Related(c, d)
             PROVE  cell_to_digit(boards[d]) \notin boards[c]
  BY DEF NothingLeft
<1>1. \A e \in Window : /\ pc[e] = "done" /\ boards[e] = cells[e] /\ changed[e] = 0
                        /\ at[e] = Reads /\ cells[e] = previous[e]
  BY DEF RoundInv, Passes, Finished
<1>2. PICK k \in 0..(Reads - 1) : Pulls(c, k) /\ Source(c, k) = d
  BY RelatedRead
<1>3. Checked(c, k)
  BY <1>1, <1>2 DEF RoundInv, Passes
<1> QED BY <1>1, <1>2, <1>3 DEF Checked

(* When the kernel stops, no digit that is settled in a cell is left where *)
(* it could be struck, whatever the threads read of each other meanwhile.  *)
THEOREM SudokuNothingLeft == Spec => []NothingLeft
BY RoundInvariant, NothingLeftIf, PTL

(* Before its first round no thread has read; what a thread that has ended *)
(* its reads knows is below what the round began with, and it has          *)
(* announced a change unless it is the same.                               *)
Struck == \A c \in Window : pc[c] = "vote" =>
  /\ at[c] = 0 => \A d \in Window : at[d] = 0 /\ pc[d] \in {"load", "vote"}
  /\ at[c] # 0 => cells[c] \subseteq previous[c] /\ (changed[c] = 0 \/ cells[c] # previous[c])

LEMMA StruckStep == RoundInv /\ Struck /\ [Next]_vars => Struck'
<1> SUFFICES ASSUME RoundInv, Struck, [Next]_vars PROVE Struck'
  OBVIOUS
<1>1. Passes /\ KernelTypes /\ LoadedFirst /\ changed \in [Window -> {0, 1}]
  BY DEF RoundInv, KernelInv
<1>2. ASSUME NEW c \in Window, Load(c) PROVE Struck'
  <2>1. \A d \in Window : at[d] = 0 /\ pc[d] \in {"load", "vote"}
    BY <1>1, <1>2 DEF Load, Passes, LoadedFirst
  <2>2. at' = at /\ \A d \in Window : pc'[d] \in {"load", "vote"}
    BY <1>1, <1>2, <2>1 DEF Load, KernelTypes
  <2> QED BY <2>1, <2>2 DEF Struck
<1>3. ASSUME Vote PROVE Struck'
  <2>1. \A c \in Window : pc'[c] # "vote"
    BY <1>3 DEF Vote
  <2> QED BY <2>1 DEF Struck
<1>4. ASSUME NEW c \in Window, Pull(c) PROVE Struck'
  <2>1. pc[c] = "pull" /\ UNCHANGED <<previous, changed, pc>>
    BY <1>4 DEF Pull
  <2>2. \A d \in Window \ {c} : cells'[d] = cells[d] /\ at'[d] = at[d]
    BY <1>4 DEF Pull
  <2>3. \A d \in Window : pc[d] = "vote" => at[d] # 0 /\ d # c
    BY <2>1 DEF Struck
  <2> QED BY <2>1, <2>2, <2>3 DEF Struck
<1>5. ASSUME NEW c \in Window, Arrive(c) PROVE Struck'
  <2>1. /\ pc[c] = "pull" /\ at[c] # 0 /\ UNCHANGED <<cells, previous, at>>
        /\ changed'[c] = IF previous[c] = cells[c] THEN 0 ELSE changed[c]
    BY <1>1, <1>5, ReadsNat DEF Arrive
  <2>2. \A d \in Window \ {c} : changed'[d] = changed[d] /\ pc'[d] = pc[d]
    BY <1>1, <1>5 DEF Arrive, KernelTypes
  <2>3. cells[c] \subseteq previous[c]
    BY <1>1, <2>1 DEF Passes
  <2>4. \A d \in Window : pc[d] = "vote" => at[d] # 0
    BY <2>1 DEF Struck
  <2> QED BY <2>1, <2>2, <2>3, <2>4 DEF Struck
<1>6. ASSUME NEW c \in Window, Store(c) PROVE Struck'
  <2>1. pc[c] = "store" /\ UNCHANGED <<cells, previous, changed, at>>
    BY <1>6 DEF Store
  <2>2. \A d \in Window : pc'[d] = "vote" => pc[d] = "vote"
    BY <1>1, <1>6 DEF Store, KernelTypes
  <2>3. \A d \in Window : pc[d] = "vote" => at[d] # 0
    BY <2>1 DEF Struck
  <2> QED BY <2>1, <2>2, <2>3 DEF Struck
<1>7. CASE UNCHANGED vars
  BY <1>7 DEF vars, Struck
<1> QED BY <1>2, <1>3, <1>4, <1>5, <1>6, <1>7 DEF Next, Step

LEMMA StruckThen == Struck /\ [Next]_vars => [Strikes]_vars
<1> SUFFICES ASSUME Struck, Vote, NEW c \in Window, at[c] # 0, changed[c] # 0
             PROVE  cells # previous /\ Below(cells, previous)
  BY DEF Strikes
<1>1. \A d \in Window : pc[d] = "vote"
  BY DEF Vote
<1>2. \A d \in Window : at[d] # 0
  BY <1>1 DEF Struck
<1> QED BY <1>1, <1>2 DEF Struck, Below

(* Whatever the schedule, the kernel repeats its loop (sudoku.cu:65) only  *)
(* after a round that struck a digit, for any cells, digits and board:     *)
(* what it ends by, beyond the fairness that Terminates needs.             *)
THEOREM SudokuRoundsStrike == Spec => RoundsStrike
<1>1. Init => Struck
  BY DEF Init, Struck
<1> QED BY <1>1, StruckStep, StruckThen, RoundInvariant, PTL DEF Spec, RoundsStrike

(* And the board it leaves is the greatest closed one below the given one  *)
(* (on a board with a solution), so that no schedule makes a difference.   *)
THEOREM SudokuResultIsUnique == Spec => []ResultIsUnique
<1>1. RoundInv => ResultIsUnique
  <2> SUFFICES ASSUME RoundInv, Finished
               PROVE  /\ Solutions(given) # {} => boards \in Closed
                      /\ \A b \in Closed : Below(b, given) => Below(b, boards)
    BY DEF ResultIsUnique
  <2>1. /\ KernelTypes /\ ClosedKept
        /\ \A c, d \in Window : Related(c, d) => cell_to_digit(boards[d]) \notin boards[c]
    BY NothingLeftIf DEF RoundInv, KernelInv, NothingLeft
  <2>2. ASSUME NEW s \in Solutions(given) PROVE boards \in Closed
    <3>1. Keeps([c \in Window |-> {s[c]}])
      BY <2>1, SolutionsClosed DEF KernelTypes, ClosedKept
    <3>2. \A c \in Window : boards[c] # {} /\ boards[c] \in SUBSET Digits
      BY <2>1, <3>1 DEF Keeps, KernelTypes
    <3> QED BY <2>1, <3>2 DEF Closed, KernelTypes
  <2>3. \A b \in Closed : Below(b, given) => Below(b, boards)
    BY <2>1 DEF ClosedKept, Keeps, Below
  <2> QED BY <2>2, <2>3
<1> QED BY <1>1, RoundInvariant, PTL
-----------------------------------------------------------------------------
(* SudokuHost, for any batch size, any file and any memory of the GPU: what *)
(* is counted and what is still in the batch add up to what was read.      *)
InBatch == 0..(batch_count - 1)
Left(kinds) == IF host \in {"print", "exit_0"} THEN {}
               ELSE {s \in InBatch : lines[host_boards[s]] \in kinds}

HostTypes ==
  /\ lines \in Seq(Kinds) /\ host_boards \in [Slots -> Nat] /\ solutions \in [Slots -> Nat]
  /\ batch_count \in 0..BATCH_SIZE /\ board_count \in Nat
  /\ solved_count \in Nat /\ error_count \in Nat /\ cuda_ok \in BOOLEAN /\ doubtful \in Nat
  /\ host \in {"read", "solve", "solve_rest", "check", "check_rest", "print", "exit_0", "exit_2"}

Batching == /\ host = "read" => batch_count < BATCH_SIZE
            /\ host \in {"check", "check_rest"} /\ cuda_ok =>
                 \A s \in InBatch : contents[s] = "propagated"

(* As long as no line was cut off, a slot in use holds a board with its    *)
(* own solution.                                                           *)
Aligned == \A s \in InBatch : solutions[s] = host_boards[s] /\ host_boards[s] \in DOMAIN lines

Tally ==
  /\ board_count = HowMany(WellFormed)
  /\ Near(error_count + Cardinality(Left({"wrong"})), HowMany({"wrong"}))
  /\ Near(solved_count + Cardinality(Left({"solved"})), HowMany({"solved"}))

HostInv == HostTypes /\ Batching /\ (~AtEnd => Aligned /\ Tally)

HIDE KernelAssumption DEF Goto, Control
USE HostAssumption

LEMMA LinesCounted ==
  ASSUME NEW file_lines \in Seq(Kinds), NEW kinds
  PROVE  LET found == {n \in DOMAIN file_lines : file_lines[n] \in kinds}
         IN  IsFiniteSet(found) /\ Cardinality(found) \in Nat
<1> DEFINE found == {n \in DOMAIN file_lines : file_lines[n] \in kinds}
<1>1. Len(file_lines) \in Nat /\ DOMAIN file_lines = 1..Len(file_lines)
  OBVIOUS
<1>2. IsFiniteSet(1..Len(file_lines))
  BY <1>1, FS_Interval
<1>3. IsFiniteSet(found)
  BY <1>1, <1>2, FS_Subset
<1> QED BY <1>3, FS_CardinalityType

LEMMA SlotsCounted ==
  ASSUME NEW count \in Nat, NEW slots, slots \subseteq 0..(count - 1)
  PROVE  IsFiniteSet(slots) /\ Cardinality(slots) \in Nat
<1>1. IsFiniteSet(0..(count - 1))
  BY FS_Interval
<1>2. IsFiniteSet(slots)
  BY <1>1, FS_Subset
<1> QED BY <1>2, FS_CardinalityType

LEMMA HostInitInv == HostInit => HostInv
<1> SUFFICES ASSUME HostInit PROVE HostInv
  OBVIOUS
<1>1. HostTypes /\ Batching
  BY DEF HostInit, HostTypes, Batching, JUNK, Slots
<1>2. InBatch = {} /\ \A kinds : Left(kinds) = {}
  BY DEF HostInit, InBatch, Left
<1>3. \A kinds : HowMany(kinds) = 0
  BY FS_EmptySet DEF HostInit, HowMany
<1>4. Aligned
  BY <1>2 DEF Aligned
<1>5. Tally
  <2>1. board_count = 0 /\ error_count = 0 /\ solved_count = 0 /\ doubtful = 0
    BY DEF HostInit
  <2>2. Cardinality(Left({"wrong"})) = 0 /\ Cardinality(Left({"solved"})) = 0
    BY <1>2, FS_EmptySet
  <2>3. HowMany(WellFormed) = 0 /\ HowMany({"wrong"}) = 0 /\ HowMany({"solved"}) = 0
    BY <1>3
  <2> QED BY <2>1, <2>2, <2>3 DEF Tally, Near
<1> QED BY <1>1, <1>4, <1>5 DEF HostInv

(* A line that is read is counted where it is read and in its slot.        *)
LEMMA ReadLineInv == HostInv /\ ReadLine => HostInv'
<1> SUFFICES ASSUME HostInv, ReadLine PROVE HostInv'
  OBVIOUS
<1> USE DEF HostInv
<1> DEFINE Counts(k, solution) == k # "bad_board" /\ solution # JUNK
<1>number. PICK n : n = Len(lines) + 1
  OBVIOUS
<1>read. PICK kind \in Kinds : \E s \in SolutionRead(kind) :
        /\ host = "read" /\ ~AtEnd
        /\ lines' = Append(lines, kind)
        /\ host_boards' = [host_boards EXCEPT ![batch_count] =
                            IF kind = "bad_board" THEN JUNK ELSE n]
        /\ solutions' = IF kind = "bad_board" THEN solutions
                        ELSE [solutions EXCEPT ![batch_count] = s]
        /\ batch_count' = IF Counts(kind, s) THEN batch_count + 1 ELSE batch_count
        /\ board_count' = IF Counts(kind, s) THEN board_count + 1 ELSE board_count
        /\ host' = IF batch_count' = BATCH_SIZE THEN "solve" ELSE "read"
        /\ UNCHANGED <<solved_count, error_count, contents, cuda_ok, doubtful>>
  BY <1>number DEF ReadLine, gpu_vars
<1>1. PICK solution \in SolutionRead(kind) :
        /\ host = "read" /\ ~AtEnd
        /\ lines' = Append(lines, kind)
        /\ host_boards' = [host_boards EXCEPT ![batch_count] =
                            IF kind = "bad_board" THEN JUNK ELSE n]
        /\ solutions' = IF kind = "bad_board" THEN solutions
                        ELSE [solutions EXCEPT ![batch_count] = solution]
        /\ batch_count' = IF Counts(kind, solution) THEN batch_count + 1 ELSE batch_count
        /\ board_count' = IF Counts(kind, solution) THEN board_count + 1 ELSE board_count
        /\ host' = IF batch_count' = BATCH_SIZE THEN "solve" ELSE "read"
        /\ UNCHANGED <<solved_count, error_count, contents, cuda_ok, doubtful>>
  BY <1>read
<1>2. /\ batch_count \in Slots /\ batch_count < BATCH_SIZE /\ n \in Nat \ {0}
      /\ DOMAIN lines = 1..(n - 1) /\ n \notin DOMAIN lines
      /\ DOMAIN lines' = DOMAIN lines \cup {n} /\ lines'[n] = kind
      /\ \A k \in DOMAIN lines : lines'[k] = lines[k]
  BY <1>number, <1>1 DEF Batching, HostTypes, Slots
<1>3. solution \in Nat
  BY <1>number, <1>1, <1>2 DEF SolutionRead, Leftovers, JUNK
<1>4. HostTypes' /\ Batching'
  BY <1>1, <1>2, <1>3 DEF HostTypes, Batching, JUNK
<1>5. SUFFICES ASSUME ~AtEnd' PROVE Aligned' /\ Tally'
  BY <1>4
<1>6. kind # "cut"
  BY <1>number, <1>1, <1>2, <1>5 DEF AtEnd, HostTypes
<1>7. kind \in WellFormed <=> Counts(kind, solution)
  BY <1>number, <1>1, <1>2, <1>6 DEF SolutionRead, WellFormed, Kinds, JUNK
<1>8. kind \in WellFormed => solution = n
  BY <1>number, <1>1, <1>2 DEF SolutionRead, WellFormed
<1>9. \A s \in InBatch : /\ host_boards'[s] = host_boards[s] /\ solutions'[s] = solutions[s]
                         /\ lines'[host_boards'[s]] = lines[host_boards[s]]
  BY <1>1, <1>2 DEF HostTypes, InBatch, Aligned
<1>10. IF kind \in WellFormed
       THEN /\ host_boards'[batch_count] = n /\ solutions'[batch_count] = n
            /\ InBatch' = InBatch \cup {batch_count} /\ batch_count \notin InBatch
       ELSE InBatch' = InBatch
  BY <1>1, <1>2, <1>7, <1>8 DEF HostTypes, InBatch, WellFormed
<1>11. Aligned'
  BY <1>1, <1>2, <1>9, <1>10 DEF Aligned
<1>12. ASSUME NEW kinds
       PROVE  /\ HowMany(kinds) \in Nat
              /\ HowMany(kinds)' = IF kind \in kinds THEN HowMany(kinds) + 1 ELSE HowMany(kinds)
  <2> DEFINE found == {k \in DOMAIN lines : lines[k] \in kinds}
  <2>1. IsFiniteSet(found) /\ Cardinality(found) \in Nat
    BY LinesCounted DEF HostTypes
  <2>2. {k \in DOMAIN lines' : lines'[k] \in kinds}
          = IF kind \in kinds THEN found \cup {n} ELSE found
    BY <1>2
  <2>3. n \notin found
    BY <1>2
  <2>4. Cardinality(found \cup {n}) = Cardinality(found) + 1
    BY <2>1, <2>3, FS_AddElement
  <2>5. /\ HowMany(kinds) = Cardinality(found)
        /\ HowMany(kinds)' = Cardinality(IF kind \in kinds THEN found \cup {n} ELSE found)
    BY <2>2 DEF HowMany
  <2> QED BY <2>1, <2>4, <2>5
<1>13. ASSUME NEW kinds, kinds \subseteq WellFormed
       PROVE  /\ Cardinality(Left(kinds)) \in Nat
              /\ Cardinality(Left(kinds)') = IF kind \in kinds THEN Cardinality(Left(kinds)) + 1
                                             ELSE Cardinality(Left(kinds))
  <2>1. Left(kinds) = {s \in InBatch : lines[host_boards[s]] \in kinds}
    BY <1>1 DEF Left
  <2>2. Left(kinds)' = {s \in InBatch' : lines'[host_boards'[s]] \in kinds}
    BY <1>1 DEF Left
  <2>3. Left(kinds)' = IF kind \in kinds THEN Left(kinds) \cup {batch_count} ELSE Left(kinds)
    BY <1>2, <1>9, <1>10, <1>13, <2>1, <2>2
  <2>4. IsFiniteSet(Left(kinds)) /\ Cardinality(Left(kinds)) \in Nat
    <3>1. batch_count \in Nat /\ Left(kinds) \subseteq 0..(batch_count - 1)
      BY <2>1 DEF InBatch, HostTypes
    <3> QED BY <3>1, SlotsCounted
  <2>5. kind \in kinds => batch_count \notin Left(kinds)
    BY <1>10, <1>13, <2>1
  <2>6. batch_count \notin Left(kinds) =>
          Cardinality(Left(kinds) \cup {batch_count}) = Cardinality(Left(kinds)) + 1
    BY <2>4, FS_AddElement
  <2>7. Cardinality(Left(kinds)') = Cardinality(IF kind \in kinds THEN Left(kinds) \cup {batch_count}
                                                ELSE Left(kinds))
    BY <2>3
  <2> QED BY <2>4, <2>5, <2>6, <2>7
<1>14. Tally'
  <2>1. board_count' = HowMany(WellFormed)'
    BY <1>1, <1>7, <1>12 DEF Tally
  <2>2. {"wrong"} \subseteq WellFormed /\ {"solved"} \subseteq WellFormed
    BY DEF WellFormed
  <2>3. PICK held, right : held = Cardinality(Left({"wrong"})) /\ right = HowMany({"wrong"})
    OBVIOUS
  <2>4. /\ held \in Nat /\ right \in Nat
        /\ Cardinality(Left({"wrong"})') = IF kind = "wrong" THEN held + 1 ELSE held
        /\ HowMany({"wrong"})' = IF kind = "wrong" THEN right + 1 ELSE right
    BY <1>12, <1>13, <2>2, <2>3
  <2>5. Near(error_count + held, right)
    BY <1>1, <2>3 DEF Tally
  <2>6. Near(error_count + Cardinality(Left({"wrong"})), HowMany({"wrong"}))'
    <3>1. error_count \in Nat /\ doubtful \in Nat /\ UNCHANGED <<error_count, doubtful>>
      BY <1>1 DEF HostTypes
    <3> HIDE DEF HostInv
    <3>2. CASE kind = "wrong"
      BY <2>4, <2>5, <3>1, <3>2 DEF Near
    <3>3. CASE kind # "wrong"
      BY <2>4, <2>5, <3>1, <3>3 DEF Near
    <3> QED BY <3>2, <3>3
  <2>7. PICK open, done : open = Cardinality(Left({"solved"})) /\ done = HowMany({"solved"})
    OBVIOUS
  <2>8. /\ open \in Nat /\ done \in Nat
        /\ Cardinality(Left({"solved"})') = IF kind = "solved" THEN open + 1 ELSE open
        /\ HowMany({"solved"})' = IF kind = "solved" THEN done + 1 ELSE done
    BY <1>12, <1>13, <2>2, <2>7
  <2>9. Near(solved_count + open, done)
    BY <1>1, <2>7 DEF Tally
  <2>10. Near(solved_count + Cardinality(Left({"solved"})), HowMany({"solved"}))'
    <3>1. solved_count \in Nat /\ doubtful \in Nat /\ UNCHANGED <<solved_count, doubtful>>
      BY <1>1 DEF HostTypes
    <3> HIDE DEF HostInv
    <3>2. CASE kind = "solved"
      BY <2>8, <2>9, <3>1, <3>2 DEF Near
    <3>3. CASE kind # "solved"
      BY <2>8, <2>9, <3>1, <3>3 DEF Near
    <3> QED BY <3>2, <3>3
  <2> QED BY <2>1, <2>6, <2>10 DEF Tally
<1> QED BY <1>11, <1>14

(* check_solutions counts what the batch holds, exactly or, when a call    *)
(* failed, off by no more boards than the batch has; the batch is then     *)
(* empty or no longer looked at.                                           *)
LEMMA BatchCounted ==
  ASSUME NEW batch \in Nat, NEW held, NEW counted,
         held \subseteq 0..(batch - 1), counted \subseteq 0..(batch - 1)
  PROVE  Cardinality(held) \in 0..batch /\ Cardinality(counted) \in 0..batch
<1>1. IsFiniteSet(0..(batch - 1)) /\ Cardinality(0..(batch - 1)) = batch
  BY FS_Interval
<1>2. ASSUME NEW slots, slots \subseteq 0..(batch - 1) PROVE Cardinality(slots) \in 0..batch
  <2>1. slots \in SUBSET (0..(batch - 1))
    BY <1>2
  <2>2. Cardinality(slots) <= Cardinality(0..(batch - 1))
    BY <1>1, <2>1, FS_Subset
  <2>3. Cardinality(slots) \in Nat
    BY <1>2, SlotsCounted
  <2> QED BY <1>1, <2>2, <2>3
<1> QED BY <1>2

LEMMA StaysNear ==
  ASSUME HostTypes, NEW exact \in Nat, NEW count \in Nat,
         NEW held \in 0..batch_count, NEW counted \in 0..batch_count,
         NEW after, after = count + counted,
         Near(count + held, exact), cuda_ok => counted = held,
         doubtful' = IF cuda_ok THEN doubtful ELSE doubtful + batch_count
  PROVE  after <= exact + doubtful' /\ exact <= after + doubtful'
<1>1. doubtful \in Nat /\ batch_count \in Nat /\ cuda_ok \in BOOLEAN
  BY DEF HostTypes
<1>2. count + held <= exact + doubtful /\ exact <= count + held + doubtful
  BY DEF Near
<1>3. CASE cuda_ok
  BY <1>1, <1>2, <1>3
<1>4. CASE ~cuda_ok
  BY <1>1, <1>2, <1>4
<1> QED BY <1>3, <1>4

LEMMA CheckInv ==
  ASSUME HostInv, NEW to \in {"read", "print"}, CheckSolutions(to),
         host \in {"check", "check_rest"},
         IF to = "read" THEN batch_count' = 0 ELSE UNCHANGED batch_count
  PROVE  HostInv'
<1> USE DEF HostInv
<1>1. PICK outcome \in [InBatch -> Verdicts] :
        /\ \A s \in InBatch : solutions[s] = host_boards[s] => outcome[s] \in Outcomes(s)
        /\ solved_count' = solved_count + Cardinality({s \in InBatch : outcome[s] = "match"})
        /\ error_count' = error_count + Cardinality({s \in InBatch : outcome[s] = "error"})
        /\ doubtful' = IF cuda_ok THEN doubtful ELSE doubtful + batch_count
        /\ host' = to
        /\ UNCHANGED <<lines, host_boards, solutions, board_count, gpu_used, cuda_ok>>
  BY DEF CheckSolutions, InBatch
<1>2. PICK matches, errors : /\ matches = {s \in InBatch : outcome[s] = "match"}
                             /\ errors = {s \in InBatch : outcome[s] = "error"}
  OBVIOUS
<1>3. PICK open, held : open = Left({"solved"}) /\ held = Left({"wrong"})
  OBVIOUS
<1>4. /\ batch_count \in Nat /\ Cardinality(matches) \in 0..batch_count
      /\ Cardinality(errors) \in 0..batch_count
      /\ Cardinality(open) \in 0..batch_count /\ Cardinality(held) \in 0..batch_count
  <2>1. batch_count \in Nat
    BY DEF HostTypes
  <2>2. /\ matches \subseteq 0..(batch_count - 1) /\ errors \subseteq 0..(batch_count - 1)
        /\ open \subseteq 0..(batch_count - 1) /\ held \subseteq 0..(batch_count - 1)
    BY <1>2, <1>3 DEF InBatch, Left
  <2> QED BY <2>1, <2>2, BatchCounted
<1>5. HostTypes' /\ Batching'
  <2>1. batch_count' \in 0..BATCH_SIZE /\ (to = "read" => batch_count' < BATCH_SIZE)
    BY <1>1 DEF HostTypes
  <2>2. solved_count' \in Nat /\ error_count' \in Nat /\ doubtful' \in Nat
    <3>1. solved_count \in Nat /\ error_count \in Nat /\ doubtful \in Nat
      BY DEF HostTypes
    <3>2. /\ solved_count' = solved_count + Cardinality(matches)
          /\ error_count' = error_count + Cardinality(errors)
          /\ doubtful' = doubtful \/ doubtful' = doubtful + batch_count
      BY <1>1, <1>2
    <3> QED BY <1>4, <3>1, <3>2
  <2>3. host' = to /\ UNCHANGED <<lines, host_boards, solutions, board_count, cuda_ok>>
    BY <1>1
  <2>4. Batching'
    BY <2>1, <2>3 DEF Batching
  <2> QED BY <2>1, <2>2, <2>3, <2>4 DEF HostTypes
<1>6. SUFFICES ASSUME ~AtEnd' PROVE Aligned' /\ Tally'
  BY <1>5
<1>7. ~AtEnd /\ Aligned /\ Tally
  BY <1>1, <1>6 DEF AtEnd
<1>8. Aligned'
  BY <1>1, <1>7 DEF Aligned, InBatch
<1>9. \A kinds : HowMany(kinds)' = HowMany(kinds) /\ HowMany(kinds) \in Nat
  BY <1>1, LinesCounted DEF HowMany, HostTypes
<1>10. \A kinds : Left(kinds)' = {}
  <2>1. CASE to = "print"
    BY <1>1, <2>1 DEF Left
  <2>2. CASE to = "read"
    <3>1. InBatch' = {}
      BY <2>2 DEF InBatch
    <3> QED BY <3>1 DEF Left
  <2> QED BY <2>1, <2>2
<1>11. cuda_ok => matches = open /\ errors = held
  <2> SUFFICES ASSUME cuda_ok PROVE matches = open /\ errors = held
    OBVIOUS
  <2>1. \A s \in InBatch : outcome[s] \in Outcomes(s) /\ contents[s] = "propagated"
    BY <1>1, <1>7 DEF Aligned, Batching
  <2>2. ASSUME NEW s \in InBatch
        PROVE  /\ outcome[s] = "error" <=> lines[host_boards[s]] = "wrong"
               /\ outcome[s] = "match" <=> lines[host_boards[s]] = "solved"
    BY <2>1 DEF Outcomes
  <2>3. /\ open = {s \in InBatch : lines[host_boards[s]] \in {"solved"}}
        /\ held = {s \in InBatch : lines[host_boards[s]] \in {"wrong"}}
    BY <1>3 DEF Left
  <2> QED BY <1>2, <2>2, <2>3
<1>12. Tally'
  <2>1. PICK wrong, solved : wrong = HowMany({"wrong"}) /\ solved = HowMany({"solved"})
    OBVIOUS
  <2>2. wrong \in Nat /\ solved \in Nat /\ error_count \in Nat /\ solved_count \in Nat
    BY <1>9, <2>1 DEF HostTypes
  <2>3. /\ Near(error_count + Cardinality(held), wrong)
        /\ Near(solved_count + Cardinality(open), solved)
    BY <1>3, <1>7, <2>1 DEF Tally
  <2>4. /\ error_count' = error_count + Cardinality(errors)
        /\ solved_count' = solved_count + Cardinality(matches)
        /\ doubtful' = IF cuda_ok THEN doubtful ELSE doubtful + batch_count
    BY <1>1, <1>2
  <2>5. error_count' <= wrong + doubtful' /\ wrong <= error_count' + doubtful'
    BY <1>4, <1>11, <2>2, <2>3, <2>4, StaysNear
  <2>6. solved_count' <= solved + doubtful' /\ solved <= solved_count' + doubtful'
    BY <1>4, <1>11, <2>2, <2>3, <2>4, StaysNear
  <2>7. Cardinality(Left({"wrong"})') = 0 /\ Cardinality(Left({"solved"})') = 0
    BY <1>10, FS_EmptySet
  <2>8. /\ HowMany({"wrong"})' = wrong /\ HowMany({"solved"})' = solved
        /\ board_count' = HowMany(WellFormed)'
    BY <1>1, <1>7, <1>9, <2>1 DEF Tally
  <2>9. error_count' \in Nat /\ solved_count' \in Nat
    BY <1>5 DEF HostTypes
  <2>10. /\ Near(error_count + Cardinality(Left({"wrong"})), HowMany({"wrong"}))'
         /\ Near(solved_count + Cardinality(Left({"solved"})), HowMany({"solved"}))'
    BY <2>5, <2>6, <2>7, <2>8, <2>9 DEF Near
  <2> QED BY <2>8, <2>10 DEF Tally
<1> QED BY <1>8, <1>12

LEMMA HostNextInv == HostInv /\ [HostNext]_host_vars => HostInv'
<1> SUFFICES ASSUME HostInv, [HostNext]_host_vars PROVE HostInv'
  OBVIOUS
<1> USE DEF HostInv
<1>1. CASE ReadLine
  BY <1>1, ReadLineInv
<1>2. CASE EndOfFile
  <2>1. HostTypes' /\ Batching'
    BY <1>2 DEF EndOfFile, counters, gpu_vars, HostTypes, Batching
  <2>2. \A kinds : Left(kinds)' = Left(kinds) /\ HowMany(kinds)' = HowMany(kinds)
    BY <1>2 DEF EndOfFile, counters, gpu_vars, Left, InBatch, HowMany, HostTypes
  <2>3. AtEnd' = AtEnd /\ Aligned' = Aligned
    BY <1>2 DEF EndOfFile, counters, gpu_vars, Aligned, InBatch, AtEnd
  <2> QED BY <1>2, <2>1, <2>2, <2>3 DEF EndOfFile, counters, gpu_vars, Tally, Near
<1>3. ASSUME NEW to \in {"check", "check_rest"}, Solve(to), host \in {"solve", "solve_rest"}
      PROVE  HostInv'
  <2>1. /\ UNCHANGED <<lines, host_boards, solutions, counters>>
        /\ host' \in {"check", "check_rest", "exit_2"}
        /\ UNCHANGED doubtful /\ cuda_ok' \in BOOLEAN
        /\ host' # "exit_2" /\ cuda_ok' => \A s \in InBatch : contents'[s] = "propagated"
    <3>1. /\ UNCHANGED <<lines, host_boards, solutions, counters>>
          /\ \/ host' = "exit_2" /\ UNCHANGED gpu_vars
             \/ /\ host' = to /\ UNCHANGED doubtful
                /\ \E copied, ran, complete \in BOOLEAN :
                     /\ \E result \in [0..(batch_count - 1) ->
                                      CopiedBack(OnGpu(copied, ran), complete)] :
                          contents' = [s \in Slots |->
                                         IF s < batch_count THEN result[s] ELSE contents[s]]
                     /\ cuda_ok' = (copied /\ ran /\ complete)
      BY <1>3 DEF Solve
    <3>2. CASE host' = "exit_2" /\ UNCHANGED gpu_vars
      BY <3>1, <3>2 DEF gpu_vars, HostTypes
    <3>3. CASE host' # "exit_2" \/ ~UNCHANGED gpu_vars
      <4>1. PICK copied, ran, complete \in BOOLEAN :
              /\ \E result \in [0..(batch_count - 1) ->
                               CopiedBack(OnGpu(copied, ran), complete)] :
                   contents' = [s \in Slots |-> IF s < batch_count THEN result[s] ELSE contents[s]]
              /\ cuda_ok' = (copied /\ ran /\ complete)
        BY <3>1, <3>3
      <4>2. host' = to /\ UNCHANGED doubtful
        BY <3>1, <3>3
      <4>3. ASSUME cuda_ok' PROVE \A s \in InBatch : contents'[s] = "propagated"
        <5>1. CopiedBack(OnGpu(copied, ran), complete) = {"propagated"}
          BY <4>1, <4>3 DEF CopiedBack, OnGpu
        <5>2. PICK result \in [0..(batch_count - 1) -> {"propagated"}] :
                contents' = [s \in Slots |-> IF s < batch_count THEN result[s] ELSE contents[s]]
          BY <4>1, <5>1
        <5>3. \A s \in InBatch : s \in Slots /\ s < batch_count
          BY DEF InBatch, Slots, HostTypes
        <5> QED BY <5>2, <5>3 DEF InBatch
      <4> QED BY <3>1, <4>1, <4>2, <4>3
    <3> QED BY <3>2, <3>3
  <2>2. HostTypes' /\ Batching'
    BY <2>1 DEF counters, HostTypes, Batching, InBatch
  <2>3. \A kinds : Left(kinds)' = Left(kinds) /\ HowMany(kinds)' = HowMany(kinds)
    BY <1>3, <2>1 DEF counters, Left, InBatch, HowMany
  <2>4. AtEnd' = AtEnd /\ Aligned' = Aligned
    BY <2>1 DEF counters, Aligned, InBatch, AtEnd
  <2> QED BY <2>1, <2>2, <2>3, <2>4 DEF counters, Tally, Near, HostTypes
<1>4. CASE CheckBatch
  BY <1>4, CheckInv DEF CheckBatch
<1>5. CASE CheckRest
  BY <1>5, CheckInv DEF CheckRest
<1>6. CASE PrintStats
  <2>1. HostTypes' /\ Batching'
    BY <1>6 DEF PrintStats, counters, gpu_vars, HostTypes, Batching
  <2>2. \A kinds : Left(kinds)' = Left(kinds) /\ HowMany(kinds)' = HowMany(kinds)
    BY <1>6 DEF PrintStats, counters, gpu_vars, Left, HowMany
  <2>3. AtEnd' = AtEnd /\ Aligned' = Aligned
    BY <1>6 DEF PrintStats, counters, gpu_vars, Aligned, InBatch, AtEnd
  <2> QED BY <1>6, <2>1, <2>2, <2>3 DEF PrintStats, counters, gpu_vars, Tally, Near
<1>7. CASE UNCHANGED host_vars
  <2>1. HostTypes' /\ Batching'
    BY <1>7 DEF host_vars, counters, gpu_vars, HostTypes, Batching, InBatch
  <2>2. \A kinds : Left(kinds)' = Left(kinds) /\ HowMany(kinds)' = HowMany(kinds)
    BY <1>7 DEF host_vars, counters, gpu_vars, Left, InBatch, HowMany
  <2>3. AtEnd' = AtEnd /\ Aligned' = Aligned
    BY <1>7 DEF host_vars, counters, gpu_vars, Aligned, InBatch, AtEnd
  <2> QED BY <1>7, <2>1, <2>2, <2>3 DEF host_vars, counters, gpu_vars, Tally, Near
<1> QED BY <1>1, <1>2, <1>3, <1>4, <1>5, <1>6, <1>7 DEF HostNext, SolveBatch, SolveRest

(* What main prints agrees with the file, for any batch size: no line is   *)
(* counted twice or lost at a batch's border, whichever lines do not       *)
(* parse, and calls of the GPU that fail, in any pattern, put the counts   *)
(* out by no more boards than their batches hold.                          *)
THEOREM HostCountsRight == HostSpec => []CountsRight
<1>1. HostInv => CountsRight
  <2> SUFFICES ASSUME HostInv, host \in {"print", "exit_0"}, ~AtEnd
               PROVE  /\ board_count = HowMany(WellFormed)
                      /\ Near(error_count, HowMany({"wrong"}))
                      /\ Near(solved_count, HowMany({"solved"}))
    BY DEF CountsRight
  <2>1. Tally /\ error_count \in Nat /\ solved_count \in Nat
    BY DEF HostInv, HostTypes
  <2>2. Cardinality(Left({"wrong"})) = 0 /\ Cardinality(Left({"solved"})) = 0
    BY FS_EmptySet DEF Left
  <2> QED BY <2>1, <2>2 DEF Tally, Near
<1> QED BY <1>1, HostInitInv, HostNextInv, PTL DEF HostSpec

-----------------------------------------------------------------------------
(* Every variable keeps its type: no slot is written outside the arrays,   *)
(* and no board is counted that was not read, also behind a cut-off line.  *)
HostTyped == /\ HostTypeOK /\ Len(lines) <= MaxInputLines /\ board_count <= Len(lines)
             /\ host = "read" => batch_count < BATCH_SIZE

LEMMA SolutionLines == ASSUME lines \in Seq(Kinds), NEW kind PROVE SolutionRead(kind) \subseteq 0..(Len(lines) + 1)
<1>1. Len(lines) \in Nat /\ DOMAIN lines = 1..Len(lines)
  OBVIOUS
<1>2. Leftovers \subseteq 0..Len(lines)
  BY <1>1 DEF Leftovers, JUNK
<1>3. 0..Len(lines) \subseteq 0..(Len(lines) + 1) /\ Len(lines) + 1 \in 0..(Len(lines) + 1) /\ 0 \in 0..(Len(lines) + 1)
  BY <1>1
<1> QED BY <1>2, <1>3 DEF SolutionRead, JUNK

LEMMA HostTypesKept == HostSpec => []HostTypeOK
<1>1. HostInit => HostTyped
  BY DEF HostInit, HostTyped, HostTypeOK, JUNK, Contents
<1>2. HostTyped /\ [HostNext]_host_vars => HostTyped'
  <2> SUFFICES ASSUME HostTyped, [HostNext]_host_vars PROVE HostTyped'
    OBVIOUS
  <2> USE DEF HostTyped, HostTypeOK
  <2>1. CASE ReadLine
    <3> SUFFICES ASSUME NEW kind \in Kinds, NEW solution \in SolutionRead(kind), NEW taken,
            lines' = Append(lines, kind),
            host_boards' = [host_boards EXCEPT ![batch_count] =
                             IF kind = "bad_board" THEN JUNK ELSE Len(lines) + 1],
            solutions' = IF kind = "bad_board" THEN solutions
                         ELSE [solutions EXCEPT ![batch_count] = solution],
            batch_count' = IF taken THEN batch_count + 1 ELSE batch_count,
            board_count' = IF taken THEN board_count + 1 ELSE board_count,
            host' = IF batch_count' = BATCH_SIZE THEN "solve" ELSE "read"
        PROVE  HostTyped'
      BY <2>1 DEF ReadLine
    <3>2. /\ Len(lines) < MaxInputLines /\ Len(lines) \in Nat /\ host = "read"
          /\ UNCHANGED <<contents, doubtful>>
      BY <2>1 DEF ReadLine, gpu_vars
    <3>3. lines' \in Seq(Kinds) /\ Len(lines') = Len(lines) + 1
      OBVIOUS
    <3>4. solution \in 0..MaxInputLines /\ Len(lines) + 1 \in 0..MaxInputLines /\ JUNK \in 0..MaxInputLines
      BY <3>2, SolutionLines DEF JUNK
    <3>5. host_boards' \in [Slots -> 0..MaxInputLines] /\ solutions' \in [Slots -> 0..MaxInputLines]
      BY <3>4
    <3>6. batch_count' \in 0..BATCH_SIZE /\ (host' = "read" => batch_count' < BATCH_SIZE) /\ host' \in {"read", "solve"}
      BY <3>2
    <3>7. board_count' \in 0..MaxInputLines /\ board_count' <= Len(lines')
      BY <3>2, <3>3
    <3> QED BY <3>2, <3>3, <3>5, <3>6, <3>7
  <2>2. CASE EndOfFile \/ PrintStats \/ UNCHANGED host_vars
    BY <2>2 DEF EndOfFile, PrintStats, host_vars, counters, gpu_vars
  <2>3. ASSUME NEW to \in {"check", "check_rest"}, Solve(to) PROVE HostTyped'
    <3>1. /\ UNCHANGED <<lines, host_boards, solutions, counters>>
          /\ \/ host' = "exit_2" /\ UNCHANGED gpu_vars
             \/ host' = to /\ UNCHANGED doubtful /\ contents' \in [Slots -> Contents]
      <4>1. \A copied, ran, complete \in BOOLEAN :
              CopiedBack(OnGpu(copied, ran), complete) \subseteq Contents
        BY DEF CopiedBack, OnGpu, Contents
      <4>2. ASSUME NEW result \in [0..(batch_count - 1) -> Contents],
                   contents' = [s \in Slots |-> IF s < batch_count THEN result[s] ELSE contents[s]]
            PROVE  contents' \in [Slots -> Contents]
        BY <4>2 DEF Slots
      <4>3. CASE host' = "exit_2" /\ UNCHANGED gpu_vars
        BY <2>3, <4>3 DEF Solve
      <4>4. CASE ~(host' = "exit_2" /\ UNCHANGED gpu_vars)
        <5>1. PICK copied, ran, complete \in BOOLEAN :
                \E result \in [0..(batch_count - 1) -> CopiedBack(OnGpu(copied, ran), complete)] :
                  contents' = [s \in Slots |-> IF s < batch_count THEN result[s] ELSE contents[s]]
          BY <2>3, <4>4 DEF Solve
        <5>2. PICK result \in [0..(batch_count - 1) -> Contents] :
                contents' = [s \in Slots |-> IF s < batch_count THEN result[s] ELSE contents[s]]
          BY <4>1, <5>1
        <5> QED BY <2>3, <4>2, <4>4, <5>2 DEF Solve
      <4> QED BY <4>3, <4>4
    <3> QED BY <2>3, <3>1 DEF counters, gpu_vars
  <2>4. ASSUME NEW to \in {"read", "print"}, CheckSolutions(to),
               batch_count' = IF to = "read" THEN 0 ELSE batch_count
        PROVE  HostTyped'
    <3>1. /\ contents' \in [Slots -> Contents] /\ host' = to /\ doubtful' \in Nat
          /\ UNCHANGED <<lines, host_boards, solutions, board_count>>
      BY <2>4 DEF CheckSolutions, Contents
    <3> QED BY <2>4, <3>1
  <2> QED BY <2>1, <2>2, <2>3, <2>4 DEF HostNext, SolveBatch, SolveRest, CheckBatch, CheckRest
<1>3. HostTyped => HostTypeOK
  BY DEF HostTyped
<1> QED BY <1>1, <1>2, <1>3, PTL DEF HostSpec

HIDE HostAssumption

(* PrintArchive, for archives of any number of members whose offsets are   *)
(* ints and whose contents the stack holds, whatever those limits are.     *)
(* The positions of the headers exist by induction over the members.       *)
Padded(m) == 60 + m.size + (m.size % 2)
Offsets(members, start) ==
  \A k \in 1..(Len(members) + 1) :
    start[k] = IF k = 1 THEN 8 ELSE start[k - 1] + Padded(members[k - 1])

Members == [name : Names, size : Nat]

LEMMA PaddedPositive ==
  ASSUME NEW members \in Seq(Members)
  PROVE  Len(members) \in Nat /\ \A k \in 1..Len(members) : Padded(members[k]) \in Nat \ {0}
<1>1. \A m \in Nat : m % 2 \in 0..1
  OBVIOUS
<1>2. ASSUME NEW k \in 1..Len(members) PROVE Padded(members[k]) \in Nat \ {0}
  <2>1. members[k] \in Members
    OBVIOUS
  <2>2. members[k].size \in Nat /\ members[k].size % 2 \in 0..1
    BY <1>1, <2>1 DEF Members
  <2> QED BY <2>2 DEF Padded
<1> QED BY <1>2

LEMMA OffsetsExist ==
  ASSUME NEW members \in Seq(Members)
  PROVE  \E start \in [1..(Len(members) + 1) -> Nat] : Offsets(members, start)
<1> DEFINE Count == Len(members)
           UpTo(n, start) == \A k \in 1..(n + 1) :
             start[k] = IF k = 1 THEN 8 ELSE start[k - 1] + Padded(members[k - 1])
           Good(n) == \E start \in [1..(n + 1) -> Nat] : UpTo(n, start)
<1>1. Count \in Nat /\ \A k \in 1..Count : Padded(members[k]) \in Nat \ {0}
  BY PaddedPositive
<1>2. Good(0)
  <2>1. [k \in 1..(0 + 1) |-> 8] \in [1..(0 + 1) -> Nat]
    OBVIOUS
  <2>2. UpTo(0, [k \in 1..(0 + 1) |-> 8])
    OBVIOUS
  <2> QED BY <1>1, <2>1, <2>2
<1>3. ASSUME NEW n \in 0..(Count - 1), Good(n) PROVE Good(n + 1)
  <2>1. PICK start \in [1..(n + 1) -> Nat] : UpTo(n, start)
    BY <1>3
  <2>2. PICK more : more = [k \in 1..((n + 1) + 1) |->
                              IF k = n + 2 THEN start[n + 1] + Padded(members[n + 1]) ELSE start[k]]
    OBVIOUS
  <2>3. n \in Nat /\ n + 1 \in 1..Count /\ Padded(members[n + 1]) \in Nat
    BY <1>1
  <2>4. more \in [1..((n + 1) + 1) -> Nat]
    BY <2>2, <2>3
  <2>5. UpTo(n + 1, more)
    <3>1. ASSUME NEW k \in 1..((n + 1) + 1)
          PROVE  more[k] = IF k = 1 THEN 8 ELSE more[k - 1] + Padded(members[k - 1])
      <4>1. CASE k = n + 2
        <5>1. k # 1 /\ k - 1 = n + 1 /\ k - 1 # n + 2 /\ k - 1 \in 1..((n + 1) + 1)
          BY <2>3, <4>1
        <5> QED BY <2>2, <4>1, <5>1
      <4>2. CASE k # n + 2
        <5>1. k \in 1..(n + 1) /\ (k # 1 => k - 1 \in 1..(n + 1) /\ k - 1 # n + 2)
          BY <2>3, <4>2
        <5>2. start[k] = IF k = 1 THEN 8 ELSE start[k - 1] + Padded(members[k - 1])
          BY <2>1, <5>1
        <5> QED BY <2>2, <2>3, <4>2, <5>1, <5>2
      <4> QED BY <4>1, <4>2
    <3> QED BY <3>1
  <2> QED BY <2>3, <2>4, <2>5
<1>4. Good(Count)
  <2> HIDE DEF Good, UpTo
  <2>1. SUFFICES ASSUME ~Good(Count) PROVE FALSE
    OBVIOUS
  <2>2. PICK T : T = {n \in 0..Count : ~Good(n)}
    OBVIOUS
  <2>3. T \subseteq Nat /\ Count \in T
    BY <1>1, <2>1, <2>2
  <2>4. PICK n \in T : \A m \in T : n <= m
    BY <2>3, LeastNumber
  <2>5. n \in 1..Count /\ ~Good(n)
    BY <1>1, <1>2, <2>2, <2>4
  <2>6. n - 1 \in 0..(Count - 1) /\ ~(n <= n - 1) /\ (n - 1) + 1 = n
    BY <1>1, <2>5
  <2>7. Good(n - 1)
    BY <1>1, <2>2, <2>4, <2>6
  <2> QED BY <1>3, <2>5, <2>6, <2>7
<1> QED BY <1>4 DEF Offsets

LEMMA OffsetsHold ==
  ASSUME archive \in Seq(Members)
  PROVE  Offsets(archive, Offset) /\ Offset \in [1..(Len(archive) + 1) -> Nat]
<1> DEFINE Body(f) == [k \in 1..(Len(archive) + 1) |->
                IF k = 1 THEN 8
                ELSE f[k - 1] + 60 + archive[k - 1].size + (archive[k - 1].size % 2)]
<1>1. PICK start \in [1..(Len(archive) + 1) -> Nat] : Offsets(archive, start)
  BY OffsetsExist
<1>2. Offset = CHOOSE f : f = Body(f)
  BY DEF Offset
<1>3. Len(archive) \in Nat /\ \A k \in 1..Len(archive) : Padded(archive[k]) \in Nat \ {0}
  BY PaddedPositive
<1>4. \A m \in Members, x \in Nat : x + 60 + m.size + (m.size % 2) = x + Padded(m)
  <2>1. ASSUME NEW m \in Members, NEW x \in Nat
        PROVE  x + 60 + m.size + (m.size % 2) = x + Padded(m)
    <3>1. m.size \in Nat
      BY DEF Members
    <3>2. m.size % 2 \in 0..1
      BY <3>1
    <3>3. PICK a, b : a = m.size /\ b = m.size % 2 /\ a \in Nat /\ b \in 0..1
      BY <3>1, <3>2
    <3>4. x + 60 + a + b = x + (60 + a + b)
      <4>1. a \in Nat /\ b \in Nat
        BY <3>3
      <4> QED BY <4>1
    <3> QED BY <3>3, <3>4 DEF Padded
  <2> QED BY <2>1
<1>5. start = Body(start)
  <2>1. ASSUME NEW k \in 1..(Len(archive) + 1)
        PROVE  start[k] = Body(start)[k]
    <3>1. start[k] = IF k = 1 THEN 8 ELSE start[k - 1] + Padded(archive[k - 1])
      BY <1>1 DEF Offsets
    <3>2. CASE k # 1
      <4>1. k - 1 \in 1..(Len(archive) + 1) /\ k - 1 \in 1..Len(archive)
        BY <3>2
      <4>2. start[k - 1] \in Nat /\ archive[k - 1] \in Members
        BY <4>1
      <4>3. Body(start)[k] = start[k - 1] + 60 + archive[k - 1].size + (archive[k - 1].size % 2)
        BY <3>2
      <4> QED BY <1>4, <3>1, <3>2, <4>2, <4>3
    <3>3. CASE k = 1
      BY <3>1, <3>3
    <3> QED BY <3>2, <3>3
  <2> QED BY <2>1
<1>6. Offset = Body(Offset)
  <2> HIDE DEF Body
  <2> QED BY <1>2, <1>5
<1>7. PICK end : end = Len(archive) + 1
  OBVIOUS
<1>8. ASSUME NEW k \in 1..end
      PROVE  Offset[k] = IF k = 1 THEN 8
                         ELSE Offset[k - 1] + 60 + archive[k - 1].size + (archive[k - 1].size % 2)
  BY <1>6, <1>7
<1>9. \A k \in 1..end : Offset[k] \in Nat
  <2>1. PICK T : T = {k \in 1..end : Offset[k] \notin Nat}
    OBVIOUS
  <2>2. SUFFICES ASSUME T # {} PROVE FALSE
    BY <2>1
  <2>3. T \subseteq Nat
    BY <2>1, <1>3, <1>7
  <2>4. PICK k \in T : \A j \in T : k <= j
    BY <2>2, <2>3, LeastNumber
  <2>5. k \in 1..end /\ k # 1 /\ Offset[k] \notin Nat
    BY <1>8, <2>1, <2>4
  <2>6. k - 1 \in 1..end /\ k - 1 \in 1..Len(archive) /\ ~(k <= k - 1)
    BY <1>3, <1>7, <2>5
  <2>7. Offset[k - 1] \in Nat /\ archive[k - 1] \in Members
    BY <2>1, <2>4, <2>6
  <2>8. Offset[k] = Offset[k - 1] + Padded(archive[k - 1])
    BY <1>4, <1>8, <2>5, <2>7
  <2> QED BY <1>3, <2>5, <2>6, <2>7, <2>8
<1>10. ASSUME NEW k \in 1..end
       PROVE  Offset[k] = IF k = 1 THEN 8 ELSE Offset[k - 1] + Padded(archive[k - 1])
  <2>1. CASE k = 1
    BY <1>8, <2>1
  <2>2. CASE k # 1
    <3>1. k - 1 \in 1..end /\ k - 1 \in 1..Len(archive)
      BY <1>3, <1>7, <2>2
    <3>2. Offset[k - 1] \in Nat /\ archive[k - 1] \in Members
      BY <1>9, <3>1
    <3> QED BY <1>4, <1>8, <2>2, <3>2
  <2> QED BY <2>1, <2>2
<1>11. Offset = [k \in 1..end |-> Offset[k]]
  BY <1>6, <1>7
<1> QED BY <1>7, <1>9, <1>10, <1>11 DEF Offsets

(* The headers lie behind one another.                                     *)
LEMMA OffsetsGrow ==
  ASSUME archive \in Seq(Members)
  PROVE  \A j, k \in 1..(Len(archive) + 1) : j < k => Offset[j] < Offset[k]
<1>1. PICK end : end = Len(archive) + 1
  OBVIOUS
<1>2. /\ end \in Nat /\ \A k \in 1..end : Offset[k] \in Nat
      /\ \A k \in 1..end : k # 1 => Offset[k] = Offset[k - 1] + Padded(archive[k - 1])
      /\ \A k \in 1..(end - 1) : Padded(archive[k]) \in Nat \ {0}
  <2>1. Len(archive) \in Nat /\ end - 1 = Len(archive)
    BY <1>1
  <2>2. \A k \in 1..end : Offset[k] \in Nat
    BY <1>1, OffsetsHold
  <2>3. \A k \in 1..end : k # 1 => Offset[k] = Offset[k - 1] + Padded(archive[k - 1])
    BY <1>1, OffsetsHold DEF Offsets
  <2>4. \A k \in 1..(end - 1) : Padded(archive[k]) \in Nat \ {0}
    <3>1. \A k \in 1..Len(archive) : Padded(archive[k]) \in Nat \ {0}
      BY PaddedPositive
    <3> QED BY <2>1, <3>1
  <2>5. end \in Nat
    BY <1>1, <2>1
  <2> QED BY <2>2, <2>3, <2>4, <2>5
<1>3. SUFFICES ASSUME NEW j \in 1..end, NEW l \in 1..end, j < l, ~(Offset[j] < Offset[l])
               PROVE  FALSE
  BY <1>1
<1>later. PICK T : T = {k \in 1..end : j < k /\ ~(Offset[j] < Offset[k])}
  OBVIOUS
<1>some. T \subseteq Nat /\ l \in T
  BY <1>2, <1>3, <1>later
<1>4. PICK k \in T : \A m \in T : k <= m
  BY <1>some, LeastNumber
<1>5. k \in 1..end /\ j < k /\ ~(Offset[j] < Offset[k]) /\ k # 1
  BY <1>2, <1>3, <1>later, <1>4
<1>6. k - 1 \in 1..end /\ k - 1 \in 1..(end - 1) /\ ~(k <= k - 1)
  BY <1>2, <1>5
<1>7. Offset[k] = Offset[k - 1] + Padded(archive[k - 1]) /\ Padded(archive[k - 1]) \in Nat \ {0}
  BY <1>2, <1>5, <1>6
<1>8. Offset[k - 1] \in Nat /\ Offset[j] \in Nat /\ Offset[k - 1] < Offset[k]
  BY <1>2, <1>6, <1>7
<1>9. CASE j = k - 1
  BY <1>5, <1>8, <1>9
<1>10. CASE j # k - 1
  <2>1. j < k - 1
    BY <1>2, <1>5, <1>10
  <2>2. Offset[j] < Offset[k - 1]
    BY <1>3, <1>later, <1>4, <1>6, <2>1
  <2>3. Offset[k] \in Nat
    BY <1>2, <1>5
  <2> QED BY <1>5, <1>8, <2>2, <2>3
<1> QED BY <1>9, <1>10

(* The walk is at the header behind the last member printed; behind the    *)
(* last of all it may have taken a byte for a newline.                     *)
Past == Len(printed_members)
Walking == /\ Past <= Len(archive)
           /\ printed_members = [k \in 1..Past |-> <<archive[k].name, k>>]
           /\ \/ currentSize = Offset[Past + 1]
              \/ Past = Len(archive) /\ currentSize = Offset[Past + 1] + 1

ArchiveInv ==
  /\ archive \in Seq(Members)
  /\ Printable => /\ printed_members \in Seq(Names \X Nat) /\ currentSize \in Nat
                  /\ archive_main = "open" => printed_members = <<>>
                  /\ archive_main \in {"print", "exit_0"} => Walking
                  /\ archive_main = "exit_0" => Past = Len(archive)
                  /\ archive_main # "fault"

LEMMA ArchiveInitInv == ArchiveInit => ArchiveInv
<1> SUFFICES ASSUME ArchiveInit PROVE ArchiveInv
  OBVIOUS
<1>1. PICK n \in 0..MaxMembers : archive \in [1..n -> [name : Names, size : MemberSizes]]
  BY DEF ArchiveInit
<1>2. n \in Nat /\ [name : Names, size : MemberSizes] \subseteq Members
  <2>1. n \in Nat /\ MemberSizes \subseteq Nat
    BY ArchiveAssumption DEF ArchiveAssumption
  <2> QED BY <2>1 DEF Members
<1>3. archive \in Seq(Members)
  BY <1>1, <1>2
<1> QED BY <1>3 DEF ArchiveInit, ArchiveInv

LEMMA AppendNext ==
  ASSUME NEW m \in Nat, NEW k, k = m + 1
  PROVE  Append([j \in 1..m |-> <<archive[j].name, j>>], <<archive[k].name, k>>)
           = [j \in 1..k |-> <<archive[j].name, j>>]
<1> DEFINE Member(j) == <<archive[j].name, j>>
<1>1. Append([j \in 1..m |-> Member(j)], Member(k)) = [j \in 1..k |-> Member(j)]
  <2> HIDE DEF Member
  <2>1. Len([j \in 1..m |-> Member(j)]) = m
    OBVIOUS
  <2>2. Append([j \in 1..m |-> Member(j)], Member(k))
          = [l \in 1..(m + 1) |-> IF l <= m THEN Member(l) ELSE Member(k)]
    BY <2>1
  <2>3. ASSUME NEW l \in 1..k PROVE (IF l <= m THEN Member(l) ELSE Member(k)) = Member(l)
    <3>1. l <= m \/ l = k
      OBVIOUS
    <3> QED BY <3>1
  <2> QED BY <2>2, <2>3
<1> QED BY <1>1

LEMMA WalkingSays ==
  Walking => /\ Past <= Len(archive)
             /\ printed_members = [j \in 1..Past |-> <<archive[j].name, j>>]
             /\ \/ currentSize = Offset[Past + 1]
                \/ Past = Len(archive) /\ currentSize = Offset[Past + 1] + 1
BY DEF Walking

LEMMA PrintMemberInv == ArchiveInv /\ Printable /\ PrintMember => ArchiveInv'
<1> SUFFICES ASSUME ArchiveInv, Printable, PrintMember PROVE ArchiveInv'
  OBVIOUS
<1>0. /\ archive \in Seq(Members) /\ printed_members \in Seq(Names \X Nat) /\ currentSize \in Nat
      /\ Walking /\ Len(archive) \in Nat /\ DOMAIN archive = 1..Len(archive)
      /\ Past \in Nat /\ Past <= Len(archive)
  <2>1. archive_main = "print"
    BY DEF PrintMember
  <2>2. /\ archive \in Seq(Members) /\ printed_members \in Seq(Names \X Nat)
        /\ currentSize \in Nat /\ Walking
    BY <2>1 DEF ArchiveInv
  <2>3. Past \in Nat
    BY <2>2 DEF Past
  <2>4. Past <= Len(archive)
    BY <2>2 DEF Walking
  <2>5. Len(archive) \in Nat /\ DOMAIN archive = 1..Len(archive)
    BY <2>2
  <2> QED BY <2>2, <2>3, <2>4, <2>5
<1>1. PICK n : n = Len(archive)
  OBVIOUS
<1>2. /\ n \in Nat /\ Past \in 0..n /\ archive_main = "print" /\ currentSize < Offset[n + 1]
      /\ DOMAIN archive = 1..n /\ Past + 1 \in 1..(n + 1) /\ UNCHANGED archive
  <2>1. Offset[n + 1] \in Nat /\ DOMAIN archive = 1..n /\ n \in Nat
    <3>1. n + 1 \in 1..(n + 1) /\ n \in Nat
      BY <1>0, <1>1
    <3>2. Offset[n + 1] \in Nat
      BY <1>0, <1>1, <3>1, OffsetsHold
    <3> QED BY <1>0, <1>1, <3>1, <3>2
  <2>2. archive_main = "print" /\ currentSize \in 0..(Offset[n + 1] - 1) /\ UNCHANGED archive
    BY <1>1 DEF PrintMember, FileSize
  <2>3. currentSize < Offset[n + 1]
    BY <2>1, <2>2
  <2>4. Past \in Nat /\ Past <= n
    BY <1>0, <1>1
  <2> QED BY <2>1, <2>2, <2>3, <2>4
<1>3. Offset \in [1..(n + 1) -> Nat]
  BY <1>0, <1>1, OffsetsHold
<1>4. Past # n /\ currentSize = Offset[Past + 1] /\ Past + 1 \in 1..n
  <2>1. \/ currentSize = Offset[Past + 1]
        \/ Past = n /\ currentSize = Offset[Past + 1] + 1
    BY <1>0, <1>1, WalkingSays, Zenon
  <2>2. n + 1 \in 1..(n + 1)
    BY <1>2
  <2>3. PICK end : end = Offset[n + 1] /\ end \in Nat
    BY <1>3, <2>2
  <2>4. Past # n
    <3>1. SUFFICES ASSUME Past = n PROVE FALSE
      OBVIOUS
    <3>2. currentSize = end \/ currentSize = end + 1
      BY <2>1, <2>3, <3>1
    <3> QED BY <1>2, <2>3, <3>2
  <2> QED BY <1>2, <2>1, <2>4
<1>5. PICK k : k = Past + 1 /\ k \in 1..n /\ k \in 1..(n + 1) /\ k + 1 \in 1..(n + 1)
  BY <1>2, <1>4
<1>6. ASSUME NEW j \in DOMAIN archive, Offset[j] = currentSize PROVE j = k
  <2>1. j \in 1..(n + 1) /\ j \in Nat /\ k \in Nat
    BY <1>2, <1>5
  <2>2. Offset[j] \in Nat /\ Offset[k] = Offset[j]
    BY <1>3, <1>4, <1>5, <1>6, <2>1
  <2>3. \A x, y \in 1..(n + 1) : x < y => Offset[x] < Offset[y]
    BY <1>0, <1>1, OffsetsGrow
  <2>4. ~(j < k) /\ ~(k < j)
    <3>1. (j < k => Offset[j] < Offset[k]) /\ (k < j => Offset[k] < Offset[j])
      BY <1>5, <2>1, <2>3, Zenon
    <3>2. PICK x : x = Offset[j] /\ x \in Nat /\ Offset[k] = x
      BY <2>2
    <3> QED BY <3>1, <3>2
  <2> QED BY <2>1, <2>4
<1>7. PICK newline \in NewlineSkipped(k) :
        /\ currentSize' = Wrapped(currentSize + archive[k].size + newline + 60)
        /\ printed_members' = Append(printed_members, <<archive[k].name, k>>)
        /\ archive_main' = "print"
  <2>1. k \in {j \in DOMAIN archive : Offset[j] = currentSize}
    <3>1. k \in DOMAIN archive /\ Offset[k] = currentSize
      BY <1>0, <1>1, <1>4, <1>5, Zenon
    <3> QED BY <3>1
  <2>2. archive[k].name # "no_slash" /\ HasRoom(k) /\ InRange(k)
    BY <2>1 DEF Printable
  <2> QED BY <1>6, <2>1, <2>2 DEF PrintMember
<1>8. archive[k] \in Members
  BY <1>0, <1>1, <1>5
<1>9. PICK a, b : /\ a = archive[k].size /\ b = archive[k].size % 2 /\ a \in Nat /\ b \in 0..1
                  /\ archive[k].name \in Names
  <2>1. \A m \in Nat : m % 2 \in 0..1
    OBVIOUS
  <2> QED BY <1>8, <2>1 DEF Members
<1>10. newline \in 0..1 /\ (newline = b \/ (k = n /\ newline = b + 1))
  <2>1. newline \in IF b = 1 THEN {1} ELSE IF k = Len(archive) THEN {0, 1} ELSE {0}
    BY <1>7, <1>9 DEF NewlineSkipped
  <2>2. b = 0 \/ b = 1
    BY <1>9
  <2> QED BY <1>1, <2>1, <2>2
<1>sum. currentSize' = currentSize + a + newline + 60
  <2>1. InRange(k) /\ Offset[k] = currentSize /\ currentSize \in Nat
    <3>1. k \in DOMAIN archive /\ Offset[k] = currentSize
      BY <1>0, <1>1, <1>4, <1>5, Zenon
    <3> QED BY <1>0, <3>1 DEF Printable
  <2>2. currentSize + 61 + a <= MaxInt /\ MaxInt \in Nat
    BY <1>9, <2>1, ArchiveAssumption DEF InRange, ArchiveAssumption
  <2>3. newline \in 0..1
    BY <1>10
  <2>4. ~(currentSize + a + newline + 60 > MaxInt)
    <3>1. PICK x, y, z : x = currentSize /\ y = newline /\ z = MaxInt
      OBVIOUS
    <3>2. x \in Nat /\ a \in Nat /\ y \in 0..1 /\ z \in Nat /\ x + 61 + a <= z
      BY <1>9, <2>1, <2>2, <2>3, <3>1
    <3>3. ~(x + a + y + 60 > z)
      BY <3>2
    <3> QED BY <3>1, <3>3
  <2> QED BY <1>7, <1>9, <2>4 DEF Wrapped
<1>11. Offset[k + 1] = Offset[k] + (60 + a + b)
  <2>1. k + 1 # 1 /\ (k + 1) - 1 = k /\ k + 1 \in 1..(Len(archive) + 1)
    BY <1>0, <1>1, <1>5
  <2> QED BY <1>0, <1>9, <2>1, OffsetsHold DEF Offsets, Padded
<1>12. Past' = k /\ Past' \in Nat
  BY <1>0, <1>5, <1>7 DEF Past
<1>13. printed_members' \in Seq(Names \X Nat) /\ currentSize' \in Nat
  <2>1. newline \in Nat /\ k \in Nat /\ currentSize \in Nat
    BY <1>0, <1>5, <1>10
  <2>2. currentSize' \in Nat
    <3>1. currentSize' = currentSize + a + newline + 60 /\ a \in Nat
      BY <1>9, <1>sum
    <3> QED BY <2>1, <3>1
  <2>3. <<archive[k].name, k>> \in Names \X Nat
    BY <1>9, <2>1
  <2> QED BY <1>0, <1>7, <2>2, <2>3
<1>14. Walking'
  <2>1. printed_members' = [j \in 1..k |-> <<archive[j].name, j>>]
    <3>1. printed_members = [j \in 1..Past |-> <<archive[j].name, j>>] /\ Past \in Nat
      <4>1. printed_members = [j \in 1..Past |-> <<archive[j].name, j>>]
        BY <1>0, WalkingSays, Zenon
      <4> QED BY <1>0, <4>1
    <3>2. printed_members' = Append([j \in 1..Past |-> <<archive[j].name, j>>],
                                    <<archive[k].name, k>>)
      BY <1>7, <3>1
    <3> QED BY <1>5, <3>1, <3>2, AppendNext
  <2>2. Offset[k] \in Nat /\ Offset[k + 1] \in Nat /\ currentSize = Offset[k]
    BY <1>3, <1>4, <1>5
  <2>3. currentSize' = Offset[k + 1] \/ (k = n /\ currentSize' = Offset[k + 1] + 1)
    <3>1. currentSize' = Offset[k] + a + newline + 60 /\ a \in Nat /\ b \in Nat
      <4>1. b \in Nat
        BY <1>9
      <4>2. currentSize' = currentSize + a + newline + 60
        BY <1>sum
      <4> QED BY <1>9, <2>2, <4>1, <4>2, Zenon
    <3>2. Offset[k + 1] = Offset[k] + (60 + a + b)
      BY <1>11
    <3>3. newline = b => currentSize' = Offset[k + 1]
      <4>1. PICK x, y, c : x = Offset[k] /\ y = newline /\ c = currentSize' /\ x \in Nat
        BY <2>2
      <4>2. y = b => x + a + y + 60 = x + (60 + a + b)
        BY <3>1, <4>1
      <4> QED BY <3>1, <3>2, <4>1, <4>2
    <3>4. newline = b + 1 => currentSize' = Offset[k + 1] + 1
      <4>1. PICK x, z : x = Offset[k] /\ z = Offset[k + 1]
        OBVIOUS
      <4>2. x \in Nat /\ z = x + (60 + a + b) /\ currentSize' = x + a + newline + 60
        BY <2>2, <3>1, <3>2, <4>1
      <4>3. newline = b + 1 => currentSize' = z + 1
        <5>1. PICK y, c : y = newline /\ c = currentSize'
          OBVIOUS
        <5>2. y \in 0..1 /\ c = x + a + y + 60 /\ a \in Nat /\ b \in Nat /\ x \in Nat /\ z = x + (60 + a + b)
          BY <1>10, <3>1, <4>2, <5>1
        <5>3. y = b + 1 => c = z + 1
          BY <5>2
        <5> QED BY <5>1, <5>3
      <4> QED BY <4>1, <4>3
    <3> QED BY <1>10, <3>3, <3>4
  <2>4. Offset' = Offset
    BY <1>2 DEF Offset
  <2> QED BY <1>1, <1>2, <1>5, <1>12, <2>1, <2>3, <2>4 DEF Walking
<1>15. archive' \in Seq(Members)
  BY <1>0, <1>2
<1> QED BY <1>7, <1>13, <1>14, <1>15 DEF ArchiveInv

LEMMA ArchiveNextInv == ArchiveInv /\ [ArchiveNext]_archive_vars => ArchiveInv'
<1> SUFFICES ASSUME ArchiveInv, [ArchiveNext]_archive_vars PROVE ArchiveInv'
  OBVIOUS
<1>same. archive' = archive
  BY DEF ArchiveNext, OpenArchive, PrintMember, PrintEnds, archive_vars
<1>limits. Printable' = Printable
  BY <1>same DEF Printable, HasRoom, InRange, Offset
<1>any. CASE ~Printable
  BY <1>same, <1>limits, <1>any DEF ArchiveInv
<1>all. CASE Printable
  <2>seq. archive' \in Seq(Members)
    BY <1>same DEF ArchiveInv
  <2>1. CASE OpenArchive
    <3>1. Len(archive) \in Nat /\ 1 \in 1..(Len(archive) + 1)
      BY DEF ArchiveInv
    <3>2. Offset[1] = 8
      BY <3>1, OffsetsHold DEF ArchiveInv, Offsets
    <3>3. /\ printed_members' = <<>> /\ UNCHANGED archive
          /\ archive_main' \in {"print", "exit_1", "exit_2"} /\ currentSize' \in Nat
          /\ archive_main' = "print" => currentSize' = 8
      BY <1>all, <2>1 DEF OpenArchive, ArchiveInv
    <3>4. Offset' = Offset /\ Past' = 0
      BY <3>3 DEF Offset, Past
    <3>5. archive_main' = "print" => Walking'
      BY <3>1, <3>2, <3>3, <3>4 DEF Walking
    <3> QED BY <3>3, <3>5 DEF ArchiveInv
  <2>2. CASE PrintMember
    BY <1>all, <2>2, PrintMemberInv
  <2>3. CASE PrintEnds
    <3>1. PICK n : n = Len(archive) /\ n \in Nat
      BY DEF ArchiveInv
    <3>2. /\ Walking /\ currentSize >= Offset[n + 1] /\ Past \in 0..n /\ currentSize \in Nat
          /\ archive_main' = "exit_0" /\ UNCHANGED <<archive, currentSize, printed_members>>
      <4>1. /\ Walking /\ currentSize \in Nat /\ printed_members \in Seq(Names \X Nat)
            /\ currentSize >= Offset[n + 1]
            /\ archive_main' = "exit_0" /\ UNCHANGED <<archive, currentSize, printed_members>>
        <5>1. /\ Walking /\ currentSize \in Nat /\ printed_members \in Seq(Names \X Nat)
              /\ currentSize \notin 0..(Offset[n + 1] - 1)
              /\ archive_main' = "exit_0" /\ UNCHANGED <<archive, currentSize, printed_members>>
          BY <1>all, <2>3, <3>1 DEF PrintEnds, ArchiveInv, FileSize
        <5>2. Offset[n + 1] \in Nat
          <6>1. n + 1 \in 1..(n + 1)
            BY <3>1
          <6> QED BY <3>1, <6>1, OffsetsHold DEF ArchiveInv
        <5> QED BY <5>1, <5>2
      <4>2. Past \in Nat
        BY <4>1 DEF Past
      <4>3. Past <= n
        BY <3>1, <4>1 DEF Walking
      <4> QED BY <3>1, <4>1, <4>2, <4>3
    <3>3. Offset' = Offset /\ Past' = Past
      BY <3>2 DEF Offset, Past
    <3>4. Past = n
      <4>1. SUFFICES ASSUME Past # n PROVE FALSE
        OBVIOUS
      <4>2. Past + 1 \in 1..(n + 1) /\ n + 1 \in 1..(n + 1) /\ Past + 1 < n + 1
        BY <3>1, <3>2, <4>1
      <4>3. currentSize = Offset[Past + 1] /\ Offset[Past + 1] < Offset[n + 1]
        BY <3>1, <3>2, <4>1, <4>2, OffsetsGrow DEF Walking, ArchiveInv
      <4>4. Offset[n + 1] \in Nat
        BY <3>1, <4>2, OffsetsHold DEF ArchiveInv
      <4> QED BY <3>2, <4>3, <4>4
    <3>5. Walking'
      BY <3>2, <3>3 DEF Walking
    <3>6. printed_members' \in Seq(Names \X Nat) /\ currentSize' \in Nat
      BY <1>all, <3>2 DEF ArchiveInv
    <3> QED BY <2>seq, <3>1, <3>2, <3>3, <3>4, <3>5, <3>6 DEF ArchiveInv
  <2>4. CASE UNCHANGED archive_vars
    <3>1. UNCHANGED <<archive, currentSize, printed_members, archive_main>>
      BY <2>4 DEF archive_vars
    <3>2. Offset' = Offset /\ Past' = Past
      BY <3>1 DEF Offset, Past
    <3>3. Walking' = Walking
      BY <3>1, <3>2 DEF Walking
    <3>4. /\ printed_members' \in Seq(Names \X Nat) /\ currentSize' \in Nat
          /\ archive_main' = "open" => printed_members' = <<>>
          /\ archive_main' \in {"print", "exit_0"} => Walking'
          /\ archive_main' # "fault"
      BY <1>all, <3>1, <3>3 DEF ArchiveInv
    <3>5. archive_main' = "exit_0" => Past' = Len(archive')
      BY <1>all, <3>1, <3>2 DEF ArchiveInv
    <3> QED BY <2>seq, <3>4, <3>5 DEF ArchiveInv
  <2> QED BY <2>1, <2>2, <2>3, <2>4 DEF ArchiveNext
<1> QED BY <1>any, <1>all

(* Every member of an archive is printed once and in order, for any number *)
(* of members and any mixture of odd and even sizes, as long as each size  *)
(* has less than ten digits, each content fits the stack and each offset   *)
(* an int, wherever those limits lie.                                      *)
THEOREM ArchiveMembersPrinted == ArchiveSpec => []MembersPrinted
<1>1. ArchiveInv => MembersPrinted
  <2> SUFFICES ASSUME ArchiveInv, Printable
               PROVE  /\ archive_main # "fault"
                      /\ archive_main = "exit_0" =>
                           printed_members = [k \in DOMAIN archive |-> <<archive[k].name, k>>]
    BY DEF MembersPrinted
  <2>1. archive_main # "fault"
    BY DEF ArchiveInv
  <2>2. ASSUME archive_main = "exit_0"
        PROVE  printed_members = [k \in DOMAIN archive |-> <<archive[k].name, k>>]
    <3>1. /\ Past = Len(archive) /\ archive \in Seq(Members)
          /\ printed_members = [k \in 1..Past |-> <<archive[k].name, k>>]
      BY <2>2 DEF ArchiveInv, Walking
    <3>2. DOMAIN archive = 1..Len(archive)
      BY <3>1
    <3> QED BY <3>1, <3>2
  <2> QED BY <2>1, <2>2
<1> QED BY <1>1, ArchiveInitInv, ArchiveNextInv, PTL DEF ArchiveSpec

USE ArchiveAssumption

(* Every variable keeps its type, for any archive, also where a name or a  *)
(* size makes the program fault and where the offset wraps around.         *)
ArchiveTyped == ArchiveTypeOK /\ archive \in UNION {[1..n -> [name : Names, size : MemberSizes]] : n \in 0..MaxMembers}

LEMMA ArchiveTypesKept == ArchiveSpec => []ArchiveTypeOK
<1>1. ArchiveInit => ArchiveTyped
  BY DEF ArchiveInit, ArchiveTyped, ArchiveTypeOK
<1>2. ArchiveTyped /\ [ArchiveNext]_archive_vars => ArchiveTyped'
  <2> SUFFICES ASSUME ArchiveTyped, [ArchiveNext]_archive_vars PROVE ArchiveTyped'
    OBVIOUS
  <2> USE DEF ArchiveTyped, ArchiveTypeOK
  <2>1. CASE OpenArchive
    BY <2>1 DEF OpenArchive
  <2>2. CASE PrintMember
    <3>1. archive' = archive
      BY <2>2 DEF PrintMember
    <3>2. CASE archive_main' = "fault" /\ UNCHANGED <<currentSize, printed_members>>
      BY <3>1, <3>2
    <3>3. ASSUME NEW k \in DOMAIN archive, NEW newline \in NewlineSkipped(k),
                 currentSize' = Wrapped(currentSize + archive[k].size + newline + 60),
                 printed_members' = Append(printed_members, <<archive[k].name, k>>),
                 archive_main' \in {"print", "fault"}
          PROVE  ArchiveTyped'
      <4>1. PICK n \in 0..MaxMembers : archive \in [1..n -> [name : Names, size : MemberSizes]]
        OBVIOUS
      <4>2. archive[k] \in [name : Names, size : MemberSizes] /\ k \in 1..MaxMembers
        BY <4>1
      <4>3. archive[k].name \in Names /\ archive[k].size \in Nat
        BY <4>2
      <4>4. newline \in {0, 1}
        BY DEF NewlineSkipped
      <4>5. currentSize' \in Int
        BY <3>3, <4>3, <4>4 DEF Wrapped
      <4>6. <<archive[k].name, k>> \in Names \X (1..MaxMembers)
        BY <4>2, <4>3
      <4>7. printed_members' \in Seq(Names \X (1..MaxMembers))
        BY <3>3, <4>6
      <4> QED BY <3>1, <3>3, <4>5, <4>7
    <3> QED BY <2>2, <3>2, <3>3 DEF PrintMember
  <2>3. CASE PrintEnds
    BY <2>3 DEF PrintEnds
  <2>4. CASE UNCHANGED archive_vars
    BY <2>4 DEF archive_vars
  <2> QED BY <2>1, <2>2, <2>3, <2>4 DEF ArchiveNext
<1>3. ArchiveTyped => ArchiveTypeOK
  BY DEF ArchiveTyped
<1> QED BY <1>1, <1>2, <1>3, PTL DEF ArchiveSpec

HIDE ArchiveAssumption

(***************************************************************************)
(* SeqQueue: the nodes of the list, whatever tail points to when it is     *)
(* empty.                                                                  *)
(***************************************************************************)
USE ListAssumption

(* The nodes are those of the list c, and while it has any, tail is the    *)
(* last.                                                                   *)
Holding(c) == /\ ListFrom(c, head, next) /\ NodesOf(c) = allocated
              /\ head # NULL => tail \in allocated /\ next[tail] = NULL

FieldTypes == /\ value \in [Nodes -> Numbers \cup {0}] /\ next \in [Nodes -> Nodes \cup {NULL}]
              /\ queue_main \in {"reading", "ended"}

FifoInv == FieldTypes /\ \E c : Holding(c)

LEMMA FifoInitInv == QueueInit => FifoInv
<1> SUFFICES ASSUME QueueInit PROVE FifoInv
  OBVIOUS
<1>1. ListFrom(<<>>, head, next)
  BY ListEmpty DEF QueueInit
<1>2. NodesOf(<<>>) = allocated
  BY DEF QueueInit, NodesOf
<1>3. Holding(<<>>)
  BY <1>1, <1>2 DEF Holding, QueueInit
<1>4. FieldTypes
  BY DEF QueueInit, FieldTypes
<1> QED BY <1>3, <1>4 DEF FifoInv

(* What the abstract queue sees of a list.                                 *)
LEMMA FifoShown ==
  ASSUME NEW c, ListFrom(c, head, next)
  PROVE  [k \in DOMAIN QueueNodes |-> value[QueueNodes[k]]] = ReadOff(c, value)
BY ChainRead DEF QueueNodes

LEMMA FifoShownNext ==
  ASSUME NEW c, ListFrom(c, head', next')
  PROVE  [k \in DOMAIN QueueNodes' |-> value'[QueueNodes'[k]]] = ReadOff(c, value')
BY ChainRead DEF QueueNodes

LEMMA AllocatedFinite ==
  ASSUME NEW c, ListFrom(c, head, next), NodesOf(c) = allocated
  PROVE  allocated \subseteq Nodes /\ IsFiniteSet(allocated) /\ Cardinality(allocated) \in Nat
<1>1. allocated \subseteq Nodes
  BY DEF ListFrom, NodesOf
<1> QED BY <1>1, FS_Subset, FS_CardinalityType

(* Behind the last node if there is one, else as the first.                *)
LEMMA FifoPut ==
  ASSUME FifoInv, queue_main = "reading", NEW n \in Nodes, NEW v \in Numbers, Put(n, v)
  PROVE  FifoInv' /\ Promise!Put
<1>1. PICK c : Holding(c)
  BY DEF FifoInv
<1>2. FieldTypes /\ ListFrom(c, head, next) /\ NodesOf(c) = allocated /\ c \in Seq(Nodes)
  BY <1>1 DEF FifoInv, Holding, ListFrom
<1>3. /\ n \notin allocated /\ allocated' = allocated \cup {n}
      /\ value' = [value EXCEPT ![n] = v] /\ tail' = n /\ printed' = "nothing"
  BY DEF Put
<1>4. /\ value' \in [Nodes -> Numbers \cup {0}] /\ value'[n] = v
      /\ \A m \in Nodes \ {n} : value'[m] = value[m]
  BY <1>2, <1>3 DEF FieldTypes
<1>5. PICK d : d = Append(c, n)
  OBVIOUS
<1>6. /\ ListFrom(d, head', next') /\ NodesOf(d) = allocated \cup {n} /\ next'[n] = NULL
      /\ next' \in [Nodes -> Nodes \cup {NULL}] /\ queue_main' = "reading"
  <2>1. CASE head = NULL
    <3>1. head' = n /\ next' = [next EXCEPT ![n] = NULL] /\ queue_main' = "reading"
      BY <2>1 DEF Put, Empty
    <3>2. next'[n] = NULL /\ next' \in [Nodes -> Nodes \cup {NULL}]
      BY <1>2, <3>1 DEF FieldTypes
    <3>3. c = <<>>
      BY <1>2, <2>1, ListEmpty
    <3>4. d \in Seq(Nodes) /\ Len(d) = 1 /\ d[1] = n
      BY <1>5, <3>3
    <3>5. ListFrom(d, head', next')
      BY <3>1, <3>2, <3>4 DEF ListFrom, NodeAt
    <3>6. NodesOf(d) = {n} /\ NodesOf(c) = {}
      BY <3>3, <3>4 DEF NodesOf
    <3> QED BY <1>2, <3>1, <3>2, <3>5, <3>6
  <2>2. CASE head # NULL
    <3>1. tail \in allocated /\ next[tail] = NULL /\ tail # n /\ tail \in Nodes
      BY <1>1, <1>2, <1>3, <2>2, AllocatedFinite DEF Holding
    <3>2. /\ next' = [m \in Nodes |-> IF m = n THEN NULL ELSE IF m = tail THEN n ELSE next[m]]
          /\ queue_main' = "reading" /\ head' = head
      BY <2>2, <3>1 DEF Put, Empty
    <3>3. /\ next'[tail] = n /\ next'[n] = NULL /\ next' \in [Nodes -> Nodes \cup {NULL}]
          /\ \A m \in Nodes \ {n, tail} : next'[m] = next[m]
      BY <1>2, <3>1, <3>2 DEF FieldTypes
    <3>4. tail \in NodesOf(c) /\ n \notin NodesOf(c) /\ \A m \in NodesOf(c) \ {tail} : next'[m] = next[m]
      BY <1>2, <1>3, <3>1, <3>3, AllocatedFinite
    <3>5. ListFrom(Append(c, n), head, next') /\ NodesOf(Append(c, n)) = NodesOf(c) \cup {n}
      BY <1>2, <3>1, <3>3, <3>4, ListAppend
    <3> QED BY <1>2, <1>5, <3>2, <3>3, <3>5
  <2> QED BY <2>1, <2>2
<1>7. Holding(d)'
  BY <1>3, <1>6 DEF Holding
<1>8. FieldTypes'
  BY <1>4, <1>6 DEF FieldTypes
<1>9. ReadOff(d, value') = Append(ReadOff(c, value), v)
  <2>1. ReadOff(d, value') = Append(ReadOff(c, value'), value'[n])
    BY <1>2, <1>4, <1>5, ReadAppend
  <2>2. \A m \in NodesOf(c) : value'[m] = value[m]
    BY <1>2, <1>3, <1>4, AllocatedFinite
  <2>3. ReadOff(c, value') = ReadOff(c, value)
    BY <1>2, <2>2, ReadSame
  <2> QED BY <1>4, <2>1, <2>3
<1>10. Cardinality(allocated') = Cardinality(allocated) + 1
  <2>1. IsFiniteSet(allocated)
    BY <1>2, AllocatedFinite
  <2> QED BY <1>3, <2>1, FS_AddElement
<1>11. [k \in DOMAIN QueueNodes' |-> value'[QueueNodes'[k]]] =
         Append([k \in DOMAIN QueueNodes |-> value[QueueNodes[k]]], v)
  BY <1>2, <1>6, <1>9, FifoShown, FifoShownNext
<1>12. Promise!Put
  BY <1>3, <1>6, <1>10, <1>11 DEF Promise!Put
<1> QED BY <1>7, <1>8, <1>12 DEF FifoInv

(* The first node goes; if it was the last, tail keeps its address.        *)
LEMMA FifoTake ==
  ASSUME FifoInv, queue_main = "reading", Take
  PROVE  FifoInv' /\ (Promise!Take \/ Promise!TakeNothing)
<1>1. PICK c : Holding(c)
  BY DEF FifoInv
<1>2. FieldTypes /\ ListFrom(c, head, next) /\ NodesOf(c) = allocated /\ c \in Seq(Nodes)
  BY <1>1 DEF FifoInv, Holding, ListFrom
<1>3. PICK shown : /\ shown = [k \in DOMAIN QueueNodes |-> value[QueueNodes[k]]]
                   /\ shown = ReadOff(c, value)
  BY <1>2, FifoShown
<1>4. CASE head = NULL
  <2>1. printed' = "empty" /\ UNCHANGED <<head, tail, value, next, allocated, queue_main>>
    BY <1>4 DEF Take, Empty
  <2>2. FifoInv'
    BY <1>1, <1>2, <2>1 DEF FifoInv, FieldTypes, Holding
  <2>3. shown = <<>>
    <3>1. c = <<>>
      BY <1>2, <1>4, ListEmpty
    <3> QED BY <1>3, <3>1 DEF ReadOff
  <2>4. UNCHANGED QueueNodes
    BY <2>1 DEF QueueNodes
  <2>5. Promise!TakeNothing
    BY <1>3, <2>1, <2>3, <2>4 DEF Promise!TakeNothing
  <2> QED BY <2>2, <2>5
<1>5. CASE head # NULL
  <2>1. /\ printed' = value[head] /\ head' = next[head] /\ allocated' = allocated \ {head}
        /\ UNCHANGED <<tail, value, next, queue_main>>
    BY <1>5 DEF Take, Empty
  <2>2. c # <<>> /\ head \in Nodes /\ head \in allocated /\ Head(c) = head
    BY <1>2, <1>5, ListEmpty DEF NodesOf
  <2>3. PICK d : d = Tail(c) /\ ListFrom(d, next[head], next) /\ NodesOf(d) = NodesOf(c) \ {head}
    BY <1>2, <1>5, ListTail
  <2>4. tail \in allocated /\ next[tail] = NULL
    BY <1>1, <1>5 DEF Holding
  <2>5. next[head] # NULL => tail # head
    BY <2>4
  <2>6. Holding(d)'
    BY <1>2, <2>1, <2>3, <2>4, <2>5 DEF Holding
  <2>7. FifoInv'
    BY <1>2, <2>1, <2>6 DEF FifoInv, FieldTypes
  <2>8. PICK after : after = ReadOff(d, value') /\ after = Tail(shown) /\ Head(shown) = value[head] /\ shown # <<>>
    <3>1. /\ Head(ReadOff(c, value)) = value[Head(c)]
          /\ ReadOff(Tail(c), value) = Tail(ReadOff(c, value))
      BY <1>2, <2>2, ReadTail DEF FieldTypes
    <3>2. ReadOff(c, value) # <<>>
      <4>1. value \in [Nodes -> Numbers \cup {0}]
        BY <1>2 DEF FieldTypes
      <4>2. ReadOff(c, value) = <<>> <=> c = <<>>
        BY <1>2, <4>1, ReadSeq, Zenon
      <4> QED BY <2>2, <4>2, Zenon
    <3>3. d = Tail(c) /\ value' = value /\ shown = ReadOff(c, value)
      BY <1>3, <2>1, <2>3
    <3>4. ReadOff(d, value') = Tail(shown)
      BY <3>1, <3>3
    <3>5. Head(shown) = value[head] /\ shown # <<>>
      BY <2>2, <3>1, <3>2, <3>3
    <3> QED BY <3>4, <3>5
  <2>9. [k \in DOMAIN QueueNodes' |-> value'[QueueNodes'[k]]] = after
    <3>1. ListFrom(d, head', next')
      BY <2>1, <2>3
    <3> QED BY <2>8, <3>1, FifoShownNext
  <2>10. Cardinality(allocated') = Cardinality(allocated) - 1
    <3>1. IsFiniteSet(allocated)
      BY <1>2, AllocatedFinite
    <3> QED BY <2>1, <2>2, <3>1, FS_RemoveElement
  <2>11. Promise!Take
    BY <1>3, <2>1, <2>8, <2>9, <2>10 DEF Promise!Take
  <2> QED BY <2>7, <2>11
<1> QED BY <1>4, <1>5

LEMMA FifoDestroy == ASSUME FifoInv, Destroy PROVE FifoInv' /\ Promise!Destroy
<1>1. PICK c : Holding(c)
  BY DEF FifoInv
<1>2. FieldTypes /\ ListFrom(c, head, next) /\ NodesOf(c) = allocated
  BY <1>1 DEF FifoInv, Holding
<1>3. /\ queue_main = "reading" /\ queue_main' = "ended" /\ head' = NULL
      /\ allocated' = allocated \ Reachable(head, next) /\ UNCHANGED <<value, next, printed>>
  BY DEF Destroy
<1>4. allocated' = {}
  BY <1>2, <1>3, ReachableIsList
<1>5. ListFrom(<<>>, head', next') /\ NodesOf(<<>>) = {}
  BY <1>3, ListEmpty DEF NodesOf
<1>6. Holding(<<>>)'
  BY <1>3, <1>4, <1>5 DEF Holding
<1>7. FifoInv'
  BY <1>2, <1>3, <1>6 DEF FifoInv, FieldTypes
<1>8. [k \in DOMAIN QueueNodes' |-> value'[QueueNodes'[k]]] = <<>>
  <2>1. [k \in DOMAIN QueueNodes' |-> value'[QueueNodes'[k]]] = ReadOff(<<>>, value')
    BY <1>5, FifoShownNext
  <2> QED BY <2>1 DEF ReadOff
<1>9. Cardinality(allocated') = 0
  BY <1>4, FS_EmptySet
<1> QED BY <1>3, <1>7, <1>8, <1>9 DEF Promise!Destroy

LEMMA FifoStep ==
  FifoInv /\ [QueueNext]_queue_vars => FifoInv' /\ [Promise!Next]_(Promise!fifo)
<1> SUFFICES ASSUME FifoInv, [QueueNext]_queue_vars
             PROVE  FifoInv' /\ [Promise!Next]_(Promise!fifo)
  OBVIOUS
<1>1. CASE queue_main = "reading" /\ \E n \in Nodes, v \in Numbers : Put(n, v)
  BY <1>1, FifoPut DEF Promise!Next
<1>2. CASE queue_main = "reading" /\ Take
  BY <1>2, FifoTake DEF Promise!Next
<1>3. CASE Destroy
  BY <1>3, FifoDestroy DEF Promise!Next
<1>4. CASE /\ queue_main = "reading" /\ printed' = "unrecognized"
           /\ UNCHANGED <<head, tail, value, next, allocated, queue_main>>
  <2>1. FifoInv'
    BY <1>4 DEF FifoInv, FieldTypes, Holding
  <2>2. Promise!Unrecognized
    BY <1>4 DEF Promise!Unrecognized, QueueNodes
  <2> QED BY <2>1, <2>2 DEF Promise!Next
<1>5. CASE UNCHANGED queue_vars
  <2>1. FifoInv'
    BY <1>5 DEF FifoInv, FieldTypes, Holding, queue_vars
  <2>2. UNCHANGED Promise!fifo
    BY <1>5 DEF Promise!fifo, QueueNodes, queue_vars
  <2> QED BY <2>1, <2>2
<1> QED BY <1>1, <1>2, <1>3, <1>4, <1>5 DEF QueueNext, Command

(* Whatever commands come in whatever order, for any heap: queue.c answers *)
(* like a sequence, first in first out, uses no freed node although tail   *)
(* may point to one, and holds just as much memory as it has values.       *)
THEOREM SequentialQueueIsFifo == QueueSpec => IsFifo
<1>1. QueueInit => Promise!Init
  <2> SUFFICES ASSUME QueueInit PROVE Promise!Init
    OBVIOUS
  <2>1. ListFrom(<<>>, head, next)
    BY ListEmpty DEF QueueInit
  <2>2. [k \in DOMAIN QueueNodes |-> value[QueueNodes[k]]] = <<>>
    BY <2>1, FifoShown DEF ReadOff
  <2>3. Cardinality(allocated) = 0
    BY FS_EmptySet DEF QueueInit
  <2> QED BY <2>2, <2>3 DEF Promise!Init, QueueInit
<1> QED BY <1>1, FifoInitInv, FifoStep, PTL DEF QueueSpec, IsFifo, Promise!Spec

(* Every variable keeps its type, whatever the commands.                   *)
LEMMA QueueTypesKept == QueueSpec => []QueueTypeOK
<1>1. QueueInit => QueueTypeOK
  BY DEF QueueInit, QueueTypeOK
<1>2. QueueTypeOK /\ [QueueNext]_queue_vars => QueueTypeOK'
  <2> SUFFICES ASSUME QueueTypeOK, [QueueNext]_queue_vars PROVE QueueTypeOK'
    OBVIOUS
  <2> USE DEF QueueTypeOK
  <2>1. ASSUME NEW n \in Nodes, NEW v \in Numbers, Put(n, v), queue_main = "reading" PROVE QueueTypeOK'
    BY <2>1 DEF Put
  <2>2. ASSUME Take, queue_main = "reading" PROVE QueueTypeOK'
    BY <2>2 DEF Take, Empty
  <2>3. CASE Destroy
    BY <2>3 DEF Destroy
  <2>4. CASE UNCHANGED <<head, tail, next, allocated, queue_main>>
    BY <2>4
  <2> QED BY <2>1, <2>2, <2>3, <2>4 DEF QueueNext, Command, queue_vars
<1> QED BY <1>1, <1>2, PTL DEF QueueSpec

HIDE ListAssumption

(***************************************************************************)
(* UniqueList: the list holds the first occurrences, in order.             *)
(***************************************************************************)
Facts == INSTANCE LinkedListProofs WITH Nodes <- Cells, NULL <- NIL

LEMMA CellsFinite ==
  /\ IsFiniteSet(Cells) /\ Facts!IsFiniteSet(Cells) /\ NIL \notin Cells /\ S \in Cells /\ S = 0
  /\ MaxInputs \in Nat
<1>1. MaxInputs \in Nat
  BY InputsAssumption DEF InputsAssumption
<1>2. IsFiniteSet(0..MaxInputs)
  BY <1>1, FS_Interval
<1>3. Facts!IsFiniteSet(0..MaxInputs)
  BY <1>2, Zenon DEF Facts!IsFiniteSet, IsFiniteSet
<1> QED BY <1>1, <1>2, <1>3 DEF Cells, NIL, S

(* The two instances of LinkedList are of the same cells.                  *)
LEMMA SameCardinality == \A T : Facts!Cardinality(T) = Heap!Cardinality(T)
BY Zenon DEF Facts!Cardinality, Heap!Cardinality, Facts!IsFiniteSet, Heap!IsFiniteSet

LEMMA SameHop ==
  ASSUME NEW c, NEW nextOf, NEW k PROVE Facts!Hop(c, nextOf, k) = Heap!Hop(c, nextOf, k)
BY DEF Facts!Hop, Heap!Hop

LEMMA SameOperators ==
  ASSUME NEW c, NEW nextOf
  PROVE  /\ Facts!Chain(c, nextOf) = Heap!Chain(c, nextOf)
         /\ Facts!Reachable(c, nextOf) = Heap!Reachable(c, nextOf)
<1>1. Facts!Chain(c, nextOf) = Heap!Chain(c, nextOf)
  BY SameCardinality, SameHop, Zenon DEF Facts!Chain, Heap!Chain
<1>2. Facts!Reachable(c, nextOf) = Heap!Reachable(c, nextOf)
  BY SameCardinality, SameHop DEF Facts!Reachable, Heap!Reachable
<1> QED BY <1>1, <1>2

LEMMA SameChain ==
  ASSUME NEW c, NEW nextOf, Facts!ListFrom(c, S, nextOf)
  PROVE  Walk(nextOf) = c /\ Heap!Reachable(S, nextOf) = Facts!NodesOf(c)
<1>5. Facts!Chain(S, nextOf) = c
  BY CellsFinite, Facts!ChainIsList
<1>6. Facts!Reachable(S, nextOf) = Facts!NodesOf(c)
  BY CellsFinite, Facts!ReachableIsList
<1> QED BY <1>5, <1>6, SameOperators DEF Walk

(* The number that the node in cell m is for.                              *)
Origin(m) == IF m = S THEN 1 ELSE m

Rising(c) == \A j, k \in 1..Len(c) : j < k => c[j] < c[k]

(* The list c of main while it has read something.                         *)
Gathered(c) ==
  /\ Facts!ListFrom(c, S, nxt) /\ c # <<>> /\ Rising(c)
  /\ last[S] = c[Len(c)]
  /\ Facts!NodesOf(c) = {S} \cup (FirstTimes \ {1})
  /\ \A m \in Facts!NodesOf(c) : val[m] = input[Origin(m)]

ListTypes ==
  /\ input \in Seq(Inputs) /\ Len(input) <= MaxInputs
  /\ val \in [Cells -> Inputs \cup {GARBAGE}]
  /\ nxt \in [Cells -> Cells \cup {NIL, GARBAGE}]
  /\ last \in [Cells -> Cells \cup {NIL, GARBAGE}]
  /\ list_main \in {"reading", "ended", "fault"}

ListInv ==
  /\ ListTypes /\ EachNumberOnce
  /\ list_main = "reading" => IF input = <<>> THEN last[S] = NIL ELSE \E c : Gathered(c)

(* Every number that was read has a first time.                            *)
LEMMA FirstTimeExists ==
  ASSUME input \in Seq(Inputs), NEW n, NEW j \in 1..Len(input), input[j] = n
  PROVE  \E m \in FirstTimes : input[m] = n
<1>1. PICK T : T = {k \in 1..Len(input) : input[k] = n}
  OBVIOUS
<1>2. T \subseteq Nat /\ T # {}
  BY <1>1
<1>3. PICK m \in T : \A k \in T : m <= k
  BY <1>2, LeastNumber
<1>4. m \in 1..Len(input) /\ input[m] = n /\ DOMAIN input = 1..Len(input)
  BY <1>1
<1>5. ASSUME NEW k \in 1..(m - 1) PROVE input[k] # input[m]
  <2>1. k \in 1..Len(input) /\ ~(m <= k)
    BY <1>4
  <2> QED BY <1>1, <1>3, <1>4, <2>1
<1> QED BY <1>4, <1>5 DEF FirstTimes

LEMMA ListInitInv == ListInit => ListInv
<1> SUFFICES ASSUME ListInit PROVE ListInv
  OBVIOUS
<1>1. input = <<>> /\ Len(input) = 0 /\ input \in Seq(Inputs) /\ list_main = "reading"
  BY DEF ListInit
<1>2. last[S] = NIL
  BY CellsFinite DEF ListInit
<1>3. ListTypes
  BY <1>1, CellsFinite DEF ListInit, ListTypes
<1> QED BY <1>1, <1>2, <1>3 DEF ListInv, EachNumberOnce

(* What insert does to the first number, to one it finds, and to a new one. *)
LEMMA InsertFirst ==
  ASSUME ListTypes, NEW temp, NEW n \in Inputs, Insert(temp, n), last[S] = NIL
  PROVE  /\ val' = [val EXCEPT ![S] = n] /\ nxt' = [nxt EXCEPT ![S] = NIL]
         /\ last' = [last EXCEPT ![S] = S]
<1>1. PICK v, nx, la : /\ v = [val EXCEPT ![S] = n] /\ nx = [nxt EXCEPT ![S] = NIL]
                       /\ la = [last EXCEPT ![S] = S]
  OBVIOUS
<1>2. v[S] = n /\ nx[S] = NIL
  BY <1>1, CellsFinite DEF ListTypes
<1>3. Facts!ListFrom(<<S>>, S, nx)
  BY <1>2, CellsFinite DEF Facts!ListFrom, Facts!NodeAt
<1>4. Walk(nx) = <<S>>
  BY <1>3, SameChain
<1>5. \E k \in DOMAIN Walk(nx) : v[Walk(nx)[k]] = n
  BY <1>2, <1>4
<1> QED BY <1>1, <1>5 DEF Insert, InsertAt

LEMMA InsertFound ==
  ASSUME NEW temp, NEW n, Insert(temp, n), NEW c, Gathered(c), NEW m \in Facts!NodesOf(c), val[m] = n
  PROVE  UNCHANGED <<val, nxt, last>>
<1>1. last[S] \in Cells
  <2>1. c \in Seq(Cells) /\ Len(c) \in 1..Len(c)
    BY DEF Gathered, Facts!ListFrom
  <2> QED BY <2>1 DEF Gathered
<1>2. last[S] # NIL
  BY <1>1, CellsFinite
<1>3. Walk(nxt) = c
  BY SameChain DEF Gathered
<1>4. c \in Seq(Cells)
  BY DEF Gathered, Facts!ListFrom
<1>5. \E k \in DOMAIN Walk(nxt) : val[Walk(nxt)[k]] = n
  BY <1>3, <1>4 DEF Facts!NodesOf
<1> QED BY <1>2, <1>5 DEF Insert, InsertAt

LEMMA InsertNew ==
  ASSUME NEW temp, NEW n, Insert(temp, n), NEW c, Gathered(c), \A m \in Facts!NodesOf(c) : val[m] # n
  PROVE  /\ last[S] \in Cells /\ c \in Seq(Cells)
         /\ val' = [val EXCEPT ![temp] = n]
         /\ nxt' = [[nxt EXCEPT ![temp] = NIL] EXCEPT ![last[S]] = temp]
         /\ last' = [[last EXCEPT ![temp] = NIL] EXCEPT ![S] = temp]
<1>1. last[S] \in Cells
  <2>1. c \in Seq(Cells) /\ Len(c) \in 1..Len(c)
    BY DEF Gathered, Facts!ListFrom
  <2> QED BY <2>1 DEF Gathered
<1>2. last[S] # NIL
  BY <1>1, CellsFinite
<1>3. Walk(nxt) = c
  BY SameChain DEF Gathered
<1>4. c \in Seq(Cells)
  BY DEF Gathered, Facts!ListFrom
<1>5. ~(\E k \in DOMAIN Walk(nxt) : val[Walk(nxt)[k]] = n)
  BY <1>3, <1>4 DEF Facts!NodesOf
<1> QED BY <1>1, <1>2, <1>4, <1>5 DEF Insert, InsertAt

(* A number that comes again has no first time, a new one has now.         *)
LEMMA FirstTimesGrow ==
  ASSUME input \in Seq(Inputs), NEW n \in Inputs, input' = Append(input, n)
  PROVE  /\ (\E j \in 1..Len(input) : input[j] = n) => FirstTimes' = FirstTimes
         /\ (\A j \in 1..Len(input) : input[j] # n) => FirstTimes' = FirstTimes \cup {Len(input) + 1}
         /\ FirstTimes \subseteq 1..Len(input)
         /\ \A j \in 1..Len(input) : input'[j] = input[j]
<1>1. PICK l \in Nat : l = Len(input)
  OBVIOUS
<1>2. PICK after : after = input'
  OBVIOUS
<1>3. /\ DOMAIN input = 1..l /\ DOMAIN after = 1..(l + 1) /\ after[l + 1] = n
      /\ \A j \in 1..l : after[j] = input[j]
  BY <1>1, <1>2
<1>4. FirstTimes' = {k \in 1..(l + 1) : \A j \in 1..(k - 1) : after[j] # after[k]}
  BY <1>2, <1>3 DEF FirstTimes
<1>5. FirstTimes = {k \in 1..l : \A j \in 1..(k - 1) : input[j] # input[k]}
  BY <1>3 DEF FirstTimes
<1>6. ASSUME NEW k \in 1..l PROVE k \in FirstTimes' <=> k \in FirstTimes
  <2>1. k \in 1..(l + 1) /\ after[k] = input[k] /\ \A j \in 1..(k - 1) : after[j] = input[j]
    BY <1>1, <1>3
  <2> QED BY <1>4, <1>5, <2>1
<1>7. l + 1 \in FirstTimes' <=> \A j \in 1..l : input[j] # n
  <2>1. l + 1 \in 1..(l + 1) /\ (l + 1) - 1 = l
    BY <1>1
  <2> QED BY <1>3, <1>4, <2>1
<1>8. FirstTimes' \subseteq 1..(l + 1) /\ FirstTimes \subseteq 1..l
  BY <1>4, <1>5
<1>9. \A k \in 1..(l + 1) : k \in 1..l \/ k = l + 1
  BY <1>1
<1>10. l + 1 \notin 1..l
  BY <1>1
<1>11. (\E j \in 1..l : input[j] = n) => FirstTimes' = FirstTimes
  BY <1>6, <1>7, <1>8, <1>9, <1>10
<1>12. (\A j \in 1..l : input[j] # n) => FirstTimes' = FirstTimes \cup {l + 1}
  BY <1>6, <1>7, <1>8, <1>9
<1> QED BY <1>1, <1>2, <1>3, <1>8, <1>11, <1>12

LEMMA ReadNumberInv == ListInv /\ ReadNumber => ListInv'
<1> SUFFICES ASSUME ListInv, ReadNumber PROVE ListInv'
  OBVIOUS
<1>1. PICK n \in Inputs : input' = Append(input, n) /\ Insert(Len(input) + 1, n)
  BY DEF ReadNumber
<1>2. /\ list_main = "reading" /\ list_main' = "reading" /\ Len(input) < MaxInputs /\ ListTypes
      /\ input \in Seq(Inputs)
  BY DEF ReadNumber, ListInv, ListTypes
<1>3. PICK l \in Nat : l = Len(input)
  BY <1>2
<1>4. /\ input' \in Seq(Inputs) /\ Len(input') = l + 1 /\ input' # <<>> /\ l + 1 <= MaxInputs
      /\ l + 1 \in Cells /\ input'[l + 1] = n
  BY <1>1, <1>2, <1>3, CellsFinite DEF Cells
<1>5. EachNumberOnce'
  BY <1>2 DEF EachNumberOnce
<1>6. SUFFICES ASSUME TRUE
               PROVE  /\ val' \in [Cells -> Inputs \cup {GARBAGE}]
                      /\ nxt' \in [Cells -> Cells \cup {NIL, GARBAGE}]
                      /\ last' \in [Cells -> Cells \cup {NIL, GARBAGE}]
                      /\ \E c : Gathered(c)'
  BY <1>2, <1>3, <1>4, <1>5 DEF ListInv, ListTypes
<1>7. CASE input = <<>>
  <2>1. last[S] = NIL
    BY <1>2, <1>7 DEF ListInv
  <2>2. /\ val' = [val EXCEPT ![S] = n] /\ nxt' = [nxt EXCEPT ![S] = NIL]
        /\ last' = [last EXCEPT ![S] = S]
    BY <1>1, <1>2, <2>1, InsertFirst
  <2>3. /\ val' \in [Cells -> Inputs \cup {GARBAGE}] /\ val'[S] = n
        /\ nxt' \in [Cells -> Cells \cup {NIL, GARBAGE}] /\ nxt'[S] = NIL
        /\ last' \in [Cells -> Cells \cup {NIL, GARBAGE}] /\ last'[S] = S
    BY <1>2, <2>2, CellsFinite DEF ListTypes
  <2>first. PICK c : c = <<S>>
    OBVIOUS
  <2>4. c = <<S>> /\ Len(c) = 1 /\ c[1] = S /\ c # <<>>
    <3>1. Len(<<S>>) = 1 /\ <<S>>[1] = S /\ <<S>> # <<>>
      OBVIOUS
    <3> QED BY <2>first, <3>1
  <2>5. Facts!ListFrom(c, S, nxt')
    BY <2>3, <2>4, CellsFinite DEF Facts!ListFrom, Facts!NodeAt
  <2>6. Facts!NodesOf(c) = {S}
    BY <2>4 DEF Facts!NodesOf
  <2>7. FirstTimes' = {1} /\ input'[1] = n
    <3>1. Len(input) = 0 /\ 1..Len(input) = {}
      BY <1>7
    <3>2. \A j \in 1..Len(input) : input[j] # n
      BY <3>1
    <3> QED BY <1>1, <1>2, <1>3, <1>4, <3>1, <3>2, FirstTimesGrow
  <2>8. Gathered(c)'
    BY <2>3, <2>4, <2>5, <2>6, <2>7 DEF Gathered, Rising, Origin
  <2> QED BY <2>3, <2>8
<1>8. CASE input # <<>>
  <2>1. PICK c : Gathered(c)
    BY <1>2, <1>8 DEF ListInv
  <2>2. /\ Facts!ListFrom(c, S, nxt) /\ c # <<>> /\ Rising(c) /\ last[S] = c[Len(c)]
        /\ Facts!NodesOf(c) = {S} \cup (FirstTimes \ {1})
        /\ \A m \in Facts!NodesOf(c) : val[m] = input[Origin(m)]
    BY <2>1 DEF Gathered
  <2>3. /\ FirstTimes \subseteq 1..l /\ \A j \in 1..l : input'[j] = input[j]
        /\ (\E j \in 1..l : input[j] = n) => FirstTimes' = FirstTimes
        /\ (\A j \in 1..l : input[j] # n) => FirstTimes' = FirstTimes \cup {l + 1}
    BY <1>1, <1>2, <1>3, FirstTimesGrow
  <2>4. l # 0 /\ 1 \in 1..l
    BY <1>2, <1>3, <1>8
  <2>5. \A m \in Facts!NodesOf(c) : Origin(m) \in 1..l
    BY <2>2, <2>3, <2>4 DEF Origin
  <2>6. \A m \in Facts!NodesOf(c) : val[m] = input'[Origin(m)]
    BY <2>2, <2>3, <2>5
  <2>7. CASE \E m \in Facts!NodesOf(c) : val[m] = n
    <3>1. UNCHANGED <<val, nxt, last>>
      BY <1>1, <2>1, <2>7, InsertFound
    <3>2. FirstTimes' = FirstTimes
      BY <2>2, <2>3, <2>5, <2>7
    <3>3. Gathered(c)'
      BY <2>2, <2>6, <3>1, <3>2 DEF Gathered
    <3> QED BY <1>2, <3>1, <3>3 DEF ListTypes
  <2>8. CASE \A m \in Facts!NodesOf(c) : val[m] # n
    <3>1. /\ last[S] \in Cells /\ c \in Seq(Cells) /\ val' = [val EXCEPT ![l + 1] = n]
          /\ nxt' = [[nxt EXCEPT ![l + 1] = NIL] EXCEPT ![last[S]] = l + 1]
          /\ last' = [[last EXCEPT ![l + 1] = NIL] EXCEPT ![S] = l + 1]
      BY <1>1, <1>3, <2>1, <2>8, InsertNew
    <3>2. PICK end \in Cells : end = last[S] /\ end = c[Len(c)] /\ end \in Facts!NodesOf(c)
      <4>1. Len(c) \in 1..Len(c)
        BY <2>2, <3>1
      <4> QED BY <2>2, <3>1, <4>1 DEF Facts!NodesOf
    <3>3. l + 1 \notin Facts!NodesOf(c) /\ l + 1 # S /\ l + 1 # end
      <4>1. l + 1 \notin 1..l /\ l + 1 # S
        BY <1>3, CellsFinite
      <4> QED BY <2>2, <2>3, <3>2, <4>1
    <3>4. /\ val' \in [Cells -> Inputs \cup {GARBAGE}] /\ val'[l + 1] = n
          /\ \A m \in Cells \ {l + 1} : val'[m] = val[m]
      BY <1>2, <1>4, <3>1 DEF ListTypes
    <3>5. /\ nxt' \in [Cells -> Cells \cup {NIL, GARBAGE}] /\ nxt'[l + 1] = NIL /\ nxt'[end] = l + 1
          /\ \A m \in Cells \ {l + 1, end} : nxt'[m] = nxt[m]
      BY <1>2, <1>4, <3>1, <3>2, <3>3 DEF ListTypes
    <3>6. last' \in [Cells -> Cells \cup {NIL, GARBAGE}] /\ last'[S] = l + 1
      BY <1>2, <1>4, <3>1, <3>3, CellsFinite DEF ListTypes
    <3>7. PICK d : d = Append(c, l + 1)
      OBVIOUS
    <3>8. Facts!ListFrom(d, S, nxt') /\ Facts!NodesOf(d) = Facts!NodesOf(c) \cup {l + 1}
      <4>1. nxt[end] = NIL
        <5>1. Len(c) \in 1..Len(c) /\ Len(c) + 1 \notin 1..Len(c)
          BY <2>2, <3>1
        <5> QED BY <2>2, <3>2, <5>1 DEF Facts!ListFrom, Facts!NodeAt
      <4>2. \A m \in Facts!NodesOf(c) \ {end} : nxt'[m] = nxt[m]
        BY <3>1, <3>3, <3>5 DEF Facts!NodesOf
      <4>3. /\ Facts!ListFrom(Append(c, l + 1), S, nxt')
            /\ Facts!NodesOf(Append(c, l + 1)) = Facts!NodesOf(c) \cup {l + 1}
        BY <1>4, <2>2, <3>2, <3>3, <3>5, <4>1, <4>2, CellsFinite, Facts!ListAppend
      <4> QED BY <3>7, <4>3
    <3>9. /\ Len(c) \in Nat \ {0} /\ Len(d) = Len(c) + 1 /\ d[Len(c) + 1] = l + 1
          /\ \A j \in 1..Len(c) : d[j] = c[j] /\ c[j] \in Facts!NodesOf(c)
      BY <2>2, <3>1, <3>7 DEF Facts!NodesOf
    <3>10. Rising(d)
      <4>1. \A m \in Facts!NodesOf(c) : m \in Nat /\ m < l + 1
        <5>1. S \in Nat /\ S < l + 1 /\ \A m \in 1..l : m \in Nat /\ m < l + 1
          BY <1>3, CellsFinite
        <5> QED BY <2>2, <2>3, <5>1
      <4>2. ASSUME NEW j \in 1..Len(d), NEW k \in 1..Len(d), j < k PROVE d[j] < d[k]
        <5>1. j \in 1..Len(c)
          BY <3>9, <4>2
        <5>2. CASE k = Len(c) + 1
          BY <3>9, <4>1, <5>1, <5>2
        <5>3. CASE k \in 1..Len(c)
          BY <2>2, <3>9, <4>2, <5>1, <5>3 DEF Rising
        <5> QED BY <3>9, <5>2, <5>3
      <4> QED BY <4>2 DEF Rising
    <3>11. FirstTimes' = FirstTimes \cup {l + 1}
      <4>1. ASSUME NEW j \in 1..l, input[j] = n PROVE FALSE
        <5>1. PICK m \in FirstTimes : input[m] = n
          BY <1>2, <1>3, <4>1, FirstTimeExists
        <5>2. CASE m = 1
          BY <2>2, <2>8, <5>1, <5>2 DEF Origin
        <5>3. CASE m # 1
          <6>1. m \in Facts!NodesOf(c) /\ m # S
            BY <2>2, <2>3, <5>1, <5>3, CellsFinite
          <6> QED BY <2>2, <2>8, <5>1, <6>1 DEF Origin
        <5> QED BY <5>2, <5>3
      <4> QED BY <2>3, <4>1
    <3>12. Facts!NodesOf(d) = {S} \cup (FirstTimes' \ {1})
      <4>1. l + 1 # 1
        BY <2>4
      <4> QED BY <2>2, <3>8, <3>11, <4>1
    <3>13. \A m \in Facts!NodesOf(d) : val'[m] = input'[Origin(m)]
      <4>1. ASSUME NEW m \in Facts!NodesOf(c) PROVE val'[m] = input'[Origin(m)]
        <5>1. m \in Cells \ {l + 1}
          BY <3>1, <3>3 DEF Facts!NodesOf
        <5> QED BY <2>6, <3>4, <5>1
      <4>2. val'[l + 1] = input'[Origin(l + 1)]
        BY <1>4, <3>3, <3>4 DEF Origin
      <4> QED BY <3>8, <4>1, <4>2
    <3>14. last'[S] = d[Len(d)] /\ d # <<>>
      <4>1. d # <<>>
        BY <3>1, <3>7
      <4> QED BY <3>6, <3>9, <4>1
    <3>15. Gathered(d)'
      BY <3>8, <3>10, <3>12, <3>13, <3>14 DEF Gathered
    <3> QED BY <3>4, <3>5, <3>6, <3>15
  <2> QED BY <2>7, <2>8
<1> QED BY <1>7, <1>8

(* When the list is printed its nodes are those of the first times.        *)
LEMMA FinishInv == ListInv /\ Finish => ListInv'
<1> SUFFICES ASSUME ListInv, Finish PROVE ListInv'
  OBVIOUS
<1>1. /\ list_main = "reading" /\ list_main' \in {"ended", "fault"}
      /\ UNCHANGED <<val, nxt, last, input>> /\ ListTypes
  BY DEF Finish, ListInv
<1>2. ListTypes'
  BY <1>1 DEF ListTypes
<1>3. SUFFICES ASSUME input # <<>> PROVE EachNumberOnce'
  BY <1>1, <1>2 DEF ListInv, EachNumberOnce
<1>4. PICK c : Gathered(c)
  BY <1>1, <1>3 DEF ListInv
<1>5. /\ Facts!ListFrom(c, S, nxt) /\ c \in Seq(Cells) /\ c # <<>> /\ Rising(c)
      /\ Facts!NodesOf(c) = {S} \cup (FirstTimes \ {1})
      /\ \A m \in Facts!NodesOf(c) : val[m] = input[Origin(m)]
  BY <1>4 DEF Gathered, Facts!ListFrom
<1>6. Walk(nxt) = c /\ Heap!Reachable(S, nxt) = Facts!NodesOf(c)
  BY <1>5, SameChain
<1>7. PICK l \in Nat \ {0} : l = Len(c) /\ DOMAIN c = 1..l
  BY <1>5
<1>8. nxt[S] # GARBAGE
  <2>1. c[1] = S /\ nxt[c[1]] = IF 1 + 1 \in 1..l THEN c[1 + 1] ELSE NIL
    BY <1>5, <1>7 DEF Facts!ListFrom, Facts!NodeAt
  <2>2. GARBAGE \notin Cells /\ GARBAGE # NIL
    BY InputsAssumption DEF InputsAssumption, Cells, NIL
  <2>3. \A k \in 1..l : c[k] \in Cells
    BY <1>5, <1>7
  <2> QED BY <2>1, <2>2, <2>3
<1>9. /\ list_main' = "ended" /\ shown_list' = [k \in DOMAIN c |-> val[c[k]]]
      /\ freed_cells' = Facts!NodesOf(c) \ {S}
  BY <1>6, <1>8 DEF Finish
<1>10. FirstTimes' = FirstTimes /\ 1 \in FirstTimes /\ FirstTimes \subseteq Nat \ {0}
  <2>1. input \in Seq(Inputs) /\ DOMAIN input = 1..Len(input) /\ Len(input) \in Nat \ {0}
    BY <1>1, <1>3 DEF ListTypes
  <2>2. 1 \in DOMAIN input /\ 1..(1 - 1) = {}
    BY <2>1
  <2> QED BY <1>1, <2>1, <2>2 DEF FirstTimes
<1>11. freed_cells' = FirstTimes \ {1}
  BY <1>5, <1>9, <1>10, CellsFinite
<1>12. PICK times : times = [k \in 1..l |-> Origin(c[k])]
  OBVIOUS
<1>13. \A k \in 1..l : c[k] \in Facts!NodesOf(c) /\ (k # 1 => c[k] # S) /\ times[k] = Origin(c[k]) /\ c[1] = S
  <2>1. c[1] = S
    BY <1>5, <1>7 DEF Facts!ListFrom, Facts!NodeAt
  <2>2. ASSUME NEW k \in 1..l, k # 1 PROVE c[k] # S
    <3>1. 1 \in 1..l /\ 1 < k
      BY <1>7, <2>2
    <3>2. c[1] < c[k]
      BY <1>5, <1>7, <3>1 DEF Rising
    <3> QED BY <2>1, <3>2, CellsFinite
  <2> QED BY <1>7, <1>12, <2>1, <2>2 DEF Facts!NodesOf
<1>14. /\ times \in [1..l -> FirstTimes] /\ times[1] = 1
       /\ \A k \in 1..l : k # 1 => times[k] = c[k] /\ c[k] \in FirstTimes \ {1}
  BY <1>5, <1>7, <1>10, <1>12, <1>13 DEF Origin
<1>15. \A j, k \in 1..l : j < k => times[j] < times[k]
  <2>1. ASSUME NEW j \in 1..l, NEW k \in 1..l, j < k PROVE times[j] < times[k]
    <3>1. k # 1 /\ times[k] = c[k] /\ c[k] \in FirstTimes \ {1}
      BY <1>14, <2>1
    <3>2. CASE j = 1
      <4>1. c[k] \in Nat /\ 1 < c[k]
        <5>1. FirstTimes \subseteq Nat \ {0}
          BY <1>10
        <5>2. \A m \in Nat \ {0} : m # 1 => 1 < m
          OBVIOUS
        <5> QED BY <3>1, <5>1, <5>2
      <4> QED BY <1>14, <3>1, <3>2, <4>1
    <3>3. CASE j # 1
      <4>1. c[j] < c[k]
        BY <1>5, <1>7, <2>1 DEF Rising
      <4> QED BY <1>14, <3>1, <3>3, <4>1
    <3> QED BY <3>2, <3>3
  <2> QED BY <2>1
<1>16. Cardinality(FirstTimes) = l
  <2>1. \A j, k \in 1..l : times[j] = times[k] => j = k
    <3>1. ASSUME NEW j \in 1..l, NEW k \in 1..l, times[j] = times[k], j # k PROVE FALSE
      <4>1. times[j] \in Nat /\ times[k] \in Nat
        BY <1>10, <1>14
      <4>2. j < k \/ k < j
        BY <3>1
      <4> QED BY <1>15, <3>1, <4>1, <4>2
    <3> QED BY <3>1
  <2>2. \A m \in FirstTimes : \E k \in 1..l : times[k] = m
    <3>1. ASSUME NEW m \in FirstTimes PROVE \E k \in 1..l : times[k] = m
      <4>1. CASE m = 1
        BY <1>7, <1>14, <4>1
      <4>2. CASE m # 1
        <5>1. PICK k \in 1..l : c[k] = m
          BY <1>5, <1>7, <4>2 DEF Facts!NodesOf
        <5>2. k # 1
          BY <1>10, <1>13, <5>1, CellsFinite
        <5> QED BY <1>14, <5>1, <5>2
      <4> QED BY <4>1, <4>2
    <3> QED BY <3>1
  <2>3. times \in Bijection(1..l, FirstTimes)
    BY <1>14, <2>1, <2>2 DEF Bijection, Injection, Surjection, IsInjective
  <2> QED BY <1>7, <2>3, FS_CountingElements DEF ExistsBijection
<1>17. shown_list' = [k \in DOMAIN times |-> input[times[k]]]
  <2>1. \A k \in 1..l : val[c[k]] = input[times[k]]
    BY <1>5, <1>13
  <2> QED BY <1>7, <1>9, <1>14, <2>1
<1>18. /\ list_main' = "ended" /\ times \in [1..Cardinality(FirstTimes') -> FirstTimes']
       /\ \A j, k \in DOMAIN times : j < k => times[j] < times[k]
       /\ shown_list' = [k \in DOMAIN times |-> input'[times[k]]] /\ freed_cells' = FirstTimes' \ {1}
  BY <1>1, <1>9, <1>10, <1>11, <1>14, <1>15, <1>16, <1>17
<1> QED BY <1>18 DEF EachNumberOnce

LEMMA ListNextInv == ListInv /\ [ListNext]_list_vars => ListInv'
<1> SUFFICES ASSUME ListInv, [ListNext]_list_vars PROVE ListInv'
  OBVIOUS
<1>1. CASE ReadNumber
  BY <1>1, ReadNumberInv
<1>2. CASE Finish
  BY <1>2, FinishInv
<1>3. CASE UNCHANGED list_vars
  <2>1. UNCHANGED <<val, nxt, last, input, shown_list, freed_cells, list_main, FirstTimes>>
    BY <1>3 DEF list_vars, FirstTimes
  <2>2. ListTypes' /\ EachNumberOnce'
    BY <2>1 DEF ListInv, ListTypes, EachNumberOnce
  <2> QED BY <2>1, <2>2 DEF ListInv, Gathered
<1> QED BY <1>1, <1>2, <1>3 DEF ListNext

(* Any input that is not empty, of any numbers, is printed without its     *)
(* repetitions, in order; what insert allocated for a number that was new  *)
(* is freed.                                                               *)
THEOREM UniqueNumbersPrinted == ListSpec => []EachNumberOnce
<1>1. ListInv => EachNumberOnce
  BY DEF ListInv
<1> QED BY <1>1, ListInitInv, ListNextInv, PTL DEF ListSpec

LEMMA ListTypesKept == ListSpec => []ListTypeOK
<1>1. ListInv => ListTypeOK
  BY DEF ListInv, ListTypes, ListTypeOK
<1> QED BY <1>1, ListInitInv, ListNextInv, PTL DEF ListSpec

(***************************************************************************)
(* SimplePipe: the processes of simple_pipe.c take turns, for any number   *)
(* of rounds and whenever either of them is killed.                        *)
(***************************************************************************)

OfParent == Ends \ {<<"down", "read">>}
OfChild == Ends \ {<<"down", "write">>, <<"up", "read">>}

(* Each process holds the ends of the pipes that it has not closed.        *)
EndsHeld ==
  /\ process["parent"] \in {"fork", "close"} => ends["parent"] = Ends
  /\ process["parent"] \in {"write", "read"} => ends["parent"] = OfParent
  /\ process["parent"] \in Over => ends["parent"] = {}
  /\ process["child"] = "close" => ends["child"] = Ends
  /\ process["child"] \in {"write", "read"} => ends["child"] = OfChild
  /\ process["child"] \in Over \cup {"none"} => ends["child"] = {}

(* Where the coordinate of the round is: in a pipe, with the child, or     *)
(* lost with it.                                                           *)
Turns ==
  /\ process["parent"] \in Over \cup {"fork", "close", "write", "read"}
  /\ process["child"] \in Over \cup {"none", "close", "write", "read"}
  /\ process["parent"] = "fork" => process["child"] = "none"
  /\ process["child"] = "none" => process["parent"] \in Over \cup {"fork"}
  /\ down \in {<<>>, <<round>>} /\ up \in {<<>>, <<round>>}
  /\ down = <<>> \/ up = <<>>
  /\ process["child"] = "write" => down = <<>> /\ up = <<>> /\ coordinate = round
  /\ process["child"] \in {"none", "close"} => up = <<>>
  /\ process["child"] = "none" => down = <<>>
  /\ process["parent"] \in {"fork", "close", "write"} =>
       down = <<>> /\ up = <<>> /\ process["child"] # "write"
  /\ process["parent"] = "read" /\ process["child"] \in {"close", "read"} =>
       down # <<>> \/ up # <<>>
  /\ process["parent"] = "read" \/ down # <<>> \/ process["child"] = "write" => round < Rounds

PipeInv == /\ process \in [Processes -> Over \cup {"none", "fork", "close", "read", "write"}]
           /\ ends \in [Processes -> SUBSET Ends]
           /\ round \in 0..Rounds /\ coordinate \in 0..(Rounds - 1)
           /\ EndsHeld /\ Turns
           /\ magnitudes = [k \in 1..round |-> k - 1]
           /\ process["child"] = "exit_0" => process["parent"] \in Over
           /\ up # <<>> => round < Rounds

USE RoundsAssumption DEF Processes

LEMMA PipeInitInv == PipeInit => PipeInv
<1> SUFFICES ASSUME PipeInit PROVE PipeInv
  OBVIOUS
<1>1. process["parent"] = "fork" /\ process["child"] = "none" /\ ends["parent"] = Ends /\ ends["child"] = {}
  BY DEF PipeInit
<1>2. EndsHeld
  BY <1>1 DEF EndsHeld, Over
<1>3. Turns
  BY <1>1 DEF Turns, Over, PipeInit
<1>4. <<>> = [k \in 1..0 |-> k - 1]
  OBVIOUS
<1>5. /\ process \in [Processes -> Over \cup {"none", "fork", "close", "read", "write"}]
      /\ ends \in [Processes -> SUBSET Ends]
  BY DEF PipeInit
<1> QED BY <1>1, <1>2, <1>3, <1>4, <1>5 DEF PipeInv, PipeInit, Over

LEMMA ForkInv == PipeInv /\ Fork => PipeInv'
<1> SUFFICES ASSUME PipeInv, Fork PROVE PipeInv'
  OBVIOUS
<1>1. process["parent"] = "fork" /\ process["child"] = "none" /\ ends["parent"] = Ends /\ ends["child"] = {}
  BY DEF Fork, PipeInv, Turns, EndsHeld
<1>2. UNCHANGED <<down, up, round, coordinate, magnitudes>>
  BY DEF Fork
<1>3. CASE process' = [p \in Processes |-> "close"] /\ ends' = [ends EXCEPT !["child"] = ends["parent"]]
  <2>1. /\ process'["parent"] = "close" /\ process'["child"] = "close"
        /\ ends'["parent"] = Ends /\ ends'["child"] = Ends
    BY <1>1, <1>3 DEF PipeInv
  <2>2. EndsHeld' /\ Turns'
    BY <1>1, <1>2, <2>1 DEF EndsHeld, Turns, Over, PipeInv
  <2>3. /\ process' \in [Processes -> Over \cup {"none", "fork", "close", "read", "write"}]
        /\ ends' \in [Processes -> SUBSET Ends]
    BY <1>3, <1>1 DEF PipeInv
  <2> QED BY <1>2, <2>1, <2>2, <2>3 DEF PipeInv
<1>4. CASE Advance("parent", "fork", "exit_2", {})
  <2>1. /\ process'["parent"] = "exit_2" /\ process'["child"] = "none"
        /\ ends'["parent"] = {} /\ ends'["child"] = {}
        /\ process' \in [Processes -> Over \cup {"none", "fork", "close", "read", "write"}]
        /\ ends' \in [Processes -> SUBSET Ends]
    BY <1>1, <1>4 DEF Advance, Over, PipeInv
  <2>2. EndsHeld' /\ Turns'
    BY <1>1, <1>2, <2>1 DEF EndsHeld, Turns, Over, PipeInv
  <2> QED BY <1>2, <2>1, <2>2 DEF PipeInv
<1> QED BY <1>3, <1>4 DEF Fork

(* Who can read and write a pipe.                                          *)
LEMMA Others ==
  ASSUME PipeInv
  PROVE  /\ process["parent"] = "write" /\ process["child"] \in {"close", "read", "write"} => Readable("down")
         /\ process["parent"] \notin Over => Writable("down") /\ Readable("up") /\ Writable("up")
  <1>1. process["parent"] \notin Over => ends["parent"] = Ends \/ ends["parent"] = OfParent
    BY DEF PipeInv, EndsHeld, Turns, Over
  <1>2. process["child"] \in {"close", "read", "write"} => ends["child"] = Ends \/ ends["child"] = OfChild
    BY DEF PipeInv, EndsHeld, Turns, Over
  <1> QED BY <1>1, <1>2 DEF Readable, Writable, OfParent, OfChild, Ends, Pipes

LEMMA ChildInv == PipeInv /\ Child => PipeInv'
<1> SUFFICES ASSUME PipeInv, Child PROVE PipeInv'
  OBVIOUS
<1> USE DEF PipeInv
<1>1. CASE ChildCloses
  <2>1. /\ process["child"] = "close" /\ process'["child"] = "read" /\ process'["parent"] = process["parent"]
        /\ ends'["child"] = ends["child"] \ {<<"down", "write">>, <<"up", "read">>}
        /\ ends'["parent"] = ends["parent"]
        /\ process' \in [Processes -> Over \cup {"none", "fork", "close", "read", "write"}]
        /\ ends' \in [Processes -> SUBSET Ends]
    BY <1>1 DEF ChildCloses, Advance, Over
  <2>2. UNCHANGED <<down, up, round, coordinate, magnitudes>>
    BY <1>1 DEF ChildCloses
  <2>3. EndsHeld'
    BY <2>1 DEF EndsHeld, Over, OfChild
  <2>4. Turns'
    BY <2>1, <2>2 DEF Turns, Over
  <2> QED BY <2>1, <2>2, <2>3, <2>4
<1>2. CASE ChildReads
  <2>1. /\ process["child"] = "read" /\ process'["child"] = "write" /\ process'["parent"] = process["parent"]
        /\ ends'["child"] = ends["child"] \ {} /\ ends'["parent"] = ends["parent"]
        /\ process' \in [Processes -> Over \cup {"none", "fork", "close", "read", "write"}]
        /\ ends' \in [Processes -> SUBSET Ends]
    BY <1>2 DEF ChildReads, Advance, Over
  <2>2. /\ down # <<>> /\ coordinate' = Head(down) /\ down' = Tail(down)
        /\ UNCHANGED <<up, round, magnitudes>>
    BY <1>2 DEF ChildReads
  <2>3. down = <<round>> /\ up = <<>> /\ round < Rounds
    BY <2>2 DEF Turns
  <2>4. coordinate' = round /\ down' = <<>>
    BY <2>2, <2>3
  <2>5. EndsHeld'
    BY <2>1 DEF EndsHeld, Over
  <2>6. Turns'
    BY <2>1, <2>2, <2>3, <2>4 DEF Turns, Over
  <2>7. coordinate' \in 0..(Rounds - 1)
    BY <2>3, <2>4
  <2> QED BY <2>1, <2>2, <2>5, <2>6, <2>7
<1>3. CASE ChildReadsEnd
  <2>1. /\ process["child"] = "read" /\ process'["child"] = "exit_0" /\ process'["parent"] = process["parent"]
        /\ ends'["child"] = {} /\ ends'["parent"] = ends["parent"]
        /\ process' \in [Processes -> Over \cup {"none", "fork", "close", "read", "write"}]
        /\ ends' \in [Processes -> SUBSET Ends]
    BY <1>3 DEF ChildReadsEnd, Advance, Over
  <2>2. ~Writable("down") /\ UNCHANGED <<down, up, round, coordinate, magnitudes>>
    BY <1>3 DEF ChildReadsEnd
  <2>3. process["parent"] \in Over
    BY <2>2, Others
  <2>4. EndsHeld' /\ Turns'
    BY <2>1, <2>2, <2>3 DEF EndsHeld, Turns, Over
  <2> QED BY <2>1, <2>2, <2>3, <2>4
<1>4. CASE ChildWrites
  <2>1. process["child"] = "write" /\ down = <<>> /\ up = <<>> /\ coordinate = round /\ round < Rounds
    BY <1>4 DEF ChildWrites, Advance, Turns
  <2>2. coordinate' = 0 /\ 0 \in 0..(Rounds - 1) /\ UNCHANGED <<down, round, magnitudes>>
    BY <1>4 DEF ChildWrites
  <2>3. CASE Advance("child", "write", "read", {}) /\ up' = Append(up, coordinate)
    <3>1. /\ process'["child"] = "read" /\ process'["parent"] = process["parent"]
          /\ ends'["child"] = ends["child"] \ {} /\ ends'["parent"] = ends["parent"]
          /\ process' \in [Processes -> Over \cup {"none", "fork", "close", "read", "write"}]
          /\ ends' \in [Processes -> SUBSET Ends]
      BY <2>3 DEF Advance, Over
    <3>2. up' = <<round>> /\ up' # <<>>
      BY <2>1, <2>3
    <3>3. EndsHeld'
      BY <2>1, <3>1 DEF EndsHeld, Over
    <3>4. Turns'
      BY <2>1, <2>2, <3>1, <3>2 DEF Turns, Over
    <3> QED BY <2>1, <2>2, <3>1, <3>3, <3>4
  <2>4. CASE Advance("child", "write", "killed", {}) /\ UNCHANGED up
    <3>1. /\ process'["child"] = "killed" /\ process'["parent"] = process["parent"]
          /\ ends'["child"] = {} /\ ends'["parent"] = ends["parent"]
          /\ process' \in [Processes -> Over \cup {"none", "fork", "close", "read", "write"}]
          /\ ends' \in [Processes -> SUBSET Ends]
      BY <2>4 DEF Advance, Over
    <3>2. EndsHeld' /\ Turns'
      BY <2>1, <2>2, <2>4, <3>1 DEF EndsHeld, Turns, Over
    <3> QED BY <2>1, <2>2, <2>4, <3>1, <3>2
  <2> QED BY <1>4, <2>3, <2>4 DEF ChildWrites
<1> QED BY <1>1, <1>2, <1>3, <1>4 DEF Child

LEMMA ParentInv == PipeInv /\ Parent => PipeInv'
<1> SUFFICES ASSUME PipeInv, Parent PROVE PipeInv'
  OBVIOUS
<1>1. CASE Fork
  BY <1>1, ForkInv
<1> USE DEF PipeInv
<1>2. CASE ParentCloses
  <2>1. /\ process["parent"] = "close" /\ process'["parent"] = "write" /\ process'["child"] = process["child"]
        /\ ends'["parent"] = ends["parent"] \ {<<"down", "read">>} /\ ends'["child"] = ends["child"]
        /\ process' \in [Processes -> Over \cup {"none", "fork", "close", "read", "write"}]
        /\ ends' \in [Processes -> SUBSET Ends]
    BY <1>2 DEF ParentCloses, Advance, Over
  <2>2. UNCHANGED <<down, up, round, coordinate, magnitudes>>
    BY <1>2 DEF ParentCloses
  <2>3. EndsHeld'
    BY <2>1 DEF EndsHeld, Over, OfParent
  <2>4. Turns'
    BY <2>1, <2>2 DEF Turns, Over
  <2>5. process["child"] # "exit_0"
    BY <2>1 DEF Over
  <2> QED BY <2>1, <2>2, <2>3, <2>4, <2>5
<1>3. CASE ParentWrites
  <2>1. /\ process["parent"] = "write" /\ round < Rounds /\ down = <<>> /\ up = <<>>
        /\ process["child"] \notin {"write", "none", "exit_0"}
        /\ UNCHANGED <<up, round, coordinate, magnitudes>>
    BY <1>3 DEF ParentWrites, Advance, Turns, Over
  <2>2. CASE Advance("parent", "write", "read", {}) /\ down' = Append(down, round)
    <3>1. /\ process'["parent"] = "read" /\ process'["child"] = process["child"]
          /\ ends'["parent"] = ends["parent"] \ {} /\ ends'["child"] = ends["child"]
          /\ process' \in [Processes -> Over \cup {"none", "fork", "close", "read", "write"}]
          /\ ends' \in [Processes -> SUBSET Ends]
      BY <2>2 DEF Advance, Over
    <3>2. down' = <<round>> /\ down' # <<>>
      BY <2>1, <2>2
    <3>3. EndsHeld'
      BY <2>1, <3>1 DEF EndsHeld, Over
    <3>4. Turns'
      BY <2>1, <3>1, <3>2 DEF Turns, Over
    <3> QED BY <2>1, <3>1, <3>3, <3>4
  <2>3. CASE Advance("parent", "write", "killed", {}) /\ UNCHANGED down
    <3>1. /\ process'["parent"] = "killed" /\ process'["child"] = process["child"]
          /\ ends'["parent"] = {} /\ ends'["child"] = ends["child"]
          /\ process' \in [Processes -> Over \cup {"none", "fork", "close", "read", "write"}]
          /\ ends' \in [Processes -> SUBSET Ends]
      BY <2>3 DEF Advance, Over
    <3>2. EndsHeld' /\ Turns'
      BY <2>1, <2>3, <3>1 DEF EndsHeld, Turns, Over
    <3> QED BY <2>1, <2>3, <3>1, <3>2
  <2> QED BY <1>3, <2>2, <2>3 DEF ParentWrites
<1>4. CASE ParentReads
  <2>1. CASE up # <<>>
    <3>1. /\ Advance("parent", "read", "write", {})
          /\ magnitudes' = Append(magnitudes, Head(up)) /\ up' = Tail(up)
          /\ round' = round + 1 /\ UNCHANGED <<down, coordinate>>
      BY <1>4, <2>1 DEF ParentReads
    <3>2. up = <<round>> /\ down = <<>> /\ round < Rounds /\ round \in Nat
      BY <2>1 DEF Turns
    <3>3. /\ process["parent"] = "read" /\ process'["parent"] = "write" /\ process'["child"] = process["child"]
          /\ ends'["parent"] = ends["parent"] \ {} /\ ends'["child"] = ends["child"]
          /\ process' \in [Processes -> Over \cup {"none", "fork", "close", "read", "write"}]
          /\ ends' \in [Processes -> SUBSET Ends]
      BY <3>1 DEF Advance, Over
    <3>4. up' = <<>> /\ down' = <<>> /\ round' \in 0..Rounds
      BY <3>1, <3>2
    <3>5. EndsHeld'
      BY <3>3 DEF EndsHeld, Over
    <3>6. process["child"] \notin {"write", "none", "close", "exit_0"}
      BY <2>1, <3>3 DEF Turns, Over
    <3>7. Turns'
      BY <3>3, <3>4, <3>6 DEF Turns, Over
    <3>8. magnitudes' = [k \in 1..round' |-> k - 1]
      <4>1. magnitudes \in Seq(Int) /\ Len(magnitudes) = round
        BY <3>2
      <4>2. Head(up) = round
        BY <3>2
      <4>3. /\ Append(magnitudes, round) \in Seq(Int) /\ Len(Append(magnitudes, round)) = round + 1
            /\ \A k \in 1..(round + 1) : Append(magnitudes, round)[k] = k - 1
        BY <3>2, <4>1
      <4> QED BY <3>1, <3>2, <4>2, <4>3
    <3> QED BY <3>1, <3>3, <3>4, <3>5, <3>6, <3>7, <3>8
  <2>2. CASE up = <<>>
    <3>1. ~Writable("up") /\ process["parent"] = "read"
      BY <1>4, <2>2 DEF ParentReads, Advance
    <3> QED BY <3>1, Others DEF Over
  <2> QED BY <2>1, <2>2
<1>5. CASE ParentEnds
  <2>1. /\ process["parent"] = "write" /\ process'["parent"] = "exit_0" /\ process'["child"] = process["child"]
        /\ ends'["parent"] = {} /\ ends'["child"] = ends["child"]
        /\ process' \in [Processes -> Over \cup {"none", "fork", "close", "read", "write"}]
        /\ ends' \in [Processes -> SUBSET Ends]
    BY <1>5 DEF ParentEnds, Advance, Over
  <2>2. UNCHANGED <<down, up, round, coordinate, magnitudes>>
    BY <1>5 DEF ParentEnds
  <2>3. EndsHeld' /\ Turns'
    BY <2>1, <2>2 DEF EndsHeld, Turns, Over
  <2> QED BY <2>1, <2>2, <2>3 DEF Over
<1> QED BY <1>1, <1>2, <1>3, <1>4, <1>5 DEF Parent

LEMMA KillInv == ASSUME PipeInv, NEW p \in Processes, Kill(p) PROVE PipeInv'
<1>1. /\ process[p] \notin Over \cup {"none"} /\ process'[p] = "killed" /\ ends'[p] = {}
      /\ \A q \in Processes \ {p} : process'[q] = process[q] /\ ends'[q] = ends[q]
      /\ process' \in [Processes -> Over \cup {"none", "fork", "close", "read", "write"}]
      /\ ends' \in [Processes -> SUBSET Ends]
  BY DEF Kill, Advance, Over, PipeInv
<1>2. UNCHANGED <<down, up, round, coordinate, magnitudes>>
  BY DEF Kill
<1> USE DEF PipeInv
<1>3. CASE p = "parent"
  <2>1. process'["parent"] = "killed" /\ process'["child"] = process["child"] /\ ends'["parent"] = {}
        /\ ends'["child"] = ends["child"] /\ process["parent"] \notin Over
    BY <1>1, <1>3
  <2>2. EndsHeld' /\ Turns'
    BY <1>2, <2>1 DEF EndsHeld, Turns, Over
  <2> QED BY <1>1, <1>2, <2>1, <2>2 DEF Over
<1>4. CASE p = "child"
  <2>1. process'["child"] = "killed" /\ process'["parent"] = process["parent"] /\ ends'["child"] = {}
        /\ ends'["parent"] = ends["parent"] /\ process["child"] \notin Over \cup {"none"}
    BY <1>1, <1>4
  <2>2. EndsHeld' /\ Turns'
    BY <1>2, <2>1 DEF EndsHeld, Turns, Over
  <2> QED BY <1>1, <1>2, <2>1, <2>2 DEF Over
<1> QED BY <1>3, <1>4

LEMMA PipeNextInv == PipeInv /\ [PipeNext]_pipe_vars => PipeInv'
<1>1. ASSUME PipeInv, UNCHANGED pipe_vars PROVE PipeInv'
  BY <1>1 DEF pipe_vars, PipeInv, EndsHeld, Turns
<1> QED BY <1>1, ChildInv, ParentInv, KillInv DEF PipeNext

LEMMA PipeInvTypes == PipeInv => PipeTypeOK
<1> SUFFICES ASSUME PipeInv PROVE PipeTypeOK
  OBVIOUS
<1>1. round \in Nat /\ (down # <<>> \/ up # <<>> => round \in 0..(Rounds - 1))
  BY DEF PipeInv, Turns
<1>2. down \in Seq(0..(Rounds - 1)) /\ up \in Seq(0..(Rounds - 1))
  <2>1. <<>> \in Seq(0..(Rounds - 1))
    OBVIOUS
  <2>2. round \in 0..(Rounds - 1) => <<round>> \in Seq(0..(Rounds - 1))
    OBVIOUS
  <2>3. (down = <<>> \/ down = <<round>>) /\ (up = <<>> \/ up = <<round>>)
    BY DEF PipeInv, Turns
  <2> QED BY <1>1, <2>1, <2>2, <2>3, Zenon
<1> QED BY <1>2 DEF PipeInv, PipeTypeOK

LEMMA PipeInvRounds == PipeInv => RoundsAnswered
<1> SUFFICES ASSUME PipeInv PROVE RoundsAnswered
  OBVIOUS
<1>1. Len(down) + Len(up) <= 1
  <2>1. Len(<<>>) = 0 /\ Len(<<round>>) = 1
    OBVIOUS
  <2>2. /\ down = <<>> \/ down = <<round>>
        /\ up = <<>> \/ up = <<round>>
        /\ down = <<>> \/ up = <<>>
    BY DEF PipeInv, Turns
  <2>3. /\ Len(down) = 0 \/ Len(down) = 1
        /\ Len(up) = 0 \/ Len(up) = 1
        /\ Len(down) = 0 \/ Len(up) = 0
    BY <2>1, <2>2, Zenon
  <2>4. PICK a, b : a = Len(down) /\ b = Len(up)
    OBVIOUS
  <2>5. a \in {0, 1} /\ b \in {0, 1} /\ (a = 0 \/ b = 0)
    BY <2>3, <2>4
  <2>6. a + b <= 1
    BY <2>5
  <2> QED BY <2>4, <2>6
<1> QED BY <1>1 DEF PipeInv, Turns, RoundsAnswered

(* For any number of rounds, and whenever either process is killed: one    *)
(* coordinate is under way at a time and its own magnitude comes back, the *)
(* processes never wait for each other, and the child ends by itself only  *)
(* when the parent has (simple_pipe.c:44-108).                             *)
THEOREM PipeRoundsAnswered == PipeSpec => [](PipeTypeOK /\ RoundsAnswered)
BY PipeInitInv, PipeNextInv, PipeInvTypes, PipeInvRounds, PTL DEF PipeSpec

HIDE RoundsAssumption DEF Processes

(***************************************************************************)
(* Signals: what the receiver's loop waits for, for any number of senders  *)
(* and rounds.                                                             *)
(***************************************************************************)

(* The signals still to be sent, one pair for each.                        *)
ToSend(n) == {x \in Senders \X (1..Times) : x[2] <= n[x[1]]}

(* It ends as soon as it had them.                                         *)
EndsAtOnce == waited = Waits => receiver = "exit_0"

SignalInv == /\ SignalTypeOK /\ EachWaitedOnce /\ EndsAtOnce /\ IsFiniteSet(pending)
             /\ accepted + Cardinality(ToSend(left)) <= Times * Cardinality(Senders)

USE SignalAssumption

LEMMA AllToSend ==
  /\ IsFiniteSet(Senders \X (1..Times))
  /\ Cardinality(Senders \X (1..Times)) = Cardinality(Senders) * Times
  /\ Cardinality(Senders) \in Nat
<1>1. 1 \in Int /\ Times \in Int /\ Times \in Nat
  OBVIOUS
<1>2. IsFiniteSet(1..Times) /\ Cardinality(1..Times) = Times
  BY <1>1, FS_Interval
<1> QED BY <1>2, FS_Product, FS_CardinalityType

LEMMA ToSendFinite ==
  ASSUME NEW n
  PROVE  /\ IsFiniteSet(ToSend(n)) /\ Cardinality(ToSend(n)) \in Nat
         /\ Cardinality(ToSend(n)) <= Cardinality(Senders) * Times
<1>1. ToSend(n) \in SUBSET (Senders \X (1..Times))
  BY DEF ToSend
<1> QED BY <1>1, AllToSend, FS_Subset, FS_CardinalityType

LEMMA SentOne ==
  ASSUME NEW n \in [Senders -> 0..Times], NEW s \in Senders, n[s] > 0,
         NEW m, m = [n EXCEPT ![s] = n[s] - 1]
  PROVE  Cardinality(ToSend(n)) = Cardinality(ToSend(m)) + 1
<1>1. <<s, n[s]>> \in ToSend(n)
  BY DEF ToSend
<1>2. ToSend(m) = ToSend(n) \ {<<s, n[s]>>}
  <2>1. ASSUME NEW x \in Senders \X (1..Times)
        PROVE  x \in ToSend(m) <=> x \in ToSend(n) /\ x # <<s, n[s]>>
    <3>1. x = <<x[1], x[2]>> /\ x[1] \in Senders /\ x[2] \in 1..Times
      BY <2>1
    <3>2. CASE x[1] = s
      BY <3>1, <3>2 DEF ToSend
    <3>3. CASE x[1] # s
      BY <3>1, <3>3 DEF ToSend
    <3> QED BY <3>2, <3>3
  <2> QED BY <2>1 DEF ToSend
<1>3. Cardinality(ToSend(m)) = Cardinality(ToSend(n)) - 1
  <2>1. PICK R, x : R = ToSend(n) /\ x = <<s, n[s]>>
    OBVIOUS
  <2>2. IsFiniteSet(R) /\ x \in R
    BY <1>1, <2>1, ToSendFinite
  <2>3. Cardinality(R \ {x}) = Cardinality(R) - 1
    BY <2>2, FS_RemoveElement
  <2> QED BY <1>2, <2>1, <2>3
<1> QED BY <1>3, ToSendFinite

LEMMA SignalInitInv == SignalInit => SignalInv
<1> SUFFICES ASSUME SignalInit PROVE SignalInv
  OBVIOUS
<1>1. IsFiniteSet({}) /\ Cardinality({}) = 0
  BY FS_EmptySet
<1>2. Times * Cardinality(Senders) \in Nat /\ Cardinality(Senders) * Times = Times * Cardinality(Senders)
  BY AllToSend
<1>3. Cardinality(ToSend(left)) <= Times * Cardinality(Senders) /\ Cardinality(ToSend(left)) \in Nat
  BY <1>2, ToSendFinite
<1> QED BY <1>1, <1>2, <1>3 DEF SignalInit, SignalInv, SignalTypeOK, EachWaitedOnce, EndsAtOnce

LEMMA SigWaitInv == ASSUME SignalInv, SigWait PROVE SignalInv'
<1> USE DEF SignalInv
<1>1. /\ receiver = "waits" /\ waited < Waits /\ waited' = waited + 1
      /\ receiver' = IF waited' = Waits THEN "exit_0" ELSE "waits"
      /\ UNCHANGED <<sender, left, signal, accepted>>
  BY DEF SigWait
<1>2. PICK x \in pending : pending' = pending \ {x}
  BY DEF SigWait
<1>3. IsFiniteSet(pending') /\ Cardinality(pending') = Cardinality(pending) - 1 /\ Cardinality(pending) \in Nat
  BY <1>2, FS_RemoveElement, FS_CardinalityType
<1>4. waited \in 0..Waits /\ accepted \in Nat
  <2>1. Times * Cardinality(Senders) \in Nat
    BY AllToSend
  <2> QED BY <2>1 DEF SignalTypeOK
<1>5. EachWaitedOnce' /\ EndsAtOnce'
  BY <1>1, <1>3, <1>4 DEF EachWaitedOnce, EndsAtOnce
<1>6. SignalTypeOK'
  BY <1>1, <1>2, <1>4 DEF SignalTypeOK
<1> QED BY <1>1, <1>3, <1>5, <1>6

(* A signal that is accepted was one of those to be sent.                  *)
LEMMA SendInv == ASSUME SignalInv, NEW s \in Senders, SendSignal(s) PROVE SignalInv'
<1> USE DEF SignalInv
<1>1. /\ left \in [Senders -> 0..Times] /\ waited \in 0..Waits /\ accepted \in Nat
      /\ UNCHANGED <<waited, signal>> /\ Cardinality(pending) \in Nat
  <2>1. Times * Cardinality(Senders) \in Nat /\ Cardinality(pending) \in Nat
    BY AllToSend, FS_CardinalityType
  <2> QED BY <2>1 DEF SignalTypeOK, SendSignal
<1>2. CASE UNCHANGED <<left, receiver, pending, accepted>> /\ sender' = [sender EXCEPT ![s] = "exit_2"]
  BY <1>1, <1>2 DEF SignalTypeOK, EachWaitedOnce, EndsAtOnce
<1>3. CASE Deliver(signal[s]) /\ left' = [left EXCEPT ![s] = @ - 1] /\ UNCHANGED sender
  <2>1. left[s] > 0 /\ left' \in [Senders -> 0..Times]
    BY <1>1, <1>3 DEF SendSignal
  <2>2. Cardinality(ToSend(left)) = Cardinality(ToSend(left')) + 1
    <3>1. PICK m : m = left'
      OBVIOUS
    <3>2. m = [left EXCEPT ![s] = left[s] - 1]
      BY <1>3, <3>1
    <3>3. Cardinality(ToSend(left)) = Cardinality(ToSend(m)) + 1
      BY <1>1, <2>1, <3>2, SentOne
    <3> QED BY <3>1, <3>3
  <2>3. Cardinality(ToSend(left')) \in Nat /\ Times * Cardinality(Senders) \in Nat
    BY ToSendFinite, AllToSend
  <2>4. CASE receiver = "waits" /\ signal[s] \in Awaited
    <3>1. /\ pending' = pending \cup {signal[s]} /\ UNCHANGED receiver
          /\ accepted' = IF signal[s] \in pending THEN accepted ELSE accepted + 1
      BY <1>3, <2>4 DEF Deliver
    <3>2. /\ IsFiniteSet(pending')
          /\ Cardinality(pending') = IF signal[s] \in pending THEN Cardinality(pending) ELSE Cardinality(pending) + 1
      BY <3>1, FS_AddElement
    <3>3. EachWaitedOnce' /\ EndsAtOnce'
      BY <1>1, <3>1, <3>2 DEF EachWaitedOnce, EndsAtOnce
    <3>4. accepted' \in Nat /\ accepted' + Cardinality(ToSend(left')) <= Times * Cardinality(Senders)
      BY <1>1, <2>2, <2>3, <3>1
    <3>5. accepted' \in 0..(Times * Cardinality(Senders))
      BY <2>3, <3>4
    <3>6. SignalTypeOK'
      BY <1>1, <1>3, <2>1, <2>4, <3>1, <3>5 DEF SignalTypeOK
    <3> QED BY <3>2, <3>3, <3>4, <3>6
  <2>5. CASE ~(receiver = "waits" /\ signal[s] \in Awaited)
    <3>1. /\ receiver' = IF receiver \in {"starts", "waits"} THEN "killed" ELSE receiver
          /\ UNCHANGED <<pending, accepted>>
      BY <1>3, <2>5 DEF Deliver
    <3>2. SignalTypeOK'
      BY <1>1, <1>3, <2>1, <3>1 DEF SignalTypeOK
    <3>3. EachWaitedOnce' /\ EndsAtOnce'
      BY <1>1, <3>1 DEF EachWaitedOnce, EndsAtOnce
    <3>4. accepted' + Cardinality(ToSend(left')) <= Times * Cardinality(Senders)
      BY <1>1, <2>2, <2>3, <3>1
    <3> QED BY <3>1, <3>2, <3>3, <3>4
  <2> QED BY <2>4, <2>5
<1> QED BY <1>2, <1>3 DEF SendSignal

LEMMA SignalNextInv == SignalInv /\ [SignalNext]_signal_vars => SignalInv'
<1> SUFFICES ASSUME SignalInv, [SignalNext]_signal_vars PROVE SignalInv'
  OBVIOUS
<1>1. CASE Mask
  BY <1>1 DEF Mask, SignalInv, SignalTypeOK, EachWaitedOnce, EndsAtOnce
<1>2. CASE SigWait
  BY <1>2, SigWaitInv
<1>3. ASSUME NEW s \in Senders, Sender(s) PROVE SignalInv'
  <2>1. CASE SendSignal(s)
    BY <2>1, SendInv
  <2>2. CASE SenderEnds(s)
    BY <2>2 DEF SenderEnds, SignalInv, SignalTypeOK, EachWaitedOnce, EndsAtOnce
  <2> QED BY <1>3, <2>1, <2>2 DEF Sender
<1>4. CASE UNCHANGED signal_vars
  BY <1>4 DEF signal_vars, SignalInv, SignalTypeOK, EachWaitedOnce, EndsAtOnce
<1> QED BY <1>1, <1>2, <1>3, <1>4 DEF SignalNext, Receiver

(* For any number of senders and signals: wait_sigint counts each signal   *)
(* that became pending once, whatever is sent again while it is pending,   *)
(* and ends by itself after its last round, at once and not before         *)
(* (wait_sigint.c:26-39).                                                  *)
THEOREM SignalsCounted == SignalSpec => [](SignalTypeOK /\ EachWaitedOnce /\ EndsAtOnce)
<1>1. SignalInv => SignalTypeOK /\ EachWaitedOnce /\ EndsAtOnce
  BY DEF SignalInv
<1> QED BY <1>1, SignalInitInv, SignalNextInv, PTL DEF SignalSpec

HIDE SignalAssumption

(***************************************************************************)
(* The programs side by side, as MCPrograms runs them: a behaviour of the  *)
(* whole is one of each program, so that whatever holds of each holds of   *)
(* the whole.                                                              *)
(***************************************************************************)

LEMMA ProgramSteps ==
  ASSUME [MCNext]_<<program, count_vars, ui_vars, stream_vars, echo_vars, queue_vars, list_vars,
                    pipe_vars, signal_vars, host_vars, archive_vars>>
  PROVE  /\ [CountNext]_count_vars /\ [UINext]_ui_vars /\ [StreamNext]_stream_vars
         /\ [EchoNext]_echo_vars /\ [QueueNext]_queue_vars /\ [ListNext]_list_vars
         /\ [PipeNext]_pipe_vars /\ [SignalNext]_signal_vars /\ [HostNext]_host_vars
         /\ [ArchiveNext]_archive_vars
<1> USE DEF OneProgram, Runs
<1>1. CASE RunLetters
  BY <1>1 DEF RunLetters
<1>2. CASE RunUI
  BY <1>2 DEF RunUI
<1>3. CASE RunStream
  BY <1>3 DEF RunStream
<1>4. CASE RunEcho
  BY <1>4 DEF RunEcho
<1>5. CASE RunQueue
  BY <1>5 DEF RunQueue
<1>6. CASE RunList
  BY <1>6 DEF RunList
<1>7. CASE RunPipe
  BY <1>7 DEF RunPipe
<1>8. CASE RunSignals
  BY <1>8 DEF RunSignals
<1>9. CASE RunHost
  BY <1>9 DEF RunHost
<1>10. CASE RunArchive
  BY <1>10 DEF RunArchive
<1> QED BY <1>1, <1>2, <1>3, <1>4, <1>5, <1>6, <1>7, <1>8, <1>9, <1>10 DEF MCNext

LEMMA ProgramInits ==
  MCInit => /\ CountInit /\ UIInit /\ StreamInit /\ EchoInit /\ QueueInit /\ ListInit
            /\ PipeInit /\ SignalInit /\ HostInit /\ ArchiveInit
BY DEF MCInit

LEMMA EachProgram ==
  MCSpec => /\ CountSpec /\ UISpec /\ StreamSpec /\ EchoSpec /\ QueueSpec /\ ListSpec
            /\ PipeSpec /\ SignalSpec /\ HostSpec /\ ArchiveSpec
<1>1. MCSpec => MCInit /\ [][MCNext]_<<program, count_vars, ui_vars, stream_vars, echo_vars, queue_vars,
                    list_vars, pipe_vars, signal_vars, host_vars, archive_vars>>
  BY PTL DEF MCSpec
<1> QED BY <1>1, ProgramSteps, ProgramInits, PTL
        DEF CountSpec, UISpec, StreamSpec, EchoSpec, QueueSpec, ListSpec, PipeSpec, SignalSpec,
            HostSpec, ArchiveSpec

(* For every value of the constants, every variable of every program keeps *)
(* its type.                                                               *)
THEOREM ProgramTypes == MCSpec => []AllTypesOK
<1>1. UIInv => UITypeOK
  BY DEF UIInv
<1>2. UISpec => []UITypeOK
  BY <1>1, UIInvariant, PTL
<1> QED BY <1>2, EachProgram, CountTypes, StreamTypesKept, EchoTypesKept, QueueTypesKept, ListTypesKept,
        PipeRoundsAnswered, SignalsCounted, HostTypesKept, ArchiveTypesKept, PTL DEF AllTypesOK

(* So does what was proved of each program on its own: the parts of a file *)
(* and its letters, the forms, the bytes of a connection, the echoed       *)
(* lines, the list, the pipes, the signals, the boards and the archive.    *)
THEOREM ProgramsCorrect ==
  MCSpec => /\ [](EveryByteOnce /\ FormsLive /\ ShownWhole /\ OwnLinesBack /\ EachNumberOnce)
            /\ [](RoundsAnswered /\ EachWaitedOnce /\ EndsAtOnce /\ CountsRight /\ MembersPrinted)
            /\ IsFifo
BY EachProgram, EveryLetterCounted, UIFormsLive, StreamShownWhole, EchoOwnLinesBack,
   SequentialQueueIsFifo, UniqueNumbersPrinted, PipeRoundsAnswered, SignalsCounted,
   HostCountsRight, ArchiveMembersPrinted, PTL
=============================================================================
