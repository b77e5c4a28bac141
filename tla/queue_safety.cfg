CONSTANTS
  Threads = {t1, t2}
  Values = {7, 8}
  Nodes = {n1, n2, n3, n4}
  NULL = NULL
  Unlocked = Unlocked
  MaxCalls = 2
SPECIFICATION FairSpec
INVARIANTS NeverFaults TailIsLast
PROPERTIES Linearizable CallsReturn
