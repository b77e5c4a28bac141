CONSTANTS
  Threads = {t1, t2}
  Values = {7}
  Nodes = {n1, n2, n3}
  NULL = NULL
  Unlocked = Unlocked
  MaxCalls = 3
SPECIFICATION Spec
INVARIANT PopNeverFaults
