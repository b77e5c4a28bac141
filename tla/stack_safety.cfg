CONSTANTS
  Threads = {t1, t2}
  Values = {7, 8}
  Nodes = {n1, n2, n3}
  NULL = NULL
  Unlocked = Unlocked
  MaxCalls = 3
SPECIFICATION Spec
SYMMETRY Symmetry
INVARIANTS MemorySafe NoLeak BalancedPopsSucceed
PROPERTY Linearizable
