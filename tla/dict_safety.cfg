CONSTANTS
  AA = AA
  AB = AB
  S = S
  t1 = t1
  t2 = t2
  Threads = {t1, t2}
  Keys <- TestKeys
  Values = {7, 8}
  CHARS = 2
  Bucket <- FirstChar
  Nodes = {n1, n2, n3}
  NULL = NULL
  MaxCalls = 3
  Writers <- OwnKeys
  Removable = {S}
SPECIFICATION Spec
SYMMETRY Symmetry
INVARIANT WellFormed
PROPERTIES LostOnlyByRemoval Linearizable
CHECK_DEADLOCK FALSE
