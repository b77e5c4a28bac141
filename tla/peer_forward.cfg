CONSTANTS
  Conns = {c1, c2, c3}
  Fds = {f1, f2}
  UI = UI
  NULL = NULL
  MaxMsgs = 1
  Speakers = {UI, c1}
  Closers = {c1, c2}
SPECIFICATION FairSpec
INVARIANTS ListedWhileServed PartsInOrder
PROPERTY Forwarded
CHECK_DEADLOCK FALSE
