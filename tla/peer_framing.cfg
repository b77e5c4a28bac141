CONSTANTS
  Conns = {c1, c2}
  Fds = {f1, f2}
  UI = UI
  NULL = NULL
  MaxMsgs = 1
  Speakers = {UI, c1, c2}
  Closers = {}
SPECIFICATION Spec
INVARIANT WholeMessages
CHECK_DEADLOCK FALSE
