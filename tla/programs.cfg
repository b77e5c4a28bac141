CONSTANTS
  num_threads = 2
  NumLetters = 2
  MaxSize = 8
  NOLETTER = NOLETTER
  Files <- MCFiles
  Batch = 2
  IntRange = 16
  UIThread = ui_thread
  Receivers = {r1, r2}
  NOBODY = NOBODY
  UserLengths = {1}
  MessageLengths = {1, 2}
  MaxMessages = 2
  UNSET = UNSET
  Clients = {c1, c2}
  Descriptors = {f1, f2}
  NONE = NONE
  MaxLines = 2
  Numbers = {v1, v2}
  Nodes = {n1, n2, n3}
  NULL = NULL
  Inputs = {i1, i2, i3}
  MaxInputs = 5
  GARBAGE = GARBAGE
  Rounds = 3
  Senders = {s1, s2}
  Known = {SIGINT, SIGUSR1}
  Awaited = {SIGINT}
  IMPROPER = IMPROPER
  Times = 3
  Waits = 2
  BATCH_SIZE = 2
  MaxInputLines = 4
  GpuBoards = 3
  MaxMembers = 3
  MemberSizes = {1, 2, 70, 100}
  MaxInt = 194
  TenDigits = 110
  StackRoom = 100
SPECIFICATION MCSpec
INVARIANTS AllTypesOK EveryByteOnce FormsLive ShownWhole OwnLinesBack EachNumberOnce
           CountsRight MembersPrinted
PROPERTIES CountsPrinted QuitEnds LinesAnswered IsFifo NobodyWaits EnoughSignalsEnd
