CONSTANTS
  Peers = {p1, p2, p3}
  p1 = p1
  p2 = p2
  p3 = p3
  Contacts <- Star
  Parts = 2
  MaxSays = 2
  Talkers = {p1, p2}
  Capacity = 1
  Leavers = {p1}
SPECIFICATION FairSpec
INVARIANTS ShownInOrder ShownWasTyped
PROPERTIES PassesWholeMessages Delivered LeaversForgotten
CHECK_DEADLOCK FALSE
