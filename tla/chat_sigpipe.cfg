CONSTANTS
  Peers = {p1, p2, p3}
  p1 = p1
  p2 = p2
  p3 = p3
  Contacts <- Star
  Parts = 2
  MaxSays = 1
  Talkers = {p1, p2}
  Capacity = 1
  Leavers = {p1}
SPECIFICATION Spec
INVARIANT OthersSurvive
CHECK_DEADLOCK FALSE
