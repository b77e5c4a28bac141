CONSTANTS
  Chunks = {c1, c2, c3}
  Frames = {f1, f2, f3, f4}
  Offsets = {o1, o2}
  Values = {0, 1}
  NONE = NONE
SPECIFICATION FairSpec
INVARIANT SharedIsReadOnly
PROPERTIES CopiesLikeEager WritesComplete
