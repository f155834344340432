SPECIFICATION FairSpec
CONSTANTS
  Cells = {c1, c2}
  Values = {v0, v1}
  Settle = 2
  Boot = 3
  CutShort = FALSE
INVARIANTS NothingForgotten
PROPERTIES DoneIsOwn EventuallySaved
