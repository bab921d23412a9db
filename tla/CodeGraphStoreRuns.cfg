CONSTANTS
  a = a
  b = b
  m = m
  k = k
  File = {a, b}
  Name = {m, k}
  Contents <- MCContents
  MaxEdits = 2
  MaxTime = 1
  MaxRuns = 2
  MaxKills = 1
  None = None
  Blank = Blank
SPECIFICATION Spec
CHECK_DEADLOCK FALSE
INVARIANTS ReuseSound
PROPERTY PrintedExact
