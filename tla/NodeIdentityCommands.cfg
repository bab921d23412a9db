CONSTANTS
  q1 = q1
  q2 = q2
  s1 = s1
  Process = {q1, q2}
  Command <- All
  Stranger = {s1}
  Serial = TRUE
  MaxKeys = 3
  MaxRuns = 3
  MaxKills = 2
  None = None
  Absent = Absent
  Blank = Blank
  Garbled = Garbled
SPECIFICATION Spec
CHECK_DEADLOCK FALSE
INVARIANTS OneIdentity KeyHeld
