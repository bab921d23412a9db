CONSTANTS
  q1 = q1
  q2 = q2
  s1 = s1
  Process = {q1, q2}
  Command = {"peer", "rad-id --name"}
  Stranger = {s1}
  Serial = FALSE
  MaxKeys = 2
  MaxRuns = 2
  MaxKills = 0
  None = None
  Absent = Absent
  Blank = Blank
  Garbled = Garbled
SPECIFICATION Spec
CHECK_DEADLOCK FALSE
INVARIANT OneIdentity
