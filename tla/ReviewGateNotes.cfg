CONSTANTS
  f1 = f1
  f2 = f2
  i1 = i1
  pkg = pkg
  sub = sub
  gither = gither
  w1 = w1
  File = {f1, f2, i1}
  Dir = {pkg, sub, gither}
  Holds <- MCHolds
  Renamed <- MCRenamed
  Python = {f1, f2}
  Code <- MCCode
  Original <- MCOriginal
  Tracked = {f1}
  Gone = Gone
  Internal = {i1}
  Slug = {1}
  Writer = {w1}
  Limit = 1
  MaxChanges = 2
  MaxSecond = 1
  None = None
SPECIFICATION Spec
INVARIANTS AuditSound NoteUnblocks ReadyMeansNoted
