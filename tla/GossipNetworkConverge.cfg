CONSTANTS
  p1 = p1
  r1 = r1
  r2 = r2
  x = x
  y = y
  dA = dA
  dB = dB
  Publisher = {p1}
  Receiver = {r1, r2}
  RepoId = {x, y}
  Digest = {dA, dB}
  Nothing = Nothing
  MaxClock = 1
  MaxPublished = 2
  MaxRestarts = 1
SPECIFICATION NSpec
SYMMETRY Symmetry
INVARIANTS Agreement LatestWins SeederHasRefs
