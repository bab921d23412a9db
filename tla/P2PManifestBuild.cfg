CONSTANTS
  ra = ra
  rb = rb
  main = main
  dev = dev
  Repo = {ra, rb}
  Entry <- TwoEntries
  Branch = {main, dev}
  Detached = Detached
  MaxCommits = 2
  MaxMoves = 2
  MaxRuns = 2
  MaxKills = 1
  None = None
  Blank = Blank
  Other = Other
SPECIFICATION Spec
CHECK_DEADLOCK FALSE
INVARIANTS BuiltVerifies AlterationLocated
PROPERTIES IntactListed HeadReachable
