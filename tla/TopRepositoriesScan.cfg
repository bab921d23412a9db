CONSTANTS
  Repo = {1, 2, 3}
  MaxStars = 3
  Limit = 2
  Summary = 1
  PerPage = 1
  Pages = 2
  BatchSize = 1
  MaxChanges = 1
  MaxRuns = 2
  MaxKills = 1
  None = None
  Blank = Blank
SPECIFICATION Spec
CHECK_DEADLOCK FALSE
INVARIANTS TypeOK TopComplete ReportRanked ReportEnriched
PROPERTIES CachesGrow EveryRunEnds
