CONSTANTS
  ada = ada
  bash = bash
  c1 = c1
  c2 = c2
  Title = {1, 2}
  Language = {ada, bash}
  Code = {c1, c2}
  Splitting = {c2}
  Texts <- MCTexts
  Limits = {0, 1}
  PageSize = 1
  MaxEdits = 1
  MaxRuns = 2
  MaxKills = 1
  None = None
  Torn = Torn
SPECIFICATION Spec
CHECK_DEADLOCK FALSE
INVARIANTS ListingComplete FailuresSkipped CorpusMatchesBridges
