CONSTANTS
  Unset = Unset
  Missing = Missing
  Q = 109
  D = 11
  BaseY = 54
  L = 13
  KeyBits = 8
  KeyLen = 1
  Hash <- MCHash
  Seed = {0, 1, 2, 3, 4, 5, 7}
  Message = {10, 11, 12}
  Name = {0, 1, 2, 3, 4}
  Repository = 99
  Readme = 98
  Catalogue <- MCCatalogue
  Dir = {"top", "a", "b", "a/c", "b/c", "b/dist"}
  Root = "top"
  Parent <- MCParent
  NameOf <- MCNameOf
  Skipped = {4}
  Request <- MCRequest
  Limit = {1, 2}
  MaxChanges = 2
  Author = {1, 2, 3}
  Fold <- MCFold
  RawRecord <- MCRawRecord
  MaxRecords = 3
SPECIFICATION SessionSpec
CHECK_DEADLOCK FALSE
INVARIANTS GenuineAccepted AlteredRefused OneNodeId DiscoveredExactly OrderOfNoAccount OrderFree
PROPERTIES ScoresOnlyGrow
