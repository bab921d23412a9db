CONSTANTS
  c1 = c1
  c2 = c2
  Client = {c1, c2}
  Foreign = {c2}
  NoClient = NoClient
  Header = 2
  MaxBody = 3
  Lengths = {1, 3, 4}
  Capacity = 2
  Backlog = 1
SPECIFICATION FairSpec
CHECK_DEADLOCK FALSE
INVARIANTS ReplyMeansIngested WholeFrames QuietExchangeSucceeds
PROPERTIES AllEnd ImplementsOneShot
