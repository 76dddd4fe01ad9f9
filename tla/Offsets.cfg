SPECIFICATION FairSpec
CONSTANTS
  Partitions = {p1}
  Brokers = {b1}
  MaxOffset = 1
  Metas = {""}
  MaxMarks = 2
  MaxManage = 1
  AutoCommit = TRUE
  RetryMax = 1
  FetchRetryMax = 1
  ReturnErrors = TRUE
  ErrorsCap = 1
  AppCommitters = {"app"}
  Answers = {"ok", "redispatch", "unknown"}
  Faults = {"coordinator", "net"}
  Overlap = FALSE
  Resets = TRUE
  NoBroker = NoBroker
CHECK_DEADLOCK FALSE
INVARIANTS CleanMeansCommitted
PROPERTIES KeepsContract AllDone
