\* One child and two brokers: a mixed log, every failure, pauses, closing.
SPECIFICATION FairSpec
CONSTANTS
  k1 = k1
  Children = {k1}
  Brokers = {n1, n2}
  Workers = {1, 2, 3}
  Log <- ChildLog
  Aborted <- ChildAborted
  StartAt <- ChildStart
  ReadCommitted = TRUE
  FetchDefault = 1
  FetchMax = 0
  Width = 3
  MessagesCap = 1
  Faults = {"net", "other", "range", "missing", "move", "dispatch", "replica", "slow"}
  MaxFaults = 1
  Pauses = TRUE
  Closing = {"AsyncClose", "Close"}
CHECK_DEADLOCK FALSE
INVARIANTS ReadsExactly
PROPERTIES AllDone
