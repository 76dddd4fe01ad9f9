SPECIFICATION MCSpec
CONSTANTS
  m1 = m1
  m2 = m2
  Msgs = {m1, m2}
  Partitions = {"p1", "p2"}
  PartitionOf <- OwnPartition
  Groups = {"g"}
  Supports = TRUE
  TxnRetryMax = 1
  RetryMax = 1
  MaxTxns = 2
  MaxEnds = 2
  Faults = {"net", "lostanswer", "retriable", "denied", "groupdenied", "mapping", "fatal", "timeout", "produce"}
  Overlap = TRUE
  AbortInFlight = FALSE
CHECK_DEADLOCK FALSE
INVARIANTS RecordsCounted OutcomeAgreesInitialized
PROPERTIES ErrorsLeaveByAbort FinishReturns
