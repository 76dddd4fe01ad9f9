SPECIFICATION MCFairSpec
CONSTANTS
  Chosen = {"base"}
  NumMessages = 2
  NumPartitions = 1
  InTurn = TRUE
  NumBrokers = 1
  NumSlots = 3
  RetryMax = 1
  ChannelBufferSize = 0
  FlushMessages = 0
  FlushFrequency = FALSE
  FlushMaxMessages = 0
  MaxOpenRequests = 1
  Pipelining = FALSE
  Interceptors = FALSE
  SendAfterClose = FALSE
  Faults = {"retriable", "leader"}
CHECK_DEADLOCK FALSE
INVARIANTS WatermarkGate Bookkeeping 
PROPERTIES KeepsContract AllDone
