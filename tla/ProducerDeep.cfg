SPECIFICATION MCSpec
CONSTANTS
  Chosen = {"base", "levels", "partitions"}
  NumMessages = 2
  NumPartitions = 2
  InTurn = TRUE
  NumBrokers = 1
  NumSlots = 3
  RetryMax = 0
  ChannelBufferSize = 0
  FlushMessages = 0
  FlushFrequency = TRUE
  FlushMaxMessages = 1
  MaxOpenRequests = 1
  Pipelining = TRUE
  Interceptors = TRUE
  SendAfterClose = TRUE
  Faults <- FaultKinds
CHECK_DEADLOCK FALSE
INVARIANTS  DeepInputs
PROPERTIES DeepContract
