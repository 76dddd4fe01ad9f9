SPECIFICATION MCSpec
CONSTANTS
  Callers = {"g1"}
  Ops = {"writable", "refreshBrokers"}
  Topics = {"t"}
  SeedAddrs = {"a", "b"}
  Clusters <- CacheClusters
  RetryMax = 1
  Full = TRUE
  Refreshing = TRUE
  Timeout = FALSE
  PoliteClose = TRUE
  MaxCalls = 1
  MaxChanges = 1
  MaxFaults = 0
CHECK_DEADLOCK FALSE
INVARIANTS CacheFollows  
