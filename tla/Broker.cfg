SPECIFICATION MCLiveSpec
CONSTANTS
  Chosen = {"base"}
  Callers = {c1, c2}
  Ops = {"open", "async", "call", "noacks", "close"}
  MaxOps = 2
  MaxOpens = 2
  MaxOpenRequests = 1
  MaxRequests = 4
  MaxTimers = 2
  Throttles = {"call"}
  Sasls = {"off"}
  Mechanisms = {"PLAIN"}
  Lifetimes = {}
  ApiVersions = FALSE
  Faults = {"slow", "break", "dial", "stray"}
CHECK_DEADLOCK FALSE
INVARIANTS Bookkeeping
PROPERTIES AllDone
