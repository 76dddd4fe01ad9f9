SPECIFICATION MCSpec
CONSTANTS
  Chosen = {"base", "pipeline", "async"}
  Callers = {c1, c2}
  Ops = {"open", "async", "close"}
  MaxOps = 2
  MaxOpens = 1
  MaxOpenRequests = 2
  MaxRequests = 12
  MaxTimers = 0
  Throttles = {}
  Sasls = {"v0", "v1"}
  Mechanisms = {"PLAIN", "SCRAM", "OAUTHBEARER", "GSSAPI"}
  Lifetimes = {"PLAIN"}
  ApiVersions = TRUE
  Faults = {"sasl", "break", "encode"}
CHECK_DEADLOCK FALSE
 
PROPERTIES AuthFirst
