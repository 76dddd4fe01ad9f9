SPECIFICATION MCSpec
CONSTANTS
  p1 = p1
  p2 = p2
  b1 = b1
  k1 = k1
  k2 = k2
  n1 = n1
  n2 = n2
  NoBroker = NoBroker
  Members = {m1, m2}
  Partitions = {q1}
  LogEnd = 1
  MaxRetries = 1
  RequireId = FALSE
  Closers = {m1}
  Faults = {"exit", "claim", "leave"}
  MaxFaults = 1
CHECK_DEADLOCK FALSE
SYMMETRY ChildSymmetry
INVARIANTS ClaimsExclusive  NoSendOnClosed
PROPERTIES KeepsContract
