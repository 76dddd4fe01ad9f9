SPECIFICATION CallsSpec
CHECK_DEADLOCK FALSE
CONSTANTS
  m1 = m1
  m2 = m2
  g1 = g1
  g2 = g2
  b1 = b1
  b2 = b2
  nobody = nobody
  Messages = {m1, m2}
  Partitions = {1, 2}
  Callers = {a, b}
  Batches <- Lists
INVARIANTS ResultsExact AnswersReach AdminTellsTruth
PROPERTIES EveryCallReturns
