SPECIFICATION FairSpec
CHECK_DEADLOCK FALSE
CONSTANTS
  NumMessages = 2
  NumSlots = 3
  RetryMax = 1
  MaxFaults = 2
  Faults = {"refused","appended","net","fatal","leader"}
INVARIANTS RetriesStayInside OneCopyInFirstEpoch
PROPERTIES AllAnswered
