SPECIFICATION MCSpec
CONSTANTS
  Half = 4
  Keys = {"k1"}
  MaxTopicPartitions = 3
  Kinds = {"manual", "random", "roundRobin", "hash", "referenceHash", "crcHash"}
  MaxMessages = 4
  Members = {1, 2, 3}
  Topics = {1, 2}
  MaxPartitions = 3
  MaxListed = 2
  Group = {1, 2, 3}
  Subscribable = {1, 2}
  Known <- Four
  Generations <- AnyGeneration
CHECK_DEADLOCK FALSE
INVARIANTS NeverInvalid SharedOut StickyPlanGood CallsUnderstood
PROPERTIES PlansReturn
