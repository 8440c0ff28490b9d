SPECIFICATION Spec
CONSTANTS
  MAX_BLOCK_NUM = 1040
INVARIANTS
  AssertsHold
PROPERTIES
  TestsEnd
CHECK_DEADLOCK FALSE
