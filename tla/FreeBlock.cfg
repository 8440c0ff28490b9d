SPECIFICATION Spec
CONSTANTS
  MAX_BLOCK_NUM = 5
  DataWords = {0, 3, 9}
INVARIANTS
  TypeOK
  FreeListExact
  CountExact
PROPERTIES
  PoolImplemented
