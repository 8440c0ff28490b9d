SPECIFICATION Spec
CONSTANTS
  MAX_BLOCK_NUM = 4
  Threads = {t1}
  DataWords = {0, 3}
INVARIANTS
  DiskListExact
PROPERTIES
  CallsImplemented
  PopsDistinct
