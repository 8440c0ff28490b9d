SPECIFICATION Spec
CONSTANTS
  MAX_BLOCK_NUM = 4
  Threads = {t1, t2}
  DataWords = {0}
PROPERTIES
  PopsDistinct
