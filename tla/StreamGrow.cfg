SPECIFICATION Spec
CONSTANTS
  MAX_BLOCK_NUM = 5
  INODE_BLK_SIZE = 1
  BLOCK_SIZE = 2
  DIRECT = 2
  PER_PAGE = 1
  FENTRY_MAX_SIZE = 3
  Names = {x, y}
  Data = {7}
  MaxRequest = 3
  OutOfOrder = {"grow"}
SYMMETRY Interchangeable
INVARIANTS
  NoTableBlocks
