SPECIFICATION Spec
CONSTANTS
  MAX_BLOCK_NUM = 4
  INODE_BLK_SIZE = 1
  BLOCK_SIZE = 2
  DIRECT = 1
  PER_PAGE = 1
  FENTRY_MAX_SIZE = 2
  Names = {x, y}
  Data = {7, 8}
  MaxRequest = 3
  OutOfOrder = {"oversize"}
SYMMETRY Interchangeable
INVARIANTS
  ReadsExact

  
