SPECIFICATION Spec
CONSTANTS
  INODE_BLK_SIZE = 16
  SIGNED_CHAR = TRUE
INVARIANTS
  TypeOK
  BitsExact
PROPERTIES
  PoolImplemented
  PopsLowest
