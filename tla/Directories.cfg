SPECIFICATION Spec
CONSTANTS
  DIRECT = 2
  PER_PAGE = 1
  LV1 = 1
  LV2 = 1
  FAN = 3
  Spare = 1
  Nodes = {2, 3}
  Inodes = {4, 5, 6, 7}
  Names = {a, b, c}
  NamesOf <- MCNamesOf
  Few = {a}
  Dot = Dot
  DotDot = DotDot
  Blank = Blank
SYMMETRY Interchangeable
INVARIANTS
  TypeOK
  PagesOwned
  NlinkCounts
  AccessorsAgree
PROPERTIES
  DirectoriesImplemented
