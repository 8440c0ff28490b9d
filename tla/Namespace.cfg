SPECIFICATION Spec
CONSTANTS
  Dot = Dot
  DotDot = DotDot
  Block = Block
  ROOT = 2
  DIRECT = 3
  PER_PAGE = 1
  LAST = 6
  Names = {a, b}
  Sizes = {1, 4}
SYMMETRY Interchangeable
INVARIANTS
  TypeOK
  
  

  
  
  
  
