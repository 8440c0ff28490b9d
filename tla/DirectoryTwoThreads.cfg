SPECIFICATION Spec
CONSTANTS
  DIRECT = 4
  Nodes = {4, 5}
  Names = {a, b}
  Dot = Dot
  DotDot = DotDot
  Blank = Blank
  Threads = {t1, t2}
INVARIANTS
  AppendsKept
