SPECIFICATION Spec
CONSTANTS
  NPAGE = 4
  NLOW = 2
  POOL = 3
INVARIANT FreedIsInTree
