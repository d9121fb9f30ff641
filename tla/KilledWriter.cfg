SPECIFICATION Spec
CONSTANTS
  Proc = {p1, p2}
  Page = {g1}
  NFILE = 3
  PIPESIZE = 2
  COUNT = 4
  Byte = {"x", "y"}
  Message <- Messages
  IoSize = {2}
  Reader = {p1, p2}
  INPUT_BUF = 3
  ICOUNT = 6
  Key <- Keys
  ReadSize = {2}
  Cpu = {c1, c2}
  Task = {p1, p2}
  NLOCK = 2
SYMMETRY Symmetry
INVARIANT ReaderSleepsOnEmpty
CHECK_DEADLOCK FALSE
