SPECIFICATION Spec
CONSTANTS
  NPROC = 3
  NCPU = 1
  QUANTUM = 1
  KillPids = {}
  MaxSleep = 0
  MaxPid = 3
  TickCap = 0
PROPERTY LowOnlyWhenHighEmpty
