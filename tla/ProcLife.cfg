SPECIFICATION LifeSpec
CONSTANTS
  NPROC = 3
  NCPU = 2
  QUANTUM = 1
  KillPids = {0, 2}
  MaxSleep = 1
  MaxPid = 3
  TickCap = 0
INVARIANTS
  ProcInv
  ProcessorExclusion
  ParentAlive
  NoLostExit
  NoLostKill
  NoLostTick
PROPERTY RoundRobin
