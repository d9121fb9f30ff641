SPECIFICATION FairSpec
CONSTANTS
  NPROC = 2
  NCPU = 2
  QUANTUM = 2
  KillPids = {2}
  MaxSleep = 1
  MaxPid = 3
  TickCap = 2
INVARIANT QuantumRespected
PROPERTY LowQueueServed
