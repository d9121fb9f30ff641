SPECIFICATION Spec
CONSTANTS
  NINODES = 16
  NBLOCKS = 24
  BSIZE = 4
  NDIRECT = 2
  NINDIRECT = 2
  DIRSIZ = 14
  NINODE = 7
  NFILE = 6
  NOFILE = 6
  NPROC = 5
  PIPESIZE = 3
  CHUNK = 4
  PGSIZE = 4
  NPAGES = 46
  KERNBASE = 64
  NPTENTRIES = 4
  KPTS = 1
  WORD = 128
  Image <- Files0
  Program <- Programs
  Tests = {"linkdot"}
INVARIANT NoLockCycle
CHECK_DEADLOCK FALSE
