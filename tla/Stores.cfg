SPECIFICATION StoresSpec
CONSTANTS
  NPAGE = 3
  NLOW = 2
  NCPU = 2
  Words = {0, 1, 4096}
  TreePages = 6
  TreeLow = 2
  POOL = 11
  Sector = {s1, s2, s3}
  Bytes = {0, 1}
  User = {u1, u2}
  NBUF = 2
  MAXPIN = 1
  Zero = 0
  Nil = Nil
  Block = {b1, b2}
  Val = {0, 1}
  Proc = {p1, p2, p3}
  LOGSIZE = 6
  MAXOPBLOCKS = 3
  NLOG = 6
  OPBLOCKS = 1
  None = None
INVARIANTS
  FreeListExact
  TreeServesBest
  NotStolen
  NoLostWakeup
  BioInv
  NoLogPanic
  QuietIsDurable
  LogInv
  NoIdleSleeper
PROPERTIES
  SameAsOriginal
  Promised
  Stored
  Atomic
