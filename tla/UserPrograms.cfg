SPECIFICATION SpaceSpec
CONSTANTS
  NINODES = 16
  NBLOCKS = 24
  BSIZE = 4
  NDIRECT = 2
  NINDIRECT = 2
  DIRSIZ = 14
  NINODE = 7
  NFILE = 6
  NOFILE = 6
  NPROC = 5
  PIPESIZE = 3
  CHUNK = 4
  PGSIZE = 4
  NPAGES = 46
  KERNBASE = 64
  NPTENTRIES = 4
  KPTS = 1
  WORD = 128
  Image <- Files0
  Program <- Programs
  Tests <- SuiteNames
  NALLOC = 3
  TOP = 11
  Sizes = {2, 3, 4}
  MAXARGS = 3
  GREPBUF = 4
  WCBUF = 2
  NAMELEN = 2
  INTS = 256
  MAXLINE = 5
  MAXRE = 3
  MAXTEXT = 5
  MAXPATH = 5
INVARIANTS
  NoPanic
  ProgramsPass
  RefsExact
  DiskConsistent
  PagesExact
  LockOrder
  HeapExact
  ParsesRight
  FiltersRight
  TextRight
