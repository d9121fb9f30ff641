------------------------------ MODULE FileSys ------------------------------
(***************************************************************************)
(* The system calls of xv6 on files, directories, pipes, processes and the *)
(* memory of a process, as programs see them: fs.c, file.c, sysfile.c and  *)
(* what they need of pipe.c, proc.c, sysproc.c and exec.c.                 *)
(*                                                                         *)
(* A process runs Program[prog] one instruction at a time.  A system call  *)
(* is a step for each stretch during which it holds the same inode locks,  *)
(* so that the calls of two processes interleave wherever the code takes   *)
(* or lets go of one.  A lock that is still held when a step ends is in    *)
(* ic[i].lock; acquiresleep() is a guard.  iput() takes the lock of its    *)
(* inode, lets go of it and counts down afterwards: it is two steps of its *)
(* own, wherever a call makes it (sc.put).  Each step runs inside the      *)
(* transaction of its call, which module Log makes atomic, on blocks that  *)
(* module Bio keeps coherent.                                              *)
(*                                                                         *)
(* A block holds BSIZE units, and a unit is a pair <<number, text>>: a     *)
(* directory entry, a letter of a file (any number), or an entry of an     *)
(* indirect block (no text).  Sizes and offsets count units.               *)
(***************************************************************************)
EXTENDS Vm

CONSTANTS NINODES,    \* inodes on the disk, numbered from 1
          NBLOCKS,    \* data blocks on the disk
          BSIZE,      \* units in a block
          NDIRECT,    \* blocks an inode names itself
          NINDIRECT,  \* blocks its indirect block names
          DIRSIZ,     \* longest name of a directory entry
          NINODE,     \* inodes the cache can hold
          NFILE,      \* open files in the system
          NOFILE,     \* open files of a process
          NPROC,      \* processes
          PIPESIZE,   \* units a pipe holds
          CHUNK,      \* units one transaction of write() may carry
          NPAGES,     \* pages of physical memory
          Image,      \* the files mkfs puts into the root directory
          Program,    \* from the name of a program to its instructions
          Tests       \* the programs that may be run

ASSUME SizesAssumption ==
  /\ {NINODES, NBLOCKS, BSIZE, NDIRECT, NINDIRECT, DIRSIZ, NINODE, NFILE, NOFILE,
      NPROC, PIPESIZE, CHUNK, NPAGES} \subseteq Nat \ {0}
  /\ NPROC >= 2

VARIABLES fs,      \* the disk and the inode cache
          ftable,  \* the open files of the system
          pipes,   \* the pipes in use
          pages,   \* free pages of memory
          proc,    \* the processes
          failed   \* has an instruction not done what its program expects?

vars == <<fs, ftable, pipes, pages, proc, failed>>

Inums  == 1..NINODES
Blocks == 1..NBLOCKS
Procs  == 1..NPROC
Files  == 1..NFILE
Fds    == 0..(NOFILE - 1)
Pipes  == 1..(NFILE + NPROC)   \* more than can be open, or being closed, at once

ROOTINO == 1
MAXFILE == NDIRECT + NINDIRECT
Zero    == <<0, "">>
ZeroBlock == [u \in 0..(BSIZE - 1) |-> Zero]
NoInode == [type |-> "free", major |-> 0, nlink |-> 0, size |-> 0,
            addrs |-> [n \in 0..NDIRECT |-> 0]]
NotCached == [ref |-> 0, lock |-> 0, valid |-> FALSE, ip |-> NoInode]

-----------------------------------------------------------------------------
(* Blocks.  d is always a file system: [blk, used, din, ic, panic].        *)

Panic(d) == [d EXCEPT !.panic = TRUE]

\* The lowest free block, marked in use and zeroed.
balloc(d) ==
  IF d.used = Blocks THEN [d |-> Panic(d), b |-> 1]
  ELSE LET b == Min(Blocks \ d.used)
       IN  [d |-> [d EXCEPT !.used = @ \cup {b}, !.blk[b] = ZeroBlock], b |-> b]

bfree(d, b) == IF b \in d.used THEN [d EXCEPT !.used = @ \ {b}] ELSE Panic(d)

-----------------------------------------------------------------------------
(* Inodes.  The cache is indexed by inode number: an entry with ref = 0 is *)
(* a slot that iget() may recycle, and it always reads the disk again.     *)

iupdate(d, i) == [d EXCEPT !.din[i] = d.ic[i].ip]

Cached(d) == {i \in Inums : d.ic[i].ref > 0}

\* No entry of a directory has a number that is no inode of the disk; if one had,
\* the read of its block would end in a panic.
iget(d, i) ==
  IF i \notin Inums THEN Panic(d)
  ELSE IF d.ic[i].ref > 0 THEN [d EXCEPT !.ic[i].ref = @ + 1]
  ELSE IF Cardinality(Cached(d)) = NINODE THEN Panic(d)
  ELSE [d EXCEPT !.ic[i] = [NotCached EXCEPT !.ref = 1]]

idup(d, i) == [d EXCEPT !.ic[i].ref = @ + 1]

\* What ilock() does once it has the lock: read the inode unless it is valid.
ilock(d, i) ==
  IF d.ic[i].ref < 1 THEN Panic(d)
  ELSE IF d.ic[i].valid THEN d
  ELSE IF d.din[i].type = "free" THEN Panic(d)
  ELSE [d EXCEPT !.ic[i].valid = TRUE, !.ic[i].ip = d.din[i]]

\* The lowest inode whose type on the disk is zero.
ialloc(d, type) ==
  LET free == {i \in Inums : d.din[i].type = "free"}
  IN  IF free = {} THEN [d |-> Panic(d), i |-> ROOTINO]
      ELSE LET i == Min(free)
           IN [d |-> iget([d EXCEPT !.din[i] = [NoInode EXCEPT !.type = type]], i), i |-> i]

\* The blocks an indirect block names.
Named(d, b) == {d.blk[b][n][1] : n \in 0..(NINDIRECT - 1)} \ {0}

\* All the blocks of an inode.
BlocksOf(d, ip) ==
  LET direct == {ip.addrs[n] : n \in 0..NDIRECT} \ {0}
  IN  direct \cup (IF ip.addrs[NDIRECT] = 0 THEN {} ELSE Named(d, ip.addrs[NDIRECT]))

MutItrunc(d, i) ==
  LET gone == {d.ic[i].ip.addrs[n] : n \in 0..NDIRECT} \ {0}
      e == [d EXCEPT !.ic[i].ip.addrs = NoInode.addrs, !.ic[i].ip.size = 0]
  IN  iupdate([e EXCEPT !.used = @ \ gone, !.panic = @ \/ ~(gone \subseteq d.used)], i)

\* Free the direct blocks, the blocks the indirect block names, and that block.
itrunc(d, i) ==
  LET gone == BlocksOf(d, d.ic[i].ip)
      e == [d EXCEPT !.ic[i].ip.addrs = NoInode.addrs, !.ic[i].ip.size = 0]
  IN  iupdate([e EXCEPT !.used = @ \ gone, !.panic = @ \/ ~(gone \subseteq d.used)], i)

MutReleased(d, i) ==
  LET e == d.ic[i]
  IN  IF e.valid /\ e.ip.nlink = 0
      THEN [iupdate([itrunc(d, i) EXCEPT !.ic[i].ip.type = "free"], i) EXCEPT !.ic[i].valid = FALSE]
      ELSE d

\* What iput() does while it has the lock: free an inode without links if there is
\* no other reference to it.
Released(d, i) ==
  LET e == d.ic[i]
  IN  IF e.valid /\ e.ip.nlink = 0 /\ e.ref = 1
      THEN [iupdate([itrunc(d, i) EXCEPT !.ic[i].ip.type = "free"], i) EXCEPT !.ic[i].valid = FALSE]
      ELSE d

\* What it does afterwards.
Dropped(d, i) ==
  LET e == d.ic[i]
  IN  [d EXCEPT !.ic[i] = IF e.ref = 1 THEN NotCached ELSE [e EXCEPT !.ref = @ - 1]]

\* The block number of block bn of inode i, allocated if there is none.
bmap(d, i, bn) ==
  LET Fill(e, n) ==   \* addrs[n], allocated if zero
        IF e.ic[i].ip.addrs[n] # 0 THEN [d |-> e, b |-> e.ic[i].ip.addrs[n]]
        ELSE LET a == balloc(e)
             IN  [d |-> [a.d EXCEPT !.ic[i].ip.addrs[n] = a.b], b |-> a.b]
  IN  IF bn < NDIRECT THEN Fill(d, bn)
      ELSE LET ind == Fill(d, NDIRECT)
               b == ind.d.blk[ind.b][bn - NDIRECT][1]
           IN  IF b # 0 THEN [d |-> ind.d, b |-> b]
               ELSE LET a == balloc(ind.d)
                    IN  [d |-> [a.d EXCEPT !.blk[ind.b][bn - NDIRECT] = <<a.b, "">>], b |-> a.b]

\* What bmap() finds for a read.  No file has a hole, because writei() refuses to
\* start past the end: a read never allocates a block.  (The one hole there can be
\* is in the root directory, when the entries that mkfs makes fill whole blocks;
\* Image is not of such a length.)
BlockAt(d, ip, bn) == IF bn < NDIRECT THEN ip.addrs[bn]
                      ELSE d.blk[ip.addrs[NDIRECT]][bn - NDIRECT][1]

\* Unit number off of inode i.
UnitAt(d, i, off) == d.blk[BlockAt(d, d.ic[i].ip, off \div BSIZE)][off % BSIZE]

\* Up to n units from off; reading a device finds the end of its input.
readi(d, i, off, n) ==
  LET ip == d.ic[i].ip
      m == Min({n, ip.size - off})
  IN  IF ip.type = "dev" THEN IF ip.major = 1 THEN <<>> ELSE <<Zero>>
      ELSE [u \in 1..m |-> UnitAt(d, i, off + u - 1)]
ReadFails(d, i, off) == IF d.ic[i].ip.type = "dev" THEN d.ic[i].ip.major # 1
                        ELSE off > d.ic[i].ip.size

\* The loop of writei(), unit by unit.
Copied(d, i, off, src) ==
  LET Put(e, u) == LET m == bmap(e, i, (off + u - 1) \div BSIZE)
                   IN  [m.d EXCEPT !.blk[m.b][(off + u - 1) % BSIZE] = src[u]]
  IN  FoldLeftDomain(Put, d, src)

\* d with the blocks that were written, the last unit being end - 1: of the cache only
\* the inode that is written to changes.
Stored(d, all, i, end) ==
  LET w == [d EXCEPT !.blk = all.blk, !.used = all.used, !.ic[i].ip = all.ic[i].ip,
                     !.panic = @ \/ all.panic]
  IN  IF end > d.ic[i].ip.size THEN iupdate([w EXCEPT !.ic[i].ip.size = end], i) ELSE w

\* Write src at off: [d, r], r the number of units written or -1.
writei(d, i, off, src) ==
  LET ip == d.ic[i].ip
      end == off + Len(src)
  IN  IF ip.type = "dev" THEN [d |-> d, r |-> IF ip.major = 1 THEN Len(src) ELSE -1]
      ELSE IF off > ip.size \/ end > MAXFILE * BSIZE THEN [d |-> d, r |-> -1]
      ELSE [d |-> Stored(d, Copied(d, i, off, src), i, end), r |-> Len(src)]

-----------------------------------------------------------------------------
(* Directories and paths.                                                  *)

Entries(d, i) == [o \in 0..(d.ic[i].ip.size - 1) |-> UnitAt(d, i, o)]

\* The offset of the entry for name, or -1.
LookOff(d, i, name) ==
  LET es == Entries(d, i)
      at == {o \in DOMAIN es : es[o][1] # 0 /\ es[o][2] = name}
  IN  IF at = {} THEN -1 ELSE Min(at)

\* The inode of the entry for name, or 0; iget() of it is up to the caller.
dirlookup(d, i, name) ==
  LET o == LookOff(d, i, name) IN IF o = -1 THEN 0 ELSE UnitAt(d, i, o)[1]

\* The first empty slot, or the end.
EntryOff(d, i) ==
  LET es == Entries(d, i)
      empty == {o \in DOMAIN es : es[o][1] = 0}
  IN  IF empty = {} THEN d.ic[i].ip.size ELSE Min(empty)

\* Write the entry there, unless there is one with this name.
dirlink(d, i, name, inum) ==
  IF dirlookup(d, i, name) # 0 THEN [d |-> d, r |-> -1]
  ELSE LET w == writei(d, i, EntryOff(d, i), <<<<inum, name>>>>)
       IN  [d |-> IF w.r = 1 THEN w.d ELSE Panic(d), r |-> 0]

MutIsdirempty(d, i) == LET es == Entries(d, i) IN \A o \in DOMAIN es : o > 2 => es[o][1] = 0

\* Only the entries . and .. are left.
isdirempty(d, i) == LET es == Entries(d, i) IN \A o \in DOMAIN es : o >= 2 => es[o][1] = 0

\* A path is the sequence of its elements, the first one "/" if it is absolute;
\* skipelem() keeps the first DIRSIZ characters of an element.
skipelem(elem) == IF Len(elem) > DIRSIZ THEN SubSeq(elem, 1, DIRSIZ) ELSE elem

-----------------------------------------------------------------------------
(* Processes.  sc is where a process is inside a system call; in user mode *)
(* sc.st is "user".  If sc.put or sc.shut is set, the call has that iput() *)
(* or that pipeclose() to do before it goes on, or before it returns.      *)

UserMode == [st |-> "user", path |-> <<>>, ip |-> 0, keep |-> 0, name |-> "", n |-> 0,
             put |-> 0, drop |-> FALSE, shut |-> <<>>]
Regs == {"in", "out", "fd", "fd1", "p0", "p1", "pid", "pid1", "pid2", "brk"}
NoProc == [st |-> "unused", parent |-> 0, killed |-> FALSE, ofile |-> [f \in Fds |-> 0],
           cwd |-> 0, prog |-> "", pc |-> 0, sc |-> UserMode,
           reg |-> [r \in Regs |-> CASE r = "in" -> 0 [] r = "out" -> 1 [] OTHER -> -1],
           acc |-> <<>>, ret |-> 0, sz |-> 0, vm |-> Unmapped, dirty |-> {}]
NoFile == [type |-> "none", ref |-> 0, readable |-> FALSE, writable |-> FALSE,
           ip |-> 0, off |-> 0]

Ins(p) == Program[proc[p].prog][proc[p].pc]
Idle(sc) == sc.put = 0 /\ sc.shut = <<>>
At(p, st) == proc[p].st = "live" /\ proc[p].sc.st = st /\ Idle(proc[p].sc)
User(p, op) == At(p, "user") /\ ~proc[p].killed /\ Ins(p).op = op
Unlocked(i) == fs.ic[i].lock = 0
iunlock(d, i) == [d EXCEPT !.ic[i].lock = 0]
Putting(sc, i) == [sc EXCEPT !.put = i]

\* The system call of p ends with result r once sc is done: pr is what is left of p.
ReturnWith(p, pr, r, sc) ==
  /\ proc' = [proc EXCEPT ![p] =
       [pr EXCEPT !.sc = sc, !.pc = @ + 1, !.ret = r,
          !.reg = IF "dst" \in DOMAIN Ins(p) THEN [@ EXCEPT ![Ins(p).dst] = r] ELSE @]]
  /\ failed' = (failed \/ r \notin Ins(p).want)

Return(p, pr, r) == ReturnWith(p, pr, r, UserMode)
PutReturn(p, pr, r, i) == ReturnWith(p, pr, r, Putting(UserMode, i))

\* p goes on with its system call at sc.
Goto(p, sc) == proc' = [proc EXCEPT ![p].sc = sc] /\ UNCHANGED failed

\* iput() up to releasesleep().
iput(p) ==
  LET sc == proc[p].sc
  IN  /\ sc.put # 0 /\ ~sc.drop /\ Unlocked(sc.put)
      /\ fs' = Released(fs, sc.put)
      /\ Goto(p, [sc EXCEPT !.drop = TRUE])
      /\ UNCHANGED <<ftable, pipes, pages>>

\* The rest of iput(): ref--.
iputEnd(p) ==
  LET sc == proc[p].sc
  IN  /\ sc.put # 0 /\ sc.drop
      /\ fs' = Dropped(fs, sc.put)
      /\ Goto(p, [sc EXCEPT !.put = 0, !.drop = FALSE])
      /\ UNCHANGED <<ftable, pipes, pages>>

-----------------------------------------------------------------------------
(* Calls that take a path.                                                 *)

PathOps == {"open", "chdir", "exec", "link", "unlink", "mkdir", "mknod"}
BadPtr == <<"">>   \* a string pointer outside the memory of the process

Creates(ins) == ins.op \in {"mkdir", "mknod"} \/ (ins.op = "open" /\ "CREATE" \in ins.mode)
Phase(ins) == IF Creates(ins) THEN "create" ELSE ins.op

\* Where namei() leads to at the end of the path, and nameiparent() at its last element.
Arrived(sc, ins) == IF sc.keep = 0 THEN Phase(ins) ELSE "linknew"
Walking(sc, ins) == IF sc.st = "namei" /\ sc.path = <<>> THEN [sc EXCEPT !.st = Arrived(sc, ins)]
                    ELSE sc

\* Walk path from the root or from the working directory of p; with nameiparent
\* the walk stops at the directory of the last element.
Walk(p, d, path, nameiparent, keep) ==
  LET abs == path # <<>> /\ Head(path) = "/"
  IN  /\ fs' = IF abs THEN iget(d, ROOTINO) ELSE idup(d, proc[p].cwd)
      /\ Goto(p, Walking([UserMode EXCEPT !.st = IF nameiparent THEN "parent" ELSE "namei",
                            !.path = IF abs THEN Tail(path) ELSE path,
                            !.ip = IF abs THEN ROOTINO ELSE proc[p].cwd, !.keep = keep], Ins(p)))

SysPath(p) ==
  /\ At(p, "user") /\ ~proc[p].killed /\ Ins(p).op \in PathOps
  /\ IF BadPtr \in {Ins(p)[f] : f \in {"path", "path2"} \cap DOMAIN Ins(p)}
     THEN Return(p, proc[p], -1) /\ UNCHANGED fs
     ELSE Walk(p, fs, Ins(p).path, Creates(Ins(p)) \/ Ins(p).op = "unlink", 0)
  /\ UNCHANGED <<ftable, pipes, pages>>

\* One turn of the loop of namex(), or what follows the loop.
namex(p) ==
  LET sc == proc[p].sc
      i == sc.ip
      d == ilock(fs, i)
      par == sc.st = "parent"
      name == skipelem(Head(sc.path))
      next == dirlookup(d, i, name)
      Lost == IF sc.keep = 0 THEN PutReturn(p, proc[p], -1, i)
              ELSE Goto(p, [sc EXCEPT !.st = "linkbad", !.ip = 0, !.put = i])
  IN  /\ At(p, "namei") \/ At(p, "parent")
      /\ \/ sc.path = <<>> /\ Lost /\ UNCHANGED fs
         \/ /\ sc.path # <<>> /\ Unlocked(i)
            /\ IF d.ic[i].ip.type # "dir" THEN fs' = d /\ Lost
               ELSE IF par /\ Len(sc.path) = 1
               THEN fs' = d /\ Goto(p, [sc EXCEPT !.name = name, !.st = Arrived(sc, Ins(p))])
               ELSE IF next = 0 THEN fs' = d /\ Lost
               ELSE /\ fs' = iget(d, next)
                    /\ Goto(p, Putting(Walking([sc EXCEPT !.path = Tail(@), !.ip = next], Ins(p)), i))
      /\ UNCHANGED <<ftable, pipes, pages>>

FreeFiles == {f \in Files : ftable[f].ref = 0}
FreeFds(p) == {f \in Fds : proc[p].ofile[f] = 0}

\* The end of sys_open(): a file and a descriptor for inode i, which was locked.
OpenInode(p, d, i) ==
  /\ fs' = d
  /\ IF FreeFiles = {} \/ FreeFds(p) = {}
     THEN PutReturn(p, proc[p], -1, i) /\ UNCHANGED ftable
     ELSE LET f == Min(FreeFiles)
              fd == Min(FreeFds(p))
              mode == Ins(p).mode
          IN  /\ ftable' = [ftable EXCEPT ![f] =
                   [type |-> "inode", ref |-> 1, readable |-> "WRONLY" \notin mode,
                    writable |-> mode \cap {"WRONLY", "RDWR"} # {}, ip |-> i, off |-> 0]]
              /\ Return(p, [proc[p] EXCEPT !.ofile[fd] = f], fd)

sys_open(p) ==
  LET i == proc[p].sc.ip
      d == ilock(fs, i)
  IN  /\ At(p, "open") /\ Unlocked(i)
      /\ IF d.ic[i].ip.type = "dir" /\ Ins(p).mode # {}
         THEN fs' = d /\ PutReturn(p, proc[p], -1, i) /\ UNCHANGED ftable
         ELSE OpenInode(p, d, i)
      /\ UNCHANGED <<pipes, pages>>

\* The file system with a new inode of the given type under name in dp: [d, i].
NewEntry(d, dp, name, type, major) ==
  LET a == ialloc(d, type)
      i == a.i
      d1 == ilock(a.d, i)
      d2 == iupdate([d1 EXCEPT !.ic[i].ip.nlink = 1, !.ic[i].ip.major = major], i)
      d3 == IF type = "dir" THEN iupdate([d2 EXCEPT !.ic[dp].ip.nlink = @ + 1], dp) ELSE d2
      d4 == IF type = "dir" THEN dirlink(dirlink(d3, i, ".", i).d, i, "..", dp).d ELSE d3
  IN  [d |-> dirlink(d4, dp, name, i).d, i |-> i]

\* create() while it holds its directory: the name exists, or it is made.  Then the
\* new inode is still locked when the directory is put.
create(p) ==
  LET dp == proc[p].sc.ip
      name == proc[p].sc.name
      d == ilock(fs, dp)
      old == dirlookup(d, dp, name)
      op == Ins(p).op
      type == CASE op = "open" -> "file" [] op = "mkdir" -> "dir" [] op = "mknod" -> "dev"
      major == IF op = "mknod" THEN Ins(p).major ELSE 0
      Got(i, st) == Goto(p, [UserMode EXCEPT !.st = st, !.ip = i, !.put = dp])
  IN  /\ At(p, "create") /\ Unlocked(dp)
      /\ IF old # 0 THEN fs' = iget(d, old) /\ Got(old, "existing")
         ELSE \E new \in {NewEntry(d, dp, name, type, major)} :
                fs' = [new.d EXCEPT !.ic[new.i].lock = p] /\ Got(new.i, "created")
      /\ UNCHANGED <<ftable, pipes, pages>>

\* create() found the name: only open() of a file may have it.
CreateExisting(p) ==
  LET i == proc[p].sc.ip
      d == ilock(fs, i)
  IN  /\ At(p, "existing") /\ Unlocked(i)
      /\ IF Ins(p).op = "open" /\ d.ic[i].ip.type = "file" THEN OpenInode(p, d, i)
         ELSE fs' = d /\ PutReturn(p, proc[p], -1, i) /\ UNCHANGED ftable
      /\ UNCHANGED <<pipes, pages>>

\* What open(), mkdir() and mknod() do with the inode that create() made.
Created(p) ==
  LET i == proc[p].sc.ip
      d == iunlock(fs, i)
  IN  /\ At(p, "created")
      /\ IF Ins(p).op = "open" THEN OpenInode(p, d, i)
         ELSE fs' = d /\ PutReturn(p, proc[p], 0, i) /\ UNCHANGED ftable
      /\ UNCHANGED <<pipes, pages>>

sys_chdir(p) ==
  LET i == proc[p].sc.ip
      d == ilock(fs, i)
  IN  /\ At(p, "chdir") /\ Unlocked(i)
      /\ fs' = d
      /\ IF d.ic[i].ip.type # "dir" THEN PutReturn(p, proc[p], -1, i)
         ELSE PutReturn(p, [proc[p] EXCEPT !.cwd = i], 0, proc[p].cwd)
      /\ UNCHANGED <<ftable, pipes, pages>>

-----------------------------------------------------------------------------
(* link() and unlink().                                                    *)

\* The old name is found: count the new link before its entry exists.
LinkOld(p) ==
  LET i == proc[p].sc.ip
      d == ilock(fs, i)
  IN  /\ At(p, "link") /\ Unlocked(i)
      /\ IF d.ic[i].ip.type = "dir" THEN fs' = d /\ PutReturn(p, proc[p], -1, i)
         ELSE Walk(p, iupdate([d EXCEPT !.ic[i].ip.nlink = @ + 1], i), Ins(p).path2, TRUE, i)
      /\ UNCHANGED <<ftable, pipes, pages>>

MutLinkNew(p) ==
  LET sc == proc[p].sc
      dp == sc.ip
      d == ilock(fs, dp)
      old == dirlookup(d, dp, sc.name)
  IN  /\ At(p, "linknew") /\ Unlocked(dp)
      /\ IF old # 0
         THEN /\ fs' = [iget(d, old) EXCEPT !.ic[dp].lock = p]
              /\ Goto(p, [sc EXCEPT !.st = "linkexists"])
         ELSE /\ \E w \in {dirlink(d, dp, sc.name, sc.keep)} : fs' = w.d
              /\ Goto(p, [sc EXCEPT !.st = "linked", !.ip = 0, !.put = dp])
      /\ UNCHANGED <<ftable, pipes, pages>>

\* dirlink(): a name that exists is looked up and put again, which takes the lock
\* of its inode while dp is locked; otherwise the entry is made.
LinkNew(p) ==
  LET sc == proc[p].sc
      dp == sc.ip
      d == ilock(fs, dp)
      old == dirlookup(d, dp, sc.name)
  IN  /\ At(p, "linknew") /\ Unlocked(dp)
      /\ IF old # 0
         THEN /\ fs' = [iget(d, old) EXCEPT !.ic[dp].lock = p]
              /\ Goto(p, [sc EXCEPT !.st = "linkexists", !.put = old])
         ELSE /\ \E w \in {dirlink(d, dp, sc.name, sc.keep)} : fs' = w.d
              /\ Goto(p, [sc EXCEPT !.st = "linked", !.ip = 0, !.put = dp])
      /\ UNCHANGED <<ftable, pipes, pages>>

LinkExists(p) ==
  LET sc == proc[p].sc
  IN  /\ At(p, "linkexists")
      /\ fs' = iunlock(fs, sc.ip)
      /\ Goto(p, [sc EXCEPT !.st = "linkbad", !.ip = 0, !.put = sc.ip])
      /\ UNCHANGED <<ftable, pipes, pages>>

\* The directory of the new entry is put; now the inode.
Linked(p) ==
  /\ At(p, "linked")
  /\ PutReturn(p, proc[p], 0, proc[p].sc.keep)
  /\ UNCHANGED <<fs, ftable, pipes, pages>>

LinkBad(p) ==
  LET i == proc[p].sc.keep
      d == ilock(fs, i)
  IN  /\ At(p, "linkbad") /\ Unlocked(i)
      /\ fs' = iupdate([d EXCEPT !.ic[i].ip.nlink = @ - 1], i)
      /\ PutReturn(p, proc[p], -1, i)
      /\ UNCHANGED <<ftable, pipes, pages>>

MutUnlinkDir(p) ==
  LET dp == proc[p].sc.ip
      name == proc[p].sc.name
      d == ilock(fs, dp)
      i == dirlookup(d, dp, name)
  IN  /\ At(p, "unlink") /\ Unlocked(dp)
      /\ IF i = 0 THEN fs' = d /\ PutReturn(p, proc[p], -1, dp)
         ELSE /\ fs' = [iget(d, i) EXCEPT !.ic[dp].lock = p]
              /\ Goto(p, [proc[p].sc EXCEPT !.st = "unlinkip", !.keep = i])
      /\ UNCHANGED <<ftable, pipes, pages>>

\* unlink() with its directory locked, until it needs the lock of the inode.
UnlinkDir(p) ==
  LET dp == proc[p].sc.ip
      name == proc[p].sc.name
      d == ilock(fs, dp)
      i == dirlookup(d, dp, name)
  IN  /\ At(p, "unlink") /\ Unlocked(dp)
      /\ IF name \in {".", ".."} \/ i = 0 THEN fs' = d /\ PutReturn(p, proc[p], -1, dp)
         ELSE /\ fs' = [iget(d, i) EXCEPT !.ic[dp].lock = p]
              /\ Goto(p, [proc[p].sc EXCEPT !.st = "unlinkip", !.keep = i])
      /\ UNCHANGED <<ftable, pipes, pages>>

\* With both locked: the entry goes, and the directory is put, or nothing is done and
\* the inode is put.
UnlinkInode(p) ==
  LET sc == proc[p].sc
      dp == sc.ip
      i == sc.keep
      d == ilock(fs, i)
      dir == d.ic[i].ip.type = "dir"
      Unlinked(e) == IF dir THEN iupdate([e EXCEPT !.ic[dp].ip.nlink = @ - 1], dp) ELSE e
  IN  /\ At(p, "unlinkip") /\ Unlocked(i)
      /\ IF d.ic[i].ip.nlink < 1 THEN fs' = Panic(d) /\ Return(p, proc[p], -1)
         ELSE IF dir /\ ~isdirempty(d, i)
         THEN fs' = d /\ Goto(p, [sc EXCEPT !.st = "unlinkbad", !.keep = 0, !.put = i])
         ELSE /\ \E w \in {writei(d, dp, LookOff(d, dp, sc.name), <<Zero>>)} :
                   fs' = [iunlock(Unlinked(w.d), dp) EXCEPT !.ic[i].lock = p]
              /\ Goto(p, [sc EXCEPT !.st = "unlinked", !.ip = 0, !.put = dp])
      /\ UNCHANGED <<ftable, pipes, pages>>

UnlinkBad(p) ==
  LET dp == proc[p].sc.ip
  IN  /\ At(p, "unlinkbad")
      /\ fs' = iunlock(fs, dp)
      /\ PutReturn(p, proc[p], -1, dp)
      /\ UNCHANGED <<ftable, pipes, pages>>

\* The directory is put, the inode still locked: count the link down.
UnlinkCount(p) ==
  LET i == proc[p].sc.keep
  IN  /\ At(p, "unlinked")
      /\ fs' = iunlock(iupdate([fs EXCEPT !.ic[i].ip.nlink = @ - 1], i), i)
      /\ PutReturn(p, proc[p], 0, i)
      /\ UNCHANGED <<ftable, pipes, pages>>

-----------------------------------------------------------------------------
(* Descriptors and pipes.  pipes[x].open holds the ends that are still     *)
(* open; sleeping on a pipe is a guard (module Pipe has the wakeups).      *)

NoPipe == [open |-> {}, data |-> <<>>]

\* argfd(): the file of descriptor register r of p, or 0.
ArgFile(p, r) == LET fd == proc[p].reg[r] IN IF fd \in Fds THEN proc[p].ofile[fd] ELSE 0

Side(e) == IF e.writable THEN "w" ELSE "r"

\* fileclose(f) while it has the lock of the table, and what is left to do for the
\* last reference: pipeclose() or iput().
fileclose(f) ==
  /\ ftable' = IF ftable[f].ref > 1 THEN [ftable EXCEPT ![f].ref = @ - 1]
               ELSE [ftable EXCEPT ![f] = NoFile]
  /\ UNCHANGED <<fs, pipes, pages>>
Closing(f, sc) ==
  LET e == ftable[f]
  IN  IF e.ref > 1 THEN sc
      ELSE IF e.type = "pipe" THEN [sc EXCEPT !.shut = <<e.ip, Side(e)>>]
      ELSE Putting(sc, e.ip)

sys_close(p) ==
  /\ User(p, "close")
  /\ LET f == ArgFile(p, Ins(p).fd)
         pr == [proc[p] EXCEPT !.ofile[proc[p].reg[Ins(p).fd]] = 0]
     IN  IF f = 0 THEN Return(p, proc[p], -1) /\ UNCHANGED <<fs, ftable, pipes, pages>>
         ELSE fileclose(f) /\ ReturnWith(p, pr, 0, Closing(f, UserMode))

\* The last end frees the page of the pipe.
pipeclose(p) ==
  LET sc == proc[p].sc
      x == sc.shut[1]
      left == pipes[x].open \ {sc.shut[2]}
  IN  /\ sc.shut # <<>>
      /\ pipes' = [pipes EXCEPT ![x] = IF left = {} THEN NoPipe ELSE [@ EXCEPT !.open = left]]
      /\ pages' = IF left = {} THEN pages + 1 ELSE pages
      /\ Goto(p, [sc EXCEPT !.shut = <<>>])
      /\ UNCHANGED <<fs, ftable>>

sys_dup(p) ==
  /\ User(p, "dup")
  /\ LET f == ArgFile(p, Ins(p).fd)
         fd == Min(FreeFds(p))
     IN  IF f = 0 \/ FreeFds(p) = {} THEN Return(p, proc[p], -1) /\ UNCHANGED ftable
         ELSE /\ ftable' = [ftable EXCEPT ![f].ref = @ + 1]
              /\ Return(p, [proc[p] EXCEPT !.ofile[fd] = f], fd)
  /\ UNCHANGED <<fs, pipes, pages>>

\* Two files, a page for the pipe and two descriptors, or nothing.
sys_pipe(p) ==
  /\ User(p, "pipe")
  /\ IF Cardinality(FreeFiles) < 2 \/ pages = 0 \/ Cardinality(FreeFds(p)) < 2
     THEN Return(p, proc[p], -1) /\ UNCHANGED <<ftable, pipes, pages>>
     ELSE LET rf == Min(FreeFiles)
              wf == Min(FreeFiles \ {rf})
              fd0 == Min(FreeFds(p))
              fd1 == Min(FreeFds(p) \ {fd0})
              x == Min({y \in Pipes : pipes[y].open = {}})
              End(w) == [type |-> "pipe", ref |-> 1, readable |-> ~w, writable |-> w,
                         ip |-> x, off |-> 0]
          IN  /\ ftable' = [ftable EXCEPT ![rf] = End(FALSE), ![wf] = End(TRUE)]
              /\ pipes' = [pipes EXCEPT ![x].open = {"r", "w"}]
              /\ pages' = pages - 1
              /\ Return(p, [proc[p] EXCEPT !.ofile[fd0] = rf, !.ofile[fd1] = wf,
                                           !.reg["p0"] = fd0, !.reg["p1"] = fd1], 0)
  /\ UNCHANGED fs

\* Does argptr() accept the buffer of read() or write()?  Its address is 0 unless
\* the instruction says otherwise.
argptr(p, n) ==
  LET a == IF "buf" \in DOMAIN Ins(p) THEN proc[p].sz + Ins(p).buf ELSE 0
  IN  n >= 0 /\ a < proc[p].sz /\ (a + n) % WORD <= proc[p].sz

\* argfd() or argptr() fails, or the file is not open for this.
BadRead(p) == LET f == ArgFile(p, Ins(p).fd)
              IN  f = 0 \/ ~argptr(p, Ins(p).n) \/ ~ftable[f].readable
BadWrite(p, n) == LET f == ArgFile(p, Ins(p).fd)
                  IN  f = 0 \/ ~argptr(p, n) \/ ~ftable[f].writable

\* p gets the units got from file f.
Got(p, got) == Return(p, [proc[p] EXCEPT !.acc = @ \o got], Len(got))

sys_read(p) ==
  LET f == ArgFile(p, Ins(p).fd)
      x == ftable[f].ip
      n == Ins(p).n
      d == ilock(fs, x)
      have == pipes[x].data
      m == Min({n, Len(have)})
      got == readi(d, x, ftable[f].off, n)
  IN  /\ User(p, "read")
      /\ \/ /\ BadRead(p) /\ Return(p, proc[p], -1)
            /\ UNCHANGED <<fs, ftable, pipes>>
         \/ /\ ~BadRead(p) /\ ftable[f].type = "pipe"
            /\ have # <<>> \/ "w" \notin pipes[x].open
            /\ Got(p, SubSeq(have, 1, m))
            /\ pipes' = [pipes EXCEPT ![x].data = SubSeq(have, m + 1, Len(have))]
            /\ UNCHANGED <<fs, ftable>>
         \/ /\ ~BadRead(p) /\ ftable[f].type = "inode" /\ Unlocked(x)
            /\ fs' = d
            /\ IF ReadFails(d, x, ftable[f].off)
               THEN Return(p, proc[p], -1) /\ UNCHANGED ftable
               ELSE Got(p, got) /\ ftable' = [ftable EXCEPT ![f].off = @ + Len(got)]
            /\ UNCHANGED pipes
      /\ UNCHANGED pages

\* Some of write(): what fits into the pipe, or one transaction of filewrite().
sys_write(p) ==
  LET f == ArgFile(p, Ins(p).fd)
      x == ftable[f].ip
      data == IF "data" \in DOMAIN Ins(p) THEN Ins(p).data
              ELSE [u \in DOMAIN proc[p].acc |-> proc[p].acc[u][2]]
      done == proc[p].sc.n
      room == PIPESIZE - Len(pipes[x].data)
      m == Min({Len(data) - done, IF ftable[f].type = "pipe" THEN room ELSE CHUNK})
      now == [u \in 1..m |-> <<1, data[done + u]>>]
      w == writei(ilock(fs, x), x, ftable[f].off, now)
      More == IF done + m = Len(data) THEN Return(p, proc[p], Len(data))
              ELSE Goto(p, [proc[p].sc EXCEPT !.st = "write", !.n = done + m])
  IN  /\ User(p, "write") \/ At(p, "write")
      /\ \/ /\ BadWrite(p, Len(data)) /\ Return(p, proc[p], -1)
            /\ UNCHANGED <<fs, ftable, pipes>>
         \/ /\ ~BadWrite(p, Len(data)) /\ ftable[f].type = "pipe"
            /\ \/ /\ room > 0 /\ More
                  /\ pipes' = [pipes EXCEPT ![x].data = @ \o now]
               \/ /\ room = 0 /\ ("r" \notin pipes[x].open \/ proc[p].killed)
                  /\ Return(p, proc[p], -1) /\ UNCHANGED pipes
            /\ UNCHANGED <<fs, ftable>>
         \/ /\ ~BadWrite(p, Len(data)) /\ ftable[f].type = "inode" /\ Unlocked(x)
            /\ fs' = w.d
            /\ IF w.r < 0 THEN Return(p, proc[p], -1) /\ UNCHANGED ftable
               ELSE More /\ ftable' = [ftable EXCEPT ![f].off = @ + w.r]
            /\ UNCHANGED pipes
      /\ UNCHANGED pages

-----------------------------------------------------------------------------
(* Processes and their memory.  Besides its address space a process has a  *)
(* page for its kernel stack.                                              *)

\* fork(): allocproc() takes the stack, copyuvm() the memory; if that fails the
\* stack is given back.  The child runs one of the programs Ins.child names.
fork(p) ==
  LET free == {q \in Procs : proc[q].st = "unused"}
      q == Min(free)
      copy == copyuvm(pages - 1, proc[p].vm, proc[p].sz)
      mine == {fd \in Fds : proc[p].ofile[fd] # 0}
      Uses(f) == Cardinality({fd \in mine : proc[p].ofile[fd] = f})
      r == Ins(p).dst
      Child(c) == [proc[p] EXCEPT !.parent = p, !.prog = c, !.pc = 1, !.killed = FALSE,
                                  !.reg[r] = 0, !.vm = copy.vm]
  IN  /\ User(p, "fork")
      /\ IF free = {} \/ pages = 0
         THEN Return(p, proc[p], -1) /\ UNCHANGED <<fs, ftable, pages>>
         ELSE IF ~CanCopy(proc[p].vm, proc[p].sz)
         THEN fs' = Panic(fs) /\ Return(p, proc[p], -1) /\ UNCHANGED <<ftable, pages>>
         ELSE IF copy.r = 0
         THEN Return(p, proc[p], -1) /\ pages' = copy.free + 1 /\ UNCHANGED <<fs, ftable>>
         ELSE /\ \E c \in Ins(p).child :
                   proc' = [proc EXCEPT ![p] = [proc[p] EXCEPT !.pc = @ + 1, !.reg[r] = q],
                                        ![q] = Child(c)]
              /\ ftable' = [f \in Files |-> [ftable[f] EXCEPT !.ref = @ + Uses(f)]]
              /\ fs' = idup(fs, proc[p].cwd)
              /\ pages' = copy.free
              /\ failed' = (failed \/ q \notin Ins(p).want)
      /\ UNCHANGED pipes

\* A killed process exits instead of running on in user mode.
StartExit(p) ==
  /\ At(p, "user") /\ (proc[p].killed \/ Ins(p).op = "exit")
  /\ Goto(p, [UserMode EXCEPT !.st = "exit"])
  /\ UNCHANGED <<fs, ftable, pipes, pages>>

\* exit() closes the descriptors one after the other, then puts its directory.
ExitClose(p) ==
  LET mine == {fd \in Fds : proc[p].ofile[fd] # 0}
      fd == Min(mine)
      f == proc[p].ofile[fd]
  IN  /\ At(p, "exit") /\ mine # {}
      /\ fileclose(f)
      /\ proc' = [proc EXCEPT ![p] = [proc[p] EXCEPT !.ofile[fd] = 0, !.sc = Closing(f, proc[p].sc)]]
      /\ UNCHANGED failed

ExitCwd(p) ==
  /\ At(p, "exit") /\ \A fd \in Fds : proc[p].ofile[fd] = 0
  /\ proc' = [proc EXCEPT ![p] = [@ EXCEPT !.cwd = 0,
                !.sc = Putting([UserMode EXCEPT !.st = "exited"], proc[p].cwd)]]
  /\ UNCHANGED <<fs, ftable, pipes, pages, failed>>

\* It gives its children to init and becomes a zombie.
ExitZombie(p) ==
  /\ At(p, "exited")
  /\ proc' = [q \in Procs |->
       IF q = p THEN [NoProc EXCEPT !.st = "zombie", !.parent = proc[p].parent,
                                     !.vm = proc[p].vm]
       ELSE IF proc[q].parent = p THEN [proc[q] EXCEPT !.parent = 1] ELSE proc[q]]
  /\ UNCHANGED <<fs, ftable, pipes, pages, failed>>

\* wait() frees the first zombie child and returns it, or -1 if there is no child.
wait(p) ==
  LET kids == {q \in Procs : proc[q].st # "unused" /\ proc[q].parent = p}
      dead == {q \in kids : proc[q].st = "zombie"}
      q == Min(dead)
      reaped == [proc EXCEPT ![q] = NoProc]
      freed == freevm([free |-> pages + 1, vm |-> proc[q].vm, r |-> 0]).free
  IN  /\ \/ /\ User(p, "wait") /\ dead # {}
            /\ proc' = [reaped EXCEPT ![p].pc = @ + 1]
            /\ failed' = (failed \/ q \notin Ins(p).want)
            /\ pages' = freed
         \/ /\ User(p, "wait") /\ kids = {}
            /\ Return(p, proc[p], -1)
            /\ UNCHANGED pages
         \/ /\ User(p, "reap") /\ dead # {}   \* the loop of init
            /\ proc' = reaped
            /\ pages' = freed
            /\ UNCHANGED failed
      /\ UNCHANGED <<fs, ftable, pipes>>

kill(p) ==
  /\ User(p, "kill")
  /\ LET q == proc[p].reg[Ins(p).pid]
         alive == q \in Procs /\ proc[q].st # "unused"
         pr == IF alive THEN [proc EXCEPT ![q].killed = TRUE] ELSE proc
     IN  /\ proc' = [pr EXCEPT ![p].pc = @ + 1]
         /\ failed' = (failed \/ (IF alive THEN 0 ELSE -1) \notin Ins(p).want)
  /\ UNCHANGED <<fs, ftable, pipes, pages>>

\* sbrk(n), or sbrk() to the address Ins.to.
sbrk(p) ==
  LET sz == proc[p].sz
      n == IF "to" \in DOMAIN Ins(p) THEN proc[p].reg[Ins(p).to] - sz ELSE Ins(p).n
      g == growproc([free |-> pages, vm |-> proc[p].vm, r |-> 0], sz, n)
      kept == {c \in proc[p].dirty : (c[1] \div PGSIZE) \in g.vm.pg}
      pr == [proc[p] EXCEPT !.vm = g.vm, !.dirty = kept]
  IN  /\ User(p, "sbrk")
      /\ pages' = g.free
      /\ IF n # 0 /\ g.r = 0 THEN Return(p, pr, -1)
         ELSE Return(p, [pr EXCEPT !.sz = g.r], sz)
      /\ UNCHANGED <<fs, ftable, pipes>>

\* A store of Ins.val to, or a load from, address Ins.at; dirty holds the cells
\* <<address, value>> that are not zero.  A fault kills the process.
Access(p) ==
  LET a == Ins(p).at
      pr == proc[p]
      rest == {c \in pr.dirty : c[1] # a}
      val == {c[2] : c \in pr.dirty \ rest}
  IN  /\ User(p, "store") \/ User(p, "load")
      /\ IF ~uva2ka(pr.vm, a, 1)
         THEN proc' = [proc EXCEPT ![p].killed = TRUE] /\ UNCHANGED failed
         ELSE IF Ins(p).op = "store"
         THEN Return(p, [pr EXCEPT !.dirty = rest \cup {<<a, Ins(p).val>>}], 0)
         ELSE Return(p, pr, IF val = {} THEN 0 ELSE Max(val))
      /\ UNCHANGED <<fs, ftable, pipes, pages>>

\* exec(): the units of the file are the header, the program header with the size
\* and the name of the program, and its text.
exec(p) ==
  LET i == proc[p].sc.ip
      d == ilock(fs, i)
      At1(off) == IF ReadFails(d, i, off) THEN <<>> ELSE readi(d, i, off, 1)
      x == execvm(pages, At1(0), At1(1), At1(2), Ins(p).arglen)
  IN  /\ At(p, "exec") /\ Unlocked(i)
      /\ fs' = d
      /\ IF x.r = 0 THEN PutReturn(p, proc[p], -1, i) /\ pages' = x.free
         ELSE /\ proc' = [proc EXCEPT ![p] = [@ EXCEPT !.sc = Putting(UserMode, i), !.prog = At1(1)[1][2],
                             !.pc = 1, !.acc = <<>>, !.sz = x.r, !.vm = x.vm, !.dirty = {}]]
              /\ pages' = freevm([free |-> x.free, vm |-> proc[p].vm, r |-> 0]).free
              /\ UNCHANGED failed
      /\ UNCHANGED <<ftable, pipes>>

\* What a program has read, of the names it looks for.
Seen(p) == LET Texts == [u \in DOMAIN proc[p].acc |-> proc[p].acc[u][2]]
           IN  SelectSeq(Texts, LAMBDA t : t \in Ins(p).only)

\* What a program does without the kernel: compare what it has read, loop while its
\* last read got something, choose a branch.
Local(p) ==
  LET by == IF Ins(p).op = "choose" THEN Ins(p).by
            ELSE {IF proc[p].ret > 0 THEN Ins(p).some ELSE Ins(p).none}
  IN  /\ \/ /\ User(p, "check")
            /\ proc' = [proc EXCEPT ![p] = [proc[p] EXCEPT !.pc = @ + 1, !.acc = <<>>]]
            /\ failed' = (failed \/ Seen(p) \notin Ins(p).want)
         \/ /\ User(p, "sleep")   \* sys_sleep() lets time pass
            /\ Return(p, proc[p], 0)
         \/ /\ User(p, "loop") \/ User(p, "choose")
            /\ \E k \in by : proc' = [proc EXCEPT ![p].pc = @ + k]
            /\ UNCHANGED failed
      /\ UNCHANGED <<fs, ftable, pipes, pages>>

-----------------------------------------------------------------------------
(* The disk mkfs makes, and the system when init starts.                   *)

\* iappend() of mkfs.c: one more unit at the end of inode i.
iappend(d, i, unit) ==
  LET din == d.din[i]
      bn == din.size \div BSIZE
      Next1(e) == Cardinality(e.used) + 1            \* freeblock++
      Take(e) == [e EXCEPT !.used = @ \cup {Next1(e)}]
      d1 == IF bn >= NDIRECT /\ din.addrs[NDIRECT] = 0
            THEN [Take(d) EXCEPT !.din[i].addrs[NDIRECT] = Next1(d)] ELSE d
      ind == d1.din[i].addrs[NDIRECT]
      old == IF bn < NDIRECT THEN din.addrs[bn] ELSE d1.blk[ind][bn - NDIRECT][1]
      b == IF old # 0 THEN old ELSE Next1(d1)
      d2 == IF old # 0 THEN d1 ELSE Take(d1)
      d3 == IF bn < NDIRECT THEN [d2 EXCEPT !.din[i].addrs[bn] = b]
            ELSE [d2 EXCEPT !.blk[ind][bn - NDIRECT] = <<b, "">>]
  IN  [d3 EXCEPT !.blk[b][din.size % BSIZE] = unit, !.din[i].size = @ + 1]

\* main() of mkfs.c: the root directory, then the files of Image; the size of the
\* root directory is rounded up to a whole block.
mkfs ==
  LET blank == [blk |-> [b \in Blocks |-> ZeroBlock], used |-> {},
                din |-> [i \in Inums |-> NoInode], ic |-> [i \in Inums |-> NotCached],
                panic |-> FALSE]
      Ialloc(d, i, type) == [d EXCEPT !.din[i] = [NoInode EXCEPT !.type = type, !.nlink = 1]]
      root == iappend(iappend(Ialloc(blank, ROOTINO, "dir"), ROOTINO, <<ROOTINO, ".">>),
                      ROOTINO, <<ROOTINO, "..">>)
      AddFile(d, n) ==
        LET i == n + 1
            e == iappend(Ialloc(d, i, "file"), ROOTINO, <<i, Image[n].name>>)
        IN  FoldLeft(LAMBDA x, t : iappend(x, i, t), e, Image[n].data)
      all == FoldLeftDomain(AddFile, root, Image)
  IN  [all EXCEPT !.din[ROOTINO].size = ((@ \div BSIZE) + 1) * BSIZE]

\* The disk d, with an empty cache.
iinit(d) == [blk |-> d.blk, used |-> d.used, din |-> d.din,
             ic |-> [i \in Inums |-> NotCached], panic |-> FALSE]

\* userinit(), and the exec() of init: one process, in the root directory.
Init ==
  LET x == execvm(NPAGES - 1, <<<<0, "ELF">>>>, <<<<PGSIZE, "init">>>>, <<Zero>>, 1)
  IN  /\ fs = iget(iinit(mkfs), ROOTINO)
      /\ ftable = [f \in Files |-> NoFile]
      /\ pipes = [x1 \in Pipes |-> NoPipe]
      /\ proc = [p \in Procs |-> IF p # 1 THEN NoProc
                   ELSE [NoProc EXCEPT !.st = "live", !.cwd = ROOTINO, !.prog = "init",
                                       !.pc = 1, !.sz = x.r, !.vm = x.vm]]
      /\ pages = x.free
      /\ failed = FALSE

Step(p) ==
  \/ SysPath(p) \/ namex(p) \/ sys_open(p) \/ create(p) \/ CreateExisting(p) \/ Created(p)
  \/ sys_chdir(p) \/ exec(p) \/ LinkOld(p) \/ LinkNew(p) \/ LinkExists(p) \/ Linked(p)
  \/ LinkBad(p) \/ UnlinkDir(p) \/ UnlinkInode(p) \/ UnlinkBad(p) \/ UnlinkCount(p)
  \/ iput(p) \/ iputEnd(p) \/ pipeclose(p)
  \/ sys_close(p) \/ sys_dup(p) \/ sys_pipe(p) \/ sys_read(p) \/ sys_write(p)
  \/ fork(p) \/ StartExit(p) \/ ExitClose(p) \/ ExitCwd(p) \/ ExitZombie(p) \/ wait(p) \/ kill(p)
  \/ sbrk(p) \/ Access(p) \/ Local(p)

\* init waits for children and there are none: every program has ended.
Finished == User(1, "reap") /\ \A p \in Procs \ {1} : proc[p].st = "unused"

\* The inode whose lock p waits for in iput(), or in unlink() with its directory locked.
Wanted(p) == LET sc == proc[p].sc
             IN  IF sc.put # 0 THEN IF sc.drop THEN 0 ELSE sc.put
                 ELSE IF sc.st = "unlinkip" THEN sc.keep ELSE 0

\* Processes each of which waits for a lock of another one of them, or for its own:
\* they wait for ever.
LockCycle(S) == S # {} /\ \A p \in S : Wanted(p) # 0 /\ fs.ic[Wanted(p)].lock \in S
Deadlocked == \E S \in SUBSET {p \in Procs : Wanted(p) # 0} : LockCycle(S)

Next == /\ ~fs.panic
        /\ \/ \E p \in Procs : Step(p)
           \/ (Finished \/ Deadlocked) /\ UNCHANGED vars

Spec == Init /\ [][Next]_vars

-----------------------------------------------------------------------------

\* No panic() of the file system is reached: a block or an inode is free when one
\* is needed, nothing is freed twice, no cached inode is without a type.
NoPanic == ~fs.panic

\* Every call of every program returns what the program expects of it.
ProgramsPass == ~failed

\* Who refers to an inode: files, working directories, and calls under way.
FilesOf(i)   == {f \in Files : ftable[f].type = "inode" /\ ftable[f].ip = i}
LiveIn(i)    == {p \in Procs : proc[p].st = "live" /\ proc[p].cwd = i}
CallsAt(i)   == {p \in Procs : proc[p].sc.ip = i}
Keeping(i)   == {p \in Procs : proc[p].sc.keep = i}
PutsOf(i)    == {p \in Procs : proc[p].sc.put = i}
Holders(i)   == Cardinality(FilesOf(i)) + Cardinality(LiveIn(i))
                + Cardinality(CallsAt(i)) + Cardinality(Keeping(i)) + Cardinality(PutsOf(i))

\* The descriptors of file f; the files of pipe x, and which ends are open: those of
\* files and those that are being closed.
Descs(f) == {x \in Procs \X Fds : proc[x[1]].ofile[x[2]] = f}
Ends(x)  == {f \in Files : ftable[f].type = "pipe" /\ ftable[f].ip = x}
Shuts(x) == {s \in {"r", "w"} : \E p \in Procs : proc[p].sc.shut = <<x, s>>}
Sides(x) == {Side(ftable[f]) : f \in Ends(x)} \cup Shuts(x)

\* Reference counts are exact: those of cached inodes, of open files, of pipes.
RefsExact ==
  /\ \A i \in Inums : fs.ic[i].ref = Holders(i)
  /\ \A f \in Files : ftable[f].ref = Cardinality(Descs(f))
  /\ \A x \in Pipes : pipes[x].open = Sides(x)

\* Links that are counted and have no entry: link() before it makes the entry or after
\* it failed, unlink() after it removed the entry.
Pending(i) == {p \in Procs : proc[p].sc.keep = i /\ proc[p].sc.st \notin {"unlinkip", "linked"}}

\* The links on the disk, as <<directory, block, unit>>: entries of directories that
\* are themselves linked, without "." and the ".." of the root.
Entry(x) == fs.blk[x[2]][x[3]]
Links ==
  LET Data(j) == BlocksOf(fs, fs.din[j]) \ {fs.din[j].addrs[NDIRECT]}
      Dirs == {j \in Inums : fs.din[j].type = "dir" /\ fs.din[j].nlink > Cardinality(Pending(j))}
      Cells == UNION {{j} \X Data(j) \X (0..(BSIZE - 1)) : j \in Dirs}
  IN  {x \in Cells : Entry(x)[1] \notin {0, IF x[1] = ROOTINO THEN ROOTINO ELSE 0}
                     /\ Entry(x)[2] # "."}

\* An inode in use, without links, to which nothing refers any more.
Orphans == {i \in Inums : fs.din[i].type # "free" /\ fs.din[i].nlink = 0 /\ fs.ic[i].ref = 0}

\* The program under test has no other process.
Alone == /\ proc[2].st = "live"
         /\ LET prog == Program[proc[2].prog] IN \A k \in DOMAIN prog : prog[k].op # "fork"

\* The disk is what a file system checker would accept, between any two steps: link
\* counts are the number of entries (and of links under way), each block in use
\* belongs to exactly one inode, the cache of an inode agrees with the disk, and a
\* program that runs alone leaves no inode behind.
DiskConsistent ==
  LET links == Links
      blocks == [i \in Inums |-> BlocksOf(fs, fs.din[i])]
  IN  /\ \A i \in Inums : fs.din[i].type # "free" =>
           fs.din[i].nlink = Cardinality({x \in links : Entry(x)[1] = i})
                             + (IF i = ROOTINO THEN 1 ELSE 0) + Cardinality(Pending(i))
      /\ fs.used = UNION {blocks[i] : i \in Inums}
      /\ Cardinality(fs.used) = MapThenSumSet(LAMBDA i : Cardinality(blocks[i]), Inums)
      /\ \A i \in Inums : fs.ic[i].valid => fs.ic[i].ip = fs.din[i]
      /\ Alone => Orphans = {}

\* iput() frees an inode when the last link and the last reference are gone: whatever
\* processes run, none is left behind.
NoOrphans == Orphans = {}

\* No page of memory is lost or used twice, whichever step of fork(), exec() or sbrk()
\* found no page: free pages, kernel stacks, address spaces and pipes are all pages.
\* And a process has exactly the pages below its size.
PagesExact ==
  /\ pages + Cardinality({x \in Pipes : pipes[x].open # {}})
           + MapThenSumSet(LAMBDA p : IF proc[p].st = "unused" THEN 0
                                      ELSE 1 + Taken(proc[p].vm), Procs) = NPAGES
  /\ \A p \in Procs : proc[p].st = "live" =>
        proc[p].vm.pg = 0..(Frames(proc[p].sz) - 1)

\* Calls that lock one inode while they hold the lock of another one do not wait for
\* each other, or for themselves, for ever.
NoLockCycle == ~Deadlocked

\* Where they do, one of them is create() or unlink(), which puts its directory, that
\* is, locks it again, while it holds the lock of the inode in it: everywhere else the
\* directory is locked first, and names lead down the tree.
LockOrder == \A S \in SUBSET {p \in Procs : Wanted(p) # 0} :
               LockCycle(S) => \E p \in S : proc[p].sc.st \in {"created", "unlinked"}

-----------------------------------------------------------------------------
(* The inductive invariant behind RefsExact, for any programs.             *)

\* The records have their fields; counts are numbers.
FsOK(d) ==
  /\ DOMAIN d = {"blk", "used", "din", "ic", "panic"} /\ DOMAIN d.ic = Inums
  /\ \A i \in Inums : DOMAIN d.ic[i] = {"ref", "lock", "valid", "ip"} /\ d.ic[i].ref \in Int

\* An open file is an inode of the disk or an end of a pipe; a free one is blank.
FileOK(e) ==
  /\ DOMAIN e = DOMAIN NoFile /\ e.ref \in Nat
  /\ e.type \in {"none", "inode", "pipe"} /\ (e.ref = 0 <=> e.type = "none")
  /\ e.type = "inode" => e.ip \in Inums
  /\ e.type = "pipe" => e.ip \in Pipes

\* Where a call is says which inodes it refers to.
CallOK(sc, ins) ==
  /\ DOMAIN sc = DOMAIN UserMode
  /\ sc.put \in Inums \cup {0}
  /\ \/ sc.st \in {"user", "write", "exit", "exited"} /\ sc.ip = 0 /\ sc.keep = 0
     \/ sc.st \in {"open", "create", "existing", "created", "chdir", "exec", "link", "unlink",
                   "unlinkbad"} /\ sc.ip \in Inums /\ sc.keep = 0
     \/ sc.st \in {"linknew", "linkexists", "unlinkip"} /\ sc.ip \in Inums /\ sc.keep \in Inums
     \/ sc.st \in {"linked", "linkbad", "unlinked"} /\ sc.ip = 0 /\ sc.keep \in Inums
     \/ /\ sc.st \in {"namei", "parent"} /\ sc.ip \in Inums
        /\ sc.keep \in Inums \/ (sc.keep = 0 /\ ins.op \in PathOps)

ProcOK(pr) ==
  /\ DOMAIN pr = DOMAIN NoProc /\ DOMAIN pr.ofile = Fds
  /\ \A fd \in Fds : pr.ofile[fd] \in Files \cup {0}
  /\ pr.st \in {"unused", "live", "zombie"} /\ CallOK(pr.sc, Program[pr.prog][pr.pc])
  /\ pr.st = "live" => pr.cwd \in IF pr.sc.st = "exited" THEN {0} ELSE Inums
  /\ pr.st # "live" => pr.sc = UserMode
  /\ pr.st # "live" \/ pr.sc.st = "exited" => \A fd \in Fds : pr.ofile[fd] = 0

\* An end of a pipe is a file or is being closed by a process, and only once.
EndsOK ==
  /\ \A f, g \in Files : /\ ftable[f].type = "pipe" /\ ftable[g].type = "pipe"
                         /\ ftable[f].ip = ftable[g].ip /\ Side(ftable[f]) = Side(ftable[g])
                         => f = g
  /\ \A f \in Files, p \in Procs :
       ftable[f].type = "pipe" => proc[p].sc.shut # <<ftable[f].ip, Side(ftable[f])>>
  /\ \A p, q \in Procs : proc[p].sc.shut = proc[q].sc.shut /\ proc[p].sc.shut # <<>> => p = q
  /\ \A p \in Procs : proc[p].sc.shut \in {<<>>} \cup (Pipes \X {"r", "w"})

Shapes ==
  /\ FsOK(fs)
  /\ DOMAIN ftable = Files /\ \A f \in Files : FileOK(ftable[f])
  /\ DOMAIN pipes = Pipes /\ \A x \in Pipes : DOMAIN pipes[x] = {"open", "data"}
  /\ DOMAIN proc = Procs /\ \A p \in Procs : ProcOK(proc[p])

\* Until a panic stops the system, the counts are exact.
RefsInv == fs.panic \/ (Shapes /\ EndsOK /\ RefsExact)
=============================================================================
