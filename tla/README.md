# TLA+ models of the modified xv6 kernel

The repository holds two copies of the xv6 teaching kernel (x86): `xv6-public`,
as published, and `xv6-public-modificado`, with a two-level feedback-queue
scheduler (`proc.c`, `proc.h`, `trap.c`) and a best-fit page allocator
(`kalloc.c`). `Archivos de prueba` keeps an alternative allocator over a search
tree (`kalloc_bestfit.c`) and the test programs; `resultados` the logs of their
runs. This directory models the kernel, both schedulers and allocators where the
copies differ, and the user programs that the repository has or tests with; it
checks them with TLC and proves the central properties of the core with TLAPS.
Line numbers are those of `xv6-public-modificado` unless said otherwise.

## 1. Inventory

| Component | State | Operations | Interacts with | Hard part |
|---|---|---|---|---|
| Process table (`proc.c`) | `ptable`: state, pid, parent, chan, killed, kernel stack, page table; `nextpid` | allocproc, fork, exit, wait, kill, sleep, wakeup | every sleeping component; kalloc | unlocked writes in fork, stack freed while in use, lost wakeups |
| MLFQ scheduler (`proc.c`, `trap.c`) | priority, ticks_used; `cpu->proc`; ptable.lock held across `swtch` | scheduler, sched, yield, forkret, timer case of trap | process table | lock handed over a context switch, starvation |
| Page allocator (`kalloc.c`) | `kmem`: free list inside the free pages, lock, use_lock | kinit1, kinit2, freerange, kfree, kalloc | main (boot order), vm, pipes, fork | links inside pages, boot without a lock |
| Tree allocator (`kalloc_bestfit.c`) | tree of blocks, pool of nodes, counters | bst_insert, bst_delete, bst_find_best_fit, try_coalesce, kfree, kalloc | would replace kalloc.c | rewiring of the tree, exhaustion of the pool |
| Log (`log.c`) | header and blocks on disk and in memory, outstanding, committing | begin_op, log_write, end_op, commit, recovery | buffer cache, every file-system call | crash between disk writes, reservation of space |
| Buffer cache, sleep locks, disk (`bio.c`, `sleeplock.c`, `ide.c`) | buffers, LRU list, request queue | bread, bwrite, brelse, iderw, ideintr | log, file system, interrupts | one buffer per block, interrupt against sleeper |
| Inodes and directories (`fs.c`, `sysfile.c`) | inode cache, bitmap, directories | iget, ilock, iput, bmap, dirlink, link, unlink, create | log, buffer cache | last reference against unlink, order of locks |
| File table and pipes (`file.c`, `pipe.c`) | reference counts; ring, nread, nwrite, open ends | filedup, fileclose, pipewrite, piperead, pipeclose | process table, kalloc | close against sleeping peer |
| Virtual memory, exec (`vm.c`, `exec.c`) | page tables | allocuvm, copyuvm, freevm, exec | kalloc | failing half way |
| Console (`console.c`, `uart.c`, `kbd.c`) | input ring with r, w, e | consoleintr, consoleread | interrupts, sleep | full ring, editing against reader |
| Spinlocks (`spinlock.c`) | locked, cpu; ncli, intena | acquire, release, pushcli, popcli | everything | nesting across a switch |
| System call dispatch (`syscall.c`, `sysproc.c`) | | argfd, argptr, argstr, sbrk, kill, sleep | every call | bad pointers and descriptors |
| Image tool (`mkfs.c`) | the disk image | main, iappend | file system | sizes that kernel and tool must agree on |
| User library (`umalloc.c`, `ulib.c`, `printf.c`, `string.c`) | ring of free blocks | malloc, free, printf, atoi, memmove, names | programs | ends of ranges and buffers |
| Shell and filters (`sh.c`, `grep.c`, `wc.c`, `cat.c`, `init.c`) | | parser, runcmd, the loops over a buffer | every call | words in the line they were read from, cut lines |
| Tests (`usertests.c`, `stressfs.c`, `memtest.c`, `schedtest.c`) | | | every call | their processes interleave freely |
| Original scheduler (`xv6-public/proc.c`) | position of each scan | scheduler, sched, yield | process table | turns counted over several CPUs |
| Boot and controllers | | | | devices, see section 8 |

What makes them correct: a process is on one CPU and its memory outlives its
use; no wakeup is lost; every child has somebody to reap it; the quantum is
kept; a page has one holder and none leaks; a crash leaves exactly the committed
transactions; nobody waits for ever for something that has happened. The
hazards behind these, each at its line, are listed in `PROJECT.json`.

## 2. Plan

The order follows what the repository itself is about, and then what everything
else rests on. All of it is done but what item 10 names.

1. `Proc`: process table, scheduler, timer. Invariant and theorems in `ProcProofs`.
2. `PageAllocator` (abstract), `Kmem` (shared part), `KallocLifo` (original),
   `KallocBestFit` (modified), and their proofs: the modified allocator
   implements the original one, and both implement `PageAllocator`.
3. `KallocBST`: the tree allocator of the test files, for TLC only.
4. `AtomicDisk` (abstract) and `Log`, which implements it across crashes;
   `LogProofs` proves it.
5. `BlockStore` (abstract) and `Bio`: buffer cache, sleep locks and disk queue,
   with proofs in `BioProofs`. `BlockStore` is the view `Log` has of the cache.
6. `Vm` and `FileSys`: memory, inodes, directories, files and the calls on them,
   with the repository's programs (`UserTests`, `UserPrograms`) as their users.
   `FileSysProofs`: the reference counts, for any programs.
7. `Channel` (abstract) and `Pipe`; `LineDiscipline` (abstract) and `Console`.
8. `Spinlock`: locks against interrupts and against processes that migrate.
9. `Umalloc`, `Shell`, `Filters`, `Text`: the library and the programs as
   algorithms, each against a reference definition; `ProcRR`: the original
   scheduler, whose round robin the modified one gave up.
10. `SpinlockProofs` and `StreamProofs`: `Spinlock` excludes and restores interrupts
    for any number of processors and nested locks, `Pipe` implements `Channel` and
    `Console` implements `LineDiscipline` for any size.

## 3. Modules

| Module | Models | Kind |
|---|---|---|
| `ProcTable` | `struct proc`, `param.h`: what both kernels' tables share | constants and definitions |
| `Proc` | `proc.c`, timer and exit paths of `trap.c`, `sys_sleep` of `sysproc.c` | specification, properties, inductive invariant |
| `ProcProofs` | | theorems on `Proc` |
| `ProcRR` | `proc.c` and the timer of `trap.c` of the original kernel | specification, property, inductive invariant |
| `ProcRRProofs` | | theorems on `ProcRR` |
| `MCProc`, `MCProcLife` | | TLC instances; the second has both kernels' tables |
| `PageAllocator` | what callers of kalloc and kfree expect | abstract specification |
| `Kmem` | list, lock, kfree and boot order common to both `kalloc.c` | component |
| `KallocLifo`, `KallocBestFit` | `kalloc.c` of each kernel | specifications |
| `KallocProofs` | | theorems on `Kmem`, `KallocLifo` and `KallocBestFit` |
| `KallocBST` | `Archivos de prueba/kalloc_bestfit.c` | specification |
| `AtomicDisk` | what file-system calls expect of the log | abstract specification |
| `Log` | `log.c` with the cache and the disk below it | specification |
| `LogProofs` | | theorems on `Log` |
| `BlockStore` | what the log and the file system expect of bread and brelse | abstract specification |
| `Bio` | `bio.c`, `sleeplock.c`, `ide.c` | specification, properties, inductive invariant |
| `BioProofs` | | theorems on `Bio` |
| `Stores` | | TLC instance of `KallocBestFit`, `KallocBST`, `Bio` and `Log` |
| `Vm` | `vm.c`, the memory of `exec.c`, growproc | operators |
| `FileSys` | `fs.c`, `file.c`, `sysfile.c`, the calls of `proc.c` and `sysproc.c`, `mkfs.c` | specification, properties, inductive invariant |
| `FileSysProofs` | | theorems on `FileSys` |
| `UserTests`, `UserPrograms` | `usertests.c`; the other programs | programs for `FileSys` |
| `Umalloc` | `umalloc.c` | specification, property |
| `Shell`, `Filters`, `Text` | the parser of `sh.c`; `grep.c`, `wc.c`; `printf.c`, `ulib.c`, `string.c`, names of `fs.c` | operators and their references |
| `UserLib`, `UserSpace` | | every small call of the library; TLC instance of programs and library |
| `Channel`, `LineDiscipline` | what the two ends of a pipe, and the readers of the console, expect | abstract specifications |
| `Pipe`, `Console`, `Spinlock` | `pipe.c` with `file.c`; `console.c`; `spinlock.c` with sched | specifications, properties |
| `SpinlockProofs`, `StreamProofs` | | theorems on `Spinlock`; on `Pipe` and `Console` |
| `Streams` | | TLC instance of the three |

Where a TLC instance has several components that share no state, one variable
(`kernel`, `store`, `level`, `topic`) says which of them a behaviour is about,
and the others stand still: the state spaces add up and do not multiply.

### Proc

A CPU is in its scheduler thread or in the kernel thread of `cproc[c]`. `kpc[p]`
is where the kernel thread of p is; `"user"` is all of user mode. Each field of
`struct proc` that matters is a function on slots. One action is one stretch
that other CPUs see as a unit: a critical section of `ptable.lock` or
`tickslock`, or a single unlocked write. `fork()` is therefore four steps
(`Allocproc`, `AllocKstack`, `CopyUvm`, `Fork`) with the unlocked failing path
`ForkNoMem`, and any of them can be preempted by `TimerTrap`. `Dispatch`
acquires the lock, and `Forkret`, `YieldReturn`, `TicksWoken` or the end of
`wait()` releases it on the other side of the switch; `Yield`, `WaitSleep`,
`TicksSleep` and `Exit` take it and `Sched` hands it to the scheduler thread.
`ToExit` stands for the exit system call, a fault in user mode and the killed
check. User memory, files and names are left out; the two things a slot owns,
stack and page table, are the set `mem`.

### ProcRR

The same table with the one queue of the original kernel. What `Proc` shows about
wakeups and stacks is not repeated: a call is one step for each time it takes
`ptable.lock`, sleeping included, and all failing paths of fork are one. What is
kept in full is the scan: `cpus[c].pos` is where scheduler() of CPU c goes on when
a process comes back through sched(), and the lock stays with that CPU until the
end of the table. `watch` is any slot, and `passed` the processors and processes
that were given a turn since it became runnable.

### Kmem, KallocLifo, KallocBestFit

`next[x]` (and `size[x]`) is the word of page x where kfree keeps its link,
whoever owns the page, so holders may scribble on it with `Words`. kfree is
memset (unlocked), link, push; kalloc is one step per turn of the search loop.
`phase` is how far `main()` is: until kinit2 is done the allocator runs without
the lock, on the boot processor only. `ret` is what kalloc returned last.

### KallocBST

Nodes are indices of the pool, null is 0; insertion and deletion follow the
pointers as the code does. Allocation and freeing are atomic, since the code
holds `kmem.lock` throughout.

### Log

`home`, `logd` and `hdr` are the disk, everything else is lost in a `Crash`.
A call is `BeginOp` (or `BeginSleep`), some `Modify`, `LogWriteCheck`,
`LogWrite`, then `EndOp`; the last call out runs `WriteLog` for each block,
`WriteHead`, `Install` for each block, `ClearHead`, `Finish`. After a crash
`ReadHead` starts the same `Install` and `ClearHead`. `Evict` is any other use of
the buffer cache that recycles a buffer. A block is one sector, so a disk write
happens or does not.

### Bio

A use of a buffer is `BgetHit` or `BgetMiss` (under `bcache.lock`), `AcquireSleep`,
`Iderw` and `IderwReturn` if the block has to be read, any number of `Pin`
(log_write) and `Bwrite`, then `ReleaseSleep` and `Brelse`. `Ideintr` is the disk
interrupt: it completes the request at the head of the queue with the command
that `idestart` gave (`cmd`), and starts the next. A process that has two buffers
at a time is two processes of the model. A bget() that finds every buffer in use or
pinned, where the code panics, has no step: `NoBufferLost` says when that is. Read errors
and the second disk are left out.

### Vm and FileSys

`Vm` computes on `[free, vm, r]`: the number of free pages, an address space as the
sets of its pages and page tables, and the result of the call. Every page and every
page table may be the one for which kalloc() fails. Addresses are taken modulo
`WORD`, so that sz + n wraps.

`FileSys` has the disk (inodes with direct and indirect blocks, the bitmap,
directories as data), the inode cache with reference counts and locks, the file
table, pipes, and processes with descriptors, working directory and memory. A call
with a path is one step for each path element and for each stretch in which it holds
the same inode locks; that is where calls of other processes come in between. `iput()`
is two steps wherever it is called: the one with the lock of the inode, which tests `ref`
and may free the inode (`iput`), and the `ref--` afterwards (`iputEnd`). `sc.put` is the
inode a call has to put before it goes on or returns, and `sc.drop` that the first of the
two steps is done. So `iunlockput(dp)` lets go of the directory and then waits for its
lock again, in create() and unlink() with the other inode still locked (the states
`created` and `unlinked`). `fileclose()` drops the entry of the file table in one step and
leaves the `pipeclose()` (`sc.shut`) or `iput()` of the last reference for later ones;
exit() does this for each descriptor and then for its directory. A step is inside the transaction of its call, which `Log` makes atomic, and its blocks are
those `Bio` keeps coherent. The initial disk is what `mkfs` writes.
A read never meets a hole and so never allocates: `writei()` refuses to start
past the end of a file, and the entries of `Image` do not fill whole blocks,
which is when `mkfs` rounds the root directory up to a block it has not
allocated.

A program is a sequence of instructions, one for each system call in the C text, with
the results after which the C code goes on; `ProgramsPass` is that no other result
ever comes. Numbers of files, sizes and children are scaled to the constants: a file
still has an indirect block, a write still takes several transactions, and the inode
cache, the file table, the process table, the disk and the memory still run full where
the test wants them to. Three programs are not in the repository: `dirrace`
and `linkdot`, and `sbrkedge`, which grows to the limit
below KERNBASE, asks for one byte more, and for sizes where sz + n wraps in both
directions. Where a test of the repository deadlocks (section 7) its processes stand still
and the run goes on with the other behaviours.

### Umalloc, Shell, Filters, Text

`Umalloc` is a state machine: the program mallocs, frees in any order and calls sbrk()
itself. The others are the C functions as operators, loops as recursion, buffers as
functions: `gettoken`, `parseline` and `nulterminate` over the characters of the line,
`grep` and `wc` over their buffer, `printint`, `skipelem`, `memmove` over memory. Each is
compared with a definition that says what is meant and not how: a grammar with its
trees, the language of a pattern, positional notation, the elements of a path.

### Pipe, Console, Spinlock

In `Pipe` and `Console` a step is what is done under the pipe's or the console's lock;
between the last test and being marked asleep a process keeps that lock, as sleep()
does. Counters are modulo `COUNT` and `ICOUNT`, a multiple of the ring's size as 2^32
is. `Pipe` has the files too, so that the close of an end is three steps: the file, the
pipe, the page. In `Spinlock` acquire() is reading the flags, cli and count, xchg,
and the name of the owner; an interrupt puts a handler on top of what the processor
does, and the handler may take locks and yield. A process carries its intena in its
context from one processor to another, a new one starts in forkret().

## 4. Runs

| Run | Bounds | Checks |
|---|---|---|
| `proc_life` | 3 slots, 2 CPUs, quantum 1, pids to 3 | invariant; exclusion, parents, wakeups; round robin of the original kernel |
| `proc_live` | 2 slots, 2 CPUs, quantum 2 | quantum; the low queue is served |
| `stores` | list: 3 pages (2 low), 2 CPUs; tree: 6 pages (2 low), 11 nodes; cache: 2 buffers, 3 blocks, 2 processes, 1 pinned block; log: 2 blocks, 3 processes, log of 6 blocks, 3 reserved per call | the free list is exact, same as original, `PageAllocator`; the tree loses no page and its best fit is the smallest; `BlockStore`, buffers not stolen, no lost wakeup; `AtomicDisk` across crashes, no panic, durability, nobody asleep in begin_op() without somebody to wake it; the invariants of cache and log |
| `user_programs` | 5 processes, 16 inodes of at most 4 blocks, 24 blocks, 7 cached inodes, 6 files, 46 pages; the library with heaps of 11 units, lines, files and paths of 5 characters, 8-bit integers | programs get what they expect, no panic, reference and link counts, bitmap and pages exact, no cycle of locks but the one of section 7, no other deadlock; heap exact, parser, filters and conversions right |
| `streams` | 2 processes, 1 page, 3 files, ring of 2; input ring of 3; 2 CPUs, 2 nested locks | pipes are `Channel`s, free their page once, leave nobody asleep who should be woken; the console is a `LineDiscipline`; locks exclude; interrupts come back as they were |
| `proc_low_only_when_high_empty`, `proc_round_robin`, `bst_pool`, `link_dot`, `lock_order`, `inode_leak`, `killed_writer` | small, or one program of `user_programs` | the findings of section 7 |

Why the bounds are enough. In `proc_life` three slots are init, a parent and a
child, so that a child can exit, be inherited, be reaped and its slot reused
while two CPUs run; pids to 3 allow one slot to be used twice. Quantum 1 puts
processes in the low queue at once; `proc_live` has quantum 2 and counts one tick
further than the code ever reaches, so that a late degradation would show. With
three pages and two processors a page can be freed by one while the other
searches past it. Six pages give a tree with nodes of two children; eleven
nodes are enough for the sequences of splits and merges before the pool is
empty. In the log of `stores` two calls share a transaction while the third waits for
space, both blocks are in one transaction, and every step can be followed by a
crash, also in recovery; two contents tell an old block from a new one. In its cache
there are more blocks than buffers, so that buffers are recycled, both buffers can be
in use or pinned, and two requests can be in the queue. In `user_programs` the tables are just large enough for the programs that are
to succeed and too small for those that are to fill them; the largest heap holds three
blocks with a hole, and five characters make the shortest lines with two operators or
a block in parentheses, a line longer than the buffer of grep, and a name longer than
DIRSIZ. In `streams` a write is longer than the ring, both counters wrap, either end can
be closed or its process killed at any point; the input ring takes a line longer than
itself; a handler can interrupt the holder of the lower lock and take the higher one.
Symmetry (processes, processors) is used only in `streams` and `killed_writer`, where the
elements are interchangeable and no liveness is checked. Deadlock is not checked in
`streams`: two processes that both read from an empty pipe may sleep for ever, which is
theirs to avoid; it is checked in all other passing runs. All state spaces are explored
completely.

## 5. Fairness

`Proc.FairSpec`: a CPU goes on executing the thread it is in, and its timer keeps
firing (weak fairness per CPU); what programs ask for is never forced.
`ProgressSpec`, used only for the round-robin finding, adds that a kernel thread
that gets the CPU again and again advances, so that the counterexample is not a
thread preempted for ever before its next step.
No other property uses fairness: crashes and failing allocations are never forced nor
excluded. In particular no model assumes that each process goes on, for the scheduler of
this kernel does not give that: a process of the low queue, in the middle of commit() for
one, can be passed over for ever (`LowRoundRobin`). So nothing is claimed about when a
sleeper of begin_op() runs again; what log.c itself owes it is the safety property
`NoIdleSleeper`: while anybody sleeps there, a commit is under way or calls are open, whose
end_op() wakes all sleepers.

## 6. Proofs

All theorems hold for every value of the constants allowed by the `ASSUME` of
each module (at least one slot, CPU, tick of quantum; any number of pages; a
reservation that fits in the log).

* `ProcProofs`. The inductive invariant `ProcInv` says who holds `ptable.lock`
  across a switch (`CpuInv`), where a process off the CPU is stopped
  (`ThreadInv`), that each slot under construction belongs to one `fork()`
  (`ForkInv`), that parents are alive (`FamilyInv`) and that a process asleep has
  something to wait for (`SleepInv`). It is needed because none of the safety
  properties is inductive: that wait() cannot free a stack in use, for one,
  depends on the lock being held from exit()'s change of state to the switch.
  From it follow type correctness, exclusion, safety of stacks and embryos, no
  orphans, no lost wakeups, the quantum, and that zombies are only reaped.
* `ProcRRProofs`. `RoundRobin` speaks of two turns, and what is between them is where
  the scan of each processor stands. `RRInv` relates the two: a processor whose scan is
  behind the slot waited for has since given turns only to slots between the two; one
  whose scan is still in front of it has given turns to slots behind it, in the round
  before, or to those just passed (`Turns`). The scan cannot go past the slot, which is
  runnable, nor meet the same slot twice without doing so, and sched() goes on behind
  the process it leaves. So a processor gives no process two turns while another waits
  (`TakesTurns`), for any number of slots (one at least) and processors.
* `KallocProofs` proves what each step of kfree, kalloc and the boot does to the
  list (`KmemInv`: links lead from free pages to free pages, no two to the same
  and none to the head), and adds, for each of the two allocators, the
  state of a search: it holds nothing, or the head. So the modified allocator
  implements the original one (`BestFitIsLifo`): over blocks of one page best
  fit and first fit are the same. Both implement `PageAllocator`. That the list is
  exact and ends (`FreeListExact`) needs more, for `ListInv` would allow a circle of free
  pages beside the list: `OneList` says that the free pages can be numbered along the
  links from the head to null. A push adds a first page, a pop takes it, and nothing else
  touches a link of a free page. That the walk of `Chain` then meets them in this order is
  shown by the smallest step at which two walks would differ.
* `LogProofs`. `LogInv` relates the phases of a commit or a recovery to who may
  run (`PhaseInv`), the reservations to the length of the log (`SpaceInv`, with one
  element of `Reserved` for each block a call may still add), the header on disk to
  the log in memory (`HeadInv`), the copies made so far (`CopyInv`), and the buffers
  that may differ from the disk (`BufInv`). The key step, `DurableStep`, is that what
  a crash would leave changes only in `WriteHead`, and then becomes the view of the
  calls. From it: `LogAtomic` (refinement of `AtomicDisk`), durability when all calls
  are out, that a sleeper of begin_op() has a commit or an open call to wait for
  (`NoIdleSleeper`: an open call ends without waking only if it starts the commit), and, if every call leaves two of its reserved blocks unused (one if the
  log is a block longer than mkfs makes it), no panic.
* `BioProofs`. `BioInv` says that the list has each buffer once, that reference
  counts count those who refer to a buffer, that lock and holder agree, that a block
  has one buffer, that the queue has exactly the buffers waited for and the disk
  works on its head as it stands, and which buffers equal the disk. From it: the
  cache implements `BlockStore`, no buffer is stolen, no wakeup is lost, and bget()
  finds no buffer only when uses under way and pinned blocks are together at least as
  many as the buffers (`NoBufferLost`, by counting both). Nothing in the kernel excludes that by
  itself (64 processes, 30 buffers): whether the panic can come depends on how many
  processes are between bread() and brelse() at once, which is not modelled.
* `SpinlockProofs`. `SpinInv` says for each processor what its flag, `ncli` and
  `intena` are at each instruction of acquire(), release(), pushcli() and popcli(), in
  the thread and in the handler that interrupted it, and that the word of a lock is set
  exactly while one processor has it. Exclusion alone is not inductive: that nobody
  waits for a lock it has itself rests on interrupts being off from pushcli() on, and
  that on `ncli` being the number of locks held or being taken.
* `StreamProofs`. `PipeInv` says that reference counts count the open descriptors, that
  each end of a pipe has at most one file or one fileclose() under way standing for it
  and is open exactly as long as it has one (`EndsOK`), that who is in read() or write()
  keeps such a file open (`Holds`), that who frees a page is alone in it (`Frees`),
  that who is about to sleep, with the lock, still has something to wait for (`Waits`),
  and that the ring has at most PIPESIZE bytes (`RingOK`). From it: pages are freed
  once, nobody sleeps for an end that is gone, bytes wake their readers but for the
  case of section 7, and the pipes implement `Channel`. The last rests on what a
  ring with counters modulo `COUNT` does: reading drops the front of its
  contents and writing appends to them (`ReadStep`, `WriteStep`), for any ring
  size that divides `COUNT`. 2^32 and 512 in the code do; a size that does not would
  lose bytes when the counters wrap.
  `ConsoleInv` says that between r and e there are at most INPUT_BUF characters, first
  those that were entered and then a line without a newline, empty if the ring is full
  (`RingIsLines`), that who sleeps has nothing to read, and that a call that may still
  go on has neither a newline nor a ^D yet (`CallOK`). The two properties need each
  other: that ^U stops at what was entered, where its loop looks for a newline as well,
  is true because a line has none. From it: nobody sleeps beside a line, a full ring can
  be read, and the console implements `LineDiscipline`; each case of consoleintr() is
  shown to do to the cells of the ring what `LineDiscipline` does to the two sequences
  (`TypedShown`), and each consoleread() takes a prefix (`ReadShown`).

* `FileSysProofs`. `RefsExact` counts in three tables at once: inodes by the files, the
  working directories, the calls that refer to them and the iput()s under way, files by
  descriptors, the open ends of a pipe by files and by closes under way. It is not inductive: what a call gives back at its end
  depends on what it took several steps before. `RefsInv` therefore adds which inodes a
  call refers to at each point where another process may run (`CallOK`), that processes
  which do not run have neither descriptors nor inodes (`ProcOK`), that a file is in
  use exactly while its count is not zero (`FileOK`), and that an end of a pipe is one
  file or is being closed by one process (`EndsOK`), without which closing one end could
  close the other. The proof
  has two halves. Each operation on inodes adds a fixed number to each count whatever
  else it does (`Counts`: iget() adds one, iput() takes one, writei() and the rest
  nothing), and operations in sequence add up (`Then`). Each call changes what one file,
  one process or one descriptor refers to by the same numbers (`InodesStep`,
  `DescsStep`). pipe(), which takes two files and two descriptors, and fork(), whose child
  shares every descriptor of its parent, have their own lemmas (`PipeStep`, `ForkStep`);
  that pipe() finds a pipe is the pigeon-hole principle, over files and closing processes (`PipeLeft`). `CountsExact` is for
  any table sizes, disk image and programs, also programs whose calls fail
  at any point, and as long as no panic() has been reached: after one the kernel
  stops. That none is reached (`NoPanic`) depends on the programs and on the sizes, and
  is checked by TLC. How many entries a file or a directory has plays no part, so the
  folds over data of writei() and mkfs stay closed in the proof.

`ProcInv`, `LogInv` and `BioInv` are checked by TLC too, as are the refinements.
`RRInv`, `RefsInv`, `BestFitInv`, `OneList`, `SpinInv`, `PipeInv` and `ConsoleInv` are invariants of the
same instances, and have no run of their own since the theorems say more. Type
correctness, `StackInUse`, `EmbryoOwned`, `ZombieOnlyReaped` and `Bio`'s `NoBufferLost`
follow from them in the proofs and have no run of their own either.

Only model-checked: what holds under fairness (`LowQueueServed`),
because liveness is out of the prover's reach; and all that rests on recursive operators or on folds over data (`KallocBST`
with `TreeServesBest`, the contents of the disk and of memory in `FileSys`, that is
`DiskConsistent` and `PagesExact`, the library). `NoPanic`, `ProgramsPass` and
`LockOrder` of `FileSys` are about the programs that run, and false of others.

## 7. Findings

Each of these is a run that TLC ends with a counterexample.

* `proc.c:346` says the low queue runs only when the high one is empty; a turn
  that served the high queue goes on to the low one (`LowOnlyWhenHighEmpty`).
* `proc.c:345` promises round-robin in the low queue; the search restarts at slot
  0 and a process behind another CPU-bound one never runs (`LowRoundRobin`). The
  original scheduler keeps its place and does take turns (`RoundRobin`).
* The pool of the tree allocator is never refilled, so kfree loses pages after 128
  insertions (`FreedIsInTree`).
* `link(old, ".")` waits for ever for a lock that its own process has: dirlink() puts
  the inode of a name that exists while its caller has the directory locked, and the
  transaction it is in never ends (`NoLockCycle` in `link_dot`).
* create() (`sysfile.c:280`) and unlink() (`sysfile.c:225`) call `iunlockput(dp)` with the
  other inode locked, and iput() locks the directory again (`fs.c:334`). An unlink() of the
  same name can lock the directory in between and wait for the inode: both wait for ever.
  `linkunlink` of usertests can reach it (`NoLockCycle` in `lock_order`). `LockOrder`, checked in
  `user_programs`, is that the programs of the repository have no other cycle.
* iput() reads `ref` and counts it down after it released the inode (`fs.c:337`, `350`). Two
  of them can both see two references to an inode without links; neither frees it, and it
  is lost. `openiputtest` can reach it (`NoOrphans` in `inode_leak`). `DiskConsistent` claims
  that no inode is lost only of programs that run alone; all else it says holds of all.
* A writer that fills an empty pipe and finds itself killed returns without waking the
  reader, who sleeps beside a full pipe until somebody writes or closes
  (`ReaderSleepsOnEmpty`). That this is the only way to leave a reader asleep beside
  bytes is `ReadersAreWoken`, and that the last close still wakes it `PipeSleepers`.

Seen while modelling, and not runs:

* `proc.c:352` says I/O-bound processes keep their priority; `ticks_used` survives
  sleeping, so they are degraded all the same after five ticks in total.
* `kill()` marks free slots as killed (pid 0, or the pid left by a failed fork) and
  nothing clears the mark: a later process is born killed.
* The log on disk is one block shorter than what begin_op reserves. The calls of this
  kernel write at most seven or eight distinct blocks, so the slack hides it;
  `stores` runs with `OPBLOCKS < MAXOPBLOCKS` and the log as mkfs makes it.
* create() does not look whether the directory it locked still has links: a file made
  while another process removes the directory keeps link count 1 and no name.
* sbrk(-sz) frees all of the process's memory and fails: deallocuvm() returns the new size 0,
  which growproc() takes for an error, so `sz` keeps its value and the next access faults.
  No program of the suite does this.
* `memtest.c:166` frees "bloques impares"; sbrk() gives back the last pages, so the
  blocks taken again lie where blocks counted as active were, and their pattern is
  not found. The model lets the test go on, as the C code does.
* The tree allocator's `total_free` counts merged neighbours twice, and a split in
  place can break the order of its tree; the best fit is the smallest block all the same (`TreeServesBest`).
* A kill() between the killed test of a loop and its sleep() is noticed only at the
  next wakeup: `NoLostKill` is about wait(), where the lock excludes it.
* cprintf() has no `%c`, unlike printf(). In the shell `a & b` is a syntax error, and
  of two redirections of one descriptor the first in the line wins.
* `test-mem-bestfit.bat` announces a best fit over a search tree; the kernel it
  builds has the list.

## 8. Not modelled

* Devices: programming of the interrupt controllers, the disk controller, the serial
  line, the keyboard's scan codes, the screen; a disk that fails; assembly (entry,
  trap entry, swtch beyond its effect on who runs); page-table bits and segments.
* Crashes above the log: an inode without links that was open at a crash is never
  freed (`fs.c:339`), which nothing in the code handles.
* Calls that only read: fstat, getpid, uptime, procdump, and with fstat the listing of
  `ls`. `mkdir`, `rm`, `ln` and `kill` pass their arguments to one call each.
* In `usertests.c` the tests mem (the allocator is `Umalloc`'s) and fsfull (never
  called). Sizes passed to malloc() that overflow, and grep on input that arrives in
  pieces shorter than its buffer, where line 29 drops a cut line.
* What is merged or left out of single functions: a program for `Vm.execvm` has one segment, at
  address 0 and with sizes that agree; the checks of `exec.c:48`-`54`, which end in the same
  path `bad` as a short header or a failing allocuvm(), never fail. In `Proc` the killed test of trap() and the acquire of
  ptable.lock that follows are one step, so a kill() between the two comes a step earlier or later.
  A pipe() that fails gives back its files in the step in which it takes them (`FileSys.sys_pipe`),
  and has no step in `Pipe`.
* Memory is sequentially consistent in all models: shared fields are accessed under
  spinlocks, which the kernel fences, or are single words.
* Batch files, the logs of `resultados`, the formatting scripts of the listing.
