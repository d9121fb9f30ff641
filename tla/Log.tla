--------------------------------- MODULE Log --------------------------------
(***************************************************************************)
(* The write-ahead log of the file system (log.c), over the buffer cache   *)
(* (bio.c) and the disk, with crashes.                                     *)
(*                                                                         *)
(* File-system calls of several processes form one transaction: each runs  *)
(* between begin_op() and end_op(), modifies buffers under their sleep     *)
(* locks and hands them to log_write(); the last one out commits.  commit()*)
(* runs without log.lock, one disk write at a time; a crash may come       *)
(* between any two steps and takes everything but the disk.                *)
(*                                                                         *)
(* Log blocks and the header are written through the cache, so their       *)
(* buffers always equal the disk and are not modelled; a block is one      *)
(* sector, which the disk writes whole or not at all.                      *)
(***************************************************************************)
EXTENDS Integers, Sequences, FiniteSets

CONSTANTS
  Block,        \* home blocks of the file system
  Val,          \* contents of a block
  Proc,         \* processes that make file-system calls
  LOGSIZE,      \* blocks a transaction may have (param.h)
  MAXOPBLOCKS,  \* blocks begin_op() reserves for a call (param.h)
  NLOG,         \* log.size: blocks of the log on disk, the header included
  OPBLOCKS,     \* the most distinct blocks a call really writes
  None          \* no contents, no block

ASSUME ConstantsAssumption ==
  /\ LOGSIZE \in Nat \ {0} /\ MAXOPBLOCKS \in Nat \ {0}
  /\ NLOG \in Nat \ {0} /\ OPBLOCKS \in Nat
  /\ OPBLOCKS <= MAXOPBLOCKS
  /\ MAXOPBLOCKS <= LOGSIZE
  /\ None \notin Val /\ None \notin Block
  /\ Val # {} /\ IsFiniteSet(Proc)

VARIABLES
  home, logd, hdr,  \* the disk: home blocks, log blocks, header block
  cache, dirty,     \* buffers: contents of the cached blocks, B_DIRTY
  lh,               \* log.lh: the blocks of the transaction, in log order
  outstanding,      \* log.outstanding
  committing,       \* log.committing
  step, tail,       \* where commit() or recover_from_log() is
  lpc,               \* where each process is
  held,             \* the locked buffer of a process
  wrote             \* the blocks a process has written in this call

logDisk == <<home, logd, hdr>>
bufs    == <<cache, dirty>>
calls   == <<lpc, held, wrote>>
logVars == <<logDisk, bufs, lh, outstanding, committing, step, tail, calls>>

Blocks(s) == {s[i] : i \in 1 .. Len(s)}

\* A file system just made by mkfs: the log is empty.
LogInit ==
  /\ home \in [Block -> Val]
  /\ logd \in [1 .. LOGSIZE -> {None}]
  /\ hdr = << >>
  /\ cache = [b \in Block |-> None] /\ dirty = {}
  /\ lh = << >> /\ outstanding = 0 /\ committing = FALSE
  /\ step = "read_head" /\ tail = 1
  /\ lpc = [p \in Proc |-> "idle"]
  /\ held = [p \in Proc |-> None]
  /\ wrote = [p \in Proc |-> {}]

-----------------------------------------------------------------------------
\* begin_op(): no call enters before recovery is over (the first process runs
\* initlog() before anything else).

\* The reservation: all calls under way may use their MAXOPBLOCKS.
MutExhausts == Len(lh) + outstanding * MAXOPBLOCKS > LOGSIZE
Exhausts == Len(lh) + (outstanding + 1) * MAXOPBLOCKS > LOGSIZE
MayWait  == committing \/ Exhausts

Entering(p) == lpc[p] = "begin" \/ (lpc[p] = "idle" /\ (step = "none" \/ committing))

BeginOp(p) ==
  /\ Entering(p) /\ ~MayWait
  /\ outstanding' = outstanding + 1
  /\ lpc' = [lpc EXCEPT ![p] = "op"]
  /\ UNCHANGED <<logDisk, bufs, lh, committing, step, tail, held, wrote>>

BeginSleep(p) ==
  /\ Entering(p) /\ MayWait
  /\ lpc' = [lpc EXCEPT ![p] = "asleep"]
  /\ UNCHANGED <<logDisk, bufs, lh, outstanding, committing, step, tail, held, wrote>>

\* wakeup(&log): the sleepers look again.
Woken == [p \in Proc |-> IF lpc[p] = "asleep" THEN "begin" ELSE lpc[p]]

-----------------------------------------------------------------------------
\* A file-system call between begin_op() and end_op()

\* bread() of b, from the disk if it is not cached, and a change of its data.
Modify(p, b, v) ==
  /\ lpc[p] = "op"
  /\ \A q \in Proc : held[q] # b
  /\ b \in wrote[p] \/ Cardinality(wrote[p]) < OPBLOCKS
  /\ cache' = [cache EXCEPT ![b] = v]
  /\ held' = [held EXCEPT ![p] = b]
  /\ lpc' = [lpc EXCEPT ![p] = "check"]
  /\ UNCHANGED <<logDisk, dirty, lh, outstanding, committing, step, tail, wrote>>

\* log_write(), first part: the tests it makes before it takes log.lock.
TooBig == Len(lh) >= LOGSIZE \/ Len(lh) >= NLOG - 1

LogWriteCheck(p) ==
  /\ lpc[p] = "check"
  /\ ~TooBig /\ outstanding >= 1
  /\ lpc' = [lpc EXCEPT ![p] = "log"]
  /\ UNCHANGED <<logDisk, bufs, lh, outstanding, committing, step, tail, held, wrote>>

\* log_write(), second part: the block is appended unless it is there already
\* (absorption), and pinned in the cache; brelse() follows.
MutAbsorbed(b) == Append(lh, b)
Absorbed(b) == IF b \in Blocks(lh) THEN lh ELSE Append(lh, b)

LogWrite(p) ==
  /\ lpc[p] = "log"
  /\ lh' = Absorbed(held[p])
  /\ dirty' = dirty \cup {held[p]}
  /\ wrote' = [wrote EXCEPT ![p] = @ \cup {held[p]}]
  /\ held' = [held EXCEPT ![p] = None]
  /\ lpc' = [lpc EXCEPT ![p] = "op"]
  /\ UNCHANGED <<logDisk, cache, outstanding, committing, step, tail>>

\* bget() recycles the buffer of b for another block.
MutEvict(b) ==
  /\ cache[b] # None
  /\ \A p \in Proc : held[p] # b
  /\ cache' = [cache EXCEPT ![b] = None]
  /\ UNCHANGED <<logDisk, dirty, lh, outstanding, committing, step, tail, calls>>
Evict(b) ==
  /\ cache[b] # None
  /\ b \notin dirty
  /\ \A p \in Proc : held[p] # b
  /\ cache' = [cache EXCEPT ![b] = None]
  /\ UNCHANGED <<logDisk, dirty, lh, outstanding, committing, step, tail, calls>>

\* end_op(): the last call out commits, if there is anything to commit; the
\* others let sleepers see that less space is reserved.
EndOp(p) ==
  /\ lpc[p] = "op" /\ ~committing
  /\ outstanding' = outstanding - 1
  /\ wrote' = [wrote EXCEPT ![p] = {}]
  /\ IF outstanding = 1
     THEN /\ committing' = TRUE
          /\ step' = IF lh = << >> THEN "finish" ELSE "write_log"
          /\ tail' = 1
          /\ lpc' = [lpc EXCEPT ![p] = "commit"]
     ELSE /\ lpc' = [Woken EXCEPT ![p] = "idle"]
          /\ UNCHANGED <<committing, step, tail>>
  /\ UNCHANGED <<logDisk, bufs, lh, held>>

-----------------------------------------------------------------------------
\* commit(), one disk write at a time

Advance(here, next) ==
  IF tail = Len(lh)
  THEN step' = next /\ tail' = 1
  ELSE step' = here /\ tail' = tail + 1

WriteLog ==
  /\ step = "write_log"
  /\ logd' = [logd EXCEPT ![tail] = cache[lh[tail]]]
  /\ Advance("write_log", "write_head")
  /\ UNCHANGED <<home, hdr, bufs, lh, outstanding, committing, calls>>

WriteHead ==
  /\ step = "write_head"
  /\ hdr' = lh
  /\ step' = "install"
  /\ UNCHANGED <<home, logd, bufs, lh, outstanding, committing, tail, calls>>

\* install_trans(): the log block goes to its home, through the buffer of the
\* home block, which the disk driver marks clean.
Install ==
  /\ step = "install"
  /\ home' = [home EXCEPT ![lh[tail]] = logd[tail]]
  /\ cache' = [cache EXCEPT ![lh[tail]] = logd[tail]]
  /\ dirty' = dirty \ {lh[tail]}
  /\ Advance("install", "clear")
  /\ UNCHANGED <<logd, hdr, lh, outstanding, committing, calls>>

\* log.lh.n = 0 and write_head(): the transaction is erased from the log.
MutClearHead ==
  /\ step = "clear"
  /\ hdr' = << >>
  /\ step' = IF committing THEN "finish" ELSE "none"
  /\ UNCHANGED <<home, logd, bufs, lh, outstanding, committing, tail, calls>>
ClearHead ==
  /\ step = "clear"
  /\ lh' = << >> /\ hdr' = << >>
  /\ step' = IF committing THEN "finish" ELSE "none"
  /\ UNCHANGED <<home, logd, bufs, outstanding, committing, tail, calls>>

\* The end of end_op().
MutFinish ==
  /\ step = "finish"
  /\ committing' = FALSE
  /\ step' = "none"
  /\ lpc' = [p \in Proc |-> IF lpc[p] = "commit" THEN "idle" ELSE lpc[p]]
  /\ UNCHANGED <<logDisk, bufs, lh, outstanding, tail, held, wrote>>
Finish ==
  /\ step = "finish"
  /\ committing' = FALSE
  /\ step' = "none"
  /\ lpc' = [p \in Proc |-> IF lpc[p] = "commit" THEN "idle" ELSE Woken[p]]
  /\ UNCHANGED <<logDisk, bufs, lh, outstanding, tail, held, wrote>>

-----------------------------------------------------------------------------
\* A crash, and initlog() of the next boot: recover_from_log() reads the
\* header and installs what it names.

Crash ==
  /\ cache' = [b \in Block |-> None] /\ dirty' = {}
  /\ lh' = << >> /\ outstanding' = 0 /\ committing' = FALSE
  /\ step' = "read_head" /\ tail' = 1
  /\ lpc' = [p \in Proc |-> "idle"]
  /\ held' = [p \in Proc |-> None]
  /\ wrote' = [p \in Proc |-> {}]
  /\ UNCHANGED logDisk

ReadHead ==
  /\ step = "read_head"
  /\ lh' = hdr
  /\ step' = IF hdr = << >> THEN "clear" ELSE "install"
  /\ UNCHANGED <<logDisk, bufs, outstanding, committing, tail, calls>>

-----------------------------------------------------------------------------
Call(p) ==
  \/ BeginOp(p) \/ BeginSleep(p) \/ LogWriteCheck(p) \/ LogWrite(p) \/ EndOp(p)
  \/ \E b \in Block, v \in Val : Modify(p, b, v)

Commit == WriteLog \/ WriteHead \/ Install \/ ClearHead \/ Finish \/ ReadHead

LogNext ==
  \/ \E p \in Proc : Call(p)
  \/ Commit
  \/ \E b \in Block : Evict(b)
  \/ Crash

LogSpec == LogInit /\ [][LogNext]_logVars

-----------------------------------------------------------------------------
\* Properties

Points == {"idle", "begin", "asleep", "op", "check", "log", "commit"}
Steps  == {"none", "write_log", "write_head", "install", "clear", "finish",
           "read_head"}

\* The disk, the buffers and the log header stay in range.  The log has room
\* for every transaction: lh never outgrows the array of LOGSIZE block numbers.
LogTypeOK ==
  /\ home \in [Block -> Val]
  /\ logd \in [1 .. LOGSIZE -> Val \cup {None}]
  /\ hdr \in Seq(Block)
  /\ cache \in [Block -> Val \cup {None}] /\ dirty \subseteq Block
  /\ lh \in Seq(Block) /\ Len(lh) <= LOGSIZE
  /\ outstanding \in Nat /\ committing \in BOOLEAN
  /\ step \in Steps /\ tail \in 1 .. LOGSIZE
  /\ lpc \in [Proc -> Points]
  /\ held \in [Proc -> Block \cup {None}]
  /\ wrote \in [Proc -> SUBSET Block]

Active == {p \in Proc : lpc[p] \in {"op", "check", "log"}}

\* None of the panics of log.c is reached: begin_op() has reserved what the
\* unlocked test of log_write() ("too big a transaction") finds, and nobody
\* commits while a call is under way ("log.committing").
NoLogPanic ==
  \A p \in Proc :
    /\ lpc[p] = "check" => ~TooBig /\ outstanding >= 1
    /\ lpc[p] = "op" => ~committing

\* What recovery would make of the disk as it is now: the blocks the header
\* names come from the log.
Durable ==
  [b \in Block |-> IF b \in Blocks(hdr)
                   THEN logd[CHOOSE i \in 1 .. Len(hdr) : hdr[i] = b]
                   ELSE home[b]]

\* What bread() returns.  While recovery runs nobody reads.
View == [b \in Block |-> IF cache[b] # None THEN cache[b] ELSE Durable[b]]

AD == INSTANCE AtomicDisk WITH durable <- Durable, view <- View, active <- Active

\* The log implements AtomicDisk: whatever the moment of a crash, in commit()
\* or in recovery itself, the file system that comes back is that of the last
\* header written, with all the writes of its calls and none of a later one.
Atomic == AD!Spec

\* When no call and no commit is under way everything is on the disk: end_op()
\* of the last call returns only after its writes, and those of the calls that
\* ended before it, have become durable, and leaves no buffer pinned.
QuietIsDurable ==
  step = "none" /\ outstanding = 0 => Durable = View /\ lh = << >> /\ dirty = {}

\* Nobody sleeps in begin_op() without a reason to, and without somebody that ends
\* it: a commit, or calls under way that hold the reserved space; the wakeup(&log)
\* at the end of both is never missed.
NoIdleSleeper ==
  \A p \in Proc : lpc[p] = "asleep" => committing \/ (Exhausts /\ Active # {})

-----------------------------------------------------------------------------
\* The inductive invariant behind them

Recovering == ~committing /\ step # "none"

\* Who may be where: a commit excludes calls, recovery excludes everything.
PhaseInv ==
  /\ outstanding = Cardinality(Active)
  /\ committing <=> \E p \in Proc : lpc[p] = "commit"
  /\ committing => step \in {"write_log", "write_head", "install", "clear", "finish"}
  /\ Recovering => step \in {"read_head", "install", "clear"}
  /\ step # "none" => Active = {}
  /\ Recovering => \A p \in Proc : lpc[p] = "idle"
  /\ \A p \in Proc : held[p] # None <=> lpc[p] \in {"check", "log"}
  /\ \A p, q \in Proc : held[p] = held[q] /\ held[p] # None => p = q
  /\ \A p \in Proc : p \notin Active => wrote[p] = {}

\* What each reservation still allows: one pair for each block that a call may
\* yet add to the transaction.
Reserved ==
  {x \in Proc \X (1 .. MAXOPBLOCKS) :
     x[1] \in Active /\ x[2] > Cardinality(wrote[x[1]])}

SpaceInv ==
  /\ Len(lh) + Cardinality(Reserved) <= LOGSIZE
  /\ \A p \in Proc :
       /\ wrote[p] \subseteq Blocks(lh)
       /\ IsFiniteSet(wrote[p]) /\ Cardinality(wrote[p]) <= OPBLOCKS
       /\ held[p] # None => held[p] \in wrote[p] \/ Cardinality(wrote[p]) < OPBLOCKS

\* The header on disk and the log in memory.
HeadInv ==
  /\ \A i, j \in 1 .. Len(lh) : lh[i] = lh[j] => i = j
  /\ \A i, j \in 1 .. Len(hdr) : hdr[i] = hdr[j] => i = j
  /\ step \in {"install", "clear"} => hdr = lh
  /\ step \notin {"install", "clear", "read_head"} => hdr = << >>
  /\ step \in {"write_log", "write_head", "install"} => lh # << >> /\ tail <= Len(lh)
  /\ step \in {"finish", "read_head"} => lh = << >>
  /\ step = "none" /\ Active = {} => lh = << >>
  /\ step \notin {"write_log", "install"} => tail = 1
  /\ Len(hdr) <= LOGSIZE
  /\ \A i \in 1 .. Len(hdr) : logd[i] # None

\* The blocks that commit() has copied so far.
CopyInv ==
  /\ step = "write_log" => \A i \in 1 .. tail - 1 : logd[i] = cache[lh[i]]
  /\ step = "write_head" => \A i \in 1 .. Len(lh) : logd[i] = cache[lh[i]]
  /\ step = "install" => \A i \in 1 .. tail - 1 : home[lh[i]] = logd[i]
  /\ step = "clear" => \A i \in 1 .. Len(lh) : home[lh[i]] = logd[i]

\* Which buffers may differ from the disk: those of the transaction, which
\* are pinned until they are installed, and those being modified.
BufInv ==
  /\ \A b \in dirty : cache[b] # None
  /\ \A p \in Proc : held[p] # None => cache[held[p]] # None
  /\ step \in {"none", "write_log", "write_head"} => dirty = Blocks(lh)
  /\ step = "install" /\ committing => dirty = {lh[i] : i \in tail .. Len(lh)}
  /\ step \in {"clear", "finish", "read_head"} \/ Recovering => dirty = {}
  /\ step = "read_head" => \A b \in Block : cache[b] = None
  /\ \A b \in Block :
       cache[b] # None /\ b \notin dirty /\ (\A p \in Proc : held[p] # b)
         => cache[b] = Durable[b]
  /\ hdr # << >> => \A b \in Block : cache[b] \in {None, Durable[b]}

LogInv == LogTypeOK /\ PhaseInv /\ SpaceInv /\ HeadInv /\ CopyInv /\ BufInv
=============================================================================
