--------------------------------- MODULE Bio --------------------------------
(***************************************************************************)
(* The buffer bcache (bio.c), the sleep locks of its buffers (sleeplock.c)  *)
(* and the queue of disk requests (ide.c).                                 *)
(*                                                                         *)
(* One action is one critical section of bcache.lock, of the spinlock of a *)
(* sleep lock or of idelock; between them other processes and the disk     *)
(* interrupt run.  A process stands for one use of a buffer: one that has  *)
(* two buffers at a time is two of them.  Contents and flags of a locked   *)
(* buffer belong to its holder, so a change of them is joined to the step  *)
(* that follows it.                                                        *)
(***************************************************************************)
EXTENDS Integers, Sequences, FiniteSets

CONSTANTS
  Sector,    \* the blocks of the disk
  Bytes,     \* contents of a block
  User,      \* processes that use buffers
  NBUF,      \* buffers (param.h)
  MAXPIN,    \* the most buffers the log pins at a time
  Zero,      \* contents of a buffer at boot
  Nil        \* no block, no process

Buf == 1 .. NBUF

ASSUME BioAssumption ==
  /\ NBUF \in Nat \ {0} /\ MAXPIN \in Nat
  /\ Nil \notin Sector /\ Nil \notin User /\ Zero \in Bytes
  /\ IsFiniteSet(User)

VARIABLES
  disk,          \* contents of the blocks on disk
  blk, data,     \* block number and contents of a buffer
  valid, bdirty,  \* the buffers with B_VALID, with B_DIRTY
  refcnt,
  lru,           \* the list from bcache.head.next on: most recent first
  owner,         \* who has the sleep lock of a buffer
  idequeue,
  cmd,           \* what idestart() last told the disk to do
  bpc, at, want   \* where a process is, its buffer, the block it asked for

flags == <<valid, bdirty>>
bcache == <<blk, refcnt, lru>>
ide   == <<disk, idequeue, cmd>>
bioVars  == <<ide, bcache, data, flags, owner, bpc, at, want>>

\* binit() puts each buffer before those already in the list.
BioInit ==
  /\ disk \in [Sector -> Bytes]
  /\ blk = [c \in Buf |-> Nil]
  /\ data = [c \in Buf |-> Zero]
  /\ valid = {} /\ bdirty = {}
  /\ refcnt = [c \in Buf |-> 0]
  /\ lru = [i \in 1 .. NBUF |-> NBUF + 1 - i]
  /\ owner = [c \in Buf |-> Nil]
  /\ idequeue = << >> /\ cmd = [op |-> "none"]
  /\ bpc = [p \in User |-> "idle"]
  /\ at = [p \in User |-> 1]
  /\ want = [p \in User |-> Nil]

Enter(p, l) == bpc' = [bpc EXCEPT ![p] = l]

-----------------------------------------------------------------------------
\* bget()

Hit(b) == {c \in Buf : blk[c] = b}
MutUnused == {c \in Buf : refcnt[c] = 0}
Unused == {c \in Buf : refcnt[c] = 0 /\ c \notin bdirty}

\* The first unused buffer from the end of the list.
Recycled(c) ==
  \E i \in 1 .. NBUF : /\ lru[i] = c /\ c \in Unused
                       /\ \A j \in i + 1 .. NBUF : lru[j] \notin Unused

MutBgetHit(p, b, c) ==
  /\ bpc[p] = "idle" /\ c \in Hit(b)
  /\ at' = [at EXCEPT ![p] = c]
  /\ want' = [want EXCEPT ![p] = b]
  /\ Enter(p, "lock")
  /\ UNCHANGED <<ide, bcache, data, flags, owner>>
BgetHit(p, b, c) ==
  /\ bpc[p] = "idle" /\ c \in Hit(b)
  /\ refcnt' = [refcnt EXCEPT ![c] = @ + 1]
  /\ at' = [at EXCEPT ![p] = c]
  /\ want' = [want EXCEPT ![p] = b]
  /\ Enter(p, "lock")
  /\ UNCHANGED <<ide, blk, lru, data, flags, owner>>

BgetMiss(p, b, c) ==
  /\ bpc[p] = "idle" /\ Hit(b) = {} /\ Recycled(c)
  /\ blk' = [blk EXCEPT ![c] = b]
  /\ valid' = valid \ {c} /\ bdirty' = bdirty \ {c}
  /\ refcnt' = [refcnt EXCEPT ![c] = 1]
  /\ at' = [at EXCEPT ![p] = c]
  /\ want' = [want EXCEPT ![p] = b]
  /\ Enter(p, "lock")
  /\ UNCHANGED <<ide, lru, data, owner>>

-----------------------------------------------------------------------------
\* acquiresleep(), and what follows it in bread()

AcquireSleep(p) ==
  /\ bpc[p] = "lock"
  /\ IF owner[at[p]] = Nil
     THEN /\ owner' = [owner EXCEPT ![at[p]] = p]
          /\ Enter(p, IF at[p] \in valid THEN "use" ELSE "rw")
     ELSE Enter(p, "asleep") /\ UNCHANGED owner
  /\ UNCHANGED <<ide, bcache, data, flags, at, want>>

-----------------------------------------------------------------------------
\* iderw() and the disk

Request(c) ==
  IF c \in bdirty THEN [op |-> "write", blk |-> blk[c], val |-> data[c]]
                 ELSE [op |-> "read", blk |-> blk[c]]

Iderw(p) ==
  /\ bpc[p] = "rw"
  /\ idequeue' = Append(idequeue, at[p])
  /\ cmd' = IF idequeue = << >> THEN Request(at[p]) ELSE cmd
  /\ Enter(p, "wait")
  /\ UNCHANGED <<disk, bcache, data, flags, owner, at, want>>

\* The disk has done what it was told, and interrupts: ideintr().  The disk
\* does not fail (a read error would leave the buffer valid with its old data).
MutIdeintr ==
  LET c == Head(idequeue) IN
  /\ idequeue # << >>
  /\ disk' = IF cmd.op = "write" THEN [disk EXCEPT ![cmd.blk] = cmd.val] ELSE disk
  /\ data' = IF c \in bdirty THEN data ELSE [data EXCEPT ![c] = disk[cmd.blk]]
  /\ valid' = valid \cup {c} /\ bdirty' = bdirty \ {c}
  /\ bpc' = [p \in User |-> IF bpc[p] = "wait" /\ at[p] = c THEN "woken" ELSE bpc[p]]
  /\ idequeue' = Tail(idequeue)
  /\ cmd' = [op |-> "none"]
  /\ UNCHANGED <<bcache, owner, at, want>>
Ideintr ==
  LET c == Head(idequeue) IN
  /\ idequeue # << >>
  /\ disk' = IF cmd.op = "write" THEN [disk EXCEPT ![cmd.blk] = cmd.val] ELSE disk
  /\ data' = IF c \in bdirty THEN data ELSE [data EXCEPT ![c] = disk[cmd.blk]]
  /\ valid' = valid \cup {c} /\ bdirty' = bdirty \ {c}
  /\ bpc' = [p \in User |-> IF bpc[p] = "wait" /\ at[p] = c THEN "woken" ELSE bpc[p]]
  /\ idequeue' = Tail(idequeue)
  /\ cmd' = IF idequeue' = << >> THEN [op |-> "none"] ELSE Request(Head(idequeue'))
  /\ UNCHANGED <<bcache, owner, at, want>>

\* The loop of iderw(), after a wakeup.
IderwReturn(p) ==
  /\ bpc[p] = "woken"
  /\ Enter(p, IF at[p] \in valid \ bdirty THEN "use" ELSE "wait")
  /\ UNCHANGED <<ide, bcache, data, flags, owner, at, want>>

-----------------------------------------------------------------------------
\* What the holder of a buffer does with it

\* A change of the contents and bwrite().
Bwrite(p, v) ==
  /\ bpc[p] = "use" /\ owner[at[p]] = p
  /\ data' = [data EXCEPT ![at[p]] = v]
  /\ bdirty' = bdirty \cup {at[p]}
  /\ Enter(p, "rw")
  /\ UNCHANGED <<ide, bcache, valid, owner, at, want>>

\* A change of the contents and log_write(), which pins the buffer.
Pinned == {c \in bdirty : \A p \in User : bpc[p] \in {"rw", "wait"} => at[p] # c}

Pin(p, v) ==
  /\ bpc[p] = "use"
  /\ at[p] \in bdirty \/ Cardinality(Pinned) < MAXPIN
  /\ data' = [data EXCEPT ![at[p]] = v]
  /\ bdirty' = bdirty \cup {at[p]}
  /\ UNCHANGED <<ide, bcache, valid, owner, bpc, at, want>>

\* brelse(): releasesleep(), and then the list.
ReleaseSleep(p) ==
  /\ bpc[p] = "use" /\ owner[at[p]] = p
  /\ owner' = [owner EXCEPT ![at[p]] = Nil]
  /\ bpc' = [q \in User |-> IF q = p THEN "release"
                           ELSE IF bpc[q] = "asleep" /\ at[q] = at[p] THEN "lock" ELSE bpc[q]]
  /\ UNCHANGED <<ide, bcache, data, flags, at, want>>

\* c is unlinked and put at the head.
MoveToFront(c) ==
  LET k == CHOOSE i \in 1 .. NBUF : lru[i] = c
  IN  [i \in 1 .. NBUF |-> IF i = 1 THEN c ELSE IF i <= k THEN lru[i - 1] ELSE lru[i]]

MutBrelse(p) ==
  /\ bpc[p] = "release"
  /\ refcnt' = [refcnt EXCEPT ![at[p]] = @ - 1]
  /\ lru' = IF refcnt[at[p]] = 1 THEN [lru EXCEPT ![1] = at[p]] ELSE lru
  /\ want' = [want EXCEPT ![p] = Nil]
  /\ Enter(p, "idle")
  /\ UNCHANGED <<ide, blk, data, flags, owner, at>>
Brelse(p) ==
  /\ bpc[p] = "release"
  /\ refcnt' = [refcnt EXCEPT ![at[p]] = @ - 1]
  /\ lru' = IF refcnt[at[p]] = 1 THEN MoveToFront(at[p]) ELSE lru
  /\ want' = [want EXCEPT ![p] = Nil]
  /\ Enter(p, "idle")
  /\ UNCHANGED <<ide, blk, data, flags, owner, at>>

-----------------------------------------------------------------------------
Start(p) == \E b \in Sector, c \in Buf : BgetHit(p, b, c) \/ BgetMiss(p, b, c)
Use(p)   == \E v \in Bytes : Bwrite(p, v) \/ Pin(p, v)
BioNext ==
  \/ \E p \in User : \/ Start(p) \/ AcquireSleep(p) \/ Iderw(p) \/ IderwReturn(p)
                     \/ Use(p) \/ ReleaseSleep(p) \/ Brelse(p)
  \/ Ideintr

BioSpec == BioInit /\ [][BioNext]_bioVars

-----------------------------------------------------------------------------
\* Properties

Holding == {"rw", "wait", "woken", "use"}
Referring == Holding \cup {"lock", "asleep", "release"}
Queued == {idequeue[i] : i \in 1 .. Len(idequeue)}

BioTypeOK ==
  /\ disk \in [Sector -> Bytes]
  /\ blk \in [Buf -> Sector \cup {Nil}] /\ data \in [Buf -> Bytes]
  /\ valid \subseteq Buf /\ bdirty \subseteq Buf
  /\ refcnt \in [Buf -> Nat]
  /\ lru \in [1 .. NBUF -> Buf]
  /\ owner \in [Buf -> User \cup {Nil}]
  /\ idequeue \in Seq(Buf)
  /\ bpc \in [User -> Referring \cup {"idle"}]
  /\ at \in [User -> Buf] /\ want \in [User -> Sector \cup {Nil}]

\* The uses of buffers under way, from bget() to brelse().
Uses == {p \in User : bpc[p] \in Referring}

\* No panic of bio.c or ide.c is reached but one: bget() finds no buffer when as many
\* of them as there are are in use or pinned by the log, and only then; no buffer is
\* ever lost.  Who writes or releases a buffer has its lock, and iderw() has
\* something to do.
NoBufferLost ==
  /\ Unused = {} => NBUF <= Cardinality(Uses) + Cardinality(Pinned)
  /\ \A p \in User : /\ bpc[p] \in Holding => owner[at[p]] = p
                     /\ bpc[p] = "rw" => at[p] \notin valid \ bdirty

\* What bread() of a block returns or would return, and who is between bread()
\* and brelse() of it.
Content ==
  [b \in Sector |-> IF \E c \in Hit(b) : c \in valid
                   THEN data[CHOOSE c \in Hit(b) : c \in valid] ELSE disk[b]]
Holders == [b \in Sector |-> {p \in User : bpc[p] \in Holding /\ want[p] = b}]

BS == INSTANCE BlockStore WITH
        Block <- Sector, Val <- Bytes, Proc <- User, content <- Content, holders <- Holders

\* The bcache implements BlockStore: recycling a buffer, a request waiting in the
\* queue or a buffer handed from one process to the next never lose a write,
\* return another block's contents or give a block to two processes.
Stored == BS!Spec

\* The buffer of a process is that of the block it asked for, from the moment
\* bget() gives up bcache.lock until brelse() takes it again.
NotStolen == \A p \in User : bpc[p] \in Referring => blk[at[p]] = want[p]

\* No wakeup is lost: who sleeps in iderw() has its buffer in the queue, and
\* who sleeps in acquiresleep() has a holder to wait for; the disk is at work on
\* the first request of the queue, as it stands.
NoLostWakeup ==
  /\ idequeue # << >> => cmd = Request(Head(idequeue))
  /\ \A p \in User :
       /\ bpc[p] = "wait" => at[p] \in Queued
       /\ bpc[p] = "asleep" => owner[at[p]] # Nil

-----------------------------------------------------------------------------
\* The inductive invariant behind them

\* The list always has every buffer once.
LruInv ==
  /\ \A i, j \in 1 .. NBUF : lru[i] = lru[j] => i = j
  /\ \A c \in Buf : \E i \in 1 .. NBUF : lru[i] = c

Refs(c) == {p \in User : bpc[p] \in Referring /\ at[p] = c}

\* Reference counts and sleep locks.
RefInv == \A c \in Buf : refcnt[c] = Cardinality(Refs(c))
SleepLockInv ==
  /\ \A p \in User : bpc[p] \in Holding => owner[at[p]] = p
  /\ \A c \in Buf : owner[c] # Nil => bpc[owner[c]] \in Holding /\ at[owner[c]] = c
  /\ \A p \in User : bpc[p] = "asleep" => owner[at[p]] # Nil

\* One buffer for a block, and the one a process asked for.
BlockInv ==
  /\ \A c, d \in Buf : blk[c] = blk[d] /\ blk[c] # Nil => c = d
  /\ \A p \in User : bpc[p] \in Referring => blk[at[p]] = want[p] /\ want[p] # Nil

\* The queue has the buffers of those who wait for the disk, once each.
QueueInv ==
  /\ \A i, j \in 1 .. Len(idequeue) : idequeue[i] = idequeue[j] => i = j
  /\ \A c \in Queued : owner[c] # Nil /\ bpc[owner[c]] = "wait"
  /\ \A p \in User : bpc[p] = "wait" => at[p] \in Queued
  /\ idequeue # << >> => cmd = Request(Head(idequeue))

\* Which buffers have been read, and which differ from the disk.
DataInv ==
  /\ bdirty \subseteq valid
  /\ \A c \in valid : blk[c] # Nil
  /\ \A c \in valid \ bdirty : data[c] = disk[blk[c]]
  /\ \A p \in User : bpc[p] \in {"use", "release"} => at[p] \in valid
  /\ \A p \in User : bpc[p] \in {"rw", "wait"} => at[p] \notin valid \ bdirty
  /\ \A p \in User : bpc[p] = "woken" => at[p] \in valid \ bdirty

PinInv == Cardinality(Pinned) <= MAXPIN

BioInv ==
  /\ BioTypeOK /\ LruInv /\ RefInv /\ SleepLockInv
  /\ BlockInv /\ QueueInv /\ DataInv /\ PinInv
=============================================================================
