------------------------------ MODULE BioProofs -----------------------------
(***************************************************************************)
(* Proofs about the buffer bcache, for any number of buffers, blocks and    *)
(* processes: no write is lost, nobody gets another block's contents, no   *)
(* wakeup is lost, and bget() finds a buffer when there are enough.        *)
(***************************************************************************)
EXTENDS Bio, TLAPS, FiniteSetTheorems

-----------------------------------------------------------------------------
\* Facts about the operators

LEMMA Consts ==
  /\ NBUF \in Nat /\ NBUF >= 1 /\ MAXPIN \in Nat
  /\ Nil \notin Sector /\ Nil \notin User /\ Zero \in Bytes /\ IsFiniteSet(User)
  BY BioAssumption

LEMMA FiniteRefs == \A c : IsFiniteSet(Refs(c)) /\ Cardinality(Refs(c)) \in Nat
<1>1. \A c : Refs(c) \subseteq User
  BY DEF Refs
<1> QED
  BY <1>1, Consts, FS_Subset, FS_CardinalityType

LEMMA FinitePinned ==
  BioTypeOK => IsFiniteSet(Pinned) /\ Cardinality(Pinned) \in Nat
<1> SUFFICES ASSUME BioTypeOK PROVE IsFiniteSet(Pinned) /\ Cardinality(Pinned) \in Nat
  OBVIOUS
<1>1. IsFiniteSet(Buf)
  BY Consts, FS_Interval DEF Buf
<1>2. Pinned \subseteq Buf
  BY DEF Pinned, BioTypeOK
<1> QED
  BY <1>1, <1>2, FS_Subset, FS_CardinalityType

\* A buffer somebody refers to is not taken for another block.
LEMMA ReferredUsed ==
  ASSUME BioInv, NEW p \in User, bpc[p] \in Referring
  PROVE  refcnt[at[p]] # 0 /\ at[p] \notin Unused
<1>1. p \in Refs(at[p]) /\ at[p] \in Buf
  BY DEF Refs, BioInv, BioTypeOK
<1>2. Cardinality(Refs(at[p])) # 0
  BY <1>1, FiniteRefs, FS_EmptySet
<1> QED
  BY <1>1, <1>2 DEF BioInv, RefInv, Unused

\* The disk interrupt, in terms of the request at the head of the queue.
LEMMA IdeintrIs ==
  ASSUME BioInv, Ideintr
  PROVE  \E c \in Buf, p \in User :
           /\ c = Head(idequeue) /\ idequeue # << >> /\ c \in Queued
           /\ owner[c] = p /\ at[p] = c /\ bpc[p] = "wait" /\ blk[c] \in Sector
           /\ disk' = IF c \in bdirty THEN [disk EXCEPT ![blk[c]] = data[c]] ELSE disk
           /\ data' = IF c \in bdirty THEN data ELSE [data EXCEPT ![c] = disk[blk[c]]]
           /\ valid' = valid \cup {c} /\ bdirty' = bdirty \ {c}
           /\ bpc' = [bpc EXCEPT ![p] = "woken"]
           /\ idequeue' = Tail(idequeue)
           /\ UNCHANGED <<blk, refcnt, lru, owner, at, want>>
<1> DEFINE c == Head(idequeue)
           p == owner[c]
<1> USE DEF BioInv
<1>1. c \in Buf /\ c \in Queued /\ idequeue # << >>
  BY DEF Ideintr, BioTypeOK, Queued
<1>2. p \in User /\ bpc[p] = "wait" /\ at[p] = c
  BY <1>1 DEF QueueInv, SleepLockInv, BioTypeOK
<1>3. blk[c] \in Sector
  BY <1>1, <1>2 DEF BlockInv, Referring, Holding, BioTypeOK
<1>4. cmd = Request(c)
  BY <1>1 DEF QueueInv
<1>5. \A q \in User : bpc[q] = "wait" /\ at[q] = c <=> q = p
  BY <1>2 DEF SleepLockInv, Holding
<1>6. bpc' = [bpc EXCEPT ![p] = "woken"]
  BY <1>2, <1>5 DEF Ideintr, BioTypeOK
<1>7. disk' = IF c \in bdirty THEN [disk EXCEPT ![blk[c]] = data[c]] ELSE disk
  BY <1>4 DEF Ideintr, Request
<1>8. data' = IF c \in bdirty THEN data ELSE [data EXCEPT ![c] = disk[blk[c]]]
  BY <1>4 DEF Ideintr, Request
<1>9. /\ valid' = valid \cup {c} /\ bdirty' = bdirty \ {c} /\ idequeue' = Tail(idequeue)
      /\ UNCHANGED <<blk, refcnt, lru, owner, at, want>>
  BY DEF Ideintr, bcache
<1> QED
  BY <1>1, <1>2, <1>3, <1>6, <1>7, <1>8, <1>9

LEMMA InitInv == BioInit => BioInv
<1> SUFFICES ASSUME BioInit PROVE BioInv
  OBVIOUS
<1> USE Consts DEF BioInit, Buf
<1>1. BioTypeOK
  BY DEF BioTypeOK, Referring, Holding
<1>2. LruInv
  <2>1. \A c \in Buf : NBUF + 1 - c \in 1 .. NBUF /\ lru[NBUF + 1 - c] = c
    OBVIOUS
  <2> QED
    BY <2>1 DEF LruInv
<1>3. RefInv
  <2>1. \A c \in Buf : Refs(c) = {}
    BY DEF Refs, Referring, Holding
  <2> QED
    BY <2>1, FS_EmptySet DEF RefInv
<1>4. SleepLockInv /\ BlockInv
  BY DEF SleepLockInv, BlockInv, Referring, Holding
<1>5. QueueInv /\ DataInv
  BY DEF QueueInv, DataInv, Queued
<1>6. PinInv
  <2>1. Pinned = {}
    BY DEF Pinned
  <2> QED
    BY <2>1, FS_EmptySet DEF PinInv
<1> QED
  BY <1>1, <1>2, <1>3, <1>4, <1>5, <1>6 DEF BioInv

-----------------------------------------------------------------------------
\* Types and the list

LEMMA TypeStep ==
  ASSUME BioInv, [BioNext]_bioVars
  PROVE  BioTypeOK'
<1> USE DEF BioInv, BioTypeOK, Referring, Holding, Enter, ide, bcache, flags
<1>1. ASSUME NEW p \in User, NEW b \in Sector, NEW c \in Buf, BgetHit(p, b, c)
      PROVE BioTypeOK'
  BY <1>1 DEF BgetHit
<1>2. ASSUME NEW p \in User, NEW b \in Sector, NEW c \in Buf, BgetMiss(p, b, c)
      PROVE BioTypeOK'
  BY <1>2 DEF BgetMiss
<1>3. ASSUME NEW p \in User, AcquireSleep(p) PROVE BioTypeOK'
  BY <1>3 DEF AcquireSleep
<1>4. ASSUME NEW p \in User, Iderw(p) PROVE BioTypeOK'
  BY <1>4 DEF Iderw
<1>5. ASSUME NEW p \in User, IderwReturn(p) PROVE BioTypeOK'
  BY <1>5 DEF IderwReturn
<1>6. ASSUME NEW p \in User, NEW v \in Bytes, Bwrite(p, v) PROVE BioTypeOK'
  BY <1>6 DEF Bwrite
<1>7. ASSUME NEW p \in User, NEW v \in Bytes, Pin(p, v) PROVE BioTypeOK'
  BY <1>7 DEF Pin
<1>8. ASSUME NEW p \in User, ReleaseSleep(p) PROVE BioTypeOK'
  BY <1>8 DEF ReleaseSleep
<1>9. ASSUME NEW p \in User, Brelse(p) PROVE BioTypeOK'
  <2>1. refcnt' \in [Buf -> Nat]
    BY <1>9, ReferredUsed DEF Brelse
  <2>2. lru' \in [1 .. NBUF -> Buf]
    BY <1>9, Consts DEF Brelse, MoveToFront
  <2> QED
    BY <1>9, <2>1, <2>2 DEF Brelse
<1>10. CASE Ideintr
  <2>1. idequeue' \in Seq(Buf)
    BY <1>10 DEF Ideintr
  <2>2. PICK c \in Buf, p \in User :
           /\ blk[c] \in Sector
           /\ disk' = IF c \in bdirty THEN [disk EXCEPT ![blk[c]] = data[c]] ELSE disk
           /\ data' = IF c \in bdirty THEN data ELSE [data EXCEPT ![c] = disk[blk[c]]]
           /\ valid' = valid \cup {c} /\ bdirty' = bdirty \ {c}
           /\ bpc' = [bpc EXCEPT ![p] = "woken"]
           /\ UNCHANGED <<blk, refcnt, lru, owner, at, want>>
    BY <1>10, IdeintrIs
  <2>3. disk' \in [Sector -> Bytes] /\ data' \in [Buf -> Bytes]
    BY <2>2
  <2> QED
    BY <2>1, <2>2, <2>3
<1>11. CASE UNCHANGED bioVars
  BY <1>11 DEF bioVars
<1> QED
  BY <1>1, <1>2, <1>3, <1>4, <1>5, <1>6, <1>8, <1>9, <1>10, <1>11, <1>7
     DEF BioNext, Start, Use

\* brelse() takes a buffer out of the list and puts it back at its head.
LEMMA ListStep ==
  ASSUME BioInv, [BioNext]_bioVars
  PROVE  LruInv'
<1>1. ASSUME NEW p \in User, Brelse(p), refcnt[at[p]] = 1 PROVE LruInv'
  <2> DEFINE c == at[p]
             k == CHOOSE i \in 1 .. NBUF : lru[i] = c
  <2>1. c \in Buf /\ k \in 1 .. NBUF /\ lru[k] = c
    BY DEF BioInv, BioTypeOK, LruInv
  <2>2. lru' = [i \in 1 .. NBUF |-> IF i = 1 THEN c ELSE IF i <= k THEN lru[i - 1] ELSE lru[i]]
    BY <1>1 DEF Brelse, MoveToFront
  <2> HIDE DEF c, k
  <2>3. ASSUME NEW i \in 1 .. NBUF, NEW j \in 1 .. NBUF, lru'[i] = lru'[j] PROVE i = j
    BY <2>1, <2>2, <2>3, Consts DEF BioInv, LruInv
  <2>4. ASSUME NEW d \in Buf PROVE \E i \in 1 .. NBUF : lru'[i] = d
    <3>1. PICK j \in 1 .. NBUF : lru[j] = d
      BY DEF BioInv, LruInv
    <3>2. CASE j = k
      BY <2>1, <2>2, <3>1, <3>2, Consts
    <3>3. CASE j < k
      <4>1. j + 1 \in 1 .. NBUF /\ j + 1 # 1 /\ j + 1 <= k /\ (j + 1) - 1 = j
        BY <2>1, <3>3, Consts
      <4>2. lru'[j + 1] = lru[j]
        BY <2>2, <4>1
      <4> QED
        BY <3>1, <4>1, <4>2
    <3>4. CASE j > k
      BY <2>1, <2>2, <3>1, <3>4, Consts
    <3> QED
      BY <2>1, <3>2, <3>3, <3>4
  <2> QED
    BY <2>3, <2>4 DEF LruInv
<1>2. CASE lru' = lru
  BY <1>2 DEF BioInv, LruInv
<1>3. lru' = lru \/ \E p \in User : Brelse(p) /\ refcnt[at[p]] = 1
  BY DEF BioNext, Start, Use, BgetHit, BgetMiss, AcquireSleep, Iderw, IderwReturn, Bwrite,
         Pin, ReleaseSleep, Brelse, Ideintr, bcache, bioVars
<1> QED
  BY <1>1, <1>2, <1>3

-----------------------------------------------------------------------------
\* Reference counts and locks

LEMMA RefStep ==
  ASSUME BioInv, [BioNext]_bioVars
  PROVE  RefInv'
<1> USE DEF BioInv, BioTypeOK, Enter, ide, bcache, flags
<1>1. ASSUME NEW p \in User, NEW b \in Sector, NEW c \in Buf,
             BgetHit(p, b, c) \/ BgetMiss(p, b, c)
      PROVE  RefInv'
  <2>1. /\ p \notin Refs(c) /\ Refs(c)' = Refs(c) \cup {p}
        /\ \A d \in Buf \ {c} : Refs(d)' = Refs(d)
    BY <1>1 DEF BgetHit, BgetMiss, Refs, Referring, Holding
  <2>2. Cardinality(Refs(c) \cup {p}) = refcnt[c] + 1
    BY <2>1, FiniteRefs, FS_AddElement DEF RefInv
  <2>3. refcnt' = [refcnt EXCEPT ![c] = @ + 1]
    BY <1>1 DEF BgetHit, BgetMiss, Recycled, Unused
  <2> QED
    BY <2>1, <2>2, <2>3 DEF RefInv
<1>2. ASSUME NEW p \in User, Brelse(p) PROVE RefInv'
  <2>1. PICK c \in Buf : c = at[p]
    OBVIOUS
  <2>2. /\ p \in Refs(c) /\ Refs(c)' = Refs(c) \ {p}
        /\ \A d \in Buf \ {c} : Refs(d)' = Refs(d)
    BY <1>2, <2>1 DEF Brelse, Refs, Referring, Holding
  <2>3. Cardinality(Refs(c) \ {p}) = refcnt[c] - 1
    <3>1. Cardinality(Refs(c) \ {p}) = Cardinality(Refs(c)) - 1
      BY <2>2, FiniteRefs, FS_RemoveElement
    <3> QED
      BY <3>1 DEF RefInv
  <2>4. refcnt' = [refcnt EXCEPT ![c] = @ - 1]
    BY <1>2, <2>1 DEF Brelse
  <2> QED
    BY <2>2, <2>3, <2>4 DEF RefInv
<1>3. CASE /\ refcnt' = refcnt /\ at' = at
           /\ \A p \in User : bpc'[p] \in Referring <=> bpc[p] \in Referring
  <2>1. \A d \in Buf : Refs(d)' = Refs(d)
    BY <1>3 DEF Refs
  <2> QED
    BY <1>3, <2>1 DEF RefInv
<1>4. ASSUME NEW p \in User, \/ AcquireSleep(p) \/ Iderw(p) \/ IderwReturn(p)
                             \/ Use(p) \/ ReleaseSleep(p)
      PROVE  RefInv'
  BY <1>3, <1>4 DEF AcquireSleep, Iderw, IderwReturn, Use, Bwrite, Pin, ReleaseSleep,
                    Referring, Holding
<1>5. CASE Ideintr
  <2>1. PICK p \in User : /\ bpc[p] = "wait" /\ bpc' = [bpc EXCEPT ![p] = "woken"]
                          /\ UNCHANGED <<refcnt, at>>
    BY <1>5, IdeintrIs
  <2> QED
    BY <1>3, <2>1 DEF Referring, Holding
<1>6. CASE UNCHANGED bioVars
  BY <1>3, <1>6 DEF bioVars
<1> QED
  BY <1>1, <1>2, <1>4, <1>5, <1>6 DEF BioNext, Start

LEMMA LockStep ==
  ASSUME BioInv, [BioNext]_bioVars
  PROVE  SleepLockInv'
<1>1. /\ owner \in [Buf -> User \cup {Nil}] /\ at \in [User -> Buf] /\ Nil \notin User
      /\ bpc \in [User -> Referring \cup {"idle"}] /\ SleepLockInv
  BY Consts DEF BioInv, BioTypeOK
<1> USE <1>1 DEF Enter, SleepLockInv, Holding
<1>2. ASSUME NEW p \in User, NEW b \in Sector, NEW c \in Buf,
             BgetHit(p, b, c) \/ BgetMiss(p, b, c)
      PROVE  SleepLockInv'
  <2>1. /\ bpc[p] = "idle" /\ bpc' = [bpc EXCEPT ![p] = "lock"] /\ owner' = owner
        /\ at' = [at EXCEPT ![p] = c]
    BY <1>2 DEF BgetHit, BgetMiss
  <2> QED
    BY <2>1
<1>3. ASSUME NEW p \in User, AcquireSleep(p) PROVE SleepLockInv'
  <2>1. CASE owner[at[p]] = Nil
    <3>1. PICK l \in {"use", "rw"} : bpc' = [bpc EXCEPT ![p] = l]
      BY <1>3, <2>1 DEF AcquireSleep
    <3>2. /\ bpc[p] = "lock" /\ owner' = [owner EXCEPT ![at[p]] = p] /\ at' = at
      BY <1>3, <2>1 DEF AcquireSleep
    <3> QED
      BY <2>1, <3>1, <3>2
  <2>2. CASE owner[at[p]] # Nil
    <3>1. /\ bpc[p] = "lock" /\ bpc' = [bpc EXCEPT ![p] = "asleep"]
          /\ owner' = owner /\ at' = at
      BY <1>3, <2>2 DEF AcquireSleep
    <3> QED
      BY <2>2, <3>1
  <2> QED
    BY <2>1, <2>2
<1>4. ASSUME NEW p \in User, Iderw(p) \/ IderwReturn(p) PROVE SleepLockInv'
  <2>1. /\ bpc[p] \in {"rw", "woken"} /\ owner' = owner /\ at' = at
        /\ \E l \in {"wait", "use"} : bpc' = [bpc EXCEPT ![p] = l]
    BY <1>4 DEF Iderw, IderwReturn
  <2> QED
    BY <2>1
<1>5. ASSUME NEW p \in User, Use(p) PROVE SleepLockInv'
  <2>1. /\ bpc[p] = "use" /\ owner' = owner /\ at' = at
        /\ bpc' = [bpc EXCEPT ![p] = "rw"] \/ bpc' = bpc
    BY <1>5 DEF Use, Bwrite, Pin
  <2> QED
    BY <2>1
<1>6. ASSUME NEW p \in User, ReleaseSleep(p) PROVE SleepLockInv'
  BY <1>6 DEF ReleaseSleep
<1>7. ASSUME NEW p \in User, Brelse(p) PROVE SleepLockInv'
  BY <1>7 DEF Brelse
<1>8. CASE Ideintr
  <2>1. PICK p \in User : /\ bpc[p] = "wait" /\ bpc' = [bpc EXCEPT ![p] = "woken"]
                          /\ UNCHANGED <<owner, at>>
    BY <1>8, IdeintrIs
  <2> QED
    BY <2>1
<1>9. CASE UNCHANGED bioVars
  BY <1>9 DEF bioVars
<1> QED
  BY <1>2, <1>3, <1>4, <1>5, <1>6, <1>7, <1>8, <1>9 DEF BioNext, Start

LEMMA BlockStep ==
  ASSUME BioInv, [BioNext]_bioVars
  PROVE  BlockInv'
<1> USE DEF BioInv, BioTypeOK, Enter, ide, bcache, flags, BlockInv, Referring, Holding
<1>1. ASSUME NEW p \in User, NEW b \in Sector, NEW c \in Buf, BgetHit(p, b, c)
      PROVE  BlockInv'
  BY <1>1, Consts DEF BgetHit, Hit
<1>2. ASSUME NEW p \in User, NEW b \in Sector, NEW c \in Buf, BgetMiss(p, b, c)
      PROVE  BlockInv'
  <2>1. \A q \in User : bpc[q] \in Referring => at[q] # c
    BY <1>2, ReferredUsed DEF BgetMiss, Recycled
  <2>2. \A d \in Buf : blk[d] # b
    BY <1>2 DEF BgetMiss, Hit
  <2>3. /\ blk' = [blk EXCEPT ![c] = b] /\ at' = [at EXCEPT ![p] = c]
        /\ want' = [want EXCEPT ![p] = b] /\ bpc' = [bpc EXCEPT ![p] = "lock"]
    BY <1>2 DEF BgetMiss
  <2>4. \A d, e \in Buf : blk'[d] = blk'[e] /\ blk'[d] # Nil => d = e
    BY <2>2, <2>3
  <2>5. \A q \in User : bpc'[q] \in Referring => blk'[at'[q]] = want'[q] /\ want'[q] # Nil
    BY <2>1, <2>3, Consts
  <2> QED
    BY <2>4, <2>5
<1>3. ASSUME NEW p \in User, AcquireSleep(p) \/ Iderw(p) \/ IderwReturn(p)
      PROVE BlockInv'
  BY <1>3 DEF AcquireSleep, Iderw, IderwReturn
<1>4. ASSUME NEW p \in User, Use(p) PROVE BlockInv'
  BY <1>4 DEF Use, Bwrite, Pin
<1>5. ASSUME NEW p \in User, ReleaseSleep(p) PROVE BlockInv'
  BY <1>5 DEF ReleaseSleep
<1>6. ASSUME NEW p \in User, Brelse(p) PROVE BlockInv'
  BY <1>6 DEF Brelse
<1>7. CASE Ideintr
  <2>1. PICK p \in User : /\ bpc[p] = "wait" /\ bpc' = [bpc EXCEPT ![p] = "woken"]
                          /\ UNCHANGED <<blk, at, want>>
    BY <1>7, IdeintrIs
  <2> QED
    BY <2>1
<1>8. CASE UNCHANGED bioVars
  BY <1>8 DEF bioVars
<1> QED
  BY <1>1, <1>2, <1>3, <1>4, <1>5, <1>6, <1>7, <1>8 DEF BioNext, Start

-----------------------------------------------------------------------------
\* The disk queue

LEMMA QueueStep ==
  ASSUME BioInv, [BioNext]_bioVars
  PROVE  QueueInv'
<1>1. /\ owner \in [Buf -> User \cup {Nil}] /\ at \in [User -> Buf] /\ Nil \notin User
      /\ bpc \in [User -> Referring \cup {"idle"}] /\ idequeue \in Seq(Buf)
      /\ SleepLockInv /\ QueueInv
  BY Consts DEF BioInv, BioTypeOK
<1>2. /\ Queued \subseteq Buf
      /\ idequeue # << >> => Head(idequeue) \in Queued
      /\ \A c \in Queued : at[owner[c]] = c /\ owner[c] \in User /\ bpc[owner[c]] = "wait"
  BY <1>1 DEF Queued, SleepLockInv, QueueInv
\* A step that leaves the queue, its buffers and its sleepers alone.
<1>3. ASSUME UNCHANGED <<idequeue, cmd>>,
             \A q \in User : bpc'[q] = "wait" <=> bpc[q] = "wait",
             \A c \in Queued : /\ owner'[c] = owner[c] /\ at'[owner[c]] = at[owner[c]]
                               /\ c \in bdirty' <=> c \in bdirty
                               /\ blk'[c] = blk[c] /\ data'[c] = data[c],
             \A q \in User : bpc[q] = "wait" => at'[q] = at[q]
      PROVE  QueueInv'
  <2>1. Queued' = Queued
    BY <1>3 DEF Queued
  <2>2. \A c \in Queued : Request(c)' = Request(c)
    BY <1>3 DEF Request
  <2> QED
    BY <1>1, <1>2, <1>3, <2>1, <2>2 DEF QueueInv
<1> USE DEF Enter, ide, bcache, flags
<1>4. ASSUME NEW p \in User, NEW b \in Sector, NEW c \in Buf, BgetHit(p, b, c)
      PROVE  QueueInv'
  BY <1>1, <1>2, <1>3, <1>4 DEF BgetHit
<1>5. ASSUME NEW p \in User, NEW b \in Sector, NEW c \in Buf, BgetMiss(p, b, c)
      PROVE  QueueInv'
  <2>1. c \notin Queued
    BY <1>2, <1>5, ReferredUsed DEF BgetMiss, Recycled, Referring, Holding
  <2>2. \A d \in Queued : blk'[d] = blk[d] /\ (d \in bdirty' <=> d \in bdirty)
    BY <1>2, <1>5, <2>1 DEF BgetMiss, BioInv, BioTypeOK
  <2> QED
    BY <1>1, <1>2, <1>3, <1>5, <2>2 DEF BgetMiss
<1>6. ASSUME NEW p \in User, AcquireSleep(p) PROVE QueueInv'
  BY <1>1, <1>2, <1>3, <1>6 DEF AcquireSleep
<1>7. ASSUME NEW p \in User, Iderw(p) PROVE QueueInv'
  <2>1. bpc[p] = "rw" /\ owner[at[p]] = p /\ at[p] \notin Queued
    BY <1>1, <1>2, <1>7 DEF Iderw, SleepLockInv, Holding
  <2>2. idequeue' = Append(idequeue, at[p]) /\ bpc' = [bpc EXCEPT ![p] = "wait"]
    BY <1>7 DEF Iderw
  <2>3. Queued' = Queued \cup {at[p]}
    BY <1>1, <2>2 DEF Queued
  <2>4. \A i, j \in 1 .. Len(idequeue') : idequeue'[i] = idequeue'[j] => i = j
    BY <1>1, <2>1, <2>2 DEF Queued, QueueInv
  <2>5. \A c : Request(c)' = Request(c)
    BY <1>7 DEF Iderw, Request
  <2>6. cmd' = Request(Head(idequeue'))
    <3>1. CASE idequeue = << >>
      BY <1>1, <1>7, <2>2, <3>1 DEF Iderw
    <3>2. CASE idequeue # << >>
      BY <1>1, <1>7, <2>2, <3>2 DEF Iderw, QueueInv
    <3> QED
      BY <3>1, <3>2
  <2>7. UNCHANGED <<owner, at>>
    BY <1>7 DEF Iderw
  <2>8. \A c \in Queued' : owner'[c] # Nil /\ bpc'[owner'[c]] = "wait"
    BY <1>1, <1>2, <2>1, <2>2, <2>3, <2>7
  <2>9. \A q \in User : bpc'[q] = "wait" => at'[q] \in Queued'
    BY <1>1, <2>2, <2>3, <2>7 DEF QueueInv
  <2> QED
    BY <2>4, <2>5, <2>6, <2>8, <2>9 DEF QueueInv
<1>8. ASSUME NEW p \in User, IderwReturn(p) PROVE QueueInv'
  BY <1>1, <1>2, <1>3, <1>8 DEF IderwReturn, BioInv, DataInv
<1>9. ASSUME NEW p \in User, NEW v \in Bytes, Bwrite(p, v) \/ Pin(p, v) PROVE QueueInv'
  <2>1. at[p] \notin Queued
    BY <1>1, <1>2, <1>9 DEF Bwrite, Pin, SleepLockInv, Holding
  <2>2. \A c \in Queued : data'[c] = data[c] /\ (c \in bdirty' <=> c \in bdirty)
    BY <1>2, <1>9, <2>1 DEF Bwrite, Pin, BioInv, BioTypeOK
  <2> QED
    BY <1>1, <1>2, <1>3, <1>9, <2>2 DEF Bwrite, Pin
<1>10. ASSUME NEW p \in User, ReleaseSleep(p) PROVE QueueInv'
  <2>1. at[p] \notin Queued
    BY <1>1, <1>2, <1>10 DEF ReleaseSleep
  <2> QED
    BY <1>1, <1>2, <1>3, <1>10, <2>1 DEF ReleaseSleep
<1>11. ASSUME NEW p \in User, Brelse(p) PROVE QueueInv'
  BY <1>1, <1>2, <1>3, <1>11 DEF Brelse
<1>12. CASE Ideintr
  <2>1. PICK c \in Buf, p \in User :
           /\ c = Head(idequeue) /\ idequeue # << >> /\ c \in Queued
           /\ owner[c] = p /\ at[p] = c /\ bpc[p] = "wait"
           /\ data' = IF c \in bdirty THEN data ELSE [data EXCEPT ![c] = disk[blk[c]]]
           /\ bdirty' = bdirty \ {c} /\ bpc' = [bpc EXCEPT ![p] = "woken"]
           /\ idequeue' = Tail(idequeue) /\ UNCHANGED <<blk, owner, at>>
    BY <1>12, IdeintrIs
  <2>2. /\ Len(idequeue') = Len(idequeue) - 1 /\ idequeue' \in Seq(Buf)
        /\ \A i \in 1 .. Len(idequeue') : idequeue'[i] = idequeue[i + 1]
    BY <1>1, <2>1
  <2>3. Queued' = Queued \ {c}
    <3>1. c = idequeue[1] /\ Len(idequeue) \in Nat /\ Len(idequeue) >= 1
      BY <1>1, <2>1
    <3>2. \A i \in 1 .. Len(idequeue') : idequeue'[i] \in Queued \ {c}
      BY <1>1, <2>2, <3>1 DEF Queued, QueueInv
    <3>3. \A i \in 2 .. Len(idequeue) : i - 1 \in 1 .. Len(idequeue')
                                         /\ idequeue'[i - 1] = idequeue[i]
      BY <2>2, <3>1
    <3>4. ASSUME NEW d \in Queued \ {c} PROVE d \in Queued'
      <4>1. PICK i \in 1 .. Len(idequeue) : d = idequeue[i]
        BY DEF Queued
      <4>2. i \in 2 .. Len(idequeue)
        BY <3>1, <4>1
      <4> QED
        BY <3>3, <4>1, <4>2 DEF Queued
    <3> QED
      BY <3>2, <3>4 DEF Queued
  <2>4. \A i, j \in 1 .. Len(idequeue') : idequeue'[i] = idequeue'[j] => i = j
    BY <1>1, <2>2 DEF QueueInv
  <2>5. \A d \in Queued' : Request(d)' = Request(d)
    BY <1>2, <2>1, <2>3 DEF Request, BioInv, BioTypeOK
  <2>6. idequeue' # << >> => cmd' = Request(Head(idequeue')) /\ Head(idequeue') \in Queued'
    <3>1. idequeue' # << >> => cmd' = Request(Head(idequeue'))
      BY <1>12 DEF Ideintr
    <3>2. idequeue' # << >> => 1 \in 1 .. Len(idequeue') /\ Head(idequeue') = idequeue'[1]
      BY <2>2
    <3> QED
      BY <3>1, <3>2 DEF Queued
  <2>7. \A d \in Queued' : owner'[d] # Nil /\ bpc'[owner'[d]] = "wait"
    BY <1>1, <1>2, <2>1, <2>3
  <2>8. \A q \in User : bpc'[q] = "wait" => at'[q] \in Queued'
    BY <1>1, <2>1, <2>3 DEF QueueInv, SleepLockInv, Holding
  <2> QED
    BY <2>4, <2>5, <2>6, <2>7, <2>8 DEF QueueInv
<1>13. CASE UNCHANGED bioVars
  BY <1>3, <1>13 DEF bioVars
<1> QED
  BY <1>4, <1>5, <1>6, <1>7, <1>8, <1>9, <1>10, <1>11, <1>12, <1>13 DEF BioNext, Start, Use

-----------------------------------------------------------------------------
\* Contents

LEMMA DataStep ==
  ASSUME BioInv, [BioNext]_bioVars
  PROVE  DataInv'
<1>1. /\ owner \in [Buf -> User \cup {Nil}] /\ at \in [User -> Buf] /\ Nil \notin User
      /\ bpc \in [User -> Referring \cup {"idle"}] /\ disk \in [Sector -> Bytes]
      /\ blk \in [Buf -> Sector \cup {Nil}] /\ data \in [Buf -> Bytes] /\ valid \subseteq Buf
      /\ Nil \notin Sector /\ DataInv
  BY Consts DEF BioInv, BioTypeOK
\* Two holders of one buffer are the same.
<1>2. \A p, q \in User : /\ bpc[p] \in Holding /\ bpc[q] \in Holding /\ at[p] = at[q]
                         => p = q
  BY DEF BioInv, SleepLockInv
<1> USE <1>1 DEF Enter, ide, bcache, flags, DataInv
<1>3. ASSUME NEW p \in User, NEW b \in Sector, NEW c \in Buf, BgetHit(p, b, c)
      PROVE  DataInv'
  BY <1>3 DEF BgetHit
<1>4. ASSUME NEW p \in User, NEW b \in Sector, NEW c \in Buf, BgetMiss(p, b, c)
      PROVE  DataInv'
  <2>1. \A q \in User : bpc[q] \in Referring => at[q] # c
    BY <1>4, ReferredUsed DEF BgetMiss, Recycled
  <2>2. /\ valid' = valid \ {c} /\ bdirty' = bdirty \ {c} /\ blk' = [blk EXCEPT ![c] = b]
        /\ bpc' = [bpc EXCEPT ![p] = "lock"] /\ at' = [at EXCEPT ![p] = c]
        /\ UNCHANGED <<data, disk>>
    BY <1>4 DEF BgetMiss
  <2> QED
    BY <2>1, <2>2 DEF Referring, Holding
<1>5. ASSUME NEW p \in User, AcquireSleep(p) PROVE DataInv'
  BY <1>5 DEF AcquireSleep
<1>6. ASSUME NEW p \in User, Iderw(p) \/ IderwReturn(p) PROVE DataInv'
  BY <1>6 DEF Iderw, IderwReturn
<1>7. ASSUME NEW p \in User, NEW v \in Bytes, Bwrite(p, v) \/ Pin(p, v) PROVE DataInv'
  <2>1. /\ bpc[p] = "use" /\ at' = at
        /\ data' = [data EXCEPT ![at[p]] = v] /\ bdirty' = bdirty \cup {at[p]}
        /\ bpc' = [bpc EXCEPT ![p] = "rw"] \/ bpc' = bpc
        /\ UNCHANGED <<disk, blk, valid>>
    BY <1>7 DEF Bwrite, Pin
  <2>2. \A q \in User \ {p} : bpc[q] \in Holding => at[q] # at[p]
    BY <1>2, <2>1 DEF Holding
  <2> QED
    BY <2>1, <2>2 DEF Holding
<1>8. ASSUME NEW p \in User, ReleaseSleep(p) PROVE DataInv'
  BY <1>8 DEF ReleaseSleep
<1>9. ASSUME NEW p \in User, Brelse(p) PROVE DataInv'
  BY <1>9 DEF Brelse
<1>10. CASE Ideintr
  <2>1. PICK c \in Buf, p \in User :
           /\ at[p] = c /\ bpc[p] = "wait" /\ blk[c] \in Sector
           /\ disk' = IF c \in bdirty THEN [disk EXCEPT ![blk[c]] = data[c]] ELSE disk
           /\ data' = IF c \in bdirty THEN data ELSE [data EXCEPT ![c] = disk[blk[c]]]
           /\ valid' = valid \cup {c} /\ bdirty' = bdirty \ {c}
           /\ bpc' = [bpc EXCEPT ![p] = "woken"] /\ UNCHANGED <<blk, at>>
    BY <1>10, IdeintrIs
  <2>2. \A d \in valid' : blk[d] # Nil /\ blk[d] \in Sector /\ (blk[d] = blk[c] => d = c)
    BY <2>1 DEF BioInv, BlockInv
  <2>3. \A d \in valid' \ bdirty' : data'[d] = disk'[blk'[d]]
    BY <2>1, <2>2
  <2>4. \A q \in User \ {p} : bpc[q] \in Holding => at[q] # c
    BY <1>2, <2>1 DEF Holding
  <2> QED
    BY <2>1, <2>2, <2>3, <2>4 DEF Holding
<1>11. CASE UNCHANGED bioVars
  BY <1>11 DEF bioVars
<1> QED
  BY <1>3, <1>4, <1>5, <1>6, <1>7, <1>8, <1>9, <1>10, <1>11 DEF BioNext, Start, Use

\* The log pins no more than it may.
LEMMA PinStep ==
  ASSUME BioInv, [BioNext]_bioVars
  PROVE  PinInv'
<1>1. /\ at \in [User -> Buf] /\ bpc \in [User -> Referring \cup {"idle"}]
      /\ IsFiniteSet(Pinned) /\ Cardinality(Pinned) \in Nat
      /\ Cardinality(Pinned) <= MAXPIN /\ MAXPIN \in Nat
  BY Consts, FinitePinned DEF BioInv, BioTypeOK, PinInv
<1>2. ASSUME Pinned' \subseteq Pinned PROVE PinInv'
  <2>1. Cardinality(Pinned') <= Cardinality(Pinned) /\ IsFiniteSet(Pinned')
    BY <1>1, <1>2, FS_Subset
  <2> QED
    BY <1>1, <2>1, FS_CardinalityType DEF PinInv
<1>3. ASSUME NEW p \in User, NEW v \in Bytes, Pin(p, v) PROVE PinInv'
  <2>1. /\ bpc[p] = "use" /\ bdirty' = bdirty \cup {at[p]} /\ bpc' = bpc /\ at' = at
        /\ at[p] \in bdirty \/ Cardinality(Pinned) < MAXPIN
    BY <1>3 DEF Pin
  <2>2. CASE at[p] \in bdirty
    BY <1>2, <2>1, <2>2 DEF Pinned
  <2>3. CASE Cardinality(Pinned) < MAXPIN
    <3>1. Pinned' \subseteq Pinned \cup {at[p]}
      BY <2>1 DEF Pinned
    <3>2. /\ IsFiniteSet(Pinned \cup {at[p]})
          /\ Cardinality(Pinned \cup {at[p]}) <= Cardinality(Pinned) + 1
      <4>1. \A x : /\ IsFiniteSet(Pinned \cup {x})
                   /\ Cardinality(Pinned \cup {x}) \in {Cardinality(Pinned),
                                                       Cardinality(Pinned) + 1}
        BY <1>1, FS_AddElement
      <4> QED
        BY <1>1, <4>1
    <3>3. IsFiniteSet(Pinned') /\ Cardinality(Pinned') <= Cardinality(Pinned \cup {at[p]})
      BY <3>1, <3>2, FS_Subset
    <3>4. Cardinality(Pinned') \in Nat /\ Cardinality(Pinned \cup {at[p]}) \in Nat
      BY <3>2, <3>3, FS_CardinalityType
    <3> QED
      BY <1>1, <2>3, <3>2, <3>3, <3>4 DEF PinInv
  <2> QED
    BY <2>1, <2>2, <2>3
<1>4. CASE Ideintr
  <2>1. PICK c \in Buf, p \in User :
           /\ at[p] = c /\ bdirty' = bdirty \ {c}
           /\ bpc' = [bpc EXCEPT ![p] = "woken"] /\ UNCHANGED at
    BY <1>4, IdeintrIs
  <2>2. Pinned' \subseteq Pinned
    BY <1>1, <2>1 DEF Pinned
  <2> QED
    BY <1>2, <2>2
<1>5. ASSUME NEW p \in User, NEW v \in Bytes, Bwrite(p, v) PROVE PinInv'
  <2>1. /\ bdirty' = bdirty \cup {at[p]} /\ bpc' = [bpc EXCEPT ![p] = "rw"] /\ at' = at
        /\ bpc[p] = "use"
    BY <1>5 DEF Bwrite, Enter
  <2>2. Pinned' \subseteq Pinned
    BY <1>1, <2>1 DEF Pinned
  <2> QED
    BY <1>2, <2>2
<1>6. ASSUME bdirty' \subseteq bdirty,
             \A q \in User : bpc[q] \in {"rw", "wait"}
                               => bpc'[q] \in {"rw", "wait"} /\ at'[q] = at[q]
      PROVE  PinInv'
  <2>1. Pinned' \subseteq Pinned
    BY <1>6 DEF Pinned
  <2> QED
    BY <1>2, <2>1
<1> USE DEF Enter, ide, bcache, flags
<1>7. ASSUME NEW p \in User, NEW b \in Sector, NEW c \in Buf,
             BgetHit(p, b, c) \/ BgetMiss(p, b, c)
      PROVE  PinInv'
  BY <1>1, <1>6, <1>7 DEF BgetHit, BgetMiss
<1>8. ASSUME NEW p \in User, AcquireSleep(p) \/ Iderw(p) \/ IderwReturn(p) PROVE PinInv'
  BY <1>1, <1>6, <1>8 DEF AcquireSleep, Iderw, IderwReturn
<1>9. ASSUME NEW p \in User, ReleaseSleep(p) \/ Brelse(p) PROVE PinInv'
  BY <1>1, <1>6, <1>9 DEF ReleaseSleep, Brelse
<1>10. CASE UNCHANGED bioVars
  BY <1>6, <1>10 DEF bioVars
<1> QED
  BY <1>3, <1>4, <1>5, <1>7, <1>8, <1>9, <1>10 DEF BioNext, Start, Use

-----------------------------------------------------------------------------
\* The theorems

LEMMA InvStep == BioInv /\ [BioNext]_bioVars => BioInv'
  BY TypeStep, ListStep, RefStep, LockStep, BlockStep, QueueStep, DataStep, PinStep
     DEF BioInv

\* Reference counts, sleep locks, the list, the disk queue and the flags of the
\* buffers agree, whatever the interleaving of processes and disk interrupts.
THEOREM BioInvariant == BioSpec => []BioInv
  BY InitInv, InvStep, PTL DEF BioSpec

\* The fields of the bcache and of the queue stay in range; a reference count
\* never goes below zero.
THEOREM BioTypes == BioSpec => []BioTypeOK
<1>1. BioInv => BioTypeOK
  BY DEF BioInv
<1> QED
  BY <1>1, BioInvariant, PTL

\* The buffer that bget() chose stays the buffer of that block until brelse(),
\* also while the process sleeps for its lock or for the disk.
THEOREM BioNotStolen == BioSpec => []NotStolen
<1>1. BioInv => NotStolen
  BY DEF BioInv, BlockInv, NotStolen
<1> QED
  BY <1>1, BioInvariant, PTL

\* Nobody sleeps in iderw() or acquiresleep() for something that has happened.
THEOREM BioNoLostWakeup == BioSpec => []NoLostWakeup
<1>1. BioInv => NoLostWakeup
  BY DEF BioInv, QueueInv, SleepLockInv, NoLostWakeup
<1> QED
  BY <1>1, BioInvariant, PTL

\* When bget() finds no buffer, as many as there are are in use or pinned; the checks
\* of brelse(), bwrite() and iderw() never fail.
THEOREM BioNoBufferLost == BioSpec => []NoBufferLost
<1>1. BioInv => NoBufferLost
  <2> SUFFICES ASSUME BioInv
               PROVE  /\ Unused = {} => NBUF <= Cardinality(Uses) + Cardinality(Pinned)
                      /\ \A p \in User : /\ bpc[p] \in Holding => owner[at[p]] = p
                                         /\ bpc[p] = "rw" => at[p] \notin valid \ bdirty
    BY DEF NoBufferLost
  <2>1. \A p \in User : /\ bpc[p] \in Holding => owner[at[p]] = p
                        /\ bpc[p] = "rw" => at[p] \notin valid \ bdirty
    BY DEF BioInv, SleepLockInv, DataInv
  <2>2. ASSUME Unused = {} PROVE NBUF <= Cardinality(Uses) + Cardinality(Pinned)
    <3> DEFINE A == {at[q] : q \in Uses}
               f == [q \in Uses |-> at[q]]
    <3>1. IsFiniteSet(Uses) /\ Cardinality(Uses) \in Nat
      BY Consts, FS_Subset, FS_CardinalityType DEF Uses
    <3>2. f \in Surjection(Uses, A)
      BY DEF Surjection
    <3>3. IsFiniteSet(A) /\ Cardinality(A) <= Cardinality(Uses)
      BY <3>1, <3>2, FS_Surjection
    <3>4. Buf \subseteq A \cup Pinned
      <4> SUFFICES ASSUME NEW c \in Buf, c \notin Pinned PROVE c \in A
        OBVIOUS
      <4>1. CASE c \in bdirty
        <5>1. PICK q \in User : bpc[q] \in {"rw", "wait"} /\ at[q] = c
          BY <4>1 DEF Pinned
        <5> QED
          BY <5>1 DEF Uses, Referring, Holding
      <4>2. CASE c \notin bdirty
        <5>1. refcnt[c] # 0
          BY <2>2, <4>2 DEF Unused
        <5>2. Refs(c) # {}
          BY <5>1, FS_EmptySet DEF BioInv, RefInv
        <5> QED
          BY <5>2 DEF Refs, Uses
      <4> QED
        BY <4>1, <4>2
    <3>5. IsFiniteSet(Pinned) /\ Cardinality(Pinned) \in Nat
      BY FinitePinned DEF BioInv
    <3>6. /\ IsFiniteSet(A \cup Pinned)
          /\ Cardinality(A \cup Pinned) <= Cardinality(A) + Cardinality(Pinned)
      <4>1. IsFiniteSet(A \cap Pinned)
        BY <3>5, FS_Subset
      <4>2. Cardinality(A \cap Pinned) \in Nat /\ Cardinality(A) \in Nat
        BY <3>3, <4>1, FS_CardinalityType
      <4>3. /\ IsFiniteSet(A \cup Pinned)
            /\ Cardinality(A \cup Pinned)
                 = Cardinality(A) + Cardinality(Pinned) - Cardinality(A \cap Pinned)
        BY <3>3, <3>5, FS_Union
      <4> QED
        BY <3>5, <4>2, <4>3
    <3>7. Cardinality(Buf) = NBUF
      BY Consts, FS_Interval DEF Buf
    <3>8. NBUF <= Cardinality(A \cup Pinned)
      BY <3>4, <3>6, <3>7, FS_Subset
    <3>9. Cardinality(A) \in Nat /\ Cardinality(A \cup Pinned) \in Nat
      BY <3>3, <3>6, FS_CardinalityType
    <3> HIDE DEF A, f
    <3> QED
      BY <3>1, <3>3, <3>5, <3>6, <3>8, <3>9, Consts
  <2> QED
    BY <2>1, <2>2
<1> QED
  BY <1>1, BioInvariant, PTL

\* What bread() returns: the valid buffer of a block, or else the disk.
LEMMA ContentIs ==
  BioInv =>
    /\ Content \in [Sector -> Bytes]
    /\ \A c \in valid : Content[blk[c]] = data[c]
    /\ \A b \in Sector : (\A c \in valid : blk[c] # b) => Content[b] = disk[b]
<1> SUFFICES ASSUME BioInv
             PROVE  /\ Content \in [Sector -> Bytes]
                    /\ \A c \in valid : Content[blk[c]] = data[c]
                    /\ \A b \in Sector : (\A c \in valid : blk[c] # b) => Content[b] = disk[b]
  OBVIOUS
<1>1. \A c \in valid : c \in Buf /\ blk[c] \in Sector
  BY DEF BioInv, BioTypeOK, DataInv
<1>2. ASSUME NEW c \in valid PROVE Content[blk[c]] = data[c]
  <2>1. \A d \in Hit(blk[c]) : d = c
    BY <1>1 DEF Hit, BioInv, BlockInv, DataInv
  <2>2. c \in Hit(blk[c])
    BY <1>1 DEF Hit
  <2>3. (CHOOSE d \in Hit(blk[c]) : d \in valid) = c
    BY <2>1, <2>2
  <2> QED
    BY <1>1, <2>2, <2>3 DEF Content
<1>3. \A b \in Sector : (\A c \in valid : blk[c] # b) => Content[b] = disk[b]
  BY DEF Content, Hit
<1>4. \A b \in Sector : Content[b] \in Bytes
  <2> SUFFICES ASSUME NEW b \in Sector PROVE Content[b] \in Bytes
    OBVIOUS
  <2>1. CASE \A c \in valid : blk[c] # b
    BY <1>3, <2>1 DEF BioInv, BioTypeOK
  <2>2. CASE \E c \in valid : blk[c] = b
    BY <1>1, <1>2, <2>2 DEF BioInv, BioTypeOK
  <2> QED
    BY <2>1, <2>2
<1> QED
  BY <1>2, <1>3, <1>4 DEF Content

LEMMA ContentIsNext ==
  (BioInv =>
     /\ Content \in [Sector -> Bytes]
     /\ \A c \in valid : Content[blk[c]] = data[c]
     /\ \A b \in Sector : (\A c \in valid : blk[c] # b) => Content[b] = disk[b])'
  BY ContentIs, PTL

\* Each step is one of BlockStore or changes neither contents nor holders.
LEMMA StoreStep ==
  ASSUME BioInv, BioInv', [BioNext]_bioVars
  PROVE  BS!Next \/ UNCHANGED <<Content, Holders>>
<1>1. /\ owner \in [Buf -> User \cup {Nil}] /\ at \in [User -> Buf] /\ Nil \notin User
      /\ bpc \in [User -> Referring \cup {"idle"}] /\ want \in [User -> Sector \cup {Nil}]
      /\ blk \in [Buf -> Sector \cup {Nil}] /\ data \in [Buf -> Bytes] /\ valid \subseteq Buf
      /\ disk \in [Sector -> Bytes] /\ Nil \notin Sector /\ bdirty \subseteq valid
  BY Consts DEF BioInv, BioTypeOK, DataInv
<1>2. /\ Content \in [Sector -> Bytes] /\ Content' \in [Sector -> Bytes]
      /\ \A c \in valid : c \in Buf /\ blk[c] \in Sector /\ Content[blk[c]] = data[c]
      /\ \A c \in valid' : c \in Buf /\ blk'[c] \in Sector /\ Content'[blk'[c]] = data'[c]
      /\ \A b \in Sector : (\A c \in valid : blk[c] # b) => Content[b] = disk[b]
      /\ \A b \in Sector : (\A c \in valid' : blk'[c] # b) => Content'[b] = disk'[b]
  BY ContentIs, ContentIsNext DEF BioInv, BioTypeOK, DataInv
<1>3. UNCHANGED <<disk, blk, data, valid>> => Content' = Content
  BY DEF Content, Hit
<1>4. (\A q \in User : /\ bpc'[q] \in Holding <=> bpc[q] \in Holding
                       /\ bpc[q] \in Holding => want'[q] = want[q]) => Holders' = Holders
  BY DEF Holders
\* A process that holds a buffer is the only one to have its block.
<1>5. ASSUME NEW p \in User, bpc[p] \in Holding
      PROVE  /\ want[p] \in Sector /\ want[p] = blk[at[p]]
             /\ \A q \in User : bpc[q] \in Holding /\ want[q] = want[p] => q = p
  <2>1. \A q \in User : bpc[q] \in Holding => owner[at[q]] = q /\ blk[at[q]] = want[q]
                                               /\ want[q] \in Sector
    BY <1>1 DEF BioInv, SleepLockInv, BlockInv, Referring
  <2> QED
    BY <1>1, <1>5, <2>1 DEF BioInv, BlockInv
<1> USE DEF Enter, ide, bcache, flags
<1>6. ASSUME NEW p \in User, NEW b \in Sector, NEW c \in Buf, BgetHit(p, b, c)
      PROVE  UNCHANGED <<Content, Holders>>
  BY <1>1, <1>3, <1>4, <1>6 DEF BgetHit, Holding
<1>7. ASSUME NEW p \in User, NEW b \in Sector, NEW c \in Buf, BgetMiss(p, b, c)
      PROVE  UNCHANGED <<Content, Holders>>
  <2>1. /\ c \notin bdirty /\ valid' = valid \ {c} /\ blk' = [blk EXCEPT ![c] = b]
        /\ UNCHANGED <<disk, data>> /\ \A d \in Buf : blk[d] # b
    BY <1>7 DEF BgetMiss, Recycled, Unused, Hit
  <2>2. c \in valid => data[c] = disk[blk[c]]
    BY <2>1 DEF BioInv, DataInv
  <2>3. ASSUME NEW a \in Sector PROVE Content'[a] = Content[a]
    <3>1. CASE \E d \in valid \ {c} : blk[d] = a
      BY <1>1, <1>2, <2>1, <3>1
    <3>2. CASE \A d \in valid \ {c} : blk[d] # a
      <4>1. Content'[a] = disk[a]
        BY <1>1, <1>2, <2>1, <3>2
      <4>2. Content[a] = disk[a]
        BY <1>2, <2>2, <3>2
      <4> QED
        BY <4>1, <4>2
    <3> QED
      BY <3>1, <3>2
  <2>4. Content' = Content
    BY <1>2, <2>3
  <2>5. Holders' = Holders
    BY <1>1, <1>4, <1>7 DEF BgetMiss, Holding
  <2> QED
    BY <2>4, <2>5
<1>8. ASSUME NEW p \in User, AcquireSleep(p)
      PROVE BS!Next \/ UNCHANGED <<Content, Holders>>
  <2>1. Content' = Content /\ bpc[p] = "lock" /\ want' = want
    BY <1>3, <1>8 DEF AcquireSleep
  <2>2. CASE owner[at[p]] # Nil
    BY <1>1, <1>4, <1>8, <2>1, <2>2 DEF AcquireSleep, Holding
  <2>3. CASE owner[at[p]] = Nil
    <3>1. want[p] \in Sector /\ blk[at[p]] = want[p]
      BY <1>1, <2>1 DEF BioInv, BlockInv, Referring
    <3>2. \A q \in User : bpc[q] \in Holding => want[q] # want[p]
      BY <1>1, <1>5, <2>3, <3>1 DEF BioInv, BlockInv, SleepLockInv
    <3>3. /\ bpc'[p] \in Holding
          /\ \A q \in User \ {p} : bpc'[q] = bpc[q]
      BY <1>1, <1>8, <2>3 DEF AcquireSleep, Holding
    <3>4. Holders[want[p]] = {}
      BY <3>1, <3>2 DEF Holders
    <3>5. Holders' = [Holders EXCEPT ![want[p]] = {p}]
      BY <2>1, <3>1, <3>2, <3>3 DEF Holders, Holding
    <3>6. BS!Take(p, want[p])
      BY <2>1, <3>4, <3>5 DEF BS!Take
    <3> QED
      BY <3>1, <3>6 DEF BS!Next
  <2> QED
    BY <2>2, <2>3
<1>9. ASSUME NEW p \in User, Iderw(p) \/ IderwReturn(p)
      PROVE UNCHANGED <<Content, Holders>>
  BY <1>1, <1>3, <1>4, <1>9 DEF Iderw, IderwReturn, Holding
<1>10. ASSUME NEW p \in User, NEW v \in Bytes, Bwrite(p, v) \/ Pin(p, v) PROVE BS!Next
  <2>1. /\ bpc[p] = "use" /\ data' = [data EXCEPT ![at[p]] = v]
        /\ bpc' = [bpc EXCEPT ![p] = "rw"] \/ bpc' = bpc
        /\ UNCHANGED <<disk, blk, valid, want>>
    BY <1>10 DEF Bwrite, Pin
  <2>2. /\ at[p] \in valid /\ want[p] \in Sector /\ want[p] = blk[at[p]]
        /\ \A c \in valid : blk[c] = want[p] => c = at[p]
    BY <1>1, <1>2, <1>5, <2>1 DEF BioInv, DataInv, BlockInv, Holding
  <2>3. ASSUME NEW a \in Sector PROVE Content'[a] = IF a = want[p] THEN v ELSE Content[a]
    <3>1. CASE a = want[p]
      BY <1>1, <1>2, <2>1, <2>2, <3>1
    <3>2. CASE a # want[p] /\ \E c \in valid : blk[c] = a
      BY <1>1, <1>2, <2>1, <2>2, <3>2
    <3>3. CASE \A c \in valid : blk[c] # a
      BY <1>2, <2>1, <2>2, <3>3
    <3> QED
      BY <3>1, <3>2, <3>3
  <2>4. Content' = [Content EXCEPT ![want[p]] = v]
    BY <1>2, <2>3
  <2>5. Holders' = Holders /\ p \in Holders[want[p]]
    BY <1>1, <1>4, <2>1, <2>2 DEF Holders, Holding
  <2>6. BS!Write(p, want[p], v)
    BY <2>4, <2>5 DEF BS!Write
  <2> QED
    BY <2>2, <2>6 DEF BS!Next
<1>11. ASSUME NEW p \in User, ReleaseSleep(p) PROVE BS!Next
  <2>1. /\ bpc[p] = "use" /\ UNCHANGED <<disk, blk, data, valid, want>>
        /\ bpc'[p] = "release"
        /\ \A q \in User \ {p} : bpc'[q] \in Holding <=> bpc[q] \in Holding
    BY <1>1, <1>11 DEF ReleaseSleep, Holding
  <2>2. /\ want[p] \in Sector
        /\ \A q \in User : bpc[q] \in Holding /\ want[q] = want[p] => q = p
    BY <1>5, <2>1 DEF Holding
  <2>3. p \in Holders[want[p]] /\ Holders' = [Holders EXCEPT ![want[p]] = {}]
    BY <2>1, <2>2 DEF Holders, Holding
  <2>4. BS!Give(p, want[p])
    BY <1>3, <2>1, <2>3 DEF BS!Give
  <2> QED
    BY <2>2, <2>4 DEF BS!Next
<1>12. ASSUME NEW p \in User, Brelse(p) PROVE UNCHANGED <<Content, Holders>>
  BY <1>1, <1>3, <1>4, <1>12 DEF Brelse, Holding
<1>13. CASE Ideintr
  <2>1. PICK c \in Buf, p \in User :
           /\ at[p] = c /\ bpc[p] = "wait" /\ blk[c] \in Sector
           /\ disk' = IF c \in bdirty THEN [disk EXCEPT ![blk[c]] = data[c]] ELSE disk
           /\ data' = IF c \in bdirty THEN data ELSE [data EXCEPT ![c] = disk[blk[c]]]
           /\ valid' = valid \cup {c}
           /\ bpc' = [bpc EXCEPT ![p] = "woken"] /\ UNCHANGED <<blk, want>>
    BY <1>13, IdeintrIs
  <2>2. /\ c \in valid <=> c \in bdirty
        /\ \A d \in valid : blk[d] = blk[c] => d = c
    BY <1>1, <2>1 DEF BioInv, DataInv, BlockInv
  <2>3. ASSUME NEW a \in Sector PROVE Content'[a] = Content[a]
    <3>1. CASE a = blk[c]
      BY <1>1, <1>2, <2>1, <2>2, <3>1
    <3>2. CASE a # blk[c] /\ \E d \in valid : blk[d] = a
      BY <1>1, <1>2, <2>1, <2>2, <3>2
    <3>3. CASE a # blk[c] /\ \A d \in valid : blk[d] # a
      BY <1>1, <1>2, <2>1, <2>2, <3>3
    <3> QED
      BY <3>1, <3>2, <3>3
  <2>4. Content' = Content
    BY <1>2, <2>3
  <2>5. Holders' = Holders
    BY <1>1, <1>4, <2>1 DEF Holding
  <2> QED
    BY <2>4, <2>5
<1>14. CASE UNCHANGED bioVars
  BY <1>3, <1>4, <1>14 DEF bioVars
<1> QED
  BY <1>6, <1>7, <1>8, <1>9, <1>10, <1>11, <1>12, <1>13, <1>14 DEF BioNext, Start, Use

\* The buffer bcache over the disk queue implements BlockStore: a block has one
\* holder at a time and keeps what was last written to it, through recycling,
\* pinning and the order in which the disk serves requests.
THEOREM BioStored == BioSpec => Stored
<1>1. BioInit => BS!Init
  <2> SUFFICES ASSUME BioInit PROVE BS!Init
    OBVIOUS
  <2>1. Content \in [Sector -> Bytes]
    BY InitInv, ContentIs
  <2>2. Holders = [b \in Sector |-> {}]
    BY DEF BioInit, Holders, Holding
  <2> QED
    BY <2>1, <2>2 DEF BS!Init
<1>2. BioInv /\ BioInv' /\ [BioNext]_bioVars => [BS!Next]_<<Content, Holders>>
  BY StoreStep
<1> QED
  BY <1>1, <1>2, BioInvariant, PTL DEF BioSpec, Stored, BS!Spec
=============================================================================
