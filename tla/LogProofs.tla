------------------------------ MODULE LogProofs -----------------------------
(***************************************************************************)
(* Proofs about the log, for any number of blocks and processes and for    *)
(* every size of the log: a crash at any moment leaves exactly the last    *)
(* committed transaction, and the reservation of begin_op() is enough.     *)
(***************************************************************************)
EXTENDS Log, TLAPS, FiniteSetTheorems

-----------------------------------------------------------------------------
\* Facts about the operators

\* What the constants are, in the form the provers want.
LEMMA Consts ==
  /\ LOGSIZE \in Nat /\ LOGSIZE >= 1 /\ MAXOPBLOCKS \in Nat /\ MAXOPBLOCKS >= 1
  /\ NLOG \in Nat /\ OPBLOCKS \in Nat
  /\ OPBLOCKS <= MAXOPBLOCKS /\ MAXOPBLOCKS <= LOGSIZE
  /\ None \notin Val /\ None \notin Block
  BY ConstantsAssumption

\* What recovery makes of the disk: the log block of each block the header
\* names, the home of the others.
LEMMA DurableIs ==
  LogTypeOK /\ HeadInv =>
    /\ Durable \in [Block -> Val]
    /\ \A i \in 1 .. Len(hdr) : Durable[hdr[i]] = logd[i]
    /\ \A b \in Block \ Blocks(hdr) : Durable[b] = home[b]
<1> SUFFICES ASSUME LogTypeOK, HeadInv
             PROVE  /\ Durable \in [Block -> Val]
                    /\ \A i \in 1 .. Len(hdr) : Durable[hdr[i]] = logd[i]
                    /\ \A b \in Block \ Blocks(hdr) : Durable[b] = home[b]
  OBVIOUS
<1>1. \A i \in 1 .. Len(hdr) : hdr[i] \in Block /\ hdr[i] \in Blocks(hdr)
  BY DEF LogTypeOK, Blocks
<1>2. ASSUME NEW b \in Blocks(hdr), NEW i \in 1 .. Len(hdr), hdr[i] = b
      PROVE  (CHOOSE j \in 1 .. Len(hdr) : hdr[j] = b) = i
  BY <1>2 DEF HeadInv
<1>3. \A i \in 1 .. Len(hdr) : Durable[hdr[i]] = logd[i]
  BY <1>1, <1>2 DEF Durable
<1>4. \A b \in Block \ Blocks(hdr) : Durable[b] = home[b]
  BY DEF Durable
<1>5. \A i \in 1 .. Len(hdr) : logd[i] \in Val
  BY Consts DEF LogTypeOK, HeadInv
<1>6. \A b \in Blocks(hdr) : \E i \in 1 .. Len(hdr) : b = hdr[i]
  BY DEF Blocks
<1>7. ASSUME NEW b \in Block PROVE Durable[b] \in Val
  <2>1. CASE b \in Blocks(hdr)
    <3>1. PICK i \in 1 .. Len(hdr) : b = hdr[i]
      BY <1>6, <2>1
    <3> QED
      BY <1>3, <1>5, <3>1
  <2>2. CASE b \notin Blocks(hdr)
    BY <1>4, <2>2 DEF LogTypeOK
  <2> QED
    BY <2>1, <2>2
<1> QED
  BY <1>3, <1>4, <1>7 DEF Durable

LEMMA DurableIsNext ==
  (LogTypeOK /\ HeadInv =>
     /\ Durable \in [Block -> Val]
     /\ \A i \in 1 .. Len(hdr) : Durable[hdr[i]] = logd[i]
     /\ \A b \in Block \ Blocks(hdr) : Durable[b] = home[b])'
  BY DurableIs, PTL

\* The calls under way and the reservations are finite sets.
LEMMA Finite ==
  /\ IsFiniteSet(Active) /\ IsFiniteSet(Reserved)
  /\ Cardinality(Active) \in Nat /\ Cardinality(Reserved) \in Nat
  /\ Cardinality(Reserved) <= Cardinality(Active) * MAXOPBLOCKS
<1>1. IsFiniteSet(Active)
  BY FS_Subset, ConstantsAssumption DEF Active
<1>2. IsFiniteSet(1 .. MAXOPBLOCKS) /\ Cardinality(1 .. MAXOPBLOCKS) = MAXOPBLOCKS
  BY FS_Interval, Consts
<1>3. /\ IsFiniteSet(Active \X (1 .. MAXOPBLOCKS))
      /\ Cardinality(Active \X (1 .. MAXOPBLOCKS)) = Cardinality(Active) * MAXOPBLOCKS
  BY <1>1, <1>2, FS_Product
<1>4. Reserved \subseteq Active \X (1 .. MAXOPBLOCKS)
  BY DEF Reserved
<1>5. IsFiniteSet(Reserved) /\ Cardinality(Reserved) <= Cardinality(Active) * MAXOPBLOCKS
  BY <1>3, <1>4, FS_Subset
<1> QED
  BY <1>1, <1>5, FS_CardinalityType

LEMMA FiniteNext ==
  (/\ IsFiniteSet(Active) /\ IsFiniteSet(Reserved)
   /\ Cardinality(Active) \in Nat /\ Cardinality(Reserved) \in Nat
   /\ Cardinality(Reserved) <= Cardinality(Active) * MAXOPBLOCKS)'
  BY Finite, PTL

-----------------------------------------------------------------------------
\* Initial states

LEMMA InitInv == LogInit => LogInv
<1> SUFFICES ASSUME LogInit PROVE LogInv
  OBVIOUS
<1> USE Consts DEF LogInit
<1>1. Active = {} /\ Reserved = {}
  BY DEF Active, Reserved
<1>2. LogTypeOK
  <2>1. logd \in [1 .. LOGSIZE -> Val \cup {None}] /\ hdr \in Seq(Block)
    OBVIOUS
  <2>2. lh \in Seq(Block) /\ Len(lh) <= LOGSIZE
    OBVIOUS
  <2>3. committing \in BOOLEAN
    BY ZenonT(30)
  <2> QED
    BY <2>1, <2>2, <2>3 DEF LogTypeOK, Steps, Points
<1>3. PhaseInv
  BY <1>1, FS_EmptySet DEF PhaseInv, Recovering
<1>4. SpaceInv
  BY <1>1, FS_EmptySet DEF SpaceInv
<1>5. HeadInv /\ CopyInv
  BY DEF HeadInv, CopyInv
<1>6. BufInv
  BY DEF BufInv, Recovering
<1> QED
  BY <1>2, <1>3, <1>4, <1>5, <1>6 DEF LogInv

-----------------------------------------------------------------------------
\* Who is where

\* What each step does to the set of the calls under way.
LEMMA ActiveStep ==
  ASSUME LogInv
  PROVE  /\ \A p \in Proc : BeginOp(p) => p \notin Active /\ Active' = Active \cup {p}
         /\ \A p \in Proc : EndOp(p) => p \in Active /\ Active' = Active \ {p}
         /\ \A p \in Proc : BeginSleep(p) \/ LogWriteCheck(p) \/ LogWrite(p)
                             => Active' = Active
         /\ \A p \in Proc, b \in Block, v \in Val : Modify(p, b, v) => Active' = Active
         /\ Commit \/ (\E b \in Block : Evict(b)) => Active' = Active
         /\ Crash => Active' = {}
<1> USE DEF LogInv, LogTypeOK, Active, Points
<1>1. ASSUME NEW p \in Proc, BeginOp(p)
      PROVE p \notin Active /\ Active' = Active \cup {p}
  BY <1>1 DEF BeginOp, Entering
<1>2. ASSUME NEW p \in Proc, EndOp(p) PROVE p \in Active /\ Active' = Active \ {p}
  BY <1>2 DEF EndOp, Woken
<1>3. ASSUME NEW p \in Proc, BeginSleep(p) \/ LogWriteCheck(p) \/ LogWrite(p)
      PROVE  Active' = Active
  BY <1>3 DEF BeginSleep, Entering, LogWriteCheck, LogWrite
<1>4. ASSUME NEW p \in Proc, NEW b \in Block, NEW v \in Val, Modify(p, b, v)
      PROVE  Active' = Active
  BY <1>4 DEF Modify
<1>5. ASSUME Commit \/ (\E b \in Block : Evict(b)) PROVE Active' = Active
  BY <1>5 DEF Commit, WriteLog, WriteHead, Install, ClearHead, Finish, ReadHead,
              Woken, Evict, calls
<1>6. Crash => Active' = {}
  BY DEF Crash
<1> QED
  BY <1>1, <1>2, <1>3, <1>4, <1>5, <1>6

LEMMA PhaseStep ==
  ASSUME LogInv, [LogNext]_logVars
  PROVE  PhaseInv'
<1> USE DEF LogInv, LogTypeOK, Points, Steps, PhaseInv, Recovering, logDisk, bufs, calls
<1>1. ASSUME NEW p \in Proc, BeginOp(p) PROVE PhaseInv'
  <2>1. p \notin Active /\ Active' = Active \cup {p}
    BY <1>1, ActiveStep
  <2>2. Cardinality(Active \cup {p}) = Cardinality(Active) + 1
    BY <2>1, Finite, FS_AddElement
  <2>3. outstanding' = Cardinality(Active')
    BY <1>1, <2>1, <2>2 DEF BeginOp
  <2> QED
    BY <1>1, <2>3, ActiveStep DEF BeginOp, MayWait, Entering
<1>2. ASSUME NEW p \in Proc, EndOp(p) PROVE PhaseInv'
  <2>1. p \in Active /\ Active' = Active \ {p}
    BY <1>2, ActiveStep
  <2>2. Cardinality(Active \ {p}) = Cardinality(Active) - 1
    BY <2>1, Finite, FS_RemoveElement
  <2>3. outstanding' = Cardinality(Active')
    BY <1>2, <2>1, <2>2 DEF EndOp
  <2>4. outstanding = 1 => Active' = {}
    BY <1>2, <2>3, ActiveStep, FiniteNext, FS_EmptySet DEF EndOp
  <2>5. CASE outstanding = 1
    BY <1>2, <2>3, <2>4, <2>5, ActiveStep DEF EndOp, Active
  <2>6. CASE outstanding # 1
    BY <1>2, <2>3, <2>6, ActiveStep DEF EndOp, Active, Woken
  <2> QED
    BY <2>5, <2>6
<1>3. ASSUME NEW p \in Proc, BeginSleep(p) PROVE PhaseInv'
  BY <1>3, ActiveStep DEF BeginSleep, Entering
<1>4. ASSUME NEW p \in Proc, LogWriteCheck(p) PROVE PhaseInv'
  BY <1>4, ActiveStep DEF LogWriteCheck, Active
<1>5. ASSUME NEW p \in Proc, LogWrite(p) PROVE PhaseInv'
  BY <1>5, ActiveStep, Consts DEF LogWrite, Active
<1>6. ASSUME NEW p \in Proc, NEW b \in Block, NEW v \in Val, Modify(p, b, v)
      PROVE  PhaseInv'
  BY <1>6, ActiveStep, Consts DEF Modify, Active
<1>7. CASE Commit
  <2>1. CASE Finish
    BY <2>1, ActiveStep DEF Finish, Commit, Woken
  <2>2. CASE WriteLog \/ WriteHead \/ Install
    BY <2>2, ActiveStep DEF WriteLog, WriteHead, Install, Advance, Commit
  <2>3. CASE ClearHead \/ ReadHead
    BY <2>3, ActiveStep DEF ClearHead, ReadHead, Commit
  <2> QED
    BY <1>7, <2>1, <2>2, <2>3 DEF Commit
<1>8. ASSUME NEW b \in Block, Evict(b) PROVE PhaseInv'
  BY <1>8, ActiveStep DEF Evict
<1>9. CASE Crash
  BY <1>9, ActiveStep, FS_EmptySet DEF Crash
<1>10. CASE UNCHANGED logVars
  BY <1>10 DEF logVars, Active
<1> QED
  BY <1>1, <1>2, <1>3, <1>4, <1>5, <1>6, <1>7, <1>8, <1>9, <1>10 DEF LogNext, Call

-----------------------------------------------------------------------------
\* The space of the log

\* log_write() of a block the call has not written before uses up one unit of
\* its reservation.
LEMMA LogWriteSpace ==
  ASSUME LogInv, NEW p \in Proc, LogWrite(p)
  PROVE  SpaceInv'
<1> DEFINE b == held[p]
           n == Cardinality(wrote[p])
<1> USE DEF LogInv, LogTypeOK
<1>1. b \in Block /\ p \in Active /\ Active' = Active
  BY ActiveStep DEF LogWrite, PhaseInv, Active
<1>2. IsFiniteSet(wrote[p]) /\ n \in Nat /\ n <= OPBLOCKS /\ wrote[p] \subseteq Blocks(lh)
  BY FS_CardinalityType DEF SpaceInv
<1>3. Blocks(lh') = Blocks(lh) \cup {b} /\ Len(lh') <= Len(lh) + 1
  BY <1>1 DEF LogWrite, Absorbed, Blocks
<1>4. wrote' = [wrote EXCEPT ![p] = @ \cup {b}] /\ held' = [held EXCEPT ![p] = None]
  BY DEF LogWrite
<1>5. CASE b \in wrote[p]
  <2>1. wrote' = wrote /\ lh' = lh
    BY <1>2, <1>4, <1>5 DEF LogWrite, Absorbed
  <2>2. Reserved' = Reserved
    BY <1>1, <2>1 DEF Reserved
  <2> QED
    BY <1>4, <2>1, <2>2 DEF SpaceInv
<1>6. CASE b \notin wrote[p]
  <2>1. n < OPBLOCKS
    BY <1>1, <1>6, Consts DEF SpaceInv
  <2>2. /\ IsFiniteSet(wrote[p] \cup {b})
        /\ Cardinality(wrote[p] \cup {b}) = n + 1
    BY <1>2, <1>6, FS_AddElement
  <2>3. /\ wrote'[p] = wrote[p] \cup {b}
        /\ \A q \in Proc \ {p} : wrote'[q] = wrote[q]
    BY <1>4
  <2>4. <<p, n + 1>> \in Reserved
    BY <1>1, <1>2, <2>1, Consts DEF Reserved
  <2>5. Reserved' = Reserved \ {<<p, n + 1>>}
    <3>1. ASSUME NEW q \in Proc, NEW k \in 1 .. MAXOPBLOCKS
          PROVE  <<q, k>> \in Reserved' <=>
                   <<q, k>> \in Reserved /\ ~(q = p /\ k = n + 1)
      <4>1. CASE q = p
        <5>1. <<q, k>> \in Reserved <=> k > n
          BY <1>1, <4>1 DEF Reserved
        <5>2. Cardinality(wrote'[q]) = n + 1
          BY <2>2, <2>3, <4>1
        <5>3. <<q, k>> \in Reserved' <=> k > n + 1
          BY <1>1, <4>1, <5>2 DEF Reserved
        <5> QED
          BY <1>2, <4>1, <5>1, <5>3
      <4>2. CASE q # p
        BY <1>1, <2>3, <4>2 DEF Reserved
      <4> QED
        BY <4>1, <4>2
    <3>2. Reserved \subseteq Proc \X (1 .. MAXOPBLOCKS)
      BY DEF Reserved
    <3>3. Reserved' \subseteq Proc \X (1 .. MAXOPBLOCKS)
      BY DEF Reserved
    <3> QED
      BY <3>1, <3>2, <3>3
  <2>6. Cardinality(Reserved \ {<<p, n + 1>>}) = Cardinality(Reserved) - 1
    <3>1. \A x \in Reserved : Cardinality(Reserved \ {x}) = Cardinality(Reserved) - 1
      BY Finite, FS_RemoveElement
    <3> QED
      BY <2>4, <3>1
  <2>7. Len(lh') + Cardinality(Reserved') <= LOGSIZE
    BY <1>3, <2>5, <2>6, Finite, Consts DEF SpaceInv, LogWrite, Absorbed
  <2>8. ASSUME NEW q \in Proc
        PROVE  /\ wrote'[q] \subseteq Blocks(lh')
               /\ IsFiniteSet(wrote'[q]) /\ Cardinality(wrote'[q]) <= OPBLOCKS
               /\ held'[q] # None => held'[q] \in wrote'[q]
                                       \/ Cardinality(wrote'[q]) < OPBLOCKS
    <3>1. CASE q = p
      BY <1>2, <1>3, <1>4, <2>1, <2>2, <2>3, <3>1, Consts
    <3>2. CASE q # p
      BY <1>3, <1>4, <2>3, <3>2 DEF SpaceInv
    <3> QED
      BY <3>1, <3>2
  <2> QED
    BY <2>7, <2>8 DEF SpaceInv
<1> QED
  BY <1>5, <1>6

LEMMA SpaceStep ==
  ASSUME LogInv, [LogNext]_logVars
  PROVE  SpaceInv'
<1> USE DEF LogInv, LogTypeOK, logDisk, bufs, calls
<1>1. ASSUME NEW p \in Proc, BeginOp(p) PROVE SpaceInv'
  <2>1. p \notin Active /\ Active' = Active \cup {p}
    BY <1>1, ActiveStep
  <2>2. Cardinality(Active \cup {p}) = outstanding + 1
    BY <2>1, Finite, FS_AddElement DEF PhaseInv
  <2>3. Len(lh) + (outstanding + 1) * MAXOPBLOCKS <= LOGSIZE
    BY <1>1, Consts DEF BeginOp, MayWait, Exhausts
  <2>4. Len(lh') + Cardinality(Reserved') <= LOGSIZE
    BY <1>1, <2>1, <2>2, <2>3, FiniteNext, Consts DEF BeginOp
  <2> QED
    BY <1>1, <2>4 DEF BeginOp, SpaceInv
<1>2. ASSUME NEW p \in Proc, EndOp(p) PROVE SpaceInv'
  <2>1. Active' = Active \ {p} /\ wrote' = [wrote EXCEPT ![p] = {}]
    BY <1>2, ActiveStep DEF EndOp
  <2>2. Reserved' \subseteq Reserved
    BY <2>1 DEF Reserved
  <2>3. Cardinality(Reserved') <= Cardinality(Reserved)
    BY <2>2, Finite, FS_Subset
  <2>4. Len(lh') + Cardinality(Reserved') <= LOGSIZE
    BY <1>2, <2>3, Finite, FiniteNext, Consts DEF EndOp, SpaceInv
  <2>5. held[p] = None /\ held' = held /\ lh' = lh
    BY <1>2 DEF EndOp, PhaseInv
  <2> QED
    BY <2>1, <2>4, <2>5, FS_EmptySet, Consts DEF SpaceInv
<1>3. ASSUME NEW p \in Proc, BeginSleep(p) \/ LogWriteCheck(p) PROVE SpaceInv'
  <2>1. Active' = Active /\ wrote' = wrote /\ lh' = lh /\ held' = held
    BY <1>3, ActiveStep DEF BeginSleep, LogWriteCheck
  <2> QED
    BY <2>1 DEF SpaceInv, Reserved
<1>4. ASSUME NEW p \in Proc, LogWrite(p) PROVE SpaceInv'
  BY <1>4, LogWriteSpace
<1>5. ASSUME NEW p \in Proc, NEW b \in Block, NEW v \in Val, Modify(p, b, v)
      PROVE  SpaceInv'
  <2>1. Active' = Active /\ wrote' = wrote /\ lh' = lh /\ Reserved' = Reserved
    BY <1>5, ActiveStep DEF Modify, Reserved
  <2> QED
    BY <1>5, <2>1 DEF SpaceInv, Modify
<1>6. CASE Commit \/ \E b \in Block : Evict(b)
  <2>1. wrote' = wrote /\ held' = held /\ Reserved' = Reserved
    BY <1>6, ActiveStep DEF Commit, WriteLog, WriteHead, Install, ClearHead, Finish,
                            ReadHead, Evict, Reserved
  <2>2. CASE lh' = lh
    BY <2>1, <2>2 DEF SpaceInv
  <2>3. CASE ClearHead \/ ReadHead
    <3>1. Reserved = {} /\ \A p \in Proc : wrote[p] = {} /\ held[p] = None
      BY <2>3 DEF ClearHead, ReadHead, PhaseInv, Active, Reserved
    <3>2. Len(lh') <= LOGSIZE
      BY <2>3, Consts DEF ClearHead, ReadHead, HeadInv
    <3> QED
      BY <2>1, <3>1, <3>2, FS_EmptySet, Consts DEF SpaceInv, ClearHead, ReadHead
  <2> QED
    BY <1>6, <2>2, <2>3 DEF Commit, WriteLog, WriteHead, Install, Finish, Evict
<1>7. CASE Crash
  <2>1. Reserved' = {} /\ lh' = << >>
    BY <1>7, ActiveStep DEF Crash, Reserved
  <2> QED
    BY <1>7, <2>1, FS_EmptySet, Consts DEF SpaceInv, Crash
<1>8. CASE UNCHANGED logVars
  BY <1>8 DEF logVars, SpaceInv, Reserved, Active
<1> QED
  BY <1>1, <1>2, <1>3, <1>4, <1>5, <1>6, <1>7, <1>8 DEF LogNext, Call

-----------------------------------------------------------------------------
\* Types

LEMMA TypeStep ==
  ASSUME LogInv, [LogNext]_logVars
  PROVE  LogTypeOK'
<1> USE DEF LogInv, LogTypeOK, Points, Steps, logDisk, bufs, calls
<1>1. ASSUME NEW p \in Proc, BeginOp(p) \/ BeginSleep(p) \/ LogWriteCheck(p)
      PROVE  LogTypeOK'
  BY <1>1 DEF BeginOp, BeginSleep, LogWriteCheck
<1>2. ASSUME NEW p \in Proc, EndOp(p) PROVE LogTypeOK'
  <2>1. p \in Active /\ Cardinality(Active) # 0
    BY <1>2, ActiveStep, Finite, FS_EmptySet
  <2>2. outstanding' \in Nat
    BY <1>2, <2>1 DEF EndOp, PhaseInv
  <2>3. tail' \in 1 .. LOGSIZE /\ step' \in Steps
    BY <1>2, Consts DEF EndOp
  <2>4. committing' \in BOOLEAN
    BY <1>2, Zenon DEF EndOp
  <2>5. lpc' \in [Proc -> Points]
    BY <1>2 DEF EndOp, Woken
  <2> QED
    BY <1>2, <2>2, <2>3, <2>5, <2>4 DEF EndOp
<1>3. ASSUME NEW p \in Proc, LogWrite(p) PROVE LogTypeOK'
  <2>1. held[p] \in Block
    BY <1>3 DEF LogWrite, PhaseInv
  <2>2. lh' \in Seq(Block)
    BY <1>3, <2>1 DEF LogWrite, Absorbed
  <2>3. Len(lh') <= LOGSIZE
    BY <1>3, <2>2, LogWriteSpace, FiniteNext, Consts DEF SpaceInv
  <2> QED
    BY <1>3, <2>1, <2>2, <2>3 DEF LogWrite
<1>4. ASSUME NEW p \in Proc, NEW b \in Block, NEW v \in Val, Modify(p, b, v)
      PROVE  LogTypeOK'
  BY <1>4 DEF Modify
<1>5. CASE Commit
  <2>1. CASE WriteLog
    BY <2>1, Consts DEF WriteLog, Advance, HeadInv
  <2>2. CASE WriteHead
    BY <2>2 DEF WriteHead
  <2>3. CASE Install
    <3>1. /\ lh[tail] \in Block /\ logd[tail] \in Val
          /\ tail' \in 1 .. LOGSIZE
      BY <2>3, Consts DEF Install, Advance, HeadInv
    <3> QED
      BY <2>3, <3>1 DEF Install, Advance
  <2>4. CASE ClearHead
    BY <2>4, Consts DEF ClearHead
  <2>5. CASE Finish
    <3>1. committing' \in BOOLEAN
      BY <2>5, Zenon DEF Finish
    <3> QED
      BY <2>5, <3>1 DEF Finish, Woken
  <2>6. CASE ReadHead
    BY <2>6 DEF ReadHead, HeadInv
  <2> QED
    BY <1>5, <2>1, <2>2, <2>3, <2>4, <2>5, <2>6 DEF Commit
<1>6. ASSUME NEW b \in Block, Evict(b) PROVE LogTypeOK'
  BY <1>6 DEF Evict
<1>7. CASE Crash
  <2>1. committing' \in BOOLEAN /\ UNCHANGED <<home, logd, hdr>>
    BY <1>7, Zenon DEF Crash
  <2>2. lh' \in Seq(Block) /\ Len(lh') <= LOGSIZE /\ tail' \in 1 .. LOGSIZE
    BY <1>7, Consts DEF Crash
  <2> QED
    BY <1>7, <2>1, <2>2 DEF Crash
<1>8. CASE UNCHANGED logVars
  BY <1>8 DEF logVars
<1> QED
  BY <1>1, <1>2, <1>3, <1>4, <1>5, <1>6, <1>7, <1>8 DEF LogNext, Call

-----------------------------------------------------------------------------
\* The header on disk and the log in memory

LEMMA HeadStep ==
  ASSUME LogInv, [LogNext]_logVars
  PROVE  HeadInv'
<1> USE DEF LogInv, LogTypeOK, HeadInv, Steps, logDisk, bufs, calls
<1>1. ASSUME NEW p \in Proc, BeginOp(p) PROVE HeadInv'
  <2>1. Active' # {}
    BY <1>1, ActiveStep
  <2> QED
    BY <1>1, <2>1 DEF BeginOp, MayWait, Entering, PhaseInv, Recovering
<1>2. ASSUME NEW p \in Proc, BeginSleep(p) \/ LogWriteCheck(p) PROVE HeadInv'
  BY <1>2, ActiveStep DEF BeginSleep, LogWriteCheck
<1>3. ASSUME NEW p \in Proc, EndOp(p) PROVE HeadInv'
  <2>1. p \in Active /\ Active' = Active \ {p} /\ step = "none"
    BY <1>3, ActiveStep DEF PhaseInv
  <2>2. Cardinality(Active \ {p}) = outstanding - 1
    BY <2>1, Finite, FS_RemoveElement DEF PhaseInv
  <2>3. outstanding # 1 => Active' # {}
    <3>1. Active' = {} => outstanding - 1 = 0
      BY <2>1, <2>2, FS_EmptySet
    <3> QED
      BY <3>1
  <2> QED
    BY <1>3, <2>1, <2>3 DEF EndOp
<1>4. ASSUME NEW p \in Proc, LogWrite(p) PROVE HeadInv'
  <2>1. p \in Active /\ Active' = Active /\ held[p] \in Block
    BY <1>4, ActiveStep DEF LogWrite, PhaseInv, Active
  <2>2. step = "none"
    BY <2>1 DEF PhaseInv
  <2>3. \A i, j \in 1 .. Len(lh') : lh'[i] = lh'[j] => i = j
    BY <1>4, <2>1 DEF LogWrite, Absorbed, Blocks
  <2> QED
    BY <1>4, <2>1, <2>2, <2>3 DEF LogWrite
<1>5. ASSUME NEW p \in Proc, NEW b \in Block, NEW v \in Val, Modify(p, b, v)
      PROVE  HeadInv'
  <2>1. Active' = Active
    BY <1>5, ActiveStep
  <2> QED
    BY <1>5, <2>1 DEF Modify
<1>6. CASE Commit
  <2>1. Active' = Active
    BY <1>6, ActiveStep
  <2>2. CASE WriteLog
    BY <2>2, Consts DEF WriteLog, Advance
  <2>3. CASE WriteHead
    <3>1. \A i \in 1 .. Len(lh) : lh[i] \in dirty
      BY <2>3 DEF WriteHead, BufInv, Blocks
    <3>2. \A i \in 1 .. Len(lh) : logd[i] # None
      BY <2>3, <3>1 DEF WriteHead, BufInv, CopyInv
    <3> QED
      BY <2>3, <3>2 DEF WriteHead
  <2>4. CASE Install
    BY <2>4, Consts DEF Install, Advance
  <2>5. CASE ClearHead
    BY <2>5, <2>1, Consts DEF ClearHead
  <2>6. CASE Finish
    BY <2>6, <2>1 DEF Finish
  <2>7. CASE ReadHead
    BY <2>7, Consts DEF ReadHead
  <2> QED
    BY <1>6, <2>2, <2>3, <2>4, <2>5, <2>6, <2>7 DEF Commit
<1>7. ASSUME NEW b \in Block, Evict(b) PROVE HeadInv'
  <2>1. Active' = Active
    BY <1>7, ActiveStep
  <2> QED
    BY <1>7, <2>1 DEF Evict
<1>8. CASE Crash
  BY <1>8, Consts DEF Crash
<1>9. CASE UNCHANGED logVars
  BY <1>9 DEF logVars, Active
<1> QED
  BY <1>1, <1>2, <1>3, <1>4, <1>5, <1>6, <1>7, <1>8, <1>9 DEF LogNext, Call

-----------------------------------------------------------------------------
\* What commit() and recovery have copied

LEMMA CopyStep ==
  ASSUME LogInv, [LogNext]_logVars
  PROVE  CopyInv'
<1> USE DEF LogInv, LogTypeOK, CopyInv, Steps, logDisk, bufs, calls
<1>1. ASSUME NEW p \in Proc,
     BeginOp(p) \/ BeginSleep(p) \/ LogWriteCheck(p) \/ LogWrite(p)
      PROVE  CopyInv'
  BY <1>1 DEF BeginOp, BeginSleep, LogWriteCheck, LogWrite, PhaseInv, Active
<1>2. ASSUME NEW p \in Proc, EndOp(p) PROVE CopyInv'
  BY <1>2 DEF EndOp
<1>3. ASSUME NEW p \in Proc, NEW b \in Block, NEW v \in Val, Modify(p, b, v)
      PROVE  CopyInv'
  <2>1. step = "none"
    BY <1>3 DEF Modify, PhaseInv, Active
  <2> QED
    BY <1>3, <2>1 DEF Modify
<1>4. CASE Commit
  <2>1. CASE WriteLog
    BY <2>1, Consts DEF WriteLog, Advance, HeadInv
  <2>2. CASE WriteHead
    BY <2>2 DEF WriteHead, HeadInv
  <2>3. CASE Install
    <3>1. home' = [home EXCEPT ![lh[tail]] = logd[tail]] /\ lh' = lh /\ logd' = logd
      BY <2>3 DEF Install
    <3>2. \A i \in 1 .. tail : home'[lh[i]] = logd[i]
      BY <2>3, <3>1 DEF Install, HeadInv
    <3> QED
      BY <2>3, <3>1, <3>2 DEF Install, Advance, HeadInv
  <2>4. CASE ClearHead \/ Finish
    BY <2>4 DEF ClearHead, Finish
  <2>5. CASE ReadHead
    BY <2>5 DEF ReadHead, HeadInv
  <2> QED
    BY <1>4, <2>1, <2>2, <2>3, <2>4, <2>5 DEF Commit
<1>5. ASSUME NEW b \in Block, Evict(b) PROVE CopyInv'
  <2>1. step \in {"write_log", "write_head"} => \A i \in 1 .. Len(lh) : lh[i] # b
    BY <1>5 DEF Evict, BufInv, Blocks
  <2> QED
    BY <1>5, <2>1 DEF Evict, HeadInv
<1>6. CASE Crash
  BY <1>6 DEF Crash
<1>7. CASE UNCHANGED logVars
  BY <1>7 DEF logVars
<1> QED
  BY <1>1, <1>2, <1>3, <1>4, <1>5, <1>6, <1>7 DEF LogNext, Call

-----------------------------------------------------------------------------
\* What a crash would leave changes only when the header is written

LEMMA DurableStep ==
  ASSUME LogInv, [LogNext]_logVars, LogTypeOK', HeadInv'
  PROVE  Durable' = IF WriteHead THEN View ELSE Durable
<1> USE DEF LogInv
<1>1. /\ Durable \in [Block -> Val] /\ Durable' \in [Block -> Val]
      /\ View \in [Block -> Val]
  BY DurableIs, DurableIsNext DEF View, LogTypeOK
<1>2. CASE WriteHead
  <2>1. /\ hdr = << >> /\ hdr' = lh /\ home' = home /\ logd' = logd
        /\ \A p \in Proc : held[p] = None
    BY <1>2 DEF WriteHead, HeadInv, PhaseInv, Active, LogTypeOK
  <2>2. ASSUME NEW b \in Blocks(lh) PROVE Durable'[b] = View[b]
    <3>1. PICK i \in 1 .. Len(lh) : b = lh[i]
      BY DEF Blocks
    <3>2. b \in Block /\ logd[i] = cache[b] /\ cache[b] # None
      BY <1>2, <3>1 DEF WriteHead, CopyInv, BufInv, LogTypeOK
    <3> QED
      BY <2>1, <3>1, <3>2, DurableIsNext DEF View
  <2>3. ASSUME NEW b \in Block \ Blocks(lh) PROVE Durable'[b] = View[b]
    <3>1. Durable[b] = home[b] /\ Durable'[b] = home[b]
      BY <2>1, DurableIs, DurableIsNext DEF Blocks
    <3>2. cache[b] # None => cache[b] = Durable[b]
      BY <1>2, <2>1, Consts DEF WriteHead, BufInv
    <3> QED
      BY <3>1, <3>2 DEF View
  <2> QED
    BY <1>1, <1>2, <2>2, <2>3
<1>3. CASE WriteLog
  <2>1. hdr = << >> /\ hdr' = << >> /\ home' = home /\ ~WriteHead
    BY <1>3 DEF WriteLog, WriteHead, HeadInv
  <2> QED
    BY <1>1, <2>1, DurableIs, DurableIsNext DEF Blocks
<1>4. CASE Install
  <2>1. /\ hdr = lh /\ hdr' = hdr /\ logd' = logd /\ ~WriteHead
        /\ tail \in 1 .. Len(lh) /\ lh[tail] \in Blocks(hdr)
        /\ home' = [home EXCEPT ![lh[tail]] = logd[tail]]
    BY <1>4 DEF Install, WriteHead, HeadInv, Blocks, LogTypeOK
  <2>2. ASSUME NEW b \in Block \ Blocks(hdr) PROVE Durable'[b] = Durable[b]
    BY <2>1, DurableIs, DurableIsNext DEF LogTypeOK
  <2>3. ASSUME NEW b \in Blocks(hdr) PROVE Durable'[b] = Durable[b]
    BY <2>1, DurableIs, DurableIsNext DEF Blocks
  <2> QED
    BY <1>1, <2>1, <2>2, <2>3
<1>5. CASE ClearHead
  <2>1. /\ hdr = lh /\ hdr' = << >> /\ home' = home /\ ~WriteHead
        /\ \A i \in 1 .. Len(hdr) : home[hdr[i]] = logd[i]
    BY <1>5 DEF ClearHead, WriteHead, HeadInv, CopyInv
  <2>2. ASSUME NEW b \in Block PROVE Durable'[b] = Durable[b]
    <3>1. Durable'[b] = home[b]
      BY <2>1, DurableIsNext DEF Blocks
    <3>2. Durable[b] = home[b]
      BY <2>1, DurableIs DEF Blocks
    <3> QED
      BY <3>1, <3>2
  <2> QED
    BY <1>1, <2>1, <2>2
<1>6. CASE UNCHANGED logDisk
  <2>1. Durable' = Durable
    BY <1>6 DEF logDisk, Durable
  <2> QED
    BY <1>2, <2>1
<1>7. UNCHANGED logDisk \/ WriteHead \/ WriteLog \/ Install \/ ClearHead
  BY DEF LogNext, Call, Commit, BeginOp, BeginSleep, LogWriteCheck, LogWrite, EndOp,
         Modify, Finish, ReadHead, Evict, Crash, logVars
<1> QED
  BY <1>2, <1>3, <1>4, <1>5, <1>6, <1>7

-----------------------------------------------------------------------------
\* Which buffers differ from the disk

LEMMA BufStep ==
  ASSUME LogInv, [LogNext]_logVars, LogTypeOK', HeadInv', PhaseInv'
  PROVE  BufInv'
<1> USE DEF LogInv, logDisk, bufs, calls
<1>1. ASSUME NEW p \in Proc, BeginOp(p) \/ BeginSleep(p) \/ LogWriteCheck(p)
      PROVE  BufInv'
  <2>1. UNCHANGED <<home, logd, hdr, cache, dirty, held, step, tail, lh, committing>>
    BY <1>1 DEF BeginOp, BeginSleep, LogWriteCheck
  <2>2. Durable' = Durable /\ (Recovering' <=> Recovering)
    BY <2>1 DEF Recovering, Durable
  <2> QED
    BY <2>1, <2>2 DEF BufInv
<1>2. ASSUME NEW p \in Proc, EndOp(p) PROVE BufInv'
  <2>1. step = "none" /\ hdr = << >>
    BY <1>2, ActiveStep DEF PhaseInv, HeadInv
  <2>2. Durable' = Durable /\ UNCHANGED <<hdr, cache, dirty, lh, held>>
    BY <1>2 DEF EndOp, Durable
  <2>3. step' \in {"none", "write_log", "finish"} /\ (step' # "none" => committing')
    BY <1>2, <2>1 DEF EndOp
  <2>4. dirty = Blocks(lh) /\ (step' = "finish" => dirty = {})
    BY <1>2, <2>1 DEF EndOp, BufInv, Blocks
  <2> QED
    BY <2>1, <2>2, <2>3, <2>4 DEF BufInv, Recovering
<1>3. ASSUME NEW p \in Proc, LogWrite(p) PROVE BufInv'
  <2>1. held[p] \in Block /\ step = "none" /\ hdr = << >> /\ ~committing
    BY <1>3 DEF LogWrite, PhaseInv, Active, HeadInv, LogTypeOK
  <2>2. Blocks(lh') = Blocks(lh) \cup {held[p]}
    BY <1>3, <2>1 DEF LogWrite, Absorbed, Blocks, LogTypeOK
  <2>3. Durable' = Durable /\ UNCHANGED <<hdr, cache, step, committing>>
    BY <1>3 DEF LogWrite, Durable
  <2>4. dirty' = dirty \cup {held[p]} /\ held' = [held EXCEPT ![p] = None]
    BY <1>3 DEF LogWrite
  <2>5. ASSUME NEW c \in Block, cache'[c] # None, c \notin dirty',
               \A q \in Proc : held'[q] # c
        PROVE  cache'[c] = Durable'[c]
    <3>1. c # held[p] /\ \A q \in Proc : held[q] # c
      BY <2>4, <2>5 DEF LogTypeOK
    <3> QED
      BY <2>3, <2>4, <2>5, <3>1 DEF BufInv
  <2>6. /\ \A c \in dirty' : cache'[c] # None
        /\ \A q \in Proc : held'[q] # None => cache'[held'[q]] # None
    BY <1>3, <2>1, <2>3, <2>4 DEF LogWrite, BufInv, PhaseInv, LogTypeOK
  <2> QED
    BY <2>1, <2>2, <2>3, <2>4, <2>5, <2>6 DEF BufInv, Recovering
<1>4. ASSUME NEW p \in Proc, NEW b \in Block, NEW v \in Val, Modify(p, b, v)
      PROVE  BufInv'
  <2>1. step = "none" /\ hdr = << >> /\ ~committing
    BY <1>4 DEF Modify, PhaseInv, Active, HeadInv
  <2>2. Durable' = Durable /\ UNCHANGED <<hdr, dirty, lh, step, committing>>
    BY <1>4 DEF Modify, Durable
  <2>3. cache' = [cache EXCEPT ![b] = v] /\ held' = [held EXCEPT ![p] = b]
    BY <1>4 DEF Modify
  <2>4. ASSUME NEW c \in Block, cache'[c] # None, c \notin dirty',
               \A q \in Proc : held'[q] # c
        PROVE  cache'[c] = Durable'[c]
    <3>1. c # b /\ held[p] = None
      BY <1>4, <2>3, <2>4 DEF Modify, PhaseInv, LogTypeOK
    <3>2. \A q \in Proc : held[q] # c
      BY <2>3, <2>4, <3>1, Consts DEF LogTypeOK
    <3> QED
      BY <2>2, <2>3, <2>4, <3>1, <3>2 DEF BufInv, LogTypeOK
  <2>5. /\ \A c \in dirty' : cache'[c] # None
        /\ \A q \in Proc : held'[q] # None => cache'[held'[q]] # None
    BY <2>2, <2>3, Consts DEF BufInv, LogTypeOK
  <2> QED
    BY <2>1, <2>2, <2>4, <2>5 DEF BufInv, Recovering
<1>5. CASE WriteLog
  <2>1. Durable' = Durable
    BY <1>5, DurableStep DEF WriteLog, WriteHead
  <2> QED
    BY <1>5, <2>1 DEF WriteLog, Advance, BufInv, Recovering, PhaseInv
<1>6. CASE WriteHead
  <2>1. Durable' = View /\ committing /\ tail = 1
    BY <1>6, DurableStep DEF WriteHead, PhaseInv, Recovering, HeadInv
  <2>2. \A b \in Block : cache[b] \in {None, Durable'[b]}
    BY <2>1 DEF View
  <2> QED
    BY <1>6, <2>1, <2>2 DEF WriteHead, BufInv, Recovering, Blocks
<1>7. CASE Install
  <2> DEFINE c == lh[tail]
  <2>1. /\ Durable' = Durable /\ hdr = lh /\ hdr' = hdr /\ lh' = lh /\ lh # << >>
        /\ tail \in 1 .. Len(lh) /\ c \in Block
        /\ held' = held /\ \A p \in Proc : held[p] = None
    BY <1>7, DurableStep DEF Install, WriteHead, HeadInv, PhaseInv, Active, LogTypeOK
  <2>2. Durable[c] = logd[tail] /\ logd[tail] # None
    BY <2>1, DurableIs DEF HeadInv
  <2>3. cache' = [cache EXCEPT ![c] = Durable[c]] /\ dirty' = dirty \ {c}
    BY <1>7, <2>2 DEF Install
  <2>4. \A b \in Block : cache'[b] \in {None, Durable'[b]}
    BY <1>7, <2>1, <2>3 DEF BufInv, LogTypeOK
  <2>5. \A b \in dirty' : cache'[b] # None
    BY <2>1, <2>2, <2>3 DEF BufInv, LogTypeOK
  <2>6. committing => dirty' = {lh[i] : i \in tail + 1 .. Len(lh)}
    <3>1. \A i \in 1 .. Len(lh) : lh[i] = c => i = tail
      BY <2>1 DEF HeadInv
    <3>2. SUFFICES ASSUME committing PROVE dirty' = {lh[i] : i \in tail + 1 .. Len(lh)}
      OBVIOUS
    <3>3. dirty = {lh[i] : i \in tail .. Len(lh)}
      BY <1>7, <3>2 DEF Install, BufInv
    <3>4. \A i \in tail + 1 .. Len(lh) : i \in tail .. Len(lh) /\ lh[i] # c
      BY <2>1, <3>1
    <3>5. \A i \in tail .. Len(lh) : lh[i] # c => i \in tail + 1 .. Len(lh)
      BY <2>1
    <3> QED
      BY <2>3, <3>3, <3>4, <3>5
  <2>7. ~committing => dirty' = {}
    BY <1>7, <2>3 DEF Install, BufInv, Recovering
  <2> QED
    BY <1>7, <2>1, <2>4, <2>5, <2>6, <2>7 DEF Install, Advance, BufInv, Recovering,
     LogTypeOK
<1>8. CASE ClearHead
  <2>1. Durable' = Durable
    BY <1>8, DurableStep DEF ClearHead, WriteHead
  <2> QED
    BY <1>8, <2>1 DEF ClearHead, BufInv, Recovering, Blocks
<1>9. CASE Finish
  <2>1. Durable' = Durable
    BY <1>9 DEF Finish, Durable
  <2> QED
    BY <1>9, <2>1 DEF Finish, BufInv, HeadInv, Recovering, Blocks
<1>10. CASE ReadHead
  <2>1. Durable' = Durable /\ ~committing
    BY <1>10 DEF ReadHead, Durable, PhaseInv
  <2> QED
    BY <1>10, <2>1 DEF ReadHead, BufInv, Recovering
<1>11. ASSUME NEW b \in Block, Evict(b) PROVE BufInv'
  <2>1. Durable' = Durable
    BY <1>11 DEF Evict, Durable
  <2> QED
    BY <1>11, <2>1 DEF Evict, BufInv, Recovering, LogTypeOK
<1>12. CASE Crash
  BY <1>12 DEF Crash, BufInv, Recovering
<1>13. CASE UNCHANGED logVars
  BY <1>13 DEF logVars, BufInv, Recovering, Durable
<1> QED
  BY <1>1, <1>2, <1>3, <1>4, <1>5, <1>6, <1>7, <1>8, <1>9, <1>10, <1>11, <1>12, <1>13
     DEF LogNext, Call, Commit

-----------------------------------------------------------------------------
\* The theorems

LEMMA InvStep == LogInv /\ [LogNext]_logVars => LogInv'
<1> SUFFICES ASSUME LogInv, [LogNext]_logVars PROVE LogInv'
  OBVIOUS
<1>1. LogTypeOK' /\ PhaseInv' /\ SpaceInv' /\ HeadInv' /\ CopyInv'
  BY TypeStep, PhaseStep, SpaceStep, HeadStep, CopyStep
<1> QED
  BY <1>1, BufStep DEF LogInv

\* Whatever the interleaving of calls, commits and crashes, the log in memory,
\* the header on disk, the copies made so far, the buffers and the space that
\* begin_op() reserved agree.
THEOREM LogInvariant == LogSpec => []LogInv
  BY InitInv, InvStep, PTL DEF LogSpec

\* log.lh never outgrows its LOGSIZE entries, nor the disk its blocks.
THEOREM LogTypes == LogSpec => []LogTypeOK
<1>1. LogInv => LogTypeOK
  BY DEF LogInv
<1> QED
  BY <1>1, LogInvariant, PTL

\* No panic of log.c is reached, provided calls leave unused so much of what
\* begin_op() reserves that the block the header takes is made up for.
THEOREM LogNoPanic ==
  ASSUME OPBLOCKS < MAXOPBLOCKS, LOGSIZE + OPBLOCKS + 1 < NLOG + MAXOPBLOCKS
  PROVE  LogSpec => []NoLogPanic
<1>1. LogInv => NoLogPanic
  <2> SUFFICES ASSUME LogInv, NEW p \in Proc
               PROVE  /\ lpc[p] = "check" => ~TooBig /\ outstanding >= 1
                      /\ lpc[p] = "op" => ~committing
    BY DEF NoLogPanic
  <2> USE DEF LogInv
  <2>1. lpc[p] = "op" => ~committing
    BY DEF PhaseInv, Active
  <2>2. ASSUME lpc[p] = "check" PROVE ~TooBig /\ outstanding >= 1
    <3> DEFINE n == Cardinality(wrote[p])
               S == {p} \X (OPBLOCKS + 1 .. MAXOPBLOCKS)
    <3>1. p \in Active /\ outstanding = Cardinality(Active)
      BY <2>2 DEF Active, PhaseInv
    <3>2. outstanding >= 1
      BY <3>1, Finite, FS_EmptySet
    <3>3. n \in Nat /\ n <= OPBLOCKS
      BY FS_CardinalityType DEF SpaceInv
    <3>4. S \subseteq Reserved
      BY <3>1, <3>3, Consts DEF Reserved
    <3>5. IsFiniteSet(S) /\ Cardinality(S) = MAXOPBLOCKS - OPBLOCKS
      <4>1. /\ IsFiniteSet(OPBLOCKS + 1 .. MAXOPBLOCKS)
            /\ Cardinality(OPBLOCKS + 1 .. MAXOPBLOCKS) = MAXOPBLOCKS - OPBLOCKS
        BY FS_Interval, Consts
      <4>2. IsFiniteSet({p}) /\ Cardinality({p}) = 1
        BY FS_Singleton
      <4>3. /\ IsFiniteSet(S)
            /\ Cardinality(S) = Cardinality({p}) * Cardinality(OPBLOCKS + 1 .. MAXOPBLOCKS)
        BY <4>1, <4>2, FS_Product
      <4> QED
        BY <4>1, <4>2, <4>3, Consts
    <3>6. Cardinality(S) <= Cardinality(Reserved)
      BY <3>4, Finite, FS_Subset
    <3>7. Len(lh) \in Nat /\ Len(lh) + (MAXOPBLOCKS - OPBLOCKS) <= LOGSIZE
      BY <3>5, <3>6, Finite, Consts DEF SpaceInv, LogTypeOK
    <3> QED
      BY <3>2, <3>7, Consts DEF TooBig
  <2> QED
    BY <2>1, <2>2
<1> QED
  BY <1>1, LogInvariant, PTL

\* When end_op() has returned for every call, their writes are on the disk for
\* good, the log is empty and no buffer is pinned.
THEOREM LogDurability == LogSpec => []QuietIsDurable
<1>1. LogInv => QuietIsDurable
  <2> SUFFICES ASSUME LogInv, step = "none", outstanding = 0
               PROVE  Durable = View /\ lh = << >> /\ dirty = {}
    BY DEF QuietIsDurable
  <2> USE DEF LogInv
  <2>1. Active = {}
    BY Finite, FS_EmptySet DEF PhaseInv
  <2>2. lh = << >> /\ dirty = {} /\ \A p \in Proc : held[p] = None
    BY <2>1 DEF HeadInv, BufInv, PhaseInv, Active, Blocks
  <2>3. \A b \in Block : cache[b] # None => cache[b] = Durable[b]
    BY <2>2, Consts DEF BufInv
  <2>4. Durable = [b \in Block |-> Durable[b]]
    BY DurableIs
  <2> QED
    BY <2>2, <2>3, <2>4 DEF View
<1> QED
  BY <1>1, LogInvariant, PTL

-----------------------------------------------------------------------------
\* The sleepers of begin_op()

Waiting == \A p \in Proc : lpc[p] = "asleep" => MayWait

\* Whoever has to wait finds a call or a commit under way: a log that nobody uses is
\* empty, and has room for one call.
LEMMA SomebodyEnds == LogInv /\ Waiting => NoIdleSleeper
<1> SUFFICES ASSUME LogInv, Waiting, NEW p \in Proc, lpc[p] = "asleep", ~committing
             PROVE  Exhausts /\ Active # {}
  BY DEF NoIdleSleeper
<1>1. Exhausts
  BY DEF Waiting, MayWait
<1>2. step = "none"
  BY DEF LogInv, PhaseInv, Recovering
<1>3. ASSUME Active = {} PROVE FALSE
  <2>1. lh = << >> /\ outstanding = 0
    BY <1>2, <1>3, FS_EmptySet DEF LogInv, PhaseInv, HeadInv
  <2>2. Len(lh) = 0 /\ (outstanding + 1) * MAXOPBLOCKS = MAXOPBLOCKS
    BY <2>1, Consts
  <2> QED
    BY <1>1, <2>2, Consts DEF Exhausts
<1> QED
  BY <1>1, <1>3

\* A step after which begin_op() could go on wakes everybody.
LEMMA WaitingStep == LogInv /\ Waiting /\ [LogNext]_logVars => Waiting'
<1> SUFFICES ASSUME LogInv, Waiting, [LogNext]_logVars, NEW q \in Proc, lpc'[q] = "asleep"
             PROVE  MayWait'
  BY DEF Waiting
<1> USE DEF LogInv, LogTypeOK
<1>0. /\ outstanding \in Nat /\ Len(lh) \in Nat
      /\ (outstanding + 2) * MAXOPBLOCKS >= (outstanding + 1) * MAXOPBLOCKS
  BY Consts
<1>1. ASSUME NEW p \in Proc, BeginOp(p) PROVE MayWait'
  <2>1. lpc[q] = "asleep"
    BY <1>1 DEF BeginOp
  <2> QED
    BY <1>1, <2>1 DEF BeginOp, Waiting
<1>2. ASSUME NEW p \in Proc, EndOp(p) PROVE MayWait'
  <2>1. outstanding = 1
    BY <1>2 DEF EndOp, Woken
  <2> QED
    BY <1>2, <2>1 DEF EndOp, MayWait
<1>3. ASSUME NEW p \in Proc, BeginSleep(p) PROVE MayWait'
  BY <1>3 DEF BeginSleep, MayWait, Exhausts
<1>4. ASSUME NEW p \in Proc, LogWriteCheck(p) PROVE MayWait'
  BY <1>4 DEF LogWriteCheck, Waiting, MayWait, Exhausts
<1>5. ASSUME NEW p \in Proc, LogWrite(p) PROVE MayWait'
  <2>1. lpc[q] = "asleep" /\ committing' = committing /\ outstanding' = outstanding
    BY <1>5 DEF LogWrite
  <2>2. held[p] \in Block
    BY <1>5 DEF LogWrite, PhaseInv
  <2>3. Len(lh') \in Nat /\ Len(lh') >= Len(lh)
    BY <1>5, <2>2 DEF LogWrite, Absorbed
  <2> HIDE DEF LogInv
  <2> QED
    BY <1>0, <2>1, <2>3, Consts DEF Waiting, MayWait, Exhausts
<1>6. ASSUME NEW p \in Proc, NEW b \in Block, NEW v \in Val, Modify(p, b, v) PROVE MayWait'
  BY <1>6 DEF Modify, Waiting, MayWait, Exhausts
<1>7. CASE Commit
  <2>1. CASE Finish
    BY <2>1 DEF Finish, Woken
  <2>2. CASE WriteLog \/ WriteHead \/ Install
    BY <2>2 DEF WriteLog, WriteHead, Install, calls, Waiting, MayWait, Exhausts
  <2>3. CASE ClearHead \/ ReadHead
    <3>1. lpc[q] = "asleep"
      BY <2>3 DEF ClearHead, ReadHead, calls
    <3>2. committing
      BY <2>3, <3>1 DEF ClearHead, ReadHead, PhaseInv, Recovering
    <3> QED
      BY <2>3, <3>2 DEF ClearHead, ReadHead, MayWait
  <2> QED
    BY <1>7, <2>1, <2>2, <2>3 DEF Commit
<1>8. ASSUME NEW b \in Block, Evict(b) PROVE MayWait'
  BY <1>8 DEF Evict, calls, Waiting, MayWait, Exhausts
<1>9. CASE Crash
  BY <1>9 DEF Crash
<1>10. CASE UNCHANGED logVars
  BY <1>10 DEF logVars, calls, Waiting, MayWait, Exhausts
<1> QED
  BY <1>1, <1>2, <1>3, <1>4, <1>5, <1>6, <1>7, <1>8, <1>9, <1>10 DEF LogNext, Call

\* No process sleeps in begin_op() that could go on, or that nobody will wake: the
\* commit that it waits for, or a call that holds the space, is under way.
THEOREM LogNoIdleSleeper == LogSpec => []NoIdleSleeper
<1>1. LogInit => Waiting
  BY DEF LogInit, Waiting
<1> QED
  BY <1>1, LogInvariant, SomebodyEnds, WaitingStep, PTL DEF LogSpec

-----------------------------------------------------------------------------
\* The log implements AtomicDisk

\* What system calls read changes only as they write it.
LEMMA ViewStep ==
  ASSUME LogInv, LogInv', [LogNext]_logVars
  PROVE  \/ AD!Next
         \/ UNCHANGED <<Durable, View, Active>>
<1> USE DEF LogInv
<1>1. /\ Durable \in [Block -> Val] /\ Durable' \in [Block -> Val]
      /\ View \in [Block -> Val] /\ View' \in [Block -> Val]
  BY DurableIs, DurableIsNext DEF View, LogTypeOK
<1>2. Durable' = IF WriteHead THEN View ELSE Durable
  BY DurableStep
<1>3. cache' = cache /\ Durable' = Durable => View' = View
  BY DEF View
<1>4. UNCHANGED <<home, logd, hdr>> => Durable' = Durable
  BY DEF Durable
<1>5. ASSUME NEW p \in Proc, BeginOp(p) PROVE AD!Begin(p)
  <2>1. cache' = cache /\ Durable' = Durable
    BY <1>5 DEF BeginOp, logDisk, bufs, Durable
  <2> QED
    BY <1>3, <1>5, <2>1, ActiveStep DEF AD!Begin
<1>6. ASSUME NEW p \in Proc, EndOp(p) PROVE AD!End(p)
  <2>1. cache' = cache /\ Durable' = Durable
    BY <1>6 DEF EndOp, logDisk, bufs, Durable
  <2> QED
    BY <1>3, <1>6, <2>1, ActiveStep DEF AD!End
<1>7. ASSUME NEW p \in Proc, BeginSleep(p) \/ LogWriteCheck(p) \/ LogWrite(p)
      PROVE  UNCHANGED <<Durable, View, Active>>
  <2>1. cache' = cache /\ Durable' = Durable
    BY <1>7, <1>4 DEF BeginSleep, LogWriteCheck, LogWrite, logDisk, bufs
  <2> QED
    BY <1>3, <1>7, <2>1, ActiveStep
<1>8. ASSUME NEW p \in Proc, NEW b \in Block, NEW v \in Val, Modify(p, b, v)
      PROVE  AD!Write(p, b, v)
  <2>1. /\ cache' = [cache EXCEPT ![b] = v] /\ Durable' = Durable
        /\ p \in Active /\ Active' = Active
    BY <1>8, ActiveStep DEF Modify, logDisk, Durable, Active
  <2>2. ASSUME NEW c \in Block PROVE View'[c] = IF c = b THEN v ELSE View[c]
    BY <2>1, Consts DEF View, LogTypeOK
  <2>3. View' = [View EXCEPT ![b] = v]
    BY <1>1, <2>2
  <2> QED
    BY <2>1, <2>3 DEF AD!Write
<1>9. CASE WriteHead
  <2>1. Active = {} /\ Active' = Active
    BY <1>9, ActiveStep DEF WriteHead, PhaseInv, Commit
  <2>2. Durable' = View
    BY <1>2, <1>9
  <2>3. \A b \in Block : View'[b] = View[b]
    BY <1>9, <2>2 DEF WriteHead, bufs, View
  <2>4. View' = View
    BY <1>1, <2>3
  <2> QED
    BY <2>1, <2>2, <2>4 DEF AD!Next, AD!Commit
<1>10. CASE WriteLog \/ ClearHead \/ Finish \/ ReadHead
  <2>1. cache' = cache /\ Durable' = Durable /\ Active' = Active
    BY <1>2, <1>10, ActiveStep DEF WriteLog, ClearHead, Finish, ReadHead, WriteHead,
     bufs,
                                  Commit
  <2> QED
    BY <1>3, <2>1
<1>11. CASE Install
  <2>1. Durable' = Durable /\ Active' = Active /\ hdr # << >> /\ hdr' # << >>
    BY <1>2, <1>11, ActiveStep DEF Install, WriteHead, HeadInv, Commit
  <2>2. ASSUME NEW b \in Block PROVE View'[b] = View[b]
    <3>1. cache[b] \in {None, Durable[b]} /\ cache'[b] \in {None, Durable'[b]}
      BY <2>1 DEF BufInv
    <3> QED
      BY <2>1, <3>1 DEF View
  <2> QED
    BY <1>1, <2>1, <2>2
<1>12. ASSUME NEW b \in Block, Evict(b) PROVE UNCHANGED <<Durable, View, Active>>
  <2>1. Durable' = Durable /\ Active' = Active
    BY <1>12, <1>4, ActiveStep DEF Evict, logDisk
  <2>2. cache[b] = Durable[b] /\ cache' = [cache EXCEPT ![b] = None]
    BY <1>12 DEF Evict, BufInv
  <2>3. \A c \in Block : View'[c] = View[c]
    BY <2>1, <2>2 DEF View, LogTypeOK
  <2> QED
    BY <1>1, <2>1, <2>3
<1>13. CASE Crash
  <2>1. Durable' = Durable /\ Active' = {}
    BY <1>13, <1>4, ActiveStep DEF Crash, logDisk
  <2>2. \A b \in Block : View'[b] = Durable[b]
    BY <1>13, <2>1 DEF Crash, View
  <2> QED
    BY <1>1, <2>1, <2>2 DEF AD!Next, AD!Crash
<1>14. CASE UNCHANGED logVars
  BY <1>14 DEF logVars, logDisk, bufs, calls, Durable, View, Active
<1>15. (\E p \in Proc : BeginOp(p) \/ EndOp(p)) => AD!Next
  BY <1>5, <1>6 DEF AD!Next
<1>16. (\E p \in Proc, b \in Block, v \in Val : Modify(p, b, v)) => AD!Next
  BY <1>8 DEF AD!Next
<1> QED
  BY <1>7, <1>9, <1>10, <1>11, <1>12, <1>13, <1>14, <1>15, <1>16 DEF LogNext, Call, Commit

\* The log of log.c, with the buffer cache and the disk below it, implements
\* AtomicDisk: what a crash leaves, at whatever step of a commit or a recovery,
\* is one of the views the calls built, taken when no call was half way.
THEOREM LogAtomic == LogSpec => Atomic
<1>1. LogInit => AD!Init
  <2> SUFFICES ASSUME LogInit PROVE AD!Init
    OBVIOUS
  <2>1. Durable \in [Block -> Val]
    BY InitInv, DurableIs DEF LogInv
  <2>2. Active = {}
    BY DEF LogInit, Active
  <2>3. View = [b \in Block |-> Durable[b]]
    BY DEF LogInit, View
  <2> QED
    BY <2>1, <2>2, <2>3 DEF AD!Init
<1>2. LogInv /\ LogInv' /\ [LogNext]_logVars => [AD!Next]_<<Durable, View, Active>>
  BY ViewStep
<1> QED
  BY <1>1, <1>2, LogInvariant, PTL DEF LogSpec, Atomic, AD!Spec
=============================================================================
