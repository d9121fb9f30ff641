--------------------------- MODULE SpinlockProofs ---------------------------
(***************************************************************************)
(* Mutual exclusion and the interrupt flag, for any number of processors,  *)
(* processes and locks.                                                    *)
(***************************************************************************)
EXTENDS Spinlock, FiniteSetTheorems, SequenceTheorems, TLAPS

\* The locks are numbers from 1 on, and ptable.lock is one of them.
LEMMA Locks == Lock \subseteq Nat \ {0} /\ ptable \in Lock /\ IsFiniteSet(Lock)
  <1>1. NLOCK \in Nat \ {0}
    BY SpinlockAssumption
  <1>2. IsFiniteSet(1..NLOCK)
    BY <1>1, FS_Interval
  <1> QED
    BY <1>1, <1>2 DEF Lock, ptable

\* What taking a lock and giving one up does to the number of locks held.
LEMMA HeldCount ==
  ASSUME NEW S \in SUBSET Lock
  PROVE  /\ Cardinality(S) \in Nat /\ (Cardinality(S) = 0 <=> S = {})
         /\ \A l \in Lock \ S : Cardinality(S \cup {l}) = Cardinality(S) + 1
         /\ \A l \in S : Cardinality(S \ {l}) = Cardinality(S) - 1
         /\ \A l \in Lock : Cardinality({l}) = 1
  <1>1. IsFiniteSet(S)
    BY Locks, FS_Subset
  <1>2. Cardinality(S) \in Nat
    BY <1>1, FS_CardinalityType
  <1>3. Cardinality(S) = 0 <=> S = {}
    BY <1>1, FS_EmptySet
  <1>4. \A l \in Lock \ S : Cardinality(S \cup {l}) = Cardinality(S) + 1
    BY <1>1, FS_AddElement
  <1>5. \A l \in S : Cardinality(S \ {l}) = Cardinality(S) - 1
    BY <1>1, FS_RemoveElement
  <1>6. \A l \in Lock : Cardinality({l}) = 1
    BY FS_Singleton
  <1> QED
    BY <1>2, <1>3, <1>4, <1>5, <1>6

\* A stack with another top.
LEMMA NewTop ==
  ASSUME NEW s \in Seq(Frames), s # <<>>, NEW f \in Frames,
         NEW u, u = [s EXCEPT ![Len(s)] = f]
  PROVE  /\ Len(s) \in Nat \ {0} /\ s[Len(s)] \in Frames
         /\ u \in Seq(Frames) /\ Len(u) = Len(s) /\ u # <<>>
         /\ u[Len(u)] = f
         /\ \A i \in 1..(Len(s) - 1) : u[i] = s[i]
  <1> DEFINE n == Len(s)
  <1>1. n \in Nat \ {0}
    BY EmptySeq
  <1>0. s \in [1..n -> Frames]
    BY LenProperties
  <1> HIDE DEF n
  <1>2. n \in 1..n
    BY <1>1
  <1>3. /\ u \in Seq(Frames)
        /\ Len(u) = Len(s)
        /\ \A j \in 1..Len(s) : u[j] = IF j = Len(s) THEN f ELSE s[j]
    BY <1>2, ExceptSeq DEF n
  <1>4. u # <<>>
    BY <1>1, <1>3, EmptySeq DEF n
  <1>5. u[Len(u)] = f /\ s[Len(s)] \in Frames
    BY <1>0, <1>2, <1>3 DEF n
  <1>6. ASSUME NEW i \in 1..(n - 1) PROVE u[i] = s[i]
    <2>1. i \in 1..n /\ i # n
      BY <1>1
    <2> QED
      BY <2>1, <1>3 DEF n
  <1> QED
    BY <1>1, <1>3, <1>4, <1>5, <1>6 DEF n

\* A thread keeps its shape when only the top of its stack changes, in place.
LEMMA StackedTop ==
  ASSUME NEW s \in Seq(Frames), NEW t, Stacked(s, t),
         NEW f \in Frames, f.kind = s[Len(s)].kind
  PROVE  Stacked([s EXCEPT ![Len(s)] = f], t)
  <1> DEFINE u == [s EXCEPT ![Len(s)] = f]
  <1>1. s # <<>>
    BY DEF Stacked
  <1>2. /\ Len(s) \in Nat \ {0}
        /\ u # <<>> /\ Len(u) = Len(s) /\ u[Len(s)] = f
        /\ \A i \in 1..(Len(s) - 1) : u[i] = s[i]
    BY <1>1, NewTop
  <1> HIDE DEF u
  <1>3. \A i \in 1..Len(s) : u[i].kind = s[i].kind
    BY <1>2
  <1>4. \A i \in 1..(Len(s) - 1) : Interrupted(u[i])
    BY <1>2 DEF Stacked
  <1>5. Stacked(u, t)
    BY <1>2, <1>3, <1>4 DEF Stacked
  <1> QED
    BY <1>5 DEF u

\* The top frame of a processor.
LEMMA TopIs ==
  ASSUME SpinInv, NEW c \in Cpu
  PROVE  /\ cpu[c] \in Processors
         /\ cpu[c].frames \in Seq(Frames) /\ cpu[c].frames # <<>>
         /\ Len(cpu[c].frames) \in Nat \ {0} /\ Top(c) \in Frames
         /\ Top(c).held \in SUBSET Lock
  <1>1. cpu[c].frames \in Seq(Frames) /\ cpu[c].frames # <<>>
    BY DEF SpinInv, SpinTypeOK, Processors, CpuOK, Stacked
  <1>2. Len(cpu[c].frames) \in Nat \ {0} /\ Top(c) \in Frames
    BY <1>1, EmptySeq, ElementOfSeq DEF Top
  <1>3. cpu[c] \in Processors
    BY DEF SpinInv, SpinTypeOK
  <1> QED
    BY <1>1, <1>2, <1>3 DEF Frames

\* A processor with another frame on top is the same in all else.
LEMMA SetTopIs ==
  ASSUME NEW me \in Processors,
         me.frames # <<>>, NEW f \in Frames
  PROVE  /\ SetTop(me, f) \in Processors
         /\ SetTop(me, f).frames = [me.frames EXCEPT ![Len(me.frames)] = f]
         /\ SetTop(me, f).intr = me.intr /\ SetTop(me, f).ncli = me.ncli
         /\ SetTop(me, f).intena = me.intena /\ SetTop(me, f).thread = me.thread
  <1>1. [me.frames EXCEPT ![Len(me.frames)] = f] \in Seq(Frames)
    BY NewTop DEF Processors
  <1> QED
    BY <1>1 DEF SetTop, Processors

\* Goto changes the top frame only.
LEMMA GotoIs ==
  ASSUME NEW c \in Cpu, Top(c) \in Frames,
         NEW me \in Processors, me.frames = cpu[c].frames,
         NEW pc, pc # "run",
         NEW f, f = [Top(c) EXCEPT !.pc = pc, !.eflags = FALSE]
  PROVE  Goto(me, pc) = SetTop(me, f)
  <1>1. me.frames[Len(me.frames)] = Top(c)
    BY DEF Top
  <1>2. [me.frames[Len(me.frames)] EXCEPT !.pc = pc,
           !.l = IF pc = "run" THEN 0 ELSE @, !.eflags = FALSE] = f
    BY <1>1 DEF Frames
  <1> QED
    BY <1>2 DEF Goto

\* Back to the code of the frame.
LEMMA GotoRun ==
  ASSUME NEW c \in Cpu, Top(c) \in Frames,
         NEW me \in Processors, me.frames = cpu[c].frames,
         NEW f, f = [Top(c) EXCEPT !.pc = "run", !.l = 0, !.eflags = FALSE]
  PROVE  Goto(me, "run") = SetTop(me, f)
  <1>1. me.frames[Len(me.frames)] = Top(c)
    BY DEF Top
  <1>2. [me.frames[Len(me.frames)] EXCEPT !.pc = "run",
           !.l = IF "run" = "run" THEN 0 ELSE @, !.eflags = FALSE] = f
    BY <1>1 DEF Frames
  <1> QED
    BY <1>2 DEF Goto

\* A step that changes no lock and gives no frame one.
LEMMA SameLocks ==
  ASSUME SpinInv, UNCHANGED lk,
         \A d \in Cpu : Top(d)'.held = Top(d).held,
         \A d \in Cpu : Top(d)'.pc \in {"own", "unlock"} => Top(d)' = Top(d)
  PROVE  LocksOK'
  <1>1. (\A d \in Cpu, k \in Lock : k \in Top(d).held <=> lk[k].cpu = d)'
    BY DEF SpinInv, LocksOK
  <1>2. (\A d \in Cpu : /\ \A k \in Top(d).held : lk[k].locked
                        /\ Top(d).pc \in {"own", "unlock"} =>
                             lk[Top(d).l].locked /\ lk[Top(d).l].cpu = "none")'
    BY DEF SpinInv, LocksOK
  <1>3. (\A d, e \in Cpu : d # e /\ {Top(d).pc, Top(e).pc} \subseteq {"own", "unlock"} =>
                           Top(d).l # Top(e).l)'
    BY DEF SpinInv, LocksOK
  <1> QED
    BY <1>1, <1>2, <1>3 DEF LocksOK

\* A step of the processor c that goes on with the same thread: what is left to
\* show is that the new frames and the new counters agree.
LEMMA StackStep ==
  ASSUME SpinInv, NEW c \in Cpu, halt' = FALSE, UNCHANGED ctx,
         lk' \in [Lock -> [locked : BOOLEAN, cpu : Cpu \cup {"none"}]],
         NEW me \in Processors, me.thread = cpu[c].thread, Stacked(me.frames, me.thread),
         Counted(me, me.frames[Len(me.frames)]), Taking(me.frames[Len(me.frames)]),
         cpu' = [cpu EXCEPT ![c] = me]
  PROVE  /\ SpinTypeOK' /\ (~halt)' /\ (\A d \in Cpu : CpuOK(d))' /\ ThreadsOK'
         /\ Top(c)' = me.frames[Len(me.frames)]
         /\ \A d \in Cpu \ {c} : Top(d)' = Top(d)
  <1>1. cpu \in [Cpu -> Processors]
    BY DEF SpinInv, SpinTypeOK
  <1>2. cpu'[c] = me /\ \A d \in Cpu \ {c} : cpu'[d] = cpu[d]
    BY <1>1
  <1>3. SpinTypeOK' /\ (~halt)'
    BY <1>1 DEF SpinInv, SpinTypeOK
  <1>4. Top(c)' = me.frames[Len(me.frames)] /\ \A d \in Cpu \ {c} : Top(d)' = Top(d)
    BY <1>2 DEF Top
  <1>5. CpuOK(c)'
    BY <1>2, <1>4 DEF SpinInv, CpuOK
  <1>6. ASSUME NEW d \in Cpu \ {c} PROVE CpuOK(d)'
    BY <1>2, <1>4 DEF SpinInv, CpuOK
  <1>7. \A d \in Cpu : cpu'[d].thread = cpu[d].thread
    BY <1>2
  <1>8. \A t \in Cpu \cup Task : Parked(t) <=> Parked(t)'
    BY DEF Parked
  <1>9. ThreadsOK'
    BY <1>7, <1>8 DEF SpinInv, ThreadsOK
  <1> QED
    BY <1>3, <1>4, <1>5, <1>6, <1>9

\* A step of the processor c that changes the top of its stack in place.
LEMMA TopStep ==
  ASSUME SpinInv, NEW c \in Cpu, halt' = FALSE, UNCHANGED ctx,
         lk' \in [Lock -> [locked : BOOLEAN, cpu : Cpu \cup {"none"}]],
         NEW old \in Processors, old.frames = cpu[c].frames, old.thread = cpu[c].thread,
         NEW f \in Frames, f.kind = Top(c).kind,
         cpu' = [cpu EXCEPT ![c] = SetTop(old, f)],
         Counted(old, f), Taking(f)
  PROVE  /\ SpinTypeOK' /\ (~halt)' /\ (\A d \in Cpu : CpuOK(d))' /\ ThreadsOK'
         /\ Top(c)' = f
         /\ \A d \in Cpu \ {c} : Top(d)' = Top(d)
  <1> DEFINE me == SetTop(old, f)
  <1>1. cpu[c].frames \in Seq(Frames) /\ cpu[c].frames # <<>>
    BY TopIs
  <1>2. /\ me \in Processors
        /\ me.frames = [cpu[c].frames EXCEPT ![Len(cpu[c].frames)] = f]
        /\ me.intr = old.intr /\ me.ncli = old.ncli
        /\ me.intena = old.intena /\ me.thread = cpu[c].thread
    BY <1>1, SetTopIs
  <1>3. cpu' = [cpu EXCEPT ![c] = me]
    OBVIOUS
  <1> HIDE DEF me
  <1>4. Stacked(me.frames, me.thread)
    BY <1>1, <1>2, StackedTop DEF SpinInv, CpuOK, Top
  <1>5. f = me.frames[Len(me.frames)]
    BY <1>1, <1>2, NewTop
  <1>6. Counted(me, f)
    BY <1>2 DEF Counted
  <1>7. me.thread = cpu[c].thread
    BY <1>2
  <1> QED
    BY <1>2, <1>3, <1>4, <1>5, <1>6, <1>7, StackStep

\* ReadEflags: the frame is about to take a lock above all the processor has.
LEMMA ReadEflagsStep ==
  ASSUME SpinInv, NEW c \in Cpu, NEW l \in Lock, ReadEflags(c, l)
  PROVE  SpinInv'
  <1> DEFINE f == [Top(c) EXCEPT !.pc = "cli", !.l = l, !.eflags = cpu[c].intr]
  <1>1. /\ cpu \in [Cpu -> Processors] /\ cpu[c] \in Processors /\ cpu[c].intr \in BOOLEAN
        /\ Top(c) \in Frames /\ Top(c).held \in SUBSET Lock
        /\ Len(cpu[c].frames) \in DOMAIN cpu[c].frames
    BY TopIs, LenProperties DEF SpinInv, SpinTypeOK, Processors
  <1>2. Top(c).pc = "run" /\ \A k \in Top(c).held : k < l
    BY <1>1 DEF ReadEflags, At, HeldBy, Top
  <1>3. f \in Frames /\ f.kind = Top(c).kind /\ f.held = Top(c).held
        /\ f.pc = "cli" /\ f.l = l /\ f.eflags = cpu[c].intr
    BY <1>1 DEF Frames
  <1>4. cpu' = [cpu EXCEPT ![c] = SetTop(cpu[c], f)] /\ halt' = FALSE /\ UNCHANGED <<ctx, lk>>
    BY <1>1 DEF ReadEflags, At, SpinInv, SpinTypeOK
  <1> HIDE DEF f
  <1>6. Counted(cpu[c], f)
    BY <1>2, <1>3 DEF SpinInv, CpuOK, Counted
  <1>7. Taking(f)
    BY <1>1, <1>2, <1>3, Locks DEF Taking
  <1>8. lk' \in [Lock -> [locked : BOOLEAN, cpu : Cpu \cup {"none"}]]
    BY <1>4 DEF SpinInv, SpinTypeOK
  <1>9. /\ SpinTypeOK' /\ (~halt)' /\ (\A d \in Cpu : CpuOK(d))' /\ ThreadsOK'
        /\ Top(c)' = f
        /\ \A d \in Cpu \ {c} : Top(d)' = Top(d)
    BY <1>1, <1>3, <1>4, <1>6, <1>7, <1>8, TopStep
  <1>10. /\ \A d \in Cpu : Top(d)'.held = Top(d).held
         /\ \A d \in Cpu : Top(d)'.pc \in {"own", "unlock"} => Top(d)' = Top(d)
    BY <1>3, <1>9
  <1>11. LocksOK'
    BY <1>4, <1>10, SameLocks
  <1> QED
    BY <1>9, <1>11 DEF SpinInv

\* Pushcli: interrupts are off from here on, and intena is what they were.  The
\* lock is above all the processor has, so that it has not got it.
LEMMA PushcliStep ==
  ASSUME SpinInv, NEW c \in Cpu, Pushcli(c)
  PROVE  SpinInv'
  <1> DEFINE ie == IF cpu[c].ncli = 0 THEN Top(c).eflags ELSE cpu[c].intena
             old == [cpu[c] EXCEPT !.intr = FALSE, !.intena = ie, !.ncli = @ + 1]
             f == [Top(c) EXCEPT !.pc = "xchg", !.eflags = FALSE]
  <1>1. /\ cpu \in [Cpu -> Processors] /\ cpu[c] \in Processors
        /\ Top(c) \in Frames /\ Top(c).held \in SUBSET Lock
        /\ cpu[c].ncli \in Nat /\ Top(c).eflags \in BOOLEAN
    BY TopIs DEF SpinInv, SpinTypeOK, Processors, Frames
  <1>2. Top(c).pc = "cli" /\ Counted(cpu[c], Top(c)) /\ Taking(Top(c))
    BY DEF Pushcli, At, SpinInv, CpuOK
  <1>3. /\ f \in Frames /\ f.kind = Top(c).kind /\ f.held = Top(c).held
        /\ f.pc = "xchg" /\ f.l = Top(c).l
    BY <1>1 DEF Frames
  <1>4. /\ old \in Processors /\ old.frames = cpu[c].frames /\ old.thread = cpu[c].thread
        /\ old.intr = FALSE /\ old.ncli = cpu[c].ncli + 1 /\ old.intena = ie
    <2>1. ie \in BOOLEAN
      BY <1>1 DEF Processors
    <2> HIDE DEF ie
    <2> DEFINE n == cpu[c].ncli + 1
    <2>2. n \in Nat
      BY <1>1
    <2> HIDE DEF n
    <2>3. old = [cpu[c] EXCEPT !.intr = FALSE, !.intena = ie, !.ncli = n]
      BY DEF n
    <2> HIDE DEF old
    <2>4. /\ old \in Processors /\ old.frames = cpu[c].frames /\ old.thread = cpu[c].thread
          /\ old.intr = FALSE /\ old.ncli = n /\ old.intena = ie
      BY <1>1, <2>1, <2>2, <2>3 DEF Processors
    <2> QED
      BY <2>4 DEF n
  <1>5. f.eflags = FALSE
    BY <1>1 DEF Frames
  <1>6. cpu' = [cpu EXCEPT ![c] = Goto(old, "xchg")]
    BY DEF Pushcli, To
  <1> HIDE DEF f, old
  <1>7. Goto(old, "xchg") = SetTop(old, f)
    BY <1>1, <1>4, GotoIs DEF f
  <1>8. cpu' = [cpu EXCEPT ![c] = SetTop(old, f)]
    BY <1>6, <1>7
  <1>9. halt' = FALSE /\ UNCHANGED <<ctx, lk>>
    BY <1>1, <1>2 DEF Pushcli, holding, SpinInv, LocksOK, Taking
  <1>10. Counted(old, f)
    BY <1>1, <1>2, <1>3, <1>4, HeldCount DEF Counted
  <1>11. Taking(f)
    BY <1>2, <1>3 DEF Taking
  <1>12. lk' \in [Lock -> [locked : BOOLEAN, cpu : Cpu \cup {"none"}]]
    BY <1>9 DEF SpinInv, SpinTypeOK
  <1>13. /\ SpinTypeOK' /\ (~halt)' /\ (\A d \in Cpu : CpuOK(d))' /\ ThreadsOK'
         /\ Top(c)' = f
         /\ \A d \in Cpu \ {c} : Top(d)' = Top(d)
    BY <1>3, <1>4, <1>8, <1>9, <1>10, <1>11, <1>12, TopStep
  <1>14. /\ \A d \in Cpu : Top(d)'.held = Top(d).held
         /\ \A d \in Cpu : Top(d)'.pc \in {"own", "unlock"} => Top(d)' = Top(d)
    BY <1>3, <1>13
  <1>15. LocksOK'
    BY <1>9, <1>14, SameLocks
  <1> QED
    BY <1>13, <1>15 DEF SpinInv

\* Xchg: the lock was free, so that nobody has it or gives it up.
LEMMA XchgStep ==
  ASSUME SpinInv, NEW c \in Cpu, Xchg(c)
  PROVE  SpinInv'
  <1> DEFINE l == Top(c).l
             f == [Top(c) EXCEPT !.pc = "own", !.eflags = FALSE]
  <1>1. /\ cpu \in [Cpu -> Processors] /\ cpu[c] \in Processors
        /\ Top(c) \in Frames /\ Top(c).held \in SUBSET Lock
        /\ lk \in [Lock -> [locked : BOOLEAN, cpu : Cpu \cup {"none"}]]
    BY TopIs DEF SpinInv, SpinTypeOK
  <1>2. Top(c).pc = "xchg" /\ Counted(cpu[c], Top(c)) /\ Taking(Top(c)) /\ l \in Lock
    BY DEF Xchg, At, SpinInv, CpuOK, Taking
  <1>3. /\ f \in Frames /\ f.kind = Top(c).kind /\ f.held = Top(c).held
        /\ f.pc = "own" /\ f.l = l /\ f.eflags = FALSE
    BY <1>1 DEF Frames
  <1> HIDE DEF f
  <1>4. Goto(cpu[c], "own") = SetTop(cpu[c], f)
    BY <1>1, GotoIs DEF f
  <1>5. cpu' = [cpu EXCEPT ![c] = SetTop(cpu[c], f)] /\ halt' = FALSE /\ UNCHANGED ctx
    BY <1>4 DEF Xchg, To, At, SpinInv, SpinTypeOK
  <1>6. Counted(cpu[c], f) /\ Taking(f)
    BY <1>2, <1>3 DEF Counted, Taking
  <1>7. /\ lk' \in [Lock -> [locked : BOOLEAN, cpu : Cpu \cup {"none"}]]
        /\ lk'[l] = [lk[l] EXCEPT !.locked = TRUE] /\ \A k \in Lock \ {l} : lk'[k] = lk[k]
    BY <1>1, <1>2 DEF Xchg
  <1>8. /\ SpinTypeOK' /\ (~halt)' /\ (\A d \in Cpu : CpuOK(d))' /\ ThreadsOK'
        /\ Top(c)' = f
        /\ \A d \in Cpu \ {c} : Top(d)' = Top(d)
    BY <1>1, <1>3, <1>5, <1>6, <1>7, TopStep
  <1>9. ~lk[l].locked
    BY DEF Xchg
  <1>10. lk[l].cpu = "none"
    BY <1>1, <1>2, <1>9 DEF SpinInv, LocksOK
  <1>11. lk'[l].locked /\ \A k \in Lock : lk'[k].cpu = lk[k].cpu /\ (lk[k].locked => lk'[k].locked)
    BY <1>1, <1>2, <1>7
  <1>12. \A d \in Cpu : Top(d)'.held = Top(d).held
    BY <1>3, <1>8
  <1>13. \A d \in Cpu \ {c} : Top(d)'.pc \in {"own", "unlock"} => Top(d).l \in Lock \ {l}
    BY <1>8, <1>9 DEF SpinInv, CpuOK, Taking, LocksOK
  <1>14. LocksOK'
    <2>1. (\A d \in Cpu, k \in Lock : k \in Top(d).held <=> lk[k].cpu = d)'
      BY <1>11, <1>12 DEF SpinInv, LocksOK
    <2>2. (\A d \in Cpu : \A k \in Top(d).held : lk[k].locked)'
      <3> SUFFICES ASSUME NEW d \in Cpu, NEW k \in Top(d)'.held PROVE lk'[k].locked
        OBVIOUS
      <3>1. k \in Lock /\ lk[k].locked
        BY <1>12, TopIs DEF SpinInv, LocksOK
      <3> QED
        BY <3>1, <1>11
    <2>3. (\A d \in Cpu : Top(d).pc \in {"own", "unlock"} =>
                           lk[Top(d).l].locked /\ lk[Top(d).l].cpu = "none")'
      BY <1>2, <1>3, <1>7, <1>8, <1>10, <1>11, <1>13 DEF SpinInv, LocksOK
    <2>4. (\A d, e \in Cpu : d # e /\ {Top(d).pc, Top(e).pc} \subseteq {"own", "unlock"} =>
                             Top(d).l # Top(e).l)'
      BY <1>3, <1>8, <1>13 DEF SpinInv, LocksOK
    <2> QED
      BY <2>1, <2>2, <2>3, <2>4 DEF LocksOK
  <1> QED
    BY <1>8, <1>14 DEF SpinInv

\* Own: the lock that was locked for this processor is its own from here on.
LEMMA OwnStep ==
  ASSUME SpinInv, NEW c \in Cpu, Own(c)
  PROVE  SpinInv'
  <1> DEFINE l == Top(c).l
             f == [Top(c) EXCEPT !.pc = "run", !.l = 0, !.held = @ \cup {l}]
  <1>1. /\ cpu \in [Cpu -> Processors] /\ cpu[c] \in Processors
        /\ Top(c) \in Frames /\ Top(c).held \in SUBSET Lock
        /\ lk \in [Lock -> [locked : BOOLEAN, cpu : Cpu \cup {"none"}]]
        /\ cpu[c].ncli \in Nat
    BY TopIs DEF SpinInv, SpinTypeOK, Processors
  <1>2. /\ Top(c).pc = "own" /\ Counted(cpu[c], Top(c)) /\ Taking(Top(c))
        /\ l \in Lock \ Top(c).held /\ lk[l].locked /\ lk[l].cpu = "none"
    BY DEF Own, At, SpinInv, CpuOK, Taking, LocksOK
  <1>3. /\ f \in Frames /\ f.kind = Top(c).kind /\ f.held = Top(c).held \cup {l}
        /\ f.pc = "run"
    BY <1>1, <1>2 DEF Frames
  <1>4. cpu' = [cpu EXCEPT ![c] = SetTop(cpu[c], f)] /\ halt' = FALSE /\ UNCHANGED ctx
    BY <1>1 DEF Own, At, SpinInv, SpinTypeOK
  <1> HIDE DEF f
  <1>5. Counted(cpu[c], f) /\ Taking(f)
    <2>1. Cardinality(f.held) = Cardinality(Top(c).held) + 1
      BY <1>1, <1>2, <1>3, HeldCount
    <2>2. Cardinality(f.held) \in Nat /\ Cardinality(Top(c).held) \in Nat
      BY <1>1, <1>2, <1>3, HeldCount
    <2> QED
      BY <1>2, <1>3, <2>1, <2>2 DEF Counted, Taking
  <1>6. /\ lk' \in [Lock -> [locked : BOOLEAN, cpu : Cpu \cup {"none"}]]
        /\ lk'[l].cpu = c /\ lk'[l].locked /\ \A k \in Lock \ {l} : lk'[k] = lk[k]
    BY <1>1, <1>2 DEF Own
  <1>7. /\ SpinTypeOK' /\ (~halt)' /\ (\A d \in Cpu : CpuOK(d))' /\ ThreadsOK'
        /\ Top(c)' = f
        /\ \A d \in Cpu \ {c} : Top(d)' = Top(d)
    BY <1>1, <1>3, <1>4, <1>5, <1>6, TopStep
  <1>8. \A d \in Cpu \ {c} : /\ Top(d).held \subseteq Lock \ {l}
                             /\ Top(d).pc \in {"own", "unlock"} => Top(d).l \in Lock \ {l}
    BY <1>2, TopIs, SpinlockAssumption DEF SpinInv, CpuOK, Taking, LocksOK
  <1>9. LocksOK'
    <2>1. (\A d \in Cpu, k \in Lock : k \in Top(d).held <=> lk[k].cpu = d)'
      BY <1>2, <1>3, <1>6, <1>7, <1>8 DEF SpinInv, LocksOK
    <2>2. (\A d \in Cpu : \A k \in Top(d).held : lk[k].locked)'
      BY <1>1, <1>2, <1>3, <1>6, <1>7, <1>8 DEF SpinInv, LocksOK
    <2>3. (\A d \in Cpu : Top(d).pc \in {"own", "unlock"} =>
                           lk[Top(d).l].locked /\ lk[Top(d).l].cpu = "none")'
      BY <1>3, <1>6, <1>7, <1>8 DEF SpinInv, LocksOK
    <2>4. (\A d, e \in Cpu : d # e /\ {Top(d).pc, Top(e).pc} \subseteq {"own", "unlock"} =>
                             Top(d).l # Top(e).l)'
      BY <1>3, <1>7 DEF SpinInv, LocksOK
    <2> QED
      BY <2>1, <2>2, <2>3, <2>4 DEF LocksOK
  <1> QED
    BY <1>7, <1>9 DEF SpinInv

\* Release: the processor has the lock, and keeps it from the others until it is
\* unlocked.
LEMMA ReleaseStep ==
  ASSUME SpinInv, NEW c \in Cpu, NEW l \in Lock, Release(c, l)
  PROVE  SpinInv'
  <1> DEFINE f == [Top(c) EXCEPT !.pc = "unlock", !.l = l, !.held = @ \ {l}]
  <1>1. /\ cpu \in [Cpu -> Processors] /\ cpu[c] \in Processors
        /\ Top(c) \in Frames /\ Top(c).held \in SUBSET Lock
        /\ lk \in [Lock -> [locked : BOOLEAN, cpu : Cpu \cup {"none"}]]
        /\ cpu[c].ncli \in Nat
    BY TopIs DEF SpinInv, SpinTypeOK, Processors
  <1>2. /\ Top(c).pc = "run" /\ Counted(cpu[c], Top(c)) /\ l \in Top(c).held
        /\ lk[l].locked /\ lk[l].cpu = c
    BY DEF Release, At, SpinInv, CpuOK, LocksOK
  <1>3. /\ f \in Frames /\ f.kind = Top(c).kind /\ f.held = Top(c).held \ {l}
        /\ f.pc = "unlock" /\ f.l = l
    BY <1>1, <1>2 DEF Frames
  <1>4. cpu' = [cpu EXCEPT ![c] = SetTop(cpu[c], f)] /\ halt' = FALSE /\ UNCHANGED ctx
    BY <1>1, <1>2 DEF Release, holding
  <1> HIDE DEF f
  <1>5. Counted(cpu[c], f) /\ Taking(f)
    <2>1. Cardinality(f.held) = Cardinality(Top(c).held) - 1
      BY <1>1, <1>2, <1>3, HeldCount
    <2>2. Cardinality(f.held) \in Nat /\ Cardinality(Top(c).held) \in Nat
      BY <1>1, <1>2, <1>3, HeldCount
    <2> QED
      BY <1>2, <1>3, <2>1, <2>2 DEF Counted, Taking
  <1>6. /\ lk' \in [Lock -> [locked : BOOLEAN, cpu : Cpu \cup {"none"}]]
        /\ lk'[l].cpu = "none" /\ lk'[l].locked /\ \A k \in Lock \ {l} : lk'[k] = lk[k]
    BY <1>1, <1>2 DEF Release
  <1>7. /\ SpinTypeOK' /\ (~halt)' /\ (\A d \in Cpu : CpuOK(d))' /\ ThreadsOK'
        /\ Top(c)' = f
        /\ \A d \in Cpu \ {c} : Top(d)' = Top(d)
    BY <1>1, <1>3, <1>4, <1>5, <1>6, TopStep
  <1>8. \A d \in Cpu \ {c} : /\ Top(d).held \subseteq Lock \ {l}
                             /\ Top(d).pc \in {"own", "unlock"} => Top(d).l \in Lock \ {l}
    BY <1>2, TopIs, SpinlockAssumption DEF SpinInv, CpuOK, Taking, LocksOK
  <1>9. LocksOK'
    <2>1. (\A d \in Cpu, k \in Lock : k \in Top(d).held <=> lk[k].cpu = d)'
      BY <1>2, <1>3, <1>6, <1>7, <1>8, SpinlockAssumption DEF SpinInv, LocksOK
    <2>2. (\A d \in Cpu : \A k \in Top(d).held : lk[k].locked)'
      BY <1>1, <1>2, <1>3, <1>6, <1>7, <1>8 DEF SpinInv, LocksOK
    <2>3. (\A d \in Cpu : Top(d).pc \in {"own", "unlock"} =>
                           lk[Top(d).l].locked /\ lk[Top(d).l].cpu = "none")'
      BY <1>3, <1>6, <1>7, <1>8 DEF SpinInv, LocksOK
    <2>4. (\A d, e \in Cpu : d # e /\ {Top(d).pc, Top(e).pc} \subseteq {"own", "unlock"} =>
                             Top(d).l # Top(e).l)'
      BY <1>3, <1>7, <1>8 DEF SpinInv, LocksOK
    <2> QED
      BY <2>1, <2>2, <2>3, <2>4 DEF LocksOK
  <1> QED
    BY <1>7, <1>9 DEF SpinInv

\* Popcli: the lock is free, and when it was the last one interrupts are on again
\* if they were on before the first.
LEMMA PopcliStep ==
  ASSUME SpinInv, NEW c \in Cpu, Popcli(c)
  PROVE  SpinInv'
  <1> DEFINE l == Top(c).l
             n == cpu[c].ncli - 1
             on == cpu[c].intr \/ (n = 0 /\ cpu[c].intena)
             old == [cpu[c] EXCEPT !.ncli = n, !.intr = on]
             f == [Top(c) EXCEPT !.pc = "run", !.l = 0, !.eflags = FALSE]
  <1>1. /\ cpu \in [Cpu -> Processors] /\ cpu[c] \in Processors
        /\ Top(c) \in Frames /\ Top(c).held \in SUBSET Lock
        /\ lk \in [Lock -> [locked : BOOLEAN, cpu : Cpu \cup {"none"}]]
        /\ cpu[c].ncli \in Nat
    BY TopIs DEF SpinInv, SpinTypeOK, Processors
  <1>2. /\ Top(c).pc = "unlock" /\ Counted(cpu[c], Top(c))
        /\ l \in Lock /\ lk[l].locked /\ lk[l].cpu = "none"
    BY DEF Popcli, At, SpinInv, CpuOK, Taking, LocksOK
  <1>3. /\ f \in Frames /\ f.kind = Top(c).kind /\ f.held = Top(c).held
        /\ f.pc = "run" /\ f.l = 0 /\ f.eflags = FALSE
    BY <1>1 DEF Frames
  <1>4. n \in Nat /\ n = Cardinality(f.held) /\ cpu[c].ncli > 0 /\ ~cpu[c].intr
    <2>1. Cardinality(Top(c).held) \in Nat
      BY <1>1, HeldCount
    <2>2. f.held = Top(c).held
      BY <1>3
    <2> HIDE DEF f
    <2> QED
      BY <1>1, <1>2, <2>1, <2>2 DEF Counted
  <1>5. cpu' = [cpu EXCEPT ![c] = Goto(old, "run")] /\ halt' = FALSE /\ UNCHANGED ctx
    <2>1. cpu' = [cpu EXCEPT ![c] = Goto(old, "run")] /\ UNCHANGED ctx
      BY DEF Popcli, To
    <2>2. halt' = (cpu[c].intr \/ n < 0)
      BY DEF Popcli
    <2>3. ~(n < 0)
      BY <1>4
    <2> HIDE DEF n
    <2> QED
      BY <1>4, <2>1, <2>2, <2>3
  <1> HIDE DEF f
  <1>6. on \in BOOLEAN /\ (on <=> n = 0 /\ cpu[c].intena)
    BY <1>1, <1>4
  <1> HIDE DEF n, on
  <1>7. /\ old \in Processors /\ old.frames = cpu[c].frames /\ old.thread = cpu[c].thread
        /\ old.intr = on /\ old.ncli = n /\ old.intena = cpu[c].intena
    BY <1>1, <1>4, <1>6 DEF Processors
  <1> HIDE DEF old
  <1>8. Goto(old, "run") = SetTop(old, f)
    BY <1>1, <1>7, GotoRun DEF f
  <1>9. Counted(old, f) /\ Taking(f)
    <2>1. old.intr <=> n = 0 /\ cpu[c].intena
      BY <1>6, <1>7
    <2>2. old.ncli = n /\ (old.intena <=> cpu[c].intena) /\ n \in Nat /\ n = Cardinality(f.held)
      BY <1>4, <1>7
    <2>3. /\ f.kind = "process" => cpu[c].intena
          /\ f.kind = "handler" => ~cpu[c].intena
      BY <1>2, <1>3, <1>4 DEF Counted
    <2> QED
      BY <1>3, <2>1, <2>2, <2>3 DEF Counted, Taking
  <1>10. /\ lk' \in [Lock -> [locked : BOOLEAN, cpu : Cpu \cup {"none"}]]
         /\ lk'[l].cpu = "none" /\ \A k \in Lock \ {l} : lk'[k] = lk[k]
    BY <1>1, <1>2 DEF Popcli
  <1>11. /\ SpinTypeOK' /\ (~halt)' /\ (\A d \in Cpu : CpuOK(d))' /\ ThreadsOK'
        /\ Top(c)' = f
        /\ \A d \in Cpu \ {c} : Top(d)' = Top(d)
    BY <1>3, <1>5, <1>7, <1>8, <1>9, <1>10, TopStep
  <1>12. /\ \A d \in Cpu : Top(d).held \subseteq Lock \ {l}
         /\ \A d \in Cpu \ {c} :
              Top(d).pc \in {"own", "unlock"} => Top(d).l \in Lock \ {l}
    BY <1>2, TopIs, SpinlockAssumption DEF SpinInv, CpuOK, Taking, LocksOK
  <1>13. LocksOK'
    <2>1. (\A d \in Cpu, k \in Lock : k \in Top(d).held <=> lk[k].cpu = d)'
      BY <1>2, <1>3, <1>10, <1>11, <1>12, SpinlockAssumption DEF SpinInv, LocksOK
    <2>2. (\A d \in Cpu : \A k \in Top(d).held : lk[k].locked)'
      BY <1>1, <1>2, <1>3, <1>10, <1>11, <1>12 DEF SpinInv, LocksOK
    <2>3. (\A d \in Cpu : Top(d).pc \in {"own", "unlock"} =>
                           lk[Top(d).l].locked /\ lk[Top(d).l].cpu = "none")'
      BY <1>3, <1>10, <1>11, <1>12 DEF SpinInv, LocksOK
    <2>4. (\A d, e \in Cpu : d # e /\ {Top(d).pc, Top(e).pc} \subseteq {"own", "unlock"} =>
                             Top(d).l # Top(e).l)'
      BY <1>3, <1>11 DEF SpinInv, LocksOK
    <2> QED
      BY <2>1, <2>2, <2>3, <2>4 DEF LocksOK
  <1> QED
    BY <1>11, <1>13 DEF SpinInv

\* Sti: a scheduler without a lock.
LEMMA StiStep ==
  ASSUME SpinInv, NEW c \in Cpu, Sti(c)
  PROVE  SpinInv'
  <1> DEFINE me == [cpu[c] EXCEPT !.intr = TRUE]
  <1>1. /\ cpu \in [Cpu -> Processors] /\ cpu[c] \in Processors
        /\ Top(c) \in Frames /\ Top(c).held \in SUBSET Lock
    BY TopIs DEF SpinInv, SpinTypeOK
  <1>2. /\ Top(c).pc = "run" /\ Top(c).kind = "scheduler" /\ Top(c).held = {}
        /\ Counted(cpu[c], Top(c)) /\ Taking(Top(c))
        /\ Stacked(cpu[c].frames, cpu[c].thread)
    BY DEF Sti, At, SpinInv, CpuOK
  <1>3. /\ me \in Processors /\ me.frames = cpu[c].frames /\ me.thread = cpu[c].thread
        /\ me.ncli = cpu[c].ncli
    BY <1>1 DEF Processors
  <1>4. cpu' = [cpu EXCEPT ![c] = me] /\ halt' = FALSE /\ UNCHANGED <<ctx, lk>>
    BY <1>1 DEF Sti, At, SpinInv, SpinTypeOK
  <1> HIDE DEF me
  <1>5. Cardinality(Top(c).held) = 0
    BY <1>1, <1>2, HeldCount
  <1>6. Counted(me, Top(c))
    BY <1>2, <1>3, <1>5 DEF Counted
  <1>7. lk' \in [Lock -> [locked : BOOLEAN, cpu : Cpu \cup {"none"}]]
    BY <1>4 DEF SpinInv, SpinTypeOK
  <1>8. Top(c) = me.frames[Len(me.frames)] /\ Stacked(me.frames, me.thread)
    BY <1>2, <1>3 DEF Top
  <1>9. /\ SpinTypeOK' /\ (~halt)' /\ (\A d \in Cpu : CpuOK(d))' /\ ThreadsOK'
        /\ Top(c)' = Top(c)
        /\ \A d \in Cpu \ {c} : Top(d)' = Top(d)
    BY <1>2, <1>3, <1>4, <1>6, <1>7, <1>8, StackStep
  <1>10. LocksOK'
    BY <1>4, <1>9, SameLocks
  <1> QED
    BY <1>9, <1>10 DEF SpinInv

\* Interrupt: what it finds has no lock and is no handler, since interrupts are on.
LEMMA InterruptStep ==
  ASSUME SpinInv, NEW c \in Cpu, Interrupt(c)
  PROVE  SpinInv'
  <1> DEFINE s == cpu[c].frames
             f == Frame("handler")
             u == Append(s, f)
             me == [cpu[c] EXCEPT !.intr = FALSE, !.frames = u]
  <1>1. /\ cpu \in [Cpu -> Processors] /\ cpu[c] \in Processors
        /\ s \in Seq(Frames) /\ Len(s) \in Nat \ {0}
        /\ Top(c) \in Frames /\ Top(c).held \in SUBSET Lock
    BY TopIs DEF SpinInv, SpinTypeOK
  <1>2. /\ Counted(cpu[c], Top(c)) /\ Taking(Top(c)) /\ cpu[c].intr
        /\ Stacked(s, cpu[c].thread)
    BY DEF Interrupt, SpinInv, CpuOK
  <1>3. Cardinality(Top(c).held) \in Nat /\ (Cardinality(Top(c).held) = 0 <=> Top(c).held = {})
    BY <1>1, HeldCount
  <1>4. cpu[c].ncli = 0 /\ Top(c).held = {} /\ Top(c).pc \notin {"xchg", "own", "unlock"}
    BY <1>1, <1>2, <1>3 DEF Counted, Processors
  <1>5. Interrupted(Top(c))
    BY <1>1, <1>2, <1>4, Locks DEF Counted, Taking, Interrupted, Frames
  <1>6. f \in Frames /\ f.kind = "handler" /\ f.pc = "run" /\ f.held = {}
    BY DEF Frame, Frames
  <1> HIDE DEF f
  <1>7. /\ u \in Seq(Frames) /\ Len(u) = Len(s) + 1 /\ u[Len(s) + 1] = f
        /\ \A i \in 1..Len(s) : u[i] = s[i]
    BY <1>1, <1>6, AppendProperties
  <1> HIDE DEF u
  <1>8. Stacked(u, cpu[c].thread)
    <2>1. u # <<>>
      BY <1>1, <1>7, EmptySeq
    <2>2. u[1].kind = IF cpu[c].thread \in Task THEN "process" ELSE "scheduler"
      BY <1>1, <1>2, <1>7 DEF Stacked
    <2>3. \A i \in 2..Len(u) : u[i].kind \in {"forkret", "handler"}
      BY <1>1, <1>2, <1>6, <1>7 DEF Stacked
    <2>4. \A i \in 1..(Len(u) - 1) : Interrupted(u[i])
      BY <1>1, <1>2, <1>5, <1>7 DEF Stacked, Top
    <2> QED
      BY <2>1, <2>2, <2>3, <2>4 DEF Stacked
  <1>9. /\ me \in Processors /\ me.frames = u /\ me.thread = cpu[c].thread
        /\ me.ncli = 0 /\ ~me.intr
    BY <1>1, <1>4, <1>7 DEF Processors
  <1>10. cpu' = [cpu EXCEPT ![c] = me]
    BY <1>1 DEF Interrupt, u, f
  <1> HIDE DEF me
  <1>11. halt' = FALSE /\ UNCHANGED <<ctx, lk>>
    BY DEF Interrupt, SpinInv, SpinTypeOK
  <1>12. Cardinality({}) = 0
    BY FS_EmptySet
  <1>13. Counted(me, f) /\ Taking(f)
    BY <1>6, <1>9, <1>12 DEF Counted, Taking
  <1>14. lk' \in [Lock -> [locked : BOOLEAN, cpu : Cpu \cup {"none"}]]
    BY <1>11 DEF SpinInv, SpinTypeOK
  <1>15. f = me.frames[Len(me.frames)] /\ Stacked(me.frames, me.thread)
    BY <1>7, <1>8, <1>9
  <1>16. /\ SpinTypeOK' /\ (~halt)' /\ (\A d \in Cpu : CpuOK(d))' /\ ThreadsOK'
         /\ Top(c)' = f
         /\ \A d \in Cpu \ {c} : Top(d)' = Top(d)
    BY <1>9, <1>10, <1>11, <1>13, <1>14, <1>15, StackStep
  <1>17. LocksOK'
    BY <1>4, <1>6, <1>11, <1>16, SameLocks
  <1> QED
    BY <1>16, <1>17 DEF SpinInv

\* Iret: below a handler there is code that had interrupts on, in pushcli() or not.
LEMMA IretStep ==
  ASSUME SpinInv, NEW c \in Cpu, Iret(c)
  PROVE  SpinInv'
  <1> DEFINE s == cpu[c].frames
             k == Len(s)
             n == k - 1
             u == SubSeq(s, 1, n)
             f == s[n]
             me == [cpu[c] EXCEPT !.intr = TRUE, !.frames = u]
  <1>1. /\ cpu \in [Cpu -> Processors] /\ cpu[c] \in Processors
        /\ s \in Seq(Frames) /\ Len(s) \in Nat
        /\ Top(c) \in Frames /\ Top(c).held \in SUBSET Lock
    BY TopIs DEF SpinInv, SpinTypeOK
  <1>2. /\ Counted(cpu[c], Top(c)) /\ Top(c).pc = "run" /\ Top(c).held = {}
        /\ Stacked(s, cpu[c].thread) /\ Len(s) > 1
    BY DEF Iret, At, SpinInv, CpuOK
  <1>3. n \in Nat \ {0} /\ n \in 1..k /\ k = n + 1
    <2>1. k \in Nat /\ k > 1
      BY <1>1, <1>2
    <2> HIDE DEF k
    <2> QED
      BY <2>1
  <1>4. u \in Seq(Frames) /\ Len(u) = n /\ \A i \in 1..n : u[i] = s[i]
    BY <1>1, <1>3, SubSeqProperties
  <1>5. f \in Frames /\ Interrupted(f)
    BY <1>1, <1>2, <1>3, ElementOfSeq DEF Stacked
  <1>6. \A i \in 1..(n - 1) : Interrupted(s[i])
    BY <1>1, <1>2, <1>3 DEF Stacked
  <1>7. \A i \in 2..n : s[i].kind \in {"forkret", "handler"}
    BY <1>1, <1>2, <1>3 DEF Stacked
  <1>8. cpu' = [cpu EXCEPT ![c] = me]
    BY <1>1 DEF Iret
  <1> HIDE DEF n, u, f
  <1>9. Stacked(u, cpu[c].thread)
    <2>1. u # <<>>
      BY <1>3, <1>4, EmptySeq
    <2> QED
      BY <2>1, <1>2, <1>3, <1>4, <1>6, <1>7 DEF Stacked
  <1>10. cpu[c].ncli = 0
    BY <1>2, FS_EmptySet DEF Counted
  <1>11. /\ me \in Processors /\ me.frames = u /\ me.thread = cpu[c].thread
         /\ me.ncli = 0 /\ me.intr = TRUE
    BY <1>1, <1>4, <1>10 DEF Processors
  <1> HIDE DEF me
  <1>12. halt' = FALSE /\ UNCHANGED <<ctx, lk>>
    BY DEF Iret, At, SpinInv, SpinTypeOK
  <1>13. f.held = {} /\ Cardinality(f.held) = 0
    BY <1>5, FS_EmptySet DEF Interrupted
  <1>14. Counted(me, f) /\ Taking(f)
    <2>1. f.pc = "cli" => f.eflags = TRUE
      BY <1>5 DEF Interrupted, Frames
    <2>2. f.pc \in {"run", "cli"} /\ f.kind # "handler"
      BY <1>5 DEF Interrupted
    <2>3. f.pc # "run" => f.l \in Lock
      BY <1>5 DEF Interrupted, Frames
    <2>4. f.pc = "cli" => f.eflags = me.intr
      BY <1>11, <2>1
    <2>5. me.intr /\ me.ncli = 0
      BY <1>11
    <2>6. me.ncli = Cardinality(f.held) + (IF f.pc \in {"xchg", "own", "unlock"} THEN 1 ELSE 0)
      BY <1>13, <2>2, <2>5
    <2>7. Counted(me, f)
      <3>1. ~(me.ncli > 0)
        BY <2>5
      <3>2. me.ncli > 0 => ~me.intr
        BY <3>1
      <3>3. f.kind = "process" => IF me.ncli = 0 THEN me.intr ELSE me.intena
        BY <2>5
      <3>4. f.kind = "handler" => ~me.intr /\ (me.ncli > 0 => ~me.intena)
        BY <2>2
      <3> QED
        BY <2>4, <2>6, <3>2, <3>3, <3>4, Zenon DEF Counted
    <2>8. Taking(f)
      BY <1>13, <2>2, <2>3 DEF Taking
    <2> QED
      BY <2>7, <2>8
  <1>15. lk' \in [Lock -> [locked : BOOLEAN, cpu : Cpu \cup {"none"}]]
    BY <1>12 DEF SpinInv, SpinTypeOK
  <1>16. f = me.frames[Len(me.frames)] /\ Stacked(me.frames, me.thread)
    BY <1>3, <1>4, <1>9, <1>11 DEF f
  <1>17. /\ SpinTypeOK' /\ (~halt)' /\ (\A d \in Cpu : CpuOK(d))' /\ ThreadsOK'
         /\ Top(c)' = f
         /\ \A d \in Cpu \ {c} : Top(d)' = Top(d)
    BY <1>8, <1>11, <1>12, <1>14, <1>15, <1>16, StackStep
  <1>18. f.pc \notin {"own", "unlock"}
    BY <1>5 DEF Interrupted
  <1>19. LocksOK'
    BY <1>2, <1>12, <1>13, <1>17, <1>18, SameLocks
  <1> QED
    BY <1>17, <1>19 DEF SpinInv

\* The stack of a thread that passes ptable.lock on.
LEMMA HandOverIs ==
  ASSUME NEW s \in Seq(Frames), NEW t, Stacked(s, t), NEW ls \in SUBSET Lock
  PROVE  LET u == HandOver(s, ls)
             f == u[Len(u)]
             g == s[Len(s)]
         IN  /\ u \in Seq(Frames) /\ Stacked(u, t) /\ f \in Frames
             /\ f.held = ls /\ f.kind = g.kind /\ f.pc = g.pc
  <1> DEFINE g == s[Len(s)]
             f == [g EXCEPT !.held = ls]
             u == [s EXCEPT ![Len(s)] = f]
  <1>1. s # <<>>
    BY DEF Stacked
  <1>2. g \in Frames
    BY <1>1, EmptySeq, ElementOfSeq
  <1>3. f \in Frames /\ f.held = ls /\ f.kind = g.kind /\ f.pc = g.pc
    BY <1>2 DEF Frames
  <1>4. HandOver(s, ls) = u
    BY DEF HandOver
  <1> HIDE DEF f
  <1>5. u \in Seq(Frames) /\ u[Len(u)] = f
    BY <1>1, <1>3, NewTop
  <1>6. Stacked(u, t)
    BY <1>3, StackedTop
  <1> QED
    BY <1>3, <1>4, <1>5, <1>6

\* sched(): the count is 1, for ptable.lock, and interrupts are off.  The process
\* is left with the intena its code needs; the scheduler goes on with the lock.
LEMMA schedStep ==
  ASSUME SpinInv, NEW c \in Cpu, sched(c)
  PROVE  SpinInv'
  <1> SUFFICES ASSUME NEW t, t = cpu[c].thread PROVE SpinInv'
    OBVIOUS
  <1> DEFINE s == cpu[c].frames
             out == HandOver(s, {})
             in == HandOver(ctx[c].frames, {ptable})
             k == [frames |-> out, intena |-> cpu[c].intena, new |-> FALSE]
             me == [cpu[c] EXCEPT !.thread = c, !.frames = in]
  <1>1. /\ cpu \in [Cpu -> Processors] /\ cpu[c] \in Processors
        /\ s \in Seq(Frames) /\ Top(c) \in Frames
        /\ ctx \in [Cpu \cup Task -> [frames : Seq(Frames), intena : BOOLEAN, new : BOOLEAN]]
        /\ cpu[c].intena \in BOOLEAN
    BY TopIs DEF SpinInv, SpinTypeOK, Processors
  <1>2. /\ t \in Task /\ Top(c).pc = "run" /\ Top(c).held = {ptable}
        /\ Stacked(s, t) /\ Counted(cpu[c], Top(c))
    BY DEF sched, At, SpinInv, CpuOK
  <1>3. cpu[c].ncli = 1 /\ ~cpu[c].intr
    BY <1>2, Locks, FS_Singleton DEF Counted
  <1>4. \A d \in Cpu : cpu[d].thread # c
    BY <1>2, SpinlockAssumption DEF SpinInv, CpuOK
  <1>5. Parked(c)
    BY <1>4 DEF SpinInv, ThreadsOK
  <1>6. /\ out \in Seq(Frames) /\ Stacked(out, t)
        /\ out[Len(out)].held = {} /\ out[Len(out)].kind = Top(c).kind
        /\ out[Len(out)].pc = "run"
    BY <1>1, <1>2, HandOverIs DEF Top
  <1>7. ctx[c].frames \in Seq(Frames) /\ Stacked(ctx[c].frames, c)
    BY <1>1, <1>5 DEF Parked
  <1>8. /\ in \in Seq(Frames) /\ Stacked(in, c)
        /\ in[Len(in)].held = {ptable} /\ in[Len(in)].kind = "scheduler"
        /\ in[Len(in)].pc = "run"
    BY <1>5, <1>7, Locks, HandOverIs DEF Parked
  <1>9. cpu' = [cpu EXCEPT ![c] = me] /\ ctx' = [ctx EXCEPT ![t] = k, ![c] = Running]
    BY <1>1 DEF sched
  <1>10. halt' = FALSE /\ UNCHANGED lk
    BY <1>3 DEF sched
  <1> HIDE DEF in, out
  <1>11. /\ me \in Processors /\ me.frames = in /\ me.thread = c
         /\ me.ncli = 1 /\ ~me.intr
    BY <1>1, <1>3, <1>8 DEF Processors
  <1>12. k \in [frames : Seq(Frames), intena : BOOLEAN, new : BOOLEAN]
    BY <1>1, <1>6
  <1>13. Running \in [frames : Seq(Frames), intena : BOOLEAN, new : BOOLEAN]
    BY EmptySeq DEF Running
  <1> HIDE DEF me, k
  <1>14. c # t
    BY <1>2, SpinlockAssumption
  <1>15. /\ cpu'[c] = me /\ \A d \in Cpu \ {c} : cpu'[d] = cpu[d]
         /\ ctx'[t] = k /\ ctx'[c] = Running
         /\ \A u \in (Cpu \cup Task) \ {c, t} : ctx'[u] = ctx[u]
    BY <1>1, <1>2, <1>9, <1>14
  <1>16. SpinTypeOK' /\ (~halt)'
    <2>1. cpu' \in [Cpu -> Processors]
      BY <1>1, <1>9, <1>11
    <2>2. ctx' \in [Cpu \cup Task -> [frames : Seq(Frames), intena : BOOLEAN, new : BOOLEAN]]
      BY <1>1, <1>9, <1>12, <1>13
    <2> QED
      BY <2>1, <2>2, <1>10 DEF SpinInv, SpinTypeOK
  <1>17. Top(c)' = in[Len(in)] /\ \A d \in Cpu \ {c} : Top(d)' = Top(d)
    BY <1>11, <1>15 DEF Top
  <1>18. CpuOK(c)'
    <2>1. Cardinality(in[Len(in)].held) = 1
      BY <1>8, FS_Singleton
    <2>2. Counted(me, in[Len(in)]) /\ Taking(in[Len(in)])
      BY <1>8, <1>11, <2>1 DEF Counted, Taking
    <2> QED
      BY <1>8, <1>11, <1>15, <1>17, <2>2 DEF CpuOK
  <1>19. ASSUME NEW d \in Cpu \ {c} PROVE CpuOK(d)'
    BY <1>15, <1>17 DEF SpinInv, CpuOK
  <1>20. LocksOK'
    BY <1>2, <1>8, <1>10, <1>17, SameLocks
  <1>21. Parked(t)'
    <2>1. k.frames = out /\ k.new = FALSE /\ (k.intena <=> cpu[c].intena)
      BY <1>1 DEF k
    <2>2. /\ Top(c).kind = "process" => cpu[c].intena
          /\ Top(c).kind = "handler" => ~cpu[c].intena
      BY <1>2, <1>3 DEF Counted
    <2>3. t \notin Cpu
      BY <1>2, SpinlockAssumption
    <2>4. /\ Stacked(k.frames, t) /\ k.frames[Len(k.frames)].pc = "run"
          /\ k.frames[Len(k.frames)].held = {}
          /\ k.frames[Len(k.frames)].kind = Top(c).kind
      BY <1>6, <2>1
    <2>5. /\ k.frames[Len(k.frames)].kind = "process" => k.intena
          /\ k.frames[Len(k.frames)].kind = "handler" => ~k.intena
          /\ ~k.new
      BY <2>1, <2>2, <2>4
    <2> QED
      BY <1>15, <2>3, <2>4, <2>5 DEF Parked
  <1>22. ThreadsOK'
    <2>1. (\A d, e \in Cpu : d # e => cpu[d].thread # cpu[e].thread)'
      BY <1>4, <1>11, <1>15 DEF SpinInv, ThreadsOK
    <2>2. (\A d \in Cpu : ~ctx[d].new)'
      BY <1>2, <1>15, SpinlockAssumption DEF SpinInv, ThreadsOK, Running
    <2>3. ASSUME NEW u \in Cpu \cup Task, \A d \in Cpu : cpu'[d].thread # u, u # t
          PROVE  Parked(u)'
      <3>1. u # c
        BY <2>3, <1>11, <1>15
      <3>2. \A d \in Cpu : cpu[d].thread # u
        BY <2>3, <1>15
      <3>3. ctx'[u] = ctx[u]
        BY <1>15, <2>3, <3>1
      <3> QED
        BY <3>2, <3>3 DEF Parked, SpinInv, ThreadsOK
    <2> QED
      BY <1>21, <2>1, <2>2, <2>3 DEF ThreadsOK
  <1> QED
    BY <1>16, <1>18, <1>19, <1>20, <1>22 DEF SpinInv

\* Resume: the scheduler is left without the lock; the process goes on with it and
\* with the intena it had, or in forkret(), whose intena nothing depends on.
LEMMA ResumeStep ==
  ASSUME SpinInv, NEW c \in Cpu, NEW t \in Task, Resume(c, t)
  PROVE  SpinInv'
  <1> DEFINE s == cpu[c].frames
             out == HandOver(s, {})
             in == HandOver(ctx[t].frames, {ptable})
             f == in[Len(in)]
             ie == IF ctx[t].new THEN cpu[c].intena ELSE ctx[t].intena
             k == [ctx[c] EXCEPT !.frames = out]
             me == [cpu[c] EXCEPT !.thread = t, !.frames = in, !.intena = ie]
  <1>1. /\ cpu \in [Cpu -> Processors] /\ cpu[c] \in Processors
        /\ s \in Seq(Frames) /\ Len(s) \in Nat \ {0} /\ Top(c) \in Frames
        /\ ctx \in [Cpu \cup Task -> [frames : Seq(Frames), intena : BOOLEAN, new : BOOLEAN]]
        /\ cpu[c].intena \in BOOLEAN
    BY TopIs DEF SpinInv, SpinTypeOK, Processors
  <1>2. /\ Top(c).pc = "run" /\ Top(c).held = {ptable} /\ Top(c).kind = "scheduler"
        /\ Stacked(s, cpu[c].thread) /\ Counted(cpu[c], Top(c))
        /\ \A d \in Cpu : cpu[d].thread # t
    BY DEF Resume, At, SpinInv, CpuOK
  <1>3. cpu[c].ncli = 1 /\ ~cpu[c].intr
    <2>1. Cardinality({ptable}) = 1
      BY FS_Singleton
    <2> QED
      BY <1>2, <2>1 DEF Counted
  <1>4. cpu[c].thread = c /\ c # t
    <2> DEFINE n == Len(s)
    <2>1. s[n].kind = "scheduler" /\ n \in Nat \ {0}
      BY <1>1, <1>2 DEF Top
    <2>2. n \in 2..n => s[n].kind \in {"forkret", "handler"}
      BY <1>2 DEF Stacked
    <2> HIDE DEF n
    <2>3. n = 1
      BY <2>1, <2>2
    <2>4. cpu[c].thread \notin Task
      BY <1>2, <2>1, <2>3 DEF Stacked, n
    <2> QED
      BY <2>4, SpinlockAssumption DEF SpinInv, CpuOK
  <1>5. Parked(t)
    BY <1>2 DEF SpinInv, ThreadsOK
  <1>6. /\ out \in Seq(Frames) /\ Stacked(out, c)
        /\ out[Len(out)].held = {} /\ out[Len(out)].kind = "scheduler"
        /\ out[Len(out)].pc = "run"
    BY <1>1, <1>2, <1>4, HandOverIs DEF Top
  <1>7. ctx[t].frames \in Seq(Frames) /\ Stacked(ctx[t].frames, t)
    BY <1>1, <1>5 DEF Parked
  <1>8. /\ in \in Seq(Frames) /\ Stacked(in, t) /\ f.held = {ptable} /\ f.pc = "run"
        /\ f.kind = ctx[t].frames[Len(ctx[t].frames)].kind
    BY <1>5, <1>7, Locks, HandOverIs DEF Parked
  <1>9. cpu' = [cpu EXCEPT ![c] = me] /\ ctx' = [ctx EXCEPT ![c] = k, ![t] = Running]
    BY <1>1 DEF Resume
  <1>10. halt' = FALSE /\ UNCHANGED lk
    BY DEF Resume, At, SpinInv, SpinTypeOK
  <1>11. /\ ie \in BOOLEAN
         /\ f.kind = "process" => ie
         /\ f.kind = "handler" => ~ie
    BY <1>1, <1>5, <1>8 DEF Parked
  <1> HIDE DEF in, out, ie
  <1>12. /\ me \in Processors /\ me.frames = in /\ me.thread = t
         /\ me.ncli = 1 /\ ~me.intr /\ me.intena = ie
    BY <1>1, <1>3, <1>8, <1>11 DEF Processors
  <1>13. /\ k \in [frames : Seq(Frames), intena : BOOLEAN, new : BOOLEAN]
         /\ k.frames = out /\ k.new = ctx[c].new
    BY <1>1, <1>6
  <1>14. Running \in [frames : Seq(Frames), intena : BOOLEAN, new : BOOLEAN]
    BY EmptySeq DEF Running
  <1>15. ~k.new
    BY <1>13 DEF SpinInv, ThreadsOK
  <1> HIDE DEF me, k, f
  <1>16. /\ cpu'[c] = me /\ \A d \in Cpu \ {c} : cpu'[d] = cpu[d]
         /\ ctx'[c] = k /\ ctx'[t] = Running
         /\ \A u \in (Cpu \cup Task) \ {c, t} : ctx'[u] = ctx[u]
    BY <1>1, <1>4, <1>9
  <1>17. SpinTypeOK' /\ (~halt)'
    <2>1. cpu' \in [Cpu -> Processors]
      BY <1>1, <1>9, <1>12
    <2>2. ctx' \in [Cpu \cup Task -> [frames : Seq(Frames), intena : BOOLEAN, new : BOOLEAN]]
      BY <1>1, <1>9, <1>13, <1>14
    <2> QED
      BY <2>1, <2>2, <1>10 DEF SpinInv, SpinTypeOK
  <1>18. Top(c)' = f /\ \A d \in Cpu \ {c} : Top(d)' = Top(d)
    BY <1>12, <1>16 DEF Top, f
  <1>19. CpuOK(c)'
    <2>1. Cardinality(f.held) = 1
      BY <1>8, FS_Singleton
    <2>2. /\ f.kind = "process" => me.intena
          /\ f.kind = "handler" => ~me.intena
      BY <1>11, <1>12
    <2>3. me.ncli = 1 /\ ~me.intr /\ f.pc = "run"
      BY <1>8, <1>12
    <2>4. Counted(me, f) /\ Taking(f)
      BY <2>1, <2>2, <2>3 DEF Counted, Taking
    <2> QED
      BY <1>8, <1>12, <1>16, <1>18, <2>4 DEF CpuOK
  <1>20. ASSUME NEW d \in Cpu \ {c} PROVE CpuOK(d)'
    BY <1>16, <1>18 DEF SpinInv, CpuOK
  <1>21. LocksOK'
    BY <1>2, <1>8, <1>10, <1>18, SameLocks
  <1>22. Parked(c)'
    BY <1>6, <1>13, <1>15, <1>16 DEF Parked
  <1>23. ThreadsOK'
    <2>1. (\A d, e \in Cpu : d # e => cpu[d].thread # cpu[e].thread)'
      BY <1>2, <1>12, <1>16 DEF SpinInv, ThreadsOK
    <2>2. (\A d \in Cpu : ~ctx[d].new)'
      BY <1>15, <1>16, SpinlockAssumption DEF SpinInv, ThreadsOK
    <2>3. ASSUME NEW u \in Cpu \cup Task, \A d \in Cpu : cpu'[d].thread # u, u # c
          PROVE  Parked(u)'
      <3>1. u # t
        BY <2>3, <1>12, <1>16
      <3>2. \A d \in Cpu : cpu[d].thread # u
        BY <2>3, <1>4, <1>16
      <3>3. ctx'[u] = ctx[u]
        BY <1>16, <2>3, <3>1
      <3> QED
        BY <3>2, <3>3 DEF Parked, SpinInv, ThreadsOK
    <2> QED
      BY <1>22, <2>1, <2>2, <2>3 DEF ThreadsOK
  <1> QED
    BY <1>17, <1>19, <1>20, <1>21, <1>23 DEF SpinInv

\* At the start every processor is in its scheduler with nothing locked, and every
\* process is new.
LEMMA SpinInitially == SpinInit => SpinInv
  <1> SUFFICES ASSUME SpinInit PROVE SpinInv
    OBVIOUS
  <1> DEFINE one == <<Frame("scheduler")>>
             two == <<Frame("process"), Frame("forkret")>>
  <1>1. \A k \in {"scheduler", "process", "forkret"} :
          /\ Frame(k) \in Frames /\ Frame(k).kind = k /\ Frame(k).pc = "run"
          /\ Frame(k).held = {}
    BY DEF Frame, Frames
  <1>2. /\ one \in Seq(Frames) /\ Len(one) = 1 /\ one[1] = Frame("scheduler")
        /\ two \in Seq(Frames) /\ Len(two) = 2
        /\ two[1] = Frame("process") /\ two[2] = Frame("forkret")
        /\ one # <<>> /\ two # <<>>
    BY <1>1
  <1> HIDE DEF one, two
  <1>3. lk \in [Lock -> [locked : BOOLEAN, cpu : Cpu \cup {"none"}]] /\ ~halt /\ halt \in BOOLEAN
    BY DEF SpinInit
  <1>4. \A c \in Cpu : /\ ~cpu[c].intr /\ cpu[c].ncli = 0 /\ ~cpu[c].intena
                       /\ cpu[c].thread = c /\ cpu[c].frames = one
    BY DEF SpinInit, one
  <1>5. cpu \in [Cpu -> Processors]
    BY <1>2 DEF SpinInit, Processors, one
  <1>6. /\ \A c \in Cpu : ~ctx[c].new
        /\ \A t \in Task : ctx[t].frames = two /\ ctx[t].new = TRUE
    BY SpinlockAssumption DEF SpinInit, two, Running
  <1>7. ctx \in [Cpu \cup Task -> [frames : Seq(Frames), intena : BOOLEAN, new : BOOLEAN]]
    <2>1. Running \in [frames : Seq(Frames), intena : BOOLEAN, new : BOOLEAN]
      BY EmptySeq DEF Running
    <2> QED
      BY <2>1, <1>2 DEF SpinInit, two
  <1>8. \A c \in Cpu : Top(c) = Frame("scheduler")
    BY <1>2, <1>4 DEF Top
  <1>9. ASSUME NEW c \in Cpu PROVE CpuOK(c)
    <2>1. Stacked(one, c)
      BY <1>1, <1>2, SpinlockAssumption DEF Stacked
    <2>2. Cardinality({}) = 0
      BY FS_EmptySet
    <2>3. Counted(cpu[c], Top(c)) /\ Taking(Top(c))
      BY <1>1, <1>4, <1>8, <2>2 DEF Counted, Taking
    <2> QED
      BY <1>4, <2>1, <2>3 DEF CpuOK
  <1>10. LocksOK
    BY <1>1, <1>8, SpinlockAssumption DEF LocksOK, SpinInit
  <1>11. ASSUME NEW t \in Task PROVE Parked(t)
    <2>1. Stacked(two, t)
      BY <1>1, <1>2 DEF Stacked, Interrupted
    <2> QED
      BY <1>1, <1>2, <1>6, <2>1, SpinlockAssumption DEF Parked
  <1>12. ThreadsOK
    BY <1>4, <1>6, <1>11 DEF ThreadsOK
  <1> QED
    BY <1>3, <1>5, <1>7, <1>9, <1>10, <1>12 DEF SpinInv, SpinTypeOK

\* One step per instruction, handler or switch.
LEMMA SpinStep == SpinInv /\ [SpinNext]_svars => SpinInv'
  <1> SUFFICES ASSUME SpinInv, [SpinNext]_svars PROVE SpinInv'
    OBVIOUS
  <1>1. CASE UNCHANGED svars
    <2>1. \A c \in Cpu : Top(c)' = Top(c)
      BY <1>1 DEF svars, Top
    <2>2. SpinTypeOK' /\ (~halt)'
      BY <1>1 DEF svars, SpinInv, SpinTypeOK
    <2>3. \A c \in Cpu : CpuOK(c)'
      BY <1>1, <2>1 DEF svars, SpinInv, CpuOK
    <2>4. LocksOK'
      BY <1>1, <2>1, SameLocks DEF svars
    <2>5. ThreadsOK'
      BY <1>1 DEF svars, SpinInv, ThreadsOK, Parked
    <2> QED
      BY <2>2, <2>3, <2>4, <2>5 DEF SpinInv
  <1>2. CASE SpinNext
    <2>1. PICK c \in Cpu : Step(c) \/ Interrupt(c) \/ \E t \in Task : Resume(c, t)
      BY <1>2 DEF SpinNext
    <2>2. CASE Interrupt(c)
      BY <2>2, InterruptStep
    <2>3. CASE \E t \in Task : Resume(c, t)
      BY <2>3, ResumeStep
    <2>4. CASE Step(c)
      BY <2>4, PushcliStep, XchgStep, OwnStep, PopcliStep, IretStep, schedStep, StiStep,
         ReadEflagsStep, ReleaseStep DEF Step
    <2> QED
      BY <2>1, <2>2, <2>3, <2>4
  <1> QED
    BY <1>1, <1>2

\* The inductive invariant.
THEOREM SpinInvariant == SpinSpec => []SpinInv
  BY SpinInitially, SpinStep, PTL DEF SpinSpec

\* What the two properties say is in the invariant: the locks of a processor are
\* those of its top frame, since an interrupt finds none in the frames below.
LEMMA HeldByTop ==
  ASSUME SpinInv, NEW c \in Cpu
  PROVE  /\ HeldBy(c) = Top(c).held
         /\ \A i \in 1..(Len(cpu[c].frames) - 1) : /\ cpu[c].frames[i].held = {}
                                                  /\ cpu[c].frames[i].pc \in {"run", "cli"}
  <1> DEFINE s == cpu[c].frames
             n == Len(s)
  <1>1. n \in Nat \ {0} /\ DOMAIN s = 1..n /\ Top(c) = s[n]
    BY TopIs, LenProperties DEF Top
  <1>2. \A i \in 1..(n - 1) : s[i].held = {} /\ s[i].pc \in {"run", "cli"}
    BY DEF SpinInv, CpuOK, Stacked, Interrupted
  <1> HIDE DEF n
  <1>3. \A i \in 1..n : i = n \/ i \in 1..(n - 1)
    BY <1>1
  <1>4. n \in 1..n
    BY <1>1
  <1>5. HeldBy(c) = UNION {s[i].held : i \in 1..n}
    BY <1>1 DEF HeldBy
  <1> HIDE DEF s
  <1>6. UNION {s[i].held : i \in 1..n} = s[n].held
    BY <1>2, <1>3, <1>4
  <1> QED
    BY <1>1, <1>2, <1>5, <1>6 DEF s, n

\* spinlock.c: two processors never have the same lock, none waits for a lock that
\* it has itself, and nobody panics, for any number of processors, processes and
\* locks taken in their order.
THEOREM MutualExclusion == SpinSpec => []SpinExclusion
  <1>1. SpinInv => SpinExclusion
    <2> SUFFICES ASSUME SpinInv PROVE SpinExclusion
      OBVIOUS
    <2>1. ASSUME NEW c \in Cpu, NEW d \in Cpu, c # d PROVE HeldBy(c) \cap HeldBy(d) = {}
      BY <2>1, HeldByTop, TopIs DEF SpinInv, LocksOK
    <2>2. ASSUME NEW c \in Cpu, NEW l \in HeldBy(c) PROVE holding(c, l)
      BY <2>2, HeldByTop, TopIs DEF SpinInv, LocksOK, holding
    <2>3. \A c \in Cpu : \A i \in 1..(Len(cpu[c].frames) - 1) : cpu[c].frames[i].held = {}
      BY HeldByTop
    <2> QED
      BY <2>1, <2>2, <2>3 DEF SpinExclusion, SpinInv
  <1> QED
    BY <1>1, SpinInvariant, PTL

\* pushcli() and popcli(): interrupts are off while a lock is held or taken, and
\* afterwards as the code had them, whatever interrupts came and wherever the
\* scheduler moved the process in between.
THEOREM InterruptFlagRestored == SpinSpec => []InterruptsRestored
  <1>1. SpinInv => InterruptsRestored
    <2> SUFFICES ASSUME SpinInv, NEW c \in Cpu
                 PROVE  LET mid == {i \in DOMAIN cpu[c].frames :
                                      cpu[c].frames[i].pc \in {"xchg", "own", "unlock"}}
                        IN  /\ cpu[c].ncli = Cardinality(HeldBy(c)) + Cardinality(mid)
                            /\ cpu[c].ncli > 0 => ~cpu[c].intr
                            /\ cpu[c].ncli = 0 /\ Top(c).pc = "run" =>
                                 /\ Top(c).kind = "process" => cpu[c].intr
                                 /\ Top(c).kind = "handler" => ~cpu[c].intr
      BY DEF InterruptsRestored
    <2> DEFINE s == cpu[c].frames
               n == Len(s)
               mid == {i \in DOMAIN s : s[i].pc \in {"xchg", "own", "unlock"}}
    <2>1. n \in Nat \ {0} /\ DOMAIN s = 1..n /\ Top(c) = s[n]
      BY TopIs, LenProperties DEF Top
    <2>2. HeldBy(c) = Top(c).held /\ \A i \in 1..(n - 1) : s[i].pc \in {"run", "cli"}
      BY HeldByTop
    <2>3. Counted(cpu[c], Top(c))
      BY DEF SpinInv, CpuOK
    <2>4. mid = IF Top(c).pc \in {"xchg", "own", "unlock"} THEN {n} ELSE {}
      <3> HIDE DEF s, n
      <3>1. \A i \in 1..n : i = n \/ i \in 1..(n - 1)
        BY <2>1
      <3>2. n \in 1..n
        BY <2>1
      <3>3. \A i \in DOMAIN s : s[i].pc \in {"xchg", "own", "unlock"} => i = n
        BY <2>1, <2>2, <3>1
      <3> QED
        BY <2>1, <3>2, <3>3
    <2>5. Cardinality(mid) = IF Top(c).pc \in {"xchg", "own", "unlock"} THEN 1 ELSE 0
      <3>1. Cardinality({n}) = 1 /\ Cardinality({}) = 0
        BY FS_Singleton, FS_EmptySet
      <3> HIDE DEF mid, n
      <3> QED
        BY <2>4, <3>1
    <2> HIDE DEF mid
    <2>6. cpu[c].ncli = Cardinality(HeldBy(c)) + Cardinality(mid)
      BY <2>2, <2>3, <2>5 DEF Counted
    <2>7. cpu[c].ncli > 0 => ~cpu[c].intr
      BY <2>3 DEF Counted
    <2>8. cpu[c].ncli = 0 => /\ Top(c).kind = "process" => cpu[c].intr
                             /\ Top(c).kind = "handler" => ~cpu[c].intr
      BY <2>3 DEF Counted
    <2> QED
      BY <2>6, <2>7, <2>8 DEF mid, s
  <1> QED
    BY <1>1, SpinInvariant, PTL
=============================================================================
