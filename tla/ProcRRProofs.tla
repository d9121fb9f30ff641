---------------------------- MODULE ProcRRProofs ----------------------------
(***************************************************************************)
(* The scheduler of the original kernel takes turns, for any number of     *)
(* processes and processors.                                               *)
(***************************************************************************)
EXTENDS ProcRR, TLAPS

\* What every action but the scheduler's own does to the processors: nothing, or
\* one of them leaves its process p and goes on behind it.
Left(c) == /\ cpus[c].proc \in Slot
           /\ cpus' = [cpus EXCEPT ![c] = [proc |-> None, pos |-> NextPos(cpus[c].proc)]]
Quiet == cpus' = cpus \/ \E c \in CPU : Left(c)

\* Waking processes up changes their states only.
LEMMA WokenType ==
  ASSUME TableOK, NEW C
  PROVE  Awake(proc, C) \in ProcTables
  BY DEF TableOK, Awake, proc, States, ProcTables

\* sched(), from a process that runs, with a table that is in range.
LEMMA SchedType ==
  ASSUME NPROC \in Nat, TableOK, NEW c \in CPU, NEW p \in Slot, cpus[c].proc = p,
         NEW t \in ProcTables, sched(c, p, t)
  PROVE  TableOK' /\ Quiet
<1>1. cpus' \in [CPU -> [proc : Slot \cup {None}, pos : 0 .. NPROC]]
  BY DEF TableOK, sched, NextPos, Slot
<1>2. ptable' \in [lock : CPU \cup {None}, nextpid : Nat, proc : ProcTables]
  BY DEF TableOK, sched
<1>3. Left(c)
  BY DEF sched, Left
<1> QED
  BY <1>1, <1>2, <1>3 DEF TableOK, Quiet

-----------------------------------------------------------------------------
\* Every step of a process, and of the timer, keeps the types and is quiet.

LEMMA TimerQuiet ==
  ASSUME TableOK, TickIdle \/ (\E c \in CPU : \E p \in Slot : trap(c, p))
  PROVE  TableOK' /\ Quiet
<1>1. cpus' = cpus
  BY DEF TickIdle, trap
<1>2. \E c : RRClock(c)
  BY DEF TickIdle, trap
<1>3. ptable' \in [lock : CPU \cup {None}, nextpid : Nat, proc : ProcTables]
  <2> DEFINE w == Awake(proc, {TicksChan})
  <2>1. w \in ProcTables
    BY WokenType
  <2>2. ptable' = [ptable EXCEPT !.proc = w] \/ ptable' = [ptable EXCEPT !.proc = proc]
    BY <1>2 DEF RRClock, Table
  <2> HIDE DEF w
  <2> QED
    BY <2>1, <2>2 DEF TableOK, proc
<1> QED
  BY <1>1, <1>3 DEF TableOK, Quiet

LEMMA ProcessQuiet ==
  ASSUME NPROC \in Nat, TableOK, NEW c \in CPU, NEW p \in Slot, InProcess(c, p)
  PROVE  TableOK' /\ Quiet
<1>0. proc \in ProcTables /\ ptable = [lock |-> ptable.lock, nextpid |-> ptable.nextpid, proc |-> proc]
      /\ ptable.lock \in CPU \cup {None} /\ ptable.nextpid \in Nat
  BY DEF TableOK, proc
<1>a. ASSUME NEW t \in ProcTables, Table(t), UNCHANGED cpus PROVE TableOK' /\ Quiet
  BY <1>a DEF TableOK, Table, Quiet
<1>1. CASE trap(c, p)
  BY <1>1, TimerQuiet
<1>2. CASE yield(c, p)
  <2>1. [proc EXCEPT ![p].state = "RUNNABLE"] \in ProcTables
    BY <1>0 DEF States, ProcTables
  <2>2. cpus[c].proc = p /\ sched(c, p, [proc EXCEPT ![p].state = "RUNNABLE"])
    BY <1>2 DEF yield, Runs
  <2> QED
    BY <2>1, <2>2, SchedType
<1>3. CASE IntoExit(c, p)
  <2>1. PICK k \in {proc[p].killed, TRUE} : Table([proc EXCEPT ![p].killed = k])
    BY <1>3 DEF IntoExit
  <2>2. k \in BOOLEAN
    BY <1>0 DEF ProcTables
  <2>3. [proc EXCEPT ![p].killed = k] \in ProcTables
    BY <1>0, <2>2 DEF ProcTables
  <2> QED
    BY <1>3, <1>a, <2>1, <2>3 DEF IntoExit
<1>4. CASE allocproc(c, p)
  <2>1. PICK q \in Slot :
          ptable' = [ptable EXCEPT !.nextpid = @ + 1, !.proc[q].state = "EMBRYO",
                                   !.proc[q].pid = ptable.nextpid]
    BY <1>4 DEF allocproc
  <2> DEFINE t == [proc EXCEPT ![q].state = "EMBRYO", ![q].pid = ptable.nextpid]
  <2>2. t \in ProcTables
    BY <1>0 DEF States, ProcTables
  <2>3. ptable' = [lock |-> ptable.lock, nextpid |-> ptable.nextpid + 1, proc |-> t]
    BY <1>0, <2>1 DEF proc
  <2> HIDE DEF t
  <2>4. ptable' \in [lock : CPU \cup {None}, nextpid : Nat, proc : ProcTables]
    BY <1>0, <2>2, <2>3
  <2> QED
    BY <1>4, <2>4 DEF allocproc, TableOK, Quiet
<1>5. CASE fork(c, p)
  <2>1. \A q : [proc EXCEPT ![q].state = "UNUSED"] \in ProcTables
    BY <1>0 DEF States, ProcTables
  <2>2. \A q : [proc EXCEPT ![q].state = "RUNNABLE", ![q].parent = p] \in ProcTables
    BY <1>0 DEF States, ProcTables
  <2>3. \E t \in ProcTables : Table(t)
    BY <1>5, <2>1, <2>2 DEF fork
  <2>4. UNCHANGED cpus
    BY <1>5 DEF fork
  <2> QED
    BY <1>a, <2>3, <2>4
<1>6. CASE exit(c, p)
  <2>1. CASE UNCHANGED <<ptable, cpus>>
    BY <2>1 DEF TableOK, Quiet
  <2>2. ASSUME NEW C,
               NEW t, t = Awake(proc, C),
               sched(c, p, [[q \in Slot |-> IF q \in Children(p) THEN [t[q] EXCEPT !.parent = initproc]
                                            ELSE t[q]] EXCEPT ![p].state = "ZOMBIE"])
        PROVE TableOK' /\ Quiet
    <3>1. t \in ProcTables
      BY <2>2, WokenType
    <3>2. initproc \in Slot
      BY DEF initproc, Slot
    <3>3. [[q \in Slot |-> IF q \in Children(p) THEN [t[q] EXCEPT !.parent = initproc]
                           ELSE t[q]] EXCEPT ![p].state = "ZOMBIE"] \in ProcTables
      BY <3>1, <3>2 DEF States, ProcTables
    <3>4. cpus[c].proc = p
      BY <1>6 DEF exit, Runs
    <3> QED
      BY <2>2, <3>3, <3>4, SchedType
  <2> QED
    BY <1>6, <2>1, <2>2 DEF exit
<1>7. CASE wait(c, p)
  <2>0. cpus[c].proc = p
    BY <1>7 DEF wait, Calls, Runs
  <2>1. ASSUME NEW q \in Slot, ptable' = [ptable EXCEPT !.lock = None, !.proc[q] = Unused],
               UNCHANGED cpus
        PROVE  TableOK' /\ Quiet
    <3> DEFINE t == [proc EXCEPT ![q] = Unused]
    <3>1. t \in ProcTables
      BY <1>0 DEF States, Unused, ProcTables
    <3>2. ptable' = [lock |-> None, nextpid |-> ptable.nextpid, proc |-> t]
      BY <1>0, <2>1 DEF proc
    <3> HIDE DEF t
    <3>3. ptable' \in [lock : CPU \cup {None}, nextpid : Nat, proc : ProcTables]
      BY <1>0, <3>1, <3>2
    <3> QED
      BY <2>1, <3>3 DEF TableOK, Quiet
  <2>2. CASE ptable' = [ptable EXCEPT !.lock = None] /\ UNCHANGED cpus
    BY <2>2 DEF TableOK, Quiet
  <2>3. CASE sched(c, p, [proc EXCEPT ![p].state = "SLEEPING", ![p].chan = p])
    <3>1. [proc EXCEPT ![p].state = "SLEEPING", ![p].chan = p] \in ProcTables
      BY <1>0 DEF States, ProcTables
    <3> QED
      BY <2>0, <2>3, <3>1, SchedType
  <2> QED
    BY <1>7, <2>1, <2>2, <2>3 DEF wait
<1>8. CASE Panicked(c, p)
  BY <1>8 DEF Panicked, TableOK, Quiet
<1>9. ASSUME NEW n \in KillPids, kill(c, p, n) PROVE TableOK' /\ Quiet
  <2>1. PICK q \in Slot : Table([proc EXCEPT ![q].killed = TRUE,
                                   ![q].state = IF @ = "SLEEPING" THEN "RUNNABLE" ELSE @])
    BY <1>9 DEF kill
  <2>2. [proc EXCEPT ![q].killed = TRUE,
                     ![q].state = IF @ = "SLEEPING" THEN "RUNNABLE" ELSE @] \in ProcTables
    BY <1>0 DEF States, ProcTables
  <2> QED
    BY <1>9, <1>a, <2>1, <2>2 DEF kill
<1>10. ASSUME NEW n \in 1 .. MaxSleep, sleep(c, p, n) PROVE TableOK' /\ Quiet
  <2>0. cpus[c].proc = p
    BY <1>10 DEF sleep, Calls, Runs
  <2>1. CASE sched(c, p, [proc EXCEPT ![p].state = "SLEEPING", ![p].chan = TicksChan])
    <3>1. [proc EXCEPT ![p].state = "SLEEPING", ![p].chan = TicksChan] \in ProcTables
      BY <1>0 DEF States, ProcTables
    <3> QED
      BY <2>0, <2>1, <3>1, SchedType
  <2>2. CASE UNCHANGED <<ptable, cpus>>
    BY <2>2 DEF TableOK, Quiet
  <2> QED
    BY <1>10, <2>1, <2>2 DEF sleep
<1> QED
  BY <1>1, <1>2, <1>3, <1>4, <1>5, <1>6, <1>7, <1>8, <1>9, <1>10 DEF InProcess

-----------------------------------------------------------------------------
\* The turns

\* A quiet step gives no processor to anybody, and no scan moves.
LEMMA QuietTurns ==
  ASSUME NPROC \in Nat, TableOK, Quiet
  PROVE  Given = {} /\ \A c \in CPU : Scanned(c)' = Scanned(c)
<1>1. CASE cpus' = cpus
  BY <1>1 DEF Given, Scanned
<1>2. ASSUME NEW c \in CPU, Left(c)
      PROVE  Given = {} /\ \A d \in CPU : Scanned(d)' = Scanned(d)
  <2>1. None \notin Slot
    BY DEF None, Slot
  <2>2. cpus'[c] = [proc |-> None, pos |-> cpus[c].proc + 1]
    BY <1>2 DEF Left, NextPos, TableOK
  <2>3. \A d \in CPU \ {c} : cpus'[d] = cpus[d]
    BY <1>2 DEF Left, TableOK
  <2>4. cpus[c].proc # None
    BY <1>2, <2>1 DEF Left
  <2> QED
    BY <2>2, <2>3, <2>4 DEF Given, Scanned
<1> QED
  BY <1>1, <1>2 DEF Quiet

\* What the scheduler of c does when it picks q.
LEMMA Picked ==
  ASSUME NPROC \in Nat, TableOK, NEW c \in CPU, scheduler(c)
  PROVE  /\ TableOK' /\ cpus[c].proc = None
         /\ \E q \in Slot : /\ First(q, Ready(c)) /\ Given = {<<c, q>>}
                            /\ Scanned(c)' = q + 1
                            /\ \A d \in CPU \ {c} : Scanned(d)' = Scanned(d)
                            /\ ptable'.proc[q].state = "RUNNING"
<1>1. PICK q \in Slot :
        /\ First(q, Ready(c))
        /\ cpus' = [cpus EXCEPT ![c] = [proc |-> q, pos |-> 0]]
        /\ ptable' = [ptable EXCEPT !.lock = IF thread[q].pc = "wait" THEN c ELSE None,
                                    !.proc[q].state = "RUNNING", !.proc[q].chan = None]
  BY DEF scheduler
<1>2. cpus[c].proc = None
  BY DEF scheduler, Scanning
<1>3. None \notin Slot
  BY DEF None, Slot
<1>4. cpus'[c] = [proc |-> q, pos |-> 0] /\ \A d \in CPU \ {c} : cpus'[d] = cpus[d]
  BY <1>1 DEF TableOK
<1>5. Given = {<<c, q>>}
  BY <1>2, <1>3, <1>4 DEF Given
<1>6. Scanned(c)' = q + 1 /\ \A d \in CPU \ {c} : Scanned(d)' = Scanned(d)
  BY <1>3, <1>4 DEF Scanned
<1> DEFINE t == [proc EXCEPT ![q].state = "RUNNING", ![q].chan = None]
<1>7. t \in ProcTables /\ t[q].state = "RUNNING"
  BY DEF TableOK, proc, States, ProcTables
<1>8. /\ ptable'.lock \in CPU \cup {None}
      /\ ptable' = [lock |-> ptable'.lock, nextpid |-> ptable.nextpid, proc |-> t]
  BY <1>1 DEF TableOK, proc
<1> HIDE DEF t
<1>9. TableOK'
  <2>1. ptable' \in [lock : CPU \cup {None}, nextpid : Nat, proc : ProcTables]
    BY <1>7, <1>8 DEF TableOK
  <2>2. cpus' \in [CPU -> [proc : Slot \cup {None}, pos : 0 .. NPROC]]
    BY <1>1 DEF TableOK
  <2> QED
    BY <2>1, <2>2 DEF TableOK
<1>10. ptable'.proc[q].state = "RUNNING"
  BY <1>7, <1>8
<1> QED
  BY <1>1, <1>2, <1>5, <1>6, <1>9, <1>10

\* One step: the invariant, and nobody is given a turn that he had.
LEMMA RRStep ==
  ASSUME NPROC \in Nat, RRInv, RRNext
  PROVE  RRInv' /\ (Waits => Given \cap passed = {})
<1> USE DEF RRInv
<1>1. watch' = watch /\ passed' = IF Waits THEN passed \cup Given ELSE {}
  BY DEF RRNext
<1>2. ASSUME Quiet, TableOK' PROVE RRInv' /\ (Waits => Given \cap passed = {})
  <2>1. Given = {} /\ \A c \in CPU : Scanned(c)' = Scanned(c)
    BY <1>2, QuietTurns
  <2> QED
    BY <1>1, <1>2, <2>1 DEF Turns
<1>3. ASSUME NEW c \in CPU, scheduler(c)
      PROVE  RRInv' /\ (Waits => Given \cap passed = {})
  <2>1. PICK q \in Slot : /\ First(q, Ready(c)) /\ Given = {<<c, q>>}
                          /\ Scanned(c)' = q + 1
                          /\ \A d \in CPU \ {c} : Scanned(d)' = Scanned(d)
                          /\ ptable'.proc[q].state = "RUNNING"
    BY <1>3, Picked
  <2>2. TableOK' /\ Scanned(c) = cpus[c].pos
    BY <1>3, Picked DEF Scanned
  <2>3. q \in Int /\ watch \in Int /\ Scanned(c) \in Int /\ Scanned(c) <= q
    BY <2>1, <2>2 DEF Slot, TableOK, First, Ready
  <2>4. CASE ~Waits
    BY <1>1, <2>2, <2>4 DEF Turns
  <2>5. CASE Waits
    <3>1. q # watch
      BY <2>1, <2>5 DEF Waits
    <3>2. Scanned(c) <= watch => q < watch
      BY <2>1, <2>2, <2>3, <2>5, <3>1 DEF Waits, First, Ready
    <3>3. <<c, q>> \notin passed
      BY <2>3, <3>1, <3>2 DEF Turns
    <3>4. Turns'
      <4> SUFFICES ASSUME NEW d \in CPU, NEW s \in Slot, <<d, s>> \in passed'
                   PROVE  IF Scanned(d)' > watch THEN watch < s /\ s < Scanned(d)'
                          ELSE watch < s \/ s < Scanned(d)'
        BY <1>1 DEF Turns
      <4>1. <<d, s>> \in passed \/ (d = c /\ s = q)
        BY <1>1, <2>1, <2>5
      <4>2. s \in Int
        BY DEF Slot
      <4>3. CASE d # c
        BY <2>1, <4>1, <4>3 DEF Turns
      <4>4. CASE d = c /\ s = q
        BY <2>1, <2>3, <3>1, <4>4
      <4>5. CASE d = c /\ <<c, s>> \in passed
        <5>1. IF Scanned(c) > watch THEN watch < s /\ s < Scanned(c)
              ELSE watch < s \/ s < Scanned(c)
          BY <4>5 DEF Turns
        <5> QED
          BY <2>1, <2>3, <3>1, <3>2, <4>2, <4>5, <5>1
      <4> QED
        BY <4>1, <4>3, <4>4, <4>5
    <3>5. passed' \subseteq CPU \X Slot
      BY <1>1, <2>1
    <3> QED
      BY <1>1, <2>1, <2>2, <3>3, <3>4, <3>5
  <2> QED
    BY <2>4, <2>5
<1>4. ASSUME NEW c \in CPU, EndOfTable(c)
      PROVE  RRInv' /\ (Waits => Given \cap passed = {})
  <2>1. /\ cpus[c].proc = None /\ Ready(c) = {} /\ ptable' = [ptable EXCEPT !.lock = None]
        /\ cpus' = [cpus EXCEPT ![c].pos = 0]
    BY <1>4 DEF EndOfTable, Scanning
  <2>2. cpus'[c] = [proc |-> None, pos |-> 0] /\ \A d \in CPU \ {c} : cpus'[d] = cpus[d]
    BY <2>1 DEF TableOK
  <2>3. TableOK'
    BY <2>1 DEF TableOK
  <2>4. Given = {}
    BY <2>1, <2>2 DEF Given
  <2>5. Scanned(c) = cpus[c].pos /\ Scanned(c)' = 0 /\ \A d \in CPU \ {c} : Scanned(d)' = Scanned(d)
    BY <2>1, <2>2 DEF Scanned
  <2>6. watch \in Int /\ watch >= 0 /\ Scanned(c) \in Int
    BY <2>5 DEF Slot, TableOK
  <2>7. Waits => Scanned(c) > watch
    BY <2>1, <2>5, <2>6 DEF Waits, Ready
  <2>8. Turns'
    <3> SUFFICES ASSUME NEW d \in CPU, NEW s \in Slot, <<d, s>> \in passed'
                 PROVE  IF Scanned(d)' > watch THEN watch < s /\ s < Scanned(d)'
                        ELSE watch < s \/ s < Scanned(d)'
      BY <1>1 DEF Turns
    <3>1. Waits /\ <<d, s>> \in passed
      BY <1>1, <2>4
    <3>2. CASE d # c
      BY <2>5, <3>1, <3>2 DEF Turns
    <3>3. CASE d = c
      BY <2>5, <2>6, <2>7, <3>1, <3>3 DEF Turns
    <3> QED
      BY <3>2, <3>3
  <2> QED
    BY <1>1, <2>3, <2>4, <2>8
<1>5. ASSUME TickIdle PROVE RRInv' /\ (Waits => Given \cap passed = {})
  BY <1>2, <1>5, TimerQuiet
<1>6. ASSUME NEW c \in CPU, NEW p \in Slot, InProcess(c, p)
      PROVE  RRInv' /\ (Waits => Given \cap passed = {})
  BY <1>2, <1>6, ProcessQuiet
<1> QED
  BY <1>3, <1>4, <1>5, <1>6 DEF RRNext

\* The table as userinit() leaves it, with nobody passed yet.
LEMMA RRStart ==
  ASSUME NPROC \in Nat \ {0}, RRInit
  PROVE  RRInv
<1>1. ptable \in [lock : CPU \cup {None}, nextpid : Nat, proc : ProcTables]
  BY DEF RRInit, Unused, States, ProcTables
<1>2. cpus \in [CPU -> [proc : Slot \cup {None}, pos : 0 .. NPROC]]
  BY DEF RRInit
<1> QED
  BY <1>1, <1>2 DEF RRInit, RRInv, TableOK, Turns

\* Where each scan of the table is, and who had a turn since the process that is
\* waited for became runnable, agree.
THEOREM RRInvariance == ASSUME NPROC \in Nat \ {0} PROVE RRSpec => []RRInv
<1>1. RRInit => RRInv
  BY RRStart
<1>2. RRInv /\ [RRNext]_rvars => RRInv'
  <2>1. RRInv /\ UNCHANGED rvars => RRInv'
    BY DEF rvars, RRInv, TableOK, Turns, Scanned
  <2> QED
    BY <2>1, RRStep
<1> QED
  BY <1>1, <1>2, PTL DEF RRSpec

\* The scheduler() of the original kernel never gives a processor to the same process
\* twice while another one is runnable: its turn comes after at most
\* NCPU * (NPROC - 1) others, for any number of processes and processors.
THEOREM TakesTurns == ASSUME NPROC \in Nat \ {0} PROVE RRSpec => RoundRobin
<1>1. RRInv /\ [RRNext]_rvars => [Waits => Given \cap passed = {}]_rvars
  BY RRStep
<1> QED
  BY <1>1, RRInvariance, PTL DEF RRSpec, RoundRobin
=============================================================================
