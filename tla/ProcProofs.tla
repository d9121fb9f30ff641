------------------------------ MODULE ProcProofs ----------------------------
(***************************************************************************)
(* Proofs about Proc, for any number of slots, CPUs, pids and ticks.       *)
(***************************************************************************)
EXTENDS Proc, TLAPS

\* The null pointer and the channel of the clock are nobody's slot.
LEMMA Nulls ==
  /\ None \notin Slot /\ None \notin CPU
  /\ TicksChan \notin Slot /\ TicksChan # None
  /\ initproc \in Slot
  BY ConstantsAssumption DEF None, Slot, CPU, TicksChan, initproc

\* ForkInv is what makes np[p] a slot where fork() follows the pointer.
LEMMA TypeOKStep == ProcInv /\ [Next]_vars => TypeOK'
<1> SUFFICES ASSUME ProcInv, [Next]_vars PROVE TypeOK'
  OBVIOUS
<1> USE Nulls, ConstantsAssumption DEF ProcInv, TypeOK, ForkInv, At, States, Owned,
     ResumePoints, Interruptible,
             Points, idVars, mlfqVars, cpuVars, locals, Running, Resumed, Goto
<1>1. ASSUME NEW c \in CPU, SchedHigh(c) PROVE TypeOK'
  BY <1>1 DEF SchedHigh, Dispatch
<1>2. ASSUME NEW c \in CPU, SchedLow(c) PROVE TypeOK'
  BY <1>2 DEF SchedLow, Dispatch
<1>3. ASSUME NEW c \in CPU, SchedRelease(c) PROVE TypeOK'
  BY <1>3 DEF SchedRelease
<1>4. ASSUME NEW c \in CPU, NEW p \in Slot, Sched(c, p) PROVE TypeOK'
  BY <1>4 DEF Sched, AfterRun
<1>5. ASSUME NEW c \in CPU, NEW p \in Slot, Forkret(c, p) PROVE TypeOK'
  BY <1>5 DEF Forkret
<1>6. ASSUME NEW c \in CPU, NEW p \in Slot, Yield(c, p) PROVE TypeOK'
  BY <1>6 DEF Yield
<1>7. ASSUME NEW c \in CPU, NEW p \in Slot, YieldReturn(c, p) PROVE TypeOK'
  BY <1>7 DEF YieldReturn, UserOrExit
<1>8. ASSUME NEW c \in CPU, NEW p \in Slot, WaitReap(c, p) PROVE TypeOK'
  BY <1>8 DEF WaitReap, UserOrExit
<1>9. ASSUME NEW c \in CPU, NEW p \in Slot, WaitFail(c, p) PROVE TypeOK'
  BY <1>9 DEF WaitFail, UserOrExit
<1>10. ASSUME NEW c \in CPU, NEW p \in Slot, WaitSleep(c, p) PROVE TypeOK'
  BY <1>10 DEF WaitSleep
<1>11. ASSUME NEW c \in CPU, NEW p \in Slot, TicksSleep(c, p) PROVE TypeOK'
  BY <1>11 DEF TicksSleep
<1>12. ASSUME NEW c \in CPU, NEW p \in Slot, TicksWoken(c, p) PROVE TypeOK'
  BY <1>12 DEF TicksWoken
<1>13. ASSUME NEW c \in CPU, NEW p \in Slot, AllocKstack(c, p) PROVE TypeOK'
  BY <1>13 DEF AllocKstack
<1>14. ASSUME NEW c \in CPU, NEW p \in Slot, CopyUvm(c, p) PROVE TypeOK'
  BY <1>14 DEF CopyUvm
<1>15. ASSUME NEW c \in CPU, NEW p \in Slot, ForkNoMem(c, p) PROVE TypeOK'
  BY <1>15 DEF ForkNoMem, UserOrExit
<1>16. ASSUME NEW c \in CPU, NEW p \in Slot, Fork(c, p) PROVE TypeOK'
  BY <1>16 DEF Fork, UserOrExit
<1>17. ASSUME NEW c \in CPU, NEW p \in Slot, Exit(c, p) PROVE TypeOK'
  BY <1>17 DEF Exit, Woken, Reparented
<1>18. ASSUME NEW c \in CPU, NEW p \in Slot, ExitInit(c, p) PROVE TypeOK'
  BY <1>18 DEF ExitInit
<1>19. ASSUME NEW c \in CPU, NEW p \in Slot, TicksLoop(c, p) PROVE TypeOK'
  BY <1>19 DEF TicksLoop, UserOrExit
<1>20. ASSUME NEW c \in CPU, NEW p \in Slot, ToExit(c, p) PROVE TypeOK'
  <2>1. CASE killed' = killed
    BY <1>20, <2>1 DEF ToExit
  <2>2. CASE killed' = [killed EXCEPT ![p] = TRUE]
    BY <1>20, <2>2 DEF ToExit
  <2> QED
    BY <1>20, <2>1, <2>2 DEF ToExit
<1>21. ASSUME NEW c \in CPU, NEW p \in Slot, Allocproc(c, p) PROVE TypeOK'
  BY <1>21 DEF Allocproc, Syscall, Embryo
<1>22. ASSUME NEW c \in CPU, NEW p \in Slot, NEW n \in KillPids, Kill(c, p, n)
      PROVE TypeOK'
  BY <1>22 DEF Kill, Syscall, Roused
<1>23. ASSUME NEW c \in CPU, NEW p \in Slot, NEW n \in 1 .. MaxSleep, SysSleep(c, p, n)
      PROVE TypeOK'
  BY <1>23 DEF SysSleep
<1>24. ASSUME NEW c \in CPU, NEW p \in Slot, TimerTrap(c, p) PROVE TypeOK'
  BY <1>24 DEF TimerTrap, Clock, Woken, Account, QuantumUsed
<1>25. ASSUME TimerIdle PROVE TypeOK'
  BY <1>25 DEF TimerIdle, Clock, Woken
<1>26. CASE UNCHANGED vars
  BY <1>26 DEF vars
<1> QED
  BY <1>1, <1>2, <1>3, <1>4, <1>5, <1>6, <1>7, <1>8, <1>9, <1>10, <1>11, <1>12, <1>13,
     <1>14, <1>15, <1>16, <1>17, <1>18, <1>19, <1>20, <1>21, <1>22, <1>23, <1>24, <1>25,
     <1>26
  DEF Next, Scheduler, Kernel, Switching, Working, Program, PanicSpin

\* The hand-over of ptable.lock.  A step that needs the lock finds it free or
\* its own, so it never meets a process half switched on another CPU.
LEMMA CpuInvStep == ProcInv /\ [Next]_vars => CpuInv'
<1> SUFFICES ASSUME ProcInv, [Next]_vars PROVE CpuInv'
  OBVIOUS
<1> USE Nulls DEF ProcInv, TypeOK, CpuInv, ThreadInv, ForkInv, At, ResumePoints,
             Interruptible, idVars, mlfqVars, cpuVars, locals, Running, Resumed, Goto
<1>1. ASSUME NEW c \in CPU, SchedHigh(c) PROVE CpuInv'
  BY <1>1 DEF SchedHigh, Dispatch, First, Queue
<1>2. ASSUME NEW c \in CPU, SchedLow(c) PROVE CpuInv'
  BY <1>2 DEF SchedLow, Dispatch, AtPhase2, First, Queue
<1>3. ASSUME NEW c \in CPU, SchedRelease(c) PROVE CpuInv'
  BY <1>3 DEF SchedRelease
<1>4. ASSUME NEW c \in CPU, NEW p \in Slot, Sched(c, p) PROVE CpuInv'
  BY <1>4 DEF Sched, AfterRun
<1>5. ASSUME NEW c \in CPU, NEW p \in Slot, Forkret(c, p) PROVE CpuInv'
  BY <1>5 DEF Forkret
<1>6. ASSUME NEW c \in CPU, NEW p \in Slot, Yield(c, p) PROVE CpuInv'
  BY <1>6 DEF Yield
<1>7. ASSUME NEW c \in CPU, NEW p \in Slot, YieldReturn(c, p) PROVE CpuInv'
  BY <1>7 DEF YieldReturn, UserOrExit
<1>8. ASSUME NEW c \in CPU, NEW p \in Slot, WaitReap(c, p) PROVE CpuInv'
  BY <1>8 DEF WaitReap, WaitScan, Syscall, First, ZombieKids, Kids, UserOrExit
<1>9. ASSUME NEW c \in CPU, NEW p \in Slot, WaitFail(c, p) PROVE CpuInv'
  BY <1>9 DEF WaitFail, WaitScan, Syscall, UserOrExit
<1>10. ASSUME NEW c \in CPU, NEW p \in Slot, WaitSleep(c, p) PROVE CpuInv'
  BY <1>10 DEF WaitSleep, WaitScan, Syscall
<1>11. ASSUME NEW c \in CPU, NEW p \in Slot, TicksSleep(c, p) PROVE CpuInv'
  BY <1>11 DEF TicksSleep
<1>12. ASSUME NEW c \in CPU, NEW p \in Slot, TicksWoken(c, p) PROVE CpuInv'
  BY <1>12 DEF TicksWoken
<1>13. ASSUME NEW c \in CPU, NEW p \in Slot, AllocKstack(c, p) PROVE CpuInv'
  BY <1>13 DEF AllocKstack
<1>14. ASSUME NEW c \in CPU, NEW p \in Slot, CopyUvm(c, p) PROVE CpuInv'
  BY <1>14 DEF CopyUvm
<1>15. ASSUME NEW c \in CPU, NEW p \in Slot, ForkNoMem(c, p) PROVE CpuInv'
  BY <1>15 DEF ForkNoMem, UserOrExit
<1>16. ASSUME NEW c \in CPU, NEW p \in Slot, Fork(c, p) PROVE CpuInv'
  BY <1>16 DEF Fork, UserOrExit
<1>17. ASSUME NEW c \in CPU, NEW p \in Slot, Exit(c, p) PROVE CpuInv'
  BY <1>17 DEF Exit, Woken, Reparented
<1>18. ASSUME NEW c \in CPU, NEW p \in Slot, ExitInit(c, p) PROVE CpuInv'
  BY <1>18 DEF ExitInit
<1>19. ASSUME NEW c \in CPU, NEW p \in Slot, TicksLoop(c, p) PROVE CpuInv'
  BY <1>19 DEF TicksLoop, UserOrExit
<1>20. ASSUME NEW c \in CPU, NEW p \in Slot, ToExit(c, p) PROVE CpuInv'
  BY <1>20 DEF ToExit
<1>21. ASSUME NEW c \in CPU, NEW p \in Slot, Allocproc(c, p) PROVE CpuInv'
  BY <1>21 DEF Allocproc, Syscall, Embryo, First
<1>22. ASSUME NEW c \in CPU, NEW p \in Slot, NEW n \in KillPids, Kill(c, p, n)
      PROVE CpuInv'
  BY <1>22 DEF Kill, Syscall, Roused, First
<1>23. ASSUME NEW c \in CPU, NEW p \in Slot, NEW n \in 1 .. MaxSleep, SysSleep(c, p, n)
      PROVE CpuInv'
  BY <1>23 DEF SysSleep
<1>24. ASSUME NEW c \in CPU, NEW p \in Slot, TimerTrap(c, p) PROVE CpuInv'
  BY <1>24 DEF TimerTrap, Clock, Woken, Account, QuantumUsed
<1>25. ASSUME TimerIdle PROVE CpuInv'
  BY <1>25 DEF TimerIdle, Clock, Woken
<1>26. CASE UNCHANGED vars
  BY <1>26 DEF vars
<1> QED
  BY <1>1, <1>2, <1>3, <1>4, <1>5, <1>6, <1>7, <1>8, <1>9, <1>10, <1>11, <1>12, <1>13,
     <1>14, <1>15, <1>16, <1>17, <1>18, <1>19, <1>20, <1>21, <1>22, <1>23, <1>24, <1>25,
     <1>26
  DEF Next, Scheduler, Kernel, Switching, Working, Program, PanicSpin

\* A process that leaves its CPU does so at a point that fits its new state.
LEMMA ThreadInvStep == ProcInv /\ [Next]_vars => ThreadInv'
<1> SUFFICES ASSUME ProcInv, [Next]_vars PROVE ThreadInv'
  OBVIOUS
<1> USE Nulls DEF ProcInv, TypeOK, CpuInv, ThreadInv, ForkInv, At, ResumePoints,
             Interruptible, Owned, idVars, mlfqVars, cpuVars, locals, Running, Resumed,
             Goto
<1>1. ASSUME NEW c \in CPU, SchedHigh(c) PROVE ThreadInv'
  BY <1>1 DEF SchedHigh, Dispatch, First, Queue
<1>2. ASSUME NEW c \in CPU, SchedLow(c) PROVE ThreadInv'
  BY <1>2 DEF SchedLow, Dispatch, AtPhase2, First, Queue
<1>3. ASSUME NEW c \in CPU, SchedRelease(c) PROVE ThreadInv'
  BY <1>3 DEF SchedRelease
<1>4. ASSUME NEW c \in CPU, NEW p \in Slot, Sched(c, p) PROVE ThreadInv'
  BY <1>4 DEF Sched, AfterRun
<1>5. ASSUME NEW c \in CPU, NEW p \in Slot, Forkret(c, p) PROVE ThreadInv'
  BY <1>5 DEF Forkret
<1>6. ASSUME NEW c \in CPU, NEW p \in Slot, Yield(c, p) PROVE ThreadInv'
  BY <1>6 DEF Yield
<1>7. ASSUME NEW c \in CPU, NEW p \in Slot, YieldReturn(c, p) PROVE ThreadInv'
  BY <1>7 DEF YieldReturn, UserOrExit
<1>8. ASSUME NEW c \in CPU, NEW p \in Slot, WaitReap(c, p) PROVE ThreadInv'
  BY <1>8 DEF WaitReap, WaitScan, Syscall, First, ZombieKids, Kids, UserOrExit
<1>9. ASSUME NEW c \in CPU, NEW p \in Slot, WaitFail(c, p) PROVE ThreadInv'
  BY <1>9 DEF WaitFail, WaitScan, Syscall, UserOrExit
<1>10. ASSUME NEW c \in CPU, NEW p \in Slot, WaitSleep(c, p) PROVE ThreadInv'
  BY <1>10 DEF WaitSleep, WaitScan, Syscall
<1>11. ASSUME NEW c \in CPU, NEW p \in Slot, TicksSleep(c, p) PROVE ThreadInv'
  BY <1>11 DEF TicksSleep
<1>12. ASSUME NEW c \in CPU, NEW p \in Slot, TicksWoken(c, p) PROVE ThreadInv'
  BY <1>12 DEF TicksWoken
<1>13. ASSUME NEW c \in CPU, NEW p \in Slot, AllocKstack(c, p) PROVE ThreadInv'
  BY <1>13 DEF AllocKstack
<1>14. ASSUME NEW c \in CPU, NEW p \in Slot, CopyUvm(c, p) PROVE ThreadInv'
  BY <1>14 DEF CopyUvm
<1>15. ASSUME NEW c \in CPU, NEW p \in Slot, ForkNoMem(c, p) PROVE ThreadInv'
  BY <1>15 DEF ForkNoMem, UserOrExit
<1>16. ASSUME NEW c \in CPU, NEW p \in Slot, Fork(c, p) PROVE ThreadInv'
  BY <1>16 DEF Fork, UserOrExit
<1>17. ASSUME NEW c \in CPU, NEW p \in Slot, Exit(c, p) PROVE ThreadInv'
  BY <1>17 DEF Exit, Woken, Reparented
<1>18. ASSUME NEW c \in CPU, NEW p \in Slot, ExitInit(c, p) PROVE ThreadInv'
  BY <1>18 DEF ExitInit
<1>19. ASSUME NEW c \in CPU, NEW p \in Slot, TicksLoop(c, p) PROVE ThreadInv'
  BY <1>19 DEF TicksLoop, UserOrExit
<1>20. ASSUME NEW c \in CPU, NEW p \in Slot, ToExit(c, p) PROVE ThreadInv'
  BY <1>20 DEF ToExit
<1>21. ASSUME NEW c \in CPU, NEW p \in Slot, Allocproc(c, p) PROVE ThreadInv'
  BY <1>21 DEF Allocproc, Syscall, Embryo, First
<1>22. ASSUME NEW c \in CPU, NEW p \in Slot, NEW n \in KillPids, Kill(c, p, n)
      PROVE ThreadInv'
  BY <1>22 DEF Kill, Syscall, Roused, First
<1>23. ASSUME NEW c \in CPU, NEW p \in Slot, NEW n \in 1 .. MaxSleep, SysSleep(c, p, n)
      PROVE ThreadInv'
  BY <1>23 DEF SysSleep
<1>24. ASSUME NEW c \in CPU, NEW p \in Slot, TimerTrap(c, p) PROVE ThreadInv'
  BY <1>24 DEF TimerTrap, Clock, Woken, Account, QuantumUsed
<1>25. ASSUME TimerIdle PROVE ThreadInv'
  BY <1>25 DEF TimerIdle, Clock, Woken
<1>26. CASE UNCHANGED vars
  BY <1>26 DEF vars
<1> QED
  BY <1>1, <1>2, <1>3, <1>4, <1>5, <1>6, <1>7, <1>8, <1>9, <1>10, <1>11, <1>12, <1>13,
     <1>14, <1>15, <1>16, <1>17, <1>18, <1>19, <1>20, <1>21, <1>22, <1>23, <1>24, <1>25,
     <1>26
  DEF Next, Scheduler, Kernel, Switching, Working, Program, PanicSpin

\* A slot under construction is EMBRYO, so nobody else allocates, reaps or
\* runs it.
LEMMA ForkInvStep == ProcInv /\ [Next]_vars => ForkInv'
<1> SUFFICES ASSUME ProcInv, [Next]_vars PROVE ForkInv'
  OBVIOUS
<1> USE Nulls DEF ProcInv, TypeOK, CpuInv, ThreadInv, ForkInv, At, ResumePoints,
             Interruptible, Owned, idVars, mlfqVars, cpuVars, locals, Running, Resumed,
             Goto
<1>1. ASSUME NEW c \in CPU, SchedHigh(c) PROVE ForkInv'
  BY <1>1 DEF SchedHigh, Dispatch, First, Queue
<1>2. ASSUME NEW c \in CPU, SchedLow(c) PROVE ForkInv'
  BY <1>2 DEF SchedLow, Dispatch, AtPhase2, First, Queue
<1>3. ASSUME NEW c \in CPU, SchedRelease(c) PROVE ForkInv'
  BY <1>3 DEF SchedRelease
<1>4. ASSUME NEW c \in CPU, NEW p \in Slot, Sched(c, p) PROVE ForkInv'
  BY <1>4 DEF Sched, AfterRun
<1>5. ASSUME NEW c \in CPU, NEW p \in Slot, Forkret(c, p) PROVE ForkInv'
  BY <1>5 DEF Forkret
<1>6. ASSUME NEW c \in CPU, NEW p \in Slot, Yield(c, p) PROVE ForkInv'
  BY <1>6 DEF Yield
<1>7. ASSUME NEW c \in CPU, NEW p \in Slot, YieldReturn(c, p) PROVE ForkInv'
  BY <1>7 DEF YieldReturn, UserOrExit
<1>8. ASSUME NEW c \in CPU, NEW p \in Slot, WaitReap(c, p) PROVE ForkInv'
  BY <1>8 DEF WaitReap, WaitScan, Syscall, First, ZombieKids, Kids, UserOrExit
<1>9. ASSUME NEW c \in CPU, NEW p \in Slot, WaitFail(c, p) PROVE ForkInv'
  BY <1>9 DEF WaitFail, WaitScan, Syscall, UserOrExit
<1>10. ASSUME NEW c \in CPU, NEW p \in Slot, WaitSleep(c, p) PROVE ForkInv'
  BY <1>10 DEF WaitSleep, WaitScan, Syscall
<1>11. ASSUME NEW c \in CPU, NEW p \in Slot, TicksSleep(c, p) PROVE ForkInv'
  BY <1>11 DEF TicksSleep
<1>12. ASSUME NEW c \in CPU, NEW p \in Slot, TicksWoken(c, p) PROVE ForkInv'
  BY <1>12 DEF TicksWoken
<1>13. ASSUME NEW c \in CPU, NEW p \in Slot, AllocKstack(c, p) PROVE ForkInv'
  BY <1>13 DEF AllocKstack
<1>14. ASSUME NEW c \in CPU, NEW p \in Slot, CopyUvm(c, p) PROVE ForkInv'
  BY <1>14 DEF CopyUvm
<1>15. ASSUME NEW c \in CPU, NEW p \in Slot, ForkNoMem(c, p) PROVE ForkInv'
  BY <1>15 DEF ForkNoMem, UserOrExit
<1>16. ASSUME NEW c \in CPU, NEW p \in Slot, Fork(c, p) PROVE ForkInv'
  BY <1>16 DEF Fork, UserOrExit
<1>17. ASSUME NEW c \in CPU, NEW p \in Slot, Exit(c, p) PROVE ForkInv'
  BY <1>17 DEF Exit, Woken, Reparented
<1>18. ASSUME NEW c \in CPU, NEW p \in Slot, ExitInit(c, p) PROVE ForkInv'
  BY <1>18 DEF ExitInit
<1>19. ASSUME NEW c \in CPU, NEW p \in Slot, TicksLoop(c, p) PROVE ForkInv'
  BY <1>19 DEF TicksLoop, UserOrExit
<1>20. ASSUME NEW c \in CPU, NEW p \in Slot, ToExit(c, p) PROVE ForkInv'
  BY <1>20 DEF ToExit
<1>21. ASSUME NEW c \in CPU, NEW p \in Slot, Allocproc(c, p) PROVE ForkInv'
  BY <1>21 DEF Allocproc, Syscall, Embryo, First
<1>22. ASSUME NEW c \in CPU, NEW p \in Slot, NEW n \in KillPids, Kill(c, p, n)
      PROVE ForkInv'
  BY <1>22 DEF Kill, Syscall, Roused, First
<1>23. ASSUME NEW c \in CPU, NEW p \in Slot, NEW n \in 1 .. MaxSleep, SysSleep(c, p, n)
      PROVE ForkInv'
  BY <1>23 DEF SysSleep
<1>24. ASSUME NEW c \in CPU, NEW p \in Slot, TimerTrap(c, p) PROVE ForkInv'
  BY <1>24 DEF TimerTrap, Clock, Woken, Account, QuantumUsed
<1>25. ASSUME TimerIdle PROVE ForkInv'
  BY <1>25 DEF TimerIdle, Clock, Woken
<1>26. CASE UNCHANGED vars
  BY <1>26 DEF vars
<1> QED
  BY <1>1, <1>2, <1>3, <1>4, <1>5, <1>6, <1>7, <1>8, <1>9, <1>10, <1>11, <1>12, <1>13,
     <1>14, <1>15, <1>16, <1>17, <1>18, <1>19, <1>20, <1>21, <1>22, <1>23, <1>24, <1>25,
     <1>26
  DEF Next, Scheduler, Kernel, Switching, Working, Program, PanicSpin

\* Only exit() makes a process unfit to wait, and it leaves it no child.
LEMMA FamilyInvStep == ProcInv /\ [Next]_vars => FamilyInv'
<1> SUFFICES ASSUME ProcInv, [Next]_vars PROVE FamilyInv'
  OBVIOUS
<1> USE Nulls DEF ProcInv, TypeOK, CpuInv, ThreadInv, ForkInv, FamilyInv, ParentAlive,
     At,
             ResumePoints, Interruptible, idVars, mlfqVars, cpuVars, locals, Running,
             Resumed, Goto
<1>1. ASSUME NEW c \in CPU, SchedHigh(c) PROVE FamilyInv'
  BY <1>1 DEF SchedHigh, Dispatch, First, Queue
<1>2. ASSUME NEW c \in CPU, SchedLow(c) PROVE FamilyInv'
  BY <1>2 DEF SchedLow, Dispatch, AtPhase2, First, Queue
<1>3. ASSUME NEW c \in CPU, SchedRelease(c) PROVE FamilyInv'
  BY <1>3 DEF SchedRelease
<1>4. ASSUME NEW c \in CPU, NEW p \in Slot, Sched(c, p) PROVE FamilyInv'
  BY <1>4 DEF Sched, AfterRun
<1>5. ASSUME NEW c \in CPU, NEW p \in Slot, Forkret(c, p) PROVE FamilyInv'
  BY <1>5 DEF Forkret
<1>6. ASSUME NEW c \in CPU, NEW p \in Slot, Yield(c, p) PROVE FamilyInv'
  BY <1>6 DEF Yield
<1>7. ASSUME NEW c \in CPU, NEW p \in Slot, YieldReturn(c, p) PROVE FamilyInv'
  BY <1>7 DEF YieldReturn, UserOrExit
<1>8. ASSUME NEW c \in CPU, NEW p \in Slot, WaitReap(c, p) PROVE FamilyInv'
  <2>1. PICK q \in Slot :
          /\ state[q] = "ZOMBIE" /\ parent[q] = p
          /\ state' = [state EXCEPT ![q] = "UNUSED"]
          /\ parent' = [parent EXCEPT ![q] = None]
          /\ kpc' = [kpc EXCEPT ![q] = "none", ![p] = UserOrExit(p)]
    BY <1>8 DEF WaitReap, First, ZombieKids, Kids
  <2>2. p # q /\ q # initproc
    BY <1>8, <2>1 DEF WaitReap, WaitScan, Syscall
  <2>3. state'[initproc] \in {"SLEEPING", "RUNNABLE", "RUNNING"}
    BY <2>1, <2>2
  <2>4. ASSUME NEW x \in Slot, At(x)' = "fork" PROVE parent'[np'[x]] = x
    <3>1. x # q /\ x # p /\ At(x) = "fork"
      BY <1>8, <2>1, <2>2, <2>4 DEF WaitReap, UserOrExit
    <3>2. np[x] \in Slot /\ state[np[x]] = "EMBRYO" /\ parent[np[x]] = x
      BY <3>1
    <3> QED
      BY <1>8, <2>1, <3>2 DEF WaitReap
  <2>5. ParentAlive'
    BY <2>1, <2>2
  <2>6. parent'[initproc] = None /\ \A x \in Slot : parent'[x] # x
    BY <2>1
  <2> QED
    BY <2>3, <2>4, <2>5, <2>6
<1>9. ASSUME NEW c \in CPU, NEW p \in Slot, WaitFail(c, p) PROVE FamilyInv'
  BY <1>9 DEF WaitFail, WaitScan, Syscall, UserOrExit
<1>10. ASSUME NEW c \in CPU, NEW p \in Slot, WaitSleep(c, p) PROVE FamilyInv'
  BY <1>10 DEF WaitSleep, WaitScan, Syscall
<1>11. ASSUME NEW c \in CPU, NEW p \in Slot, TicksSleep(c, p) PROVE FamilyInv'
  BY <1>11 DEF TicksSleep
<1>12. ASSUME NEW c \in CPU, NEW p \in Slot, TicksWoken(c, p) PROVE FamilyInv'
  BY <1>12 DEF TicksWoken
<1>13. ASSUME NEW c \in CPU, NEW p \in Slot, AllocKstack(c, p) PROVE FamilyInv'
  BY <1>13 DEF AllocKstack
<1>14. ASSUME NEW c \in CPU, NEW p \in Slot, CopyUvm(c, p) PROVE FamilyInv'
  BY <1>14 DEF CopyUvm
<1>15. ASSUME NEW c \in CPU, NEW p \in Slot, ForkNoMem(c, p) PROVE FamilyInv'
  BY <1>15 DEF ForkNoMem, UserOrExit
<1>16. ASSUME NEW c \in CPU, NEW p \in Slot, Fork(c, p) PROVE FamilyInv'
  BY <1>16 DEF Fork, UserOrExit
<1>17. ASSUME NEW c \in CPU, NEW p \in Slot, Exit(c, p) PROVE FamilyInv'
  BY <1>17 DEF Exit, Woken, Reparented
<1>18. ASSUME NEW c \in CPU, NEW p \in Slot, ExitInit(c, p) PROVE FamilyInv'
  BY <1>18 DEF ExitInit
<1>19. ASSUME NEW c \in CPU, NEW p \in Slot, TicksLoop(c, p) PROVE FamilyInv'
  BY <1>19 DEF TicksLoop, UserOrExit
<1>20. ASSUME NEW c \in CPU, NEW p \in Slot, ToExit(c, p) PROVE FamilyInv'
  BY <1>20 DEF ToExit
<1>21. ASSUME NEW c \in CPU, NEW p \in Slot, Allocproc(c, p) PROVE FamilyInv'
  BY <1>21 DEF Allocproc, Syscall, Embryo, First
<1>22. ASSUME NEW c \in CPU, NEW p \in Slot, NEW n \in KillPids, Kill(c, p, n)
      PROVE FamilyInv'
  BY <1>22 DEF Kill, Syscall, Roused, First
<1>23. ASSUME NEW c \in CPU, NEW p \in Slot, NEW n \in 1 .. MaxSleep, SysSleep(c, p, n)
      PROVE FamilyInv'
  BY <1>23 DEF SysSleep
<1>24. ASSUME NEW c \in CPU, NEW p \in Slot, TimerTrap(c, p) PROVE FamilyInv'
  BY <1>24 DEF TimerTrap, Clock, Woken, Account, QuantumUsed
<1>25. ASSUME TimerIdle PROVE FamilyInv'
  BY <1>25 DEF TimerIdle, Clock, Woken
<1>26. CASE UNCHANGED vars
  BY <1>26 DEF vars
<1> QED
  BY <1>1, <1>2, <1>3, <1>4, <1>5, <1>6, <1>7, <1>8, <1>9, <1>10, <1>11, <1>12, <1>13,
     <1>14, <1>15, <1>16, <1>17, <1>18, <1>19, <1>20, <1>21, <1>22, <1>23, <1>24, <1>25,
     <1>26
  DEF Next, Scheduler, Kernel, Switching, Working, Program, PanicSpin

\* What a sleeper waits for cannot have happened already.
LEMMA SleepInvStep == ProcInv /\ [Next]_vars => SleepInv'
<1> SUFFICES ASSUME ProcInv, [Next]_vars PROVE SleepInv'
  OBVIOUS
<1> USE Nulls, ConstantsAssumption DEF ProcInv, TypeOK, CpuInv, ThreadInv, ForkInv,
     FamilyInv, SleepInv, NoLostExit,
             NoLostKill, NoLostTick, ZombieKids, Kids, ResumePoints, Interruptible, At,
             idVars, mlfqVars, cpuVars, locals, Running, Resumed, Goto
<1>1. ASSUME NEW c \in CPU, SchedHigh(c) PROVE SleepInv'
  BY <1>1 DEF SchedHigh, Dispatch, First, Queue
<1>2. ASSUME NEW c \in CPU, SchedLow(c) PROVE SleepInv'
  BY <1>2 DEF SchedLow, Dispatch, AtPhase2, First, Queue
<1>3. ASSUME NEW c \in CPU, SchedRelease(c) PROVE SleepInv'
  BY <1>3 DEF SchedRelease
<1>4. ASSUME NEW c \in CPU, NEW p \in Slot, Sched(c, p) PROVE SleepInv'
  BY <1>4 DEF Sched, AfterRun
<1>5. ASSUME NEW c \in CPU, NEW p \in Slot, Forkret(c, p) PROVE SleepInv'
  BY <1>5 DEF Forkret
<1>6. ASSUME NEW c \in CPU, NEW p \in Slot, Yield(c, p) PROVE SleepInv'
  BY <1>6 DEF Yield
<1>7. ASSUME NEW c \in CPU, NEW p \in Slot, YieldReturn(c, p) PROVE SleepInv'
  BY <1>7 DEF YieldReturn, UserOrExit
<1>8. ASSUME NEW c \in CPU, NEW p \in Slot, WaitReap(c, p) PROVE SleepInv'
  BY <1>8 DEF WaitReap, WaitScan, Syscall, First, ZombieKids, Kids, UserOrExit
<1>9. ASSUME NEW c \in CPU, NEW p \in Slot, WaitFail(c, p) PROVE SleepInv'
  BY <1>9 DEF WaitFail, WaitScan, Syscall, UserOrExit
<1>10. ASSUME NEW c \in CPU, NEW p \in Slot, WaitSleep(c, p) PROVE SleepInv'
  BY <1>10 DEF WaitSleep, WaitScan, Syscall, GivesUp
<1>11. ASSUME NEW c \in CPU, NEW p \in Slot, TicksSleep(c, p) PROVE SleepInv'
  BY <1>11 DEF TicksSleep
<1>12. ASSUME NEW c \in CPU, NEW p \in Slot, TicksWoken(c, p) PROVE SleepInv'
  BY <1>12 DEF TicksWoken
<1>13. ASSUME NEW c \in CPU, NEW p \in Slot, AllocKstack(c, p) PROVE SleepInv'
  BY <1>13 DEF AllocKstack
<1>14. ASSUME NEW c \in CPU, NEW p \in Slot, CopyUvm(c, p) PROVE SleepInv'
  BY <1>14 DEF CopyUvm
<1>15. ASSUME NEW c \in CPU, NEW p \in Slot, ForkNoMem(c, p) PROVE SleepInv'
  BY <1>15 DEF ForkNoMem, UserOrExit
<1>16. ASSUME NEW c \in CPU, NEW p \in Slot, Fork(c, p) PROVE SleepInv'
  BY <1>16 DEF Fork, UserOrExit
<1>17. ASSUME NEW c \in CPU, NEW p \in Slot, Exit(c, p) PROVE SleepInv'
  <2>1. /\ state' = [Woken(ExitWakes(p)) EXCEPT ![p] = "ZOMBIE"]
        /\ parent' = Reparented(p)
        /\ kpc' = [kpc EXCEPT ![p] = "zombie"]
        /\ chan' = chan /\ killed' = killed /\ left' = left
        /\ tlock' = tlock /\ cproc' = cproc
    BY <1>17 DEF Exit
  <2>2. ASSUME NEW q \in Slot, state'[q] = "SLEEPING"
        PROVE /\ state[q] = "SLEEPING" /\ q # p /\ chan[q] # parent[p]
              /\ chan[q] = initproc => ZombieKids(p) = {}
    BY <2>1, <2>2 DEF Woken, ExitWakes
  <2>3. ASSUME NEW q \in Slot, NEW z \in Slot, state'[q] = "SLEEPING", chan'[q] = q,
               parent'[z] = q, state'[z] = "ZOMBIE"
        PROVE FALSE
    <3>1. state[q] = "SLEEPING" /\ chan[q] = q /\ chan[q] # parent[p]
      BY <2>1, <2>2, <2>3
    <3>2. z = p \/ state[z] = "ZOMBIE"
      BY <2>1, <2>3 DEF Woken
    <3>3. CASE parent[z] = p
      BY <2>1, <2>2, <2>3, <3>1, <3>2, <3>3 DEF Reparented, Woken
    <3>4. CASE parent[z] # p
      BY <2>1, <2>3, <3>1, <3>2, <3>4 DEF Reparented
    <3> QED
      BY <3>3, <3>4
  <2>4. NoLostExit'
    BY <2>3
  <2>5. NoLostKill' /\ NoLostTick'
    BY <2>1, <2>2
  <2>6. ASSUME NEW d \in CPU, NEW q \in Slot, cproc'[d] = q, kpc'[q] = "tsleep"
        PROVE tlock' = d /\ left'[q] > 0
    BY <2>1, <2>6
  <2> QED
    BY <2>4, <2>5, <2>6
<1>18. ASSUME NEW c \in CPU, NEW p \in Slot, ExitInit(c, p) PROVE SleepInv'
  BY <1>18 DEF ExitInit
<1>19. ASSUME NEW c \in CPU, NEW p \in Slot, TicksLoop(c, p) PROVE SleepInv'
  BY <1>19 DEF TicksLoop, UserOrExit, TicksDone
<1>20. ASSUME NEW c \in CPU, NEW p \in Slot, ToExit(c, p) PROVE SleepInv'
  BY <1>20 DEF ToExit
<1>21. ASSUME NEW c \in CPU, NEW p \in Slot, Allocproc(c, p) PROVE SleepInv'
  BY <1>21 DEF Allocproc, Syscall, Embryo, First
<1>22. ASSUME NEW c \in CPU, NEW p \in Slot, NEW n \in KillPids, Kill(c, p, n)
      PROVE SleepInv'
  BY <1>22 DEF Kill, Syscall, Roused, First
<1>23. ASSUME NEW c \in CPU, NEW p \in Slot, NEW n \in 1 .. MaxSleep, SysSleep(c, p, n)
      PROVE SleepInv'
  BY <1>23 DEF SysSleep
<1>24. ASSUME NEW c \in CPU, NEW p \in Slot, TimerTrap(c, p) PROVE SleepInv'
  BY <1>24 DEF TimerTrap, Clock, Woken, Account, QuantumUsed
<1>25. ASSUME TimerIdle PROVE SleepInv'
  BY <1>25 DEF TimerIdle, Clock, Woken
<1>26. CASE UNCHANGED vars
  BY <1>26 DEF vars
<1> QED
  BY <1>1, <1>2, <1>3, <1>4, <1>5, <1>6, <1>7, <1>8, <1>9, <1>10, <1>11, <1>12, <1>13,
     <1>14, <1>15, <1>16, <1>17, <1>18, <1>19, <1>20, <1>21, <1>22, <1>23, <1>24, <1>25,
     <1>26
  DEF Next, Scheduler, Kernel, Switching, Working, Program, PanicSpin

\* Only the timer trap charges ticks, and it degrades on the last one.
LEMMA QuantumStep == ProcInv /\ [Next]_vars => QuantumRespected'
<1> SUFFICES ASSUME ProcInv, [Next]_vars PROVE QuantumRespected'
  OBVIOUS
<1> USE ConstantsAssumption DEF ProcInv, TypeOK, QuantumRespected
<1>1. ASSUME NEW c \in CPU, NEW p \in Slot, TimerTrap(c, p) PROVE QuantumRespected'
  BY <1>1 DEF TimerTrap, Account, QuantumUsed, mlfqVars
<1>2. ASSUME NEW c \in CPU, NEW p \in Slot, Allocproc(c, p) PROVE QuantumRespected'
  BY <1>2 DEF Allocproc
<1>3. CASE UNCHANGED mlfqVars
  BY <1>3 DEF mlfqVars
<1>4. ASSUME NEW c \in CPU, Scheduler(c) PROVE UNCHANGED mlfqVars
  BY <1>4 DEF Scheduler, SchedHigh, SchedLow, SchedRelease, Dispatch
<1>5. ASSUME NEW c \in CPU, NEW p \in Slot, Kernel(c, p) PROVE UNCHANGED mlfqVars
  BY <1>5 DEF Kernel, Switching, Working, Sched, Forkret, Yield, YieldReturn, WaitReap,
              WaitFail, WaitSleep, TicksSleep, TicksWoken, PanicSpin, AllocKstack,
              CopyUvm,
              ForkNoMem, Fork, Exit, ExitInit, TicksLoop, vars
<1>6. ASSUME NEW c \in CPU, NEW p \in Slot, Program(c, p), ~Allocproc(c, p)
      PROVE UNCHANGED mlfqVars
  BY <1>6 DEF Program, ToExit, WaitReap, WaitFail, WaitSleep, Kill, SysSleep
<1> QED
  BY <1>1, <1>2, <1>3, <1>4, <1>5, <1>6 DEF Next, TimerIdle, vars

LEMMA ProcInvInit == Init => ProcInv
<1> SUFFICES ASSUME Init PROVE ProcInv
  OBVIOUS
<1> USE Nulls, ConstantsAssumption DEF Init
<1>1. TypeOK
  BY DEF TypeOK, States, Owned, Interruptible, ResumePoints, Points
<1>2. CpuInv /\ ThreadInv
  BY DEF CpuInv, ThreadInv, ResumePoints
<1>3. ForkInv /\ FamilyInv
  BY DEF ForkInv, FamilyInv, ParentAlive, At
<1>4. SleepInv /\ QuantumRespected
  BY DEF SleepInv, NoLostExit, NoLostKill, NoLostTick, QuantumRespected
<1> QED
  BY <1>1, <1>2, <1>3, <1>4 DEF ProcInv

\* The inductive invariant: what each action of the kernel finds and leaves.
THEOREM Invariance == Spec => []ProcInv
<1>1. ProcInv /\ [Next]_vars => ProcInv'
  BY TypeOKStep, CpuInvStep, ThreadInvStep, ForkInvStep, FamilyInvStep, SleepInvStep,
     QuantumStep DEF ProcInv
<1> QED
  BY ProcInvInit, <1>1, PTL DEF Spec

\* The table, the CPUs and the locals of kernel threads stay in range, also
\* where fork() writes through np and sys_sleep() subtracts ticks.
THEOREM TypeCorrect == Spec => []TypeOK
<1>1. ProcInv => TypeOK
  BY DEF ProcInv
<1> QED
  BY Invariance, <1>1, PTL

\* scheduler() and sched() never let a process run on two CPUs, and leave no
\* CPU's process marked otherwise than RUNNING once ptable.lock is free.
THEOREM Exclusion == Spec => []ProcessorExclusion
<1>1. ProcInv => ProcessorExclusion
  BY Nulls DEF ProcInv, CpuInv, TypeOK, ProcessorExclusion
<1> QED
  BY Invariance, <1>1, PTL

\* wait() frees no stack a CPU still runs on, and no path of fork() leaks one.
THEOREM StackSafety == Spec => []StackInUse
<1>1. ProcInv => StackInUse
  BY Nulls DEF ProcInv, TypeOK, CpuInv, ThreadInv, StackInUse
<1> QED
  BY Invariance, <1>1, PTL

\* Concurrent fork()s never share the slot they build, though they write it
\* without ptable.lock.
THEOREM EmbryoSafety == Spec => []EmbryoOwned
<1>1. ProcInv => EmbryoOwned
  BY DEF ProcInv, ForkInv, EmbryoOwned
<1> QED
  BY Invariance, <1>1, PTL

\* exit() leaves no child without a live parent to wait() for it.
THEOREM NoOrphans == Spec => []ParentAlive
<1>1. ProcInv => ParentAlive
  BY DEF ProcInv, FamilyInv
<1> QED
  BY Invariance, <1>1, PTL

\* exit() always wakes a parent that sleeps in wait().
THEOREM NoExitLost == Spec => []NoLostExit
<1>1. ProcInv => NoLostExit
  BY DEF ProcInv, SleepInv
<1> QED
  BY Invariance, <1>1, PTL

\* kill() always wakes a process that sleeps in wait(), which then gives up.
THEOREM NoKillLost == Spec => []NoLostKill
<1>1. ProcInv => NoLostKill
  BY DEF ProcInv, SleepInv
<1> QED
  BY Invariance, <1>1, PTL

\* sys_sleep() misses no tick between its test of ticks and its sleep().
THEOREM NoTickLost == Spec => []NoLostTick
<1>1. ProcInv => NoLostTick
  BY DEF ProcInv, SleepInv
<1> QED
  BY Invariance, <1>1, PTL

\* trap() degrades a process on the tick that completes its quantum.
THEOREM QuantumBound == Spec => []QuantumRespected
<1>1. ProcInv => QuantumRespected
  BY DEF ProcInv
<1> QED
  BY Invariance, <1>1, PTL

\* A zombie only ever leaves the table through its parent's wait(), and off CPU.
THEOREM ZombieRest == Spec => ZombieOnlyReaped
<1> USE Nulls DEF ProcInv, TypeOK, CpuInv, ThreadInv, ForkInv, At, ReapedOnly, Running
<1>1. ASSUME ProcInv, NEW c \in CPU, Scheduler(c) PROVE ReapedOnly
  BY <1>1 DEF Scheduler, SchedHigh, SchedLow, SchedRelease, Dispatch, First, Queue
<1>2. ASSUME ProcInv, NEW c \in CPU, NEW p \in Slot, WaitReap(c, p) PROVE ReapedOnly
  BY <1>2 DEF WaitReap, WaitScan, Syscall, Resumed, First, ZombieKids, Kids
<1>3. ASSUME ProcInv, NEW c \in CPU, NEW p \in Slot, Switching(c, p), ~WaitReap(c, p)
      PROVE ReapedOnly
  BY <1>3 DEF Switching, Sched, Forkret, Yield, YieldReturn, WaitFail, WaitSleep,
     WaitScan,
              Syscall, Resumed, TicksSleep, TicksWoken, PanicSpin, vars
<1>4. ASSUME ProcInv, NEW c \in CPU, NEW p \in Slot, Working(c, p) PROVE ReapedOnly
  <2>1. CASE Exit(c, p)
    BY <1>4, <2>1 DEF Exit, Woken
  <2>2. CASE ~Exit(c, p)
    BY <1>4, <2>2 DEF Working, AllocKstack, CopyUvm, ForkNoMem, Fork, ExitInit,
     TicksLoop
  <2> QED
    BY <2>1, <2>2
<1>5. ASSUME ProcInv, NEW c \in CPU, NEW p \in Slot, Program(c, p), ~WaitReap(c, p)
      PROVE ReapedOnly
  BY <1>5 DEF Program, ToExit, Allocproc, Embryo, First, WaitFail, WaitSleep, WaitScan,
              Syscall, Resumed, Kill, Roused, SysSleep
<1>6. ASSUME ProcInv, NEW c \in CPU, NEW p \in Slot, TimerTrap(c, p) PROVE ReapedOnly
  BY <1>6 DEF TimerTrap, Clock, Woken
<1>7. ASSUME ProcInv, TimerIdle PROVE ReapedOnly
  BY <1>7 DEF TimerIdle, Clock, Woken
<1>8. ProcInv /\ [Next]_vars => [ReapedOnly]_vars
  BY <1>1, <1>2, <1>3, <1>4, <1>5, <1>6, <1>7 DEF Next, Kernel
<1> QED
  BY Invariance, <1>8, PTL DEF Spec, ZombieOnlyReaped
=============================================================================
