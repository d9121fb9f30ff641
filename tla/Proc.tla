-------------------------------- MODULE Proc --------------------------------
(***************************************************************************)
(* The process table of the modified kernel: the life of a process (fork,  *)
(* exit, wait, kill), sleep and wakeup, the two-level feedback-queue       *)
(* scheduler and the timer trap that feeds it (proc.c, trap.c, sysproc.c   *)
(* of xv6-public-modificado).                                              *)
(*                                                                         *)
(* A CPU is either in its scheduler thread (cproc[c] = None) or in the     *)
(* kernel thread of process cproc[c].  kpc[p] is where process p is, or    *)
(* will resume; "user" stands for all of user mode.  A step is what a CPU  *)
(* does between two points where another CPU can see or disturb it: a      *)
(* stretch under ptable.lock, or an unlocked access to a shared field.     *)
(* ptable.lock itself is a variable because it is handed over a context    *)
(* switch: the scheduler takes it and the process releases it, and back.   *)
(***************************************************************************)
EXTENDS ProcTable

CONSTANTS
  QUANTUM,   \* timer ticks a process may use in the high queue (5 in trap.c)
  TickCap    \* bound: where ticks_used stops counting (the low queue never reads it)

ASSUME ConstantsAssumption ==
  /\ NPROC \in Nat \ {0} /\ NCPU \in Nat \ {0} /\ QUANTUM \in Nat \ {0}
  /\ KillPids \subseteq Nat
  /\ MaxSleep \in Nat /\ MaxPid \in Nat \ {0}
  /\ TickCap \in Nat /\ TickCap >= QUANTUM - 1

VARIABLES
  state, pid, parent, chan, killed,  \* struct proc, one function per field
  priority, ticks_used,              \* its two MLFQ fields
  mem,        \* what the slot owns: kernel stack, page table
  nextpid,
  lock,       \* the CPU holding ptable.lock
  tlock,      \* the CPU holding tickslock
  cproc,      \* struct cpu: the process running there
  cpc,        \* where the scheduler thread of the CPU is
  kpc,        \* where the kernel thread of the process is
  back,       \* what the timer trap interrupted
  np,         \* fork(): the child being built
  left        \* sys_sleep(): n - (ticks - ticks0), the ticks still to wait

idVars   == <<pid, nextpid, parent, mem>>
mlfqVars == <<priority, ticks_used>>
cpuVars  == <<cproc, cpc>>
locals   == <<back, np, left>>
vars == <<state, idVars, chan, killed, mlfqVars, lock, tlock, cpuVars, kpc, locals>>

Owned  == {"kstack", "pgdir"}

\* Where a process not on a CPU resumes, and where it runs without a spinlock,
\* hence with interrupts on.
ResumePoints  == {"forkret", "yielded", "waiting", "tsleeping"}
Interruptible == {"user", "kstack", "copyuvm", "fork", "exit", "tloop"}
Points == ResumePoints \cup Interruptible
            \cup {"none", "yield", "tsleep", "zombie", "panic"}

Init ==
  /\ state = [p \in Slot |-> IF p = initproc THEN "RUNNABLE" ELSE "UNUSED"]
  /\ pid = [p \in Slot |-> IF p = initproc THEN 1 ELSE 0]
  /\ nextpid = 2
  /\ mem = [p \in Slot |-> IF p = initproc THEN Owned ELSE {}]
  /\ kpc = [p \in Slot |-> IF p = initproc THEN "forkret" ELSE "none"]
  /\ parent = [p \in Slot |-> None]
  /\ chan = [p \in Slot |-> None]
  /\ killed = [p \in Slot |-> FALSE]
  /\ priority = [p \in Slot |-> 0]
  /\ ticks_used = [p \in Slot |-> 0]
  /\ lock = None /\ tlock = None
  /\ cproc = [c \in CPU |-> None]
  /\ cpc = [c \in CPU |-> "loop"]
  /\ back = [p \in Slot |-> "user"]
  /\ np = [p \in Slot |-> None]
  /\ left = [p \in Slot |-> 0]

-----------------------------------------------------------------------------
\* Helpers

Queue(n) == {p \in Slot : state[p] = "RUNNABLE" /\ priority[p] = n}

\* CPU c executes process p, which is at point pc ...
Running(c, p, pc) == cproc[c] = p /\ state[p] = "RUNNING" /\ kpc[p] = pc
\* ... or has just been switched to, and still holds the scheduler's lock.
Resumed(c, p, pc) == Running(c, p, pc) /\ lock = c

\* A system call is entered with ptable.lock taken (trap() let p through).
Syscall(c, p) == Running(c, p, "user") /\ ~killed[p] /\ lock = None

\* The end of trap(): a killed process does not go back to user space.
UserOrExit(p) == IF killed[p] THEN "exit" ELSE "user"

Goto(p, pc) == kpc' = [kpc EXCEPT ![p] = pc]

\* wakeup1(): the table after waking everyone asleep on a channel of C.
Woken(C) ==
  [q \in Slot |-> IF state[q] = "SLEEPING" /\ chan[q] \in C
                  THEN "RUNNABLE" ELSE state[q]]

Kids(p)       == {q \in Slot : parent[q] = p}
ZombieKids(p) == {q \in Kids(p) : state[q] = "ZOMBIE"}

-----------------------------------------------------------------------------
\* scheduler(): one turn looks in the high queue and then, whether or not it
\* ran a process from there, in the low one.  With both queues empty a turn
\* takes and releases the lock and changes nothing.

Dispatch(c, p, phase) ==
  /\ cproc' = [cproc EXCEPT ![c] = p]
  /\ state' = [state EXCEPT ![p] = "RUNNING"]
  /\ cpc' = [cpc EXCEPT ![c] = phase]
  /\ lock' = c
  /\ UNCHANGED <<idVars, chan, killed, mlfqVars, tlock, kpc, locals>>

SchedHigh(c) ==
  /\ cpc[c] = "loop" /\ lock = None
  /\ \E p \in Slot : First(p, Queue(0)) /\ Dispatch(c, p, "high")

\* c may look in the low queue: nothing in the high one, or back from there.
AtPhase2(c) ==
  \/ cpc[c] = "loop" /\ lock = None /\ Queue(0) = {}
  \/ cpc[c] = "phase2" /\ lock = c

SchedLow(c) ==
  /\ AtPhase2(c) /\ cproc[c] = None
  /\ \E p \in Slot : First(p, Queue(1)) /\ Dispatch(c, p, "low")

\* (A scheduler that spins in phase 2 until the low queue has a process.)
SchedRelease(c) ==
  /\ lock = c
  /\ cpc[c] = "unlock" \/ (cpc[c] = "phase2" /\ Queue(1) = {})
  /\ lock' = None
  /\ cpc' = [cpc EXCEPT ![c] = "loop"]
  /\ UNCHANGED <<state, idVars, chan, killed, mlfqVars, tlock, cproc, kpc, locals>>

\* sched(): p has changed its state and switches to the scheduler of its CPU,
\* which clears c->proc.
MutAfterRun(phase) == "unlock"
AfterRun(phase) == IF phase = "high" THEN "phase2" ELSE "unlock"

Sched(c, p) ==
  /\ cproc[c] = p /\ lock = c /\ state[p] # "RUNNING"
  /\ cproc' = [cproc EXCEPT ![c] = None]
  /\ cpc' = [cpc EXCEPT ![c] = AfterRun(@)]
  /\ UNCHANGED <<state, idVars, chan, killed, mlfqVars, lock, tlock, kpc, locals>>

\* forkret(): the first thing a new process runs.
Forkret(c, p) ==
  /\ Resumed(c, p, "forkret")
  /\ lock' = None
  /\ Goto(p, "user")
  /\ UNCHANGED <<state, idVars, chan, killed, mlfqVars, tlock, cpuVars, locals>>

-----------------------------------------------------------------------------
\* trap(): the timer interrupt

\* CPU 0 counts the tick and wakes the processes in sys_sleep().
Clock(c) ==
  IF c = 0
  THEN /\ tlock = None /\ lock = None
       /\ state' = Woken({TicksChan})
       /\ left' = [q \in Slot |-> IF left[q] > 0 THEN left[q] - 1 ELSE 0]
  ELSE UNCHANGED <<state, left>>

\* p pays for the tick; one that has used its quantum is degraded.
MutQuantumUsed(p) == priority[p] = 0 /\ ticks_used[p] >= QUANTUM
QuantumUsed(p) == priority[p] = 0 /\ ticks_used[p] + 1 >= QUANTUM

Account(p) ==
  LET used == ticks_used[p] + 1
      out  == QuantumUsed(p)
  IN /\ priority' = [priority EXCEPT ![p] = IF out THEN 1 ELSE @]
     /\ ticks_used' = [ticks_used EXCEPT ![p] =
                         IF out THEN 0 ELSE IF used > TickCap THEN TickCap ELSE used]

TimerTrap(c, p) ==
  /\ cproc[c] = p /\ state[p] = "RUNNING" /\ kpc[p] \in Interruptible
  /\ Clock(c)
  /\ IF kpc[p] = "user" /\ killed[p]
     THEN Goto(p, "exit") /\ UNCHANGED <<mlfqVars, back>>
     ELSE /\ Account(p)
          /\ Goto(p, "yield")
          /\ back' = [back EXCEPT ![p] = kpc[p]]
  /\ UNCHANGED <<idVars, chan, killed, lock, tlock, cpuVars, np>>

\* The same interrupt while CPU 0 spins in scheduler().
TimerIdle ==
  /\ cproc[0] = None /\ cpc[0] = "loop"
  /\ Clock(0)
  /\ UNCHANGED <<idVars, chan, killed, mlfqVars, lock, tlock, cpuVars, kpc, back, np>>

MutYield(c, p) ==
  /\ Running(c, p, "yield") /\ lock = None
  /\ state' = [state EXCEPT ![p] = "RUNNABLE"]
  /\ Goto(p, "yielded")
  /\ UNCHANGED <<idVars, chan, killed, mlfqVars, lock, tlock, cpuVars, locals>>
Yield(c, p) ==
  /\ Running(c, p, "yield") /\ lock = None
  /\ lock' = c
  /\ state' = [state EXCEPT ![p] = "RUNNABLE"]
  /\ Goto(p, "yielded")
  /\ UNCHANGED <<idVars, chan, killed, mlfqVars, tlock, cpuVars, locals>>

YieldReturn(c, p) ==
  /\ Resumed(c, p, "yielded")
  /\ lock' = None
  /\ Goto(p, IF back[p] = "user" THEN UserOrExit(p) ELSE back[p])
  /\ back' = [back EXCEPT ![p] = "user"]
  /\ UNCHANGED <<state, idVars, chan, killed, mlfqVars, tlock, cpuVars, np, left>>

\* trap() at the entry of a system call of a process that was killed, and the
\* exit() system call, and the trap of a user fault (which sets p->killed).
ToExit(c, p) ==
  /\ Running(c, p, "user")
  /\ Goto(p, "exit")
  /\ killed' \in {killed, [killed EXCEPT ![p] = TRUE]}
  /\ UNCHANGED <<state, idVars, chan, mlfqVars, lock, tlock, cpuVars, locals>>

-----------------------------------------------------------------------------
\* fork(): only the two changes of state are made under ptable.lock

\* allocproc(), up to the release: nothing of killed, chan or parent is reset.
Embryo(q) == state' = [state EXCEPT ![q] = "EMBRYO"]

Allocproc(c, p) ==
  /\ Syscall(c, p) /\ nextpid <= MaxPid
  /\ \E q \in Slot :
       /\ First(q, {s \in Slot : state[s] = "UNUSED"})
       /\ Embryo(q)
       /\ pid' = [pid EXCEPT ![q] = nextpid]
       /\ priority' = [priority EXCEPT ![q] = 0]
       /\ ticks_used' = [ticks_used EXCEPT ![q] = 0]
       /\ np' = [np EXCEPT ![p] = q]
  /\ nextpid' = nextpid + 1
  /\ Goto(p, "kstack")
  /\ UNCHANGED <<parent, mem, chan, killed, lock, tlock, cpuVars, back, left>>

\* allocproc(): the kernel stack, whose context will resume at forkret().
AllocKstack(c, p) ==
  /\ Running(c, p, "kstack")
  /\ mem' = [mem EXCEPT ![np[p]] = {"kstack"}]
  /\ kpc' = [kpc EXCEPT ![p] = "copyuvm", ![np[p]] = "forkret"]
  /\ UNCHANGED <<state, pid, nextpid, parent, chan, killed, mlfqVars, lock, tlock,
                 cpuVars, locals>>

\* copyuvm() succeeds and the child learns its parent.
CopyUvm(c, p) ==
  /\ Running(c, p, "copyuvm")
  /\ mem' = [mem EXCEPT ![np[p]] = Owned]
  /\ parent' = [parent EXCEPT ![np[p]] = p]
  /\ Goto(p, "fork")
  /\ UNCHANGED <<state, pid, nextpid, chan, killed, mlfqVars, lock, tlock, cpuVars,
                 locals>>

\* kalloc() or copyuvm() fails: what was allocated is freed and the slot is
\* given back, its pid left in it, without taking the lock.
ForkNoMem(c, p) ==
  /\ Running(c, p, "kstack") \/ Running(c, p, "copyuvm")
  /\ state' = [state EXCEPT ![np[p]] = "UNUSED"]
  /\ mem' = [mem EXCEPT ![np[p]] = {}]
  /\ kpc' = [kpc EXCEPT ![p] = UserOrExit(p), ![np[p]] = "none"]
  /\ np' = [np EXCEPT ![p] = None]
  /\ UNCHANGED <<pid, nextpid, parent, chan, killed, mlfqVars, lock, tlock, cpuVars,
                 back, left>>

Fork(c, p) ==
  /\ Running(c, p, "fork") /\ lock = None
  /\ state' = [state EXCEPT ![np[p]] = "RUNNABLE"]
  /\ Goto(p, UserOrExit(p))
  /\ np' = [np EXCEPT ![p] = None]
  /\ UNCHANGED <<idVars, chan, killed, mlfqVars, lock, tlock, cpuVars, back, left>>

-----------------------------------------------------------------------------
\* exit() and wait()

\* The channels exit() wakes: its parent, and init if it inherits a zombie.
MutExitWakes(p) == IF ZombieKids(p) # {} THEN {initproc} ELSE {}
ExitWakes(p) ==
  {parent[p]} \cup (IF ZombieKids(p) # {} THEN {initproc} ELSE {})

\* exit() gives its children to init.
MutReparented(p) == parent
Reparented(p) == [q \in Slot |-> IF parent[q] = p THEN initproc ELSE parent[q]]

MutExit(c, p) ==
  /\ Running(c, p, "exit") /\ p # initproc /\ lock = None
  /\ parent' = Reparented(p)
  /\ state' = [Woken(ExitWakes(p)) EXCEPT ![p] = "ZOMBIE"]
  /\ Goto(p, "zombie")
  /\ UNCHANGED <<pid, nextpid, mem, chan, killed, mlfqVars, lock, tlock, cpuVars, locals>>
Exit(c, p) ==
  /\ Running(c, p, "exit") /\ p # initproc /\ lock = None
  /\ lock' = c
  /\ parent' = Reparented(p)
  /\ state' = [Woken(ExitWakes(p)) EXCEPT ![p] = "ZOMBIE"]
  /\ Goto(p, "zombie")
  /\ UNCHANGED <<pid, nextpid, mem, chan, killed, mlfqVars, tlock, cpuVars, locals>>

\* panic("init exiting"): that CPU spins for ever with interrupts off.
ExitInit(c, p) ==
  /\ Running(c, p, "exit") /\ p = initproc
  /\ Goto(p, "panic")
  /\ UNCHANGED <<state, idVars, chan, killed, mlfqVars, lock, tlock, cpuVars, locals>>

PanicSpin(c, p) == Running(c, p, "panic") /\ UNCHANGED vars

\* wait() scans the table on entry and each time it is woken, under the lock.
WaitScan(c, p) == Syscall(c, p) \/ Resumed(c, p, "waiting")

\* wait() frees the first zombie child it finds.
WaitReap(c, p) ==
  /\ WaitScan(c, p)
  /\ \E q \in Slot :
       /\ First(q, ZombieKids(p))
       /\ state' = [state EXCEPT ![q] = "UNUSED"]
       /\ pid' = [pid EXCEPT ![q] = 0]
       /\ parent' = [parent EXCEPT ![q] = None]
       /\ killed' = [killed EXCEPT ![q] = FALSE]
       /\ mem' = [mem EXCEPT ![q] = {}]
       /\ kpc' = [kpc EXCEPT ![q] = "none", ![p] = UserOrExit(p)]
  /\ chan' = [chan EXCEPT ![p] = None]
  /\ lock' = None
  /\ UNCHANGED <<nextpid, mlfqVars, tlock, cpuVars, locals>>

MutGivesUp(p) == Kids(p) = {}
GivesUp(p) == Kids(p) = {} \/ killed[p]

WaitFail(c, p) ==
  /\ WaitScan(c, p)
  /\ ZombieKids(p) = {} /\ GivesUp(p)
  /\ chan' = [chan EXCEPT ![p] = None]
  /\ lock' = None
  /\ Goto(p, UserOrExit(p))
  /\ UNCHANGED <<state, idVars, killed, mlfqVars, tlock, cpuVars, locals>>

\* wait() goes to sleep: sleep(curproc, &ptable.lock), up to sched().
WaitSleep(c, p) ==
  /\ WaitScan(c, p)
  /\ ZombieKids(p) = {} /\ ~GivesUp(p)
  /\ chan' = [chan EXCEPT ![p] = p]
  /\ state' = [state EXCEPT ![p] = "SLEEPING"]
  /\ lock' = c
  /\ Goto(p, "waiting")
  /\ UNCHANGED <<idVars, killed, mlfqVars, tlock, cpuVars, locals>>

-----------------------------------------------------------------------------
\* kill(): the first slot with that pid, whatever its state.  The caller may
\* be its own victim; a pid no slot has returns -1 and changes nothing.

Roused(s) == IF s = "SLEEPING" THEN "RUNNABLE" ELSE s

Kill(c, p, n) ==
  /\ Syscall(c, p)
  /\ \E q \in Slot :
       /\ First(q, {s \in Slot : pid[s] = n})
       /\ killed' = [killed EXCEPT ![q] = TRUE]
       /\ state' = [state EXCEPT ![q] = Roused(@)]
       /\ Goto(p, IF q = p THEN "exit" ELSE "user")
  /\ UNCHANGED <<idVars, chan, mlfqVars, lock, tlock, cpuVars, locals>>

-----------------------------------------------------------------------------
\* sys_sleep(): waits for n ticks, with tickslock as the lock of its condition.
\* sleep(0) returns at once.

\* The caller reads ticks and tests its condition under tickslock.
MutSysSleep(c, p, n) ==
  /\ Running(c, p, "user") /\ ~killed[p] /\ tlock = None
  /\ left' = [left EXCEPT ![p] = n]
  /\ Goto(p, "tsleep")
  /\ UNCHANGED <<state, idVars, chan, killed, mlfqVars, lock, tlock, cpuVars, back, np>>
SysSleep(c, p, n) ==
  /\ Running(c, p, "user") /\ ~killed[p] /\ tlock = None
  /\ tlock' = c
  /\ left' = [left EXCEPT ![p] = n]
  /\ Goto(p, "tsleep")
  /\ UNCHANGED <<state, idVars, chan, killed, mlfqVars, lock, cpuVars, back, np>>

\* sleep(&ticks, &tickslock), up to sched().
TicksSleep(c, p) ==
  /\ Running(c, p, "tsleep") /\ lock = None
  /\ lock' = c /\ tlock' = None
  /\ chan' = [chan EXCEPT ![p] = TicksChan]
  /\ state' = [state EXCEPT ![p] = "SLEEPING"]
  /\ Goto(p, "tsleeping")
  /\ UNCHANGED <<idVars, killed, mlfqVars, cpuVars, locals>>

\* sleep() after sched(): it still has to reacquire tickslock.
TicksWoken(c, p) ==
  /\ Resumed(c, p, "tsleeping")
  /\ lock' = None
  /\ chan' = [chan EXCEPT ![p] = None]
  /\ Goto(p, "tloop")
  /\ UNCHANGED <<state, idVars, killed, mlfqVars, tlock, cpuVars, locals>>

\* The loop condition: done, killed, or to sleep again.
TicksDone(p) == left[p] = 0 \/ killed[p]

TicksLoop(c, p) ==
  /\ Running(c, p, "tloop") /\ tlock = None
  /\ IF TicksDone(p)
     THEN /\ Goto(p, UserOrExit(p))
          /\ left' = [left EXCEPT ![p] = 0]
          /\ UNCHANGED tlock
     ELSE Goto(p, "tsleep") /\ tlock' = c /\ UNCHANGED left
  /\ UNCHANGED <<state, idVars, chan, killed, mlfqVars, lock, cpuVars, back, np>>

-----------------------------------------------------------------------------
\* What the kernel does by itself: between the acquire and the release of a
\* spinlock, and with interrupts on.  Then what programs ask of it.

Switching(c, p) ==
  \/ Sched(c, p) \/ Forkret(c, p) \/ Yield(c, p) \/ YieldReturn(c, p)
  \/ kpc[p] = "waiting" /\ (WaitReap(c, p) \/ WaitFail(c, p) \/ WaitSleep(c, p))
  \/ TicksSleep(c, p) \/ TicksWoken(c, p) \/ PanicSpin(c, p)

Working(c, p) ==
  \/ AllocKstack(c, p) \/ CopyUvm(c, p) \/ ForkNoMem(c, p) \/ Fork(c, p)
  \/ Exit(c, p) \/ ExitInit(c, p) \/ TicksLoop(c, p)

Kernel(c, p) == Switching(c, p) \/ Working(c, p)

Program(c, p) ==
  \/ ToExit(c, p) \/ Allocproc(c, p)
  \/ kpc[p] = "user" /\ (WaitReap(c, p) \/ WaitFail(c, p) \/ WaitSleep(c, p))
  \/ \E n \in KillPids : Kill(c, p, n)
  \/ \E n \in 1 .. MaxSleep : SysSleep(c, p, n)

Scheduler(c) == SchedHigh(c) \/ SchedLow(c) \/ SchedRelease(c)

Next ==
  \/ \E c \in CPU : Scheduler(c)
  \/ \E c \in CPU, p \in Slot : Kernel(c, p) \/ Program(c, p) \/ TimerTrap(c, p)
  \/ TimerIdle

Spec == Init /\ [][Next]_vars

\* A CPU keeps executing the thread it is in, and its timer keeps firing; what
\* programs ask for is up to them.
FairSpec ==
  /\ Spec
  /\ \A c \in CPU :
       /\ WF_vars(Scheduler(c))
       /\ WF_vars(\E p \in Slot : Kernel(c, p))
       /\ WF_vars(\E p \in Slot : TimerTrap(c, p))

\* Besides, a tick is long for a kernel thread: one that is given a CPU again
\* and again advances, it is not preempted each time before its next step.
ProgressSpec ==
  FairSpec /\ \A p \in Slot : SF_vars(\E c \in CPU : Working(c, p))

-----------------------------------------------------------------------------
\* Properties

\* The fields of the process table, the CPUs and the locals of kernel threads
\* stay in range; left is the uint difference of sys_sleep(), never negative.
TypeOK ==
  /\ state \in [Slot -> States]
  /\ pid \in [Slot -> Nat] /\ nextpid \in Nat \ {0}
  /\ parent \in [Slot -> Slot \cup {None}]
  /\ chan \in [Slot -> Slot \cup {None, TicksChan}]
  /\ killed \in [Slot -> BOOLEAN]
  /\ priority \in [Slot -> {0, 1}]
  /\ ticks_used \in [Slot -> 0 .. TickCap]
  /\ mem \in [Slot -> SUBSET Owned]
  /\ lock \in CPU \cup {None} /\ tlock \in CPU \cup {None}
  /\ cproc \in [CPU -> Slot \cup {None}]
  /\ cpc \in [CPU -> {"loop", "high", "low", "phase2", "unlock"}]
  /\ kpc \in [Slot -> Points]
  /\ back \in [Slot -> Interruptible]
  /\ np \in [Slot -> Slot \cup {None}]
  /\ left \in [Slot -> 0 .. MaxSleep]

\* A process runs on at most one CPU, and while nobody holds ptable.lock the
\* processes marked RUNNING are exactly the ones on a CPU (scheduler() and
\* sched() pass the lock through swtch() so that no CPU sees them half switched).
ProcessorExclusion ==
  /\ \A c, d \in CPU : cproc[c] = cproc[d] /\ cproc[c] # None => c = d
  /\ lock = None =>
       \A p \in Slot : state[p] = "RUNNING" <=> \E c \in CPU : cproc[c] = p

\* The kernel stack and page table under a process that occupies a CPU are
\* never freed, though wait() on another CPU frees those of any ZOMBIE child;
\* a free slot owns none (no failing path of fork() leaks them).
StackInUse ==
  /\ \A c \in CPU : cproc[c] # None => mem[cproc[c]] = Owned
  /\ \A p \in Slot : state[p] = "UNUSED" => mem[p] = {}

\* Two fork()s in progress never build their child in the same slot, and the
\* slot stays EMBRYO until its own fork() publishes or abandons it.
EmbryoOwned ==
  \A p, q \in Slot : np[p] # None =>
    state[np[p]] = "EMBRYO" /\ (np[p] = np[q] => p = q)

\* Every process but init has a parent that can still wait() for it: exit()
\* leaves nobody behind.
ParentAlive ==
  \A p \in Slot \ {initproc} :
    state[p] \notin {"UNUSED", "EMBRYO"} =>
      parent[p] # None /\ state[parent[p]] \in {"SLEEPING", "RUNNABLE", "RUNNING"}

\* A parent asleep in wait() has no zombie child: the exit, or the inheritance,
\* of a zombie always wakes it.
NoLostExit ==
  \A p \in Slot : state[p] = "SLEEPING" /\ chan[p] = p => ZombieKids(p) = {}

\* A process asleep in wait() has not been killed: kill() wakes it and wait()
\* gives up instead of sleeping again.
NoLostKill ==
  \A p \in Slot : state[p] = "SLEEPING" /\ chan[p] = p => ~killed[p]

\* A process asleep in sys_sleep() still has a tick to wait for: the tick that
\* ends its time cannot slip in between its test of ticks and its sleep().
NoLostTick ==
  \A p \in Slot : state[p] = "SLEEPING" /\ chan[p] = TicksChan => left[p] > 0

\* A process in the high queue has used less than its quantum, also over many
\* turns and preemptions (trap.c degrades it on the tick that completes it).
QuantumRespected ==
  \A p \in Slot : priority[p] = 0 => ticks_used[p] < QUANTUM

\* A ZOMBIE never runs again ("zombie exit"): its slot is only ever freed, by
\* its parent, while no CPU is still on its stack.
ReapedOnly ==
  \A p \in Slot : state[p] = "ZOMBIE" /\ state'[p] # "ZOMBIE" =>
    /\ state'[p] = "UNUSED"
    /\ \A c \in CPU : cproc[c] # p
    /\ \E c \in CPU : cproc[c] = parent[p]
ZombieOnlyReaped == [][ReapedOnly]_vars

InitPanicked == kpc[initproc] = "panic"

\* However busy the high queue is, the low queue gets a turn: scheduler() looks
\* there after each process it ran from the high queue.
LowQueueServed ==
  Queue(1) # {} ~> InitPanicked \/ \E p \in Slot : state[p] = "RUNNING" /\ priority[p] = 1

-----------------------------------------------------------------------------
\* The inductive invariant behind the properties above

\* Who holds ptable.lock across a switch: a CPU whose scheduler thread is past
\* swtch(), or whose process has not yet released it, or has just taken it to
\* switch away.
CpuInv ==
  /\ \A c \in CPU :
       /\ cproc[c] = None <=> cpc[c] \in {"loop", "phase2", "unlock"}
       /\ cpc[c] = "loop" => lock # c
       /\ cpc[c] \in {"phase2", "unlock"} => lock = c
       /\ cproc[c] # None =>
            IF lock = c
            THEN \/ state[cproc[c]] = "RUNNING" /\ kpc[cproc[c]] \in ResumePoints
                 \/ state[cproc[c]] \in {"RUNNABLE", "SLEEPING", "ZOMBIE"}
            ELSE /\ state[cproc[c]] = "RUNNING"
                 /\ kpc[cproc[c]] \in Interruptible \cup {"yield", "tsleep", "panic"}
  /\ \A c, d \in CPU : cproc[c] = cproc[d] /\ cproc[c] # None => c = d
  /\ \A p \in Slot : state[p] = "RUNNING" => \E c \in CPU : cproc[c] = p

\* A process off the CPU is stopped where its state says.
ThreadInv ==
  \A p \in Slot :
    /\ state[p] = "UNUSED" => kpc[p] = "none" /\ mem[p] = {}
    /\ state[p] = "EMBRYO" => kpc[p] \in {"none", "forkret"}
    /\ state[p] = "RUNNABLE" => kpc[p] \in ResumePoints
    /\ state[p] = "SLEEPING" => kpc[p] \in {"waiting", "tsleeping"}
    /\ state[p] = "ZOMBIE" => kpc[p] = "zombie"
    /\ state[p] \notin {"UNUSED", "EMBRYO"} => mem[p] = Owned

\* The point of p, seen through a preemption; its child while it is in fork().
At(p) == IF kpc[p] \in {"yield", "yielded"} THEN back[p] ELSE kpc[p]

ForkInv ==
  \A p \in Slot :
    /\ np[p] # None <=> At(p) \in {"kstack", "copyuvm", "fork"}
    /\ np[p] # None =>
         /\ state[np[p]] = "EMBRYO"
         /\ \A q \in Slot : np[q] = np[p] => q = p
         /\ At(p) # "kstack" => kpc[np[p]] = "forkret"
         /\ At(p) = "fork" => mem[np[p]] = Owned

\* init is never reaped, and a child fork() is about to publish has its parent.
FamilyInv ==
  /\ state[initproc] \in {"SLEEPING", "RUNNABLE", "RUNNING"} /\ parent[initproc] = None
  /\ \A p \in Slot : parent[p] # p
  /\ \A p \in Slot : At(p) = "fork" => parent[np[p]] = p
  /\ ParentAlive

\* From its test of ticks to its sleep() a process keeps tickslock, so that no
\* tick is counted in between.
SleepInv ==
  /\ NoLostExit /\ NoLostKill /\ NoLostTick
  /\ \A c \in CPU, p \in Slot :
       cproc[c] = p /\ kpc[p] = "tsleep" => tlock = c /\ left[p] > 0

\* Together they are inductive: each action of the kernel preserves them.
ProcInv ==
  /\ TypeOK /\ CpuInv /\ ThreadInv /\ ForkInv
  /\ FamilyInv /\ SleepInv /\ QuantumRespected

-----------------------------------------------------------------------------
\* What the comments say and the code does not do

\* proc.c:346: processes of the low queue run only when the high one is empty.
LowOnlyWhenHighEmpty ==
  [][\A p \in Slot : state[p] = "RUNNABLE" /\ state'[p] = "RUNNING" /\ priority[p] = 1
       => Queue(0) = {}]_vars

\* proc.c:345: the low queue is served round-robin, so each process in it runs.
LowRoundRobin ==
  \A p \in Slot :
    state[p] = "RUNNABLE" /\ priority[p] = 1 ~> InitPanicked \/ state[p] = "RUNNING"
=============================================================================
