------------------------------ MODULE Spinlock ------------------------------
(***************************************************************************)
(* Spin locks with the interrupts and the threads that change processors   *)
(* under them: acquire() and release() of spinlock.c, instruction by       *)
(* instruction where an interrupt or another processor can come between,   *)
(* and sched() and scheduler() of proc.c as far as ncli and intena go.     *)
(* A thread is a process or the scheduler of a processor, and has a stack  *)
(* of frames: its code and above it the handler of an interrupt, which     *)
(* starts with interrupts off.                                             *)
(***************************************************************************)
EXTENDS Integers, Sequences, FiniteSets

CONSTANTS Cpu,     \* the processors, and their schedulers
          Task,    \* the processes
          NLOCK    \* locks; code that holds some takes only higher ones

ASSUME SpinlockAssumption == /\ NLOCK \in Nat \ {0} /\ Cpu \cap Task = {}
                             /\ "none" \notin Cpu

VARIABLES lk,    \* each lock: [locked, cpu]
          cpu,   \* each processor: [intr, ncli, intena, thread, frames]
          ctx,   \* each thread that is switched from: [frames, intena, new]
          halt   \* some processor called panic()

svars == <<lk, cpu, ctx, halt>>

Lock == 1..NLOCK
ptable == NLOCK

\* Where a frame of the kind k is in acquire() or release() of the lock l; eflags is
\* what pushcli() read, held the locks it has.
Frame(k) == [kind |-> k, pc |-> "run", l |-> 0, eflags |-> FALSE, held |-> {}]

\* What is kept of a thread that runs.
Running == [frames |-> <<>>, intena |-> FALSE, new |-> FALSE]

\* Processors start in their scheduler with interrupts off; a process starts in
\* forkret(), from where it returns to its code.
SpinInit == /\ lk = [l \in Lock |-> [locked |-> FALSE, cpu |-> "none"]]
            /\ cpu = [c \in Cpu |-> [intr |-> FALSE, ncli |-> 0, intena |-> FALSE,
                                     thread |-> c, frames |-> <<Frame("scheduler")>>]]
            /\ ctx = [t \in Cpu \cup Task |->
                        IF t \in Cpu THEN Running
                        ELSE [frames |-> <<Frame("process"), Frame("forkret")>>,
                              intena |-> FALSE, new |-> TRUE]]
            /\ halt = FALSE

Top(c) == cpu[c].frames[Len(cpu[c].frames)]
SetTop(me, f) == [me EXCEPT !.frames[Len(me.frames)] = f]
Goto(me, pc) == SetTop(me, [me.frames[Len(me.frames)] EXCEPT !.pc = pc,
                              !.l = IF pc = "run" THEN 0 ELSE @,
                              !.eflags = FALSE])
HeldBy(c) == UNION {cpu[c].frames[i].held : i \in DOMAIN cpu[c].frames}

\* The step of c that takes its top frame from a to b.
At(c, a) == ~halt /\ Top(c).pc = a
To(c, me, b) == cpu' = [cpu EXCEPT ![c] = Goto(me, b)]

holding(c, l) == lk[l].locked /\ lk[l].cpu = c

-----------------------------------------------------------------------------
\* acquire(l) begins with pushcli(), which reads the flags first.
ReadEflags(c, l) ==
  /\ At(c, "run") /\ \A k \in HeldBy(c) : k < l
  /\ Top(c).kind = "scheduler" => cpu[c].intr /\ l = ptable
  /\ cpu' = [cpu EXCEPT ![c] = SetTop(@, [Top(c) EXCEPT !.pc = "cli", !.l = l,
                                                        !.eflags = cpu[c].intr])]
  /\ UNCHANGED <<lk, ctx, halt>>

MutPushcli(c) ==
  /\ At(c, "cli") /\ halt' = holding(c, Top(c).l)
  /\ To(c, [cpu[c] EXCEPT !.intena = IF cpu[c].ncli = 0 THEN Top(c).eflags ELSE @,
                          !.ncli = @ + 1], "xchg")
  /\ UNCHANGED <<lk, ctx>>

\* The rest of pushcli(), from cli() on, is the processor's own affair; then
\* acquire() panics when this processor has the lock.
Pushcli(c) ==
  /\ At(c, "cli") /\ halt' = holding(c, Top(c).l)
  /\ To(c, [cpu[c] EXCEPT !.intr = FALSE,
                          !.intena = IF cpu[c].ncli = 0 THEN Top(c).eflags ELSE @,
                          !.ncli = @ + 1], "xchg")
  /\ UNCHANGED <<lk, ctx>>

\* xchg gives 0: the lock was free.  Until then the processor spins.
Xchg(c) == /\ At(c, "xchg") /\ ~lk[Top(c).l].locked
           /\ lk' = [lk EXCEPT ![Top(c).l].locked = TRUE]
           /\ To(c, cpu[c], "own") /\ UNCHANGED <<ctx, halt>>

Own(c) == /\ At(c, "own")
          /\ lk' = [lk EXCEPT ![Top(c).l].cpu = c]
          /\ cpu' = [cpu EXCEPT ![c] = SetTop(@, [Top(c) EXCEPT !.pc = "run", !.l = 0,
                                                                !.held = @ \cup {Top(c).l}])]
          /\ UNCHANGED <<ctx, halt>>

\* release(l): panic("release") when it does not have the lock.
Release(c, l) ==
  /\ At(c, "run") /\ l \in Top(c).held
  /\ halt' = ~holding(c, l)
  /\ lk' = [lk EXCEPT ![l].cpu = "none"]
  /\ cpu' = [cpu EXCEPT ![c] = SetTop(@, [Top(c) EXCEPT !.pc = "unlock", !.l = l,
                                                        !.held = @ \ {l}])]
  /\ UNCHANGED ctx

\* The lock is free; popcli() panics with interrupts on, or without a pushcli().
Popcli(c) ==
  LET n == cpu[c].ncli - 1
  IN  /\ At(c, "unlock")
      /\ lk' = [lk EXCEPT ![Top(c).l].locked = FALSE]
      /\ halt' = (cpu[c].intr \/ n < 0)
      /\ To(c, [cpu[c] EXCEPT !.ncli = n, !.intr = @ \/ (n = 0 /\ cpu[c].intena)], "run")
      /\ UNCHANGED ctx

\* An interrupt comes through a gate that turns interrupts off.
Interrupt(c) == /\ ~halt /\ cpu[c].intr
                /\ cpu' = [cpu EXCEPT ![c].intr = FALSE,
                                      ![c].frames = Append(@, Frame("handler"))]
                /\ UNCHANGED <<lk, ctx, halt>>

\* iret: back to code that had interrupts on.
Iret(c) == /\ At(c, "run") /\ Len(cpu[c].frames) > 1 /\ Top(c).held = {}
           /\ cpu' = [cpu EXCEPT ![c].intr = TRUE,
                                 ![c].frames = SubSeq(@, 1, Len(@) - 1)]
           /\ UNCHANGED <<lk, ctx, halt>>

\* ptable.lock passes from the thread that calls swtch() to the one that goes on.
HandOver(frames, locks) == [frames EXCEPT ![Len(frames)].held = locks]

\* sched(), from yield(), sleep() or exit(): to the scheduler of this processor.
\* It panics with another lock held or with interrupts on, and keeps intena.
sched(c) ==
  /\ At(c, "run") /\ cpu[c].thread \in Task /\ Top(c).held = {ptable}
  /\ halt' = (cpu[c].ncli # 1 \/ cpu[c].intr)
  /\ ctx' = [ctx EXCEPT ![cpu[c].thread] = [frames |-> HandOver(cpu[c].frames, {}),
                                            intena |-> cpu[c].intena, new |-> FALSE],
                        ![c] = Running]
  /\ cpu' = [cpu EXCEPT ![c].thread = c, ![c].frames = HandOver(ctx[c].frames, {ptable})]
  /\ UNCHANGED lk

MutResume(c, t) ==
  /\ At(c, "run") /\ Top(c).kind = "scheduler" /\ Top(c).held = {ptable}
  /\ \A d \in Cpu : cpu[d].thread # t
  /\ ctx' = [ctx EXCEPT ![c].frames = HandOver(cpu[c].frames, {}), ![t] = Running]
  /\ cpu' = [cpu EXCEPT ![c].thread = t, ![c].frames = HandOver(ctx[t].frames, {ptable})]
  /\ UNCHANGED <<lk, halt>>

\* scheduler() goes on with the process t, which gives the processor the intena it
\* had in sched(); a new process is in forkret() and leaves intena alone.
Resume(c, t) ==
  /\ At(c, "run") /\ Top(c).kind = "scheduler" /\ Top(c).held = {ptable}
  /\ \A d \in Cpu : cpu[d].thread # t
  /\ ctx' = [ctx EXCEPT ![c].frames = HandOver(cpu[c].frames, {}), ![t] = Running]
  /\ cpu' = [cpu EXCEPT ![c].thread = t, ![c].frames = HandOver(ctx[t].frames, {ptable}),
                        ![c].intena = IF ctx[t].new THEN @ ELSE ctx[t].intena]
  /\ UNCHANGED <<lk, halt>>

\* Every turn of the loop of scheduler() starts with sti().
Sti(c) == /\ At(c, "run") /\ Top(c).kind = "scheduler" /\ Top(c).held = {} /\ ~cpu[c].intr
          /\ cpu' = [cpu EXCEPT ![c].intr = TRUE]
          /\ UNCHANGED <<lk, ctx, halt>>

Step(c) == \/ Pushcli(c) \/ Xchg(c) \/ Own(c) \/ Popcli(c)
           \/ Iret(c) \/ sched(c) \/ Sti(c)
           \/ \E l \in Lock : ReadEflags(c, l) \/ Release(c, l)

SpinNext == \E c \in Cpu : Step(c) \/ Interrupt(c) \/ \E t \in Task : Resume(c, t)

SpinSpec == SpinInit /\ [][SpinNext]_svars

-----------------------------------------------------------------------------
\* No processor is in a critical section with another one, or comes to wait for a
\* lock that it has itself, in a handler or not; nobody panics.
SpinExclusion ==
  /\ ~halt
  /\ \A c, d \in Cpu : c # d => HeldBy(c) \cap HeldBy(d) = {}
  /\ \A c \in Cpu : /\ \A i \in 1..(Len(cpu[c].frames) - 1) : cpu[c].frames[i].held = {}
                    /\ \A l \in HeldBy(c) : holding(c, l)

\* Interrupts are off while a processor has or takes a lock, and afterwards they
\* are as the code had them: on in a process, off in a handler, wherever an
\* interrupt came in pushcli() and on whatever processor the process goes on.
InterruptsRestored ==
  \A c \in Cpu :
    LET mid == {i \in DOMAIN cpu[c].frames :
                  cpu[c].frames[i].pc \in {"xchg", "own", "unlock"}}
    IN  /\ cpu[c].ncli = Cardinality(HeldBy(c)) + Cardinality(mid)
        /\ cpu[c].ncli > 0 => ~cpu[c].intr
        /\ cpu[c].ncli = 0 /\ Top(c).pc = "run" =>
             /\ Top(c).kind = "process" => cpu[c].intr
             /\ Top(c).kind = "handler" => ~cpu[c].intr

-----------------------------------------------------------------------------
(* The inductive invariant behind the two.                                 *)

Frames == [kind : {"scheduler", "process", "forkret", "handler"},
           pc : {"run", "cli", "xchg", "own", "unlock"},
           l : Lock \cup {0}, eflags : BOOLEAN, held : SUBSET Lock]

Processors == [intr : BOOLEAN, ncli : Nat, intena : BOOLEAN,
               thread : Cpu \cup Task, frames : Seq(Frames)]

SpinTypeOK ==
  /\ lk \in [Lock -> [locked : BOOLEAN, cpu : Cpu \cup {"none"}]]
  /\ cpu \in [Cpu -> Processors]
  /\ ctx \in [Cpu \cup Task -> [frames : Seq(Frames), intena : BOOLEAN, new : BOOLEAN]]
  /\ halt \in BOOLEAN

\* What an interrupt can find: no lock, and at most the flags read by pushcli().
Interrupted(f) == /\ f.held = {} /\ f.kind # "handler"
                  /\ f.pc = "run" \/ (f.pc = "cli" /\ f.eflags /\ f.l # 0)

\* The frames of the thread t: its code, and above it what came in between.
Stacked(s, t) ==
  /\ s # <<>>
  /\ s[1].kind = IF t \in Task THEN "process" ELSE "scheduler"
  /\ \A i \in 2..Len(s) : s[i].kind \in {"forkret", "handler"}
  /\ \A i \in 1..(Len(s) - 1) : Interrupted(s[i])

\* The count of a processor is that of its locks, with the one it takes or gives
\* up, and intena what the interrupts will be when the count is back at 0.
Counted(me, f) ==
  /\ me.ncli = Cardinality(f.held) + (IF f.pc \in {"xchg", "own", "unlock"} THEN 1 ELSE 0)
  /\ me.ncli > 0 => ~me.intr
  /\ f.pc = "cli" => f.eflags = me.intr
  /\ f.kind = "process" => IF me.ncli = 0 THEN me.intr ELSE me.intena
  /\ f.kind = "handler" => ~me.intr /\ (me.ncli > 0 => ~me.intena)

\* The lock that a frame is about to take is above all it has.
Taking(f) == /\ f.pc # "run" => f.l \in Lock \ f.held
             /\ f.pc \in {"cli", "xchg", "own"} => \A k \in f.held : k < f.l

CpuOK(c) == /\ cpu[c].thread \in Task \cup {c}
            /\ Stacked(cpu[c].frames, cpu[c].thread)
            /\ Counted(cpu[c], Top(c)) /\ Taking(Top(c))

\* A lock is held by the processor it names, and by nobody while it changes hands.
LocksOK ==
  /\ \A c \in Cpu, l \in Lock : l \in Top(c).held <=> lk[l].cpu = c
  /\ \A c \in Cpu : /\ \A l \in Top(c).held : lk[l].locked
                    /\ Top(c).pc \in {"own", "unlock"} =>
                         lk[Top(c).l].locked /\ lk[Top(c).l].cpu = "none"
  /\ \A c, d \in Cpu : c # d /\ {Top(c).pc, Top(d).pc} \subseteq {"own", "unlock"} =>
                       Top(c).l # Top(d).l

\* A thread that does not run was left in swtch(), without a lock, and has in
\* intena what its code needs.
Parked(t) ==
  LET k == ctx[t]
      f == k.frames[Len(k.frames)]
  IN  /\ Stacked(k.frames, t) /\ f.pc = "run" /\ f.held = {}
      /\ t \in Cpu => f.kind = "scheduler"
      /\ k.new => f.kind = "forkret"
      /\ f.kind = "process" => k.intena
      /\ f.kind = "handler" => ~k.intena

ThreadsOK ==
  /\ \A c, d \in Cpu : c # d => cpu[c].thread # cpu[d].thread
  /\ \A c \in Cpu : ~ctx[c].new
  /\ \A t \in Cpu \cup Task : (\A c \in Cpu : cpu[c].thread # t) => Parked(t)

SpinInv == SpinTypeOK /\ ~halt /\ (\A c \in Cpu : CpuOK(c)) /\ LocksOK /\ ThreadsOK
=============================================================================
