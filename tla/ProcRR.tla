------------------------------- MODULE ProcRR -------------------------------
(***************************************************************************)
(* The process table of the original kernel (xv6-public): one queue, and a *)
(* scheduler() whose scan of the table goes on, behind the process that    *)
(* comes back, until the end of the table.  What else proc.c does is as in *)
(* Proc; here a system call has one step for each time it takes            *)
(* ptable.lock, or tickslock and then ptable.lock.                         *)
(***************************************************************************)
EXTENDS ProcTable

VARIABLES
  ptable,   \* [lock, nextpid, proc]; a proc is [state, pid, parent, chan, killed]
  cpus,     \* each processor: [proc, pos], pos being where scheduler() scans on
  thread,   \* where each process is: [pc, back, np, left]
  watch,    \* a slot whose turn is waited for ...
  passed    \* ... and the <<processor, slot>> that had theirs meanwhile

rvars == <<ptable, cpus, thread, watch, passed>>

Unused == [state |-> "UNUSED", pid |-> 0, parent |-> None, chan |-> None, killed |-> FALSE]
InUser == [pc |-> "user", back |-> "user", np |-> None, left |-> 0]

\* The table as userinit() leaves it.
RRInit ==
  /\ ptable = [lock |-> None, nextpid |-> 2,
               proc |-> [p \in Slot |-> IF p # initproc THEN Unused
                                        ELSE [Unused EXCEPT !.state = "RUNNABLE", !.pid = 1]]]
  /\ cpus = [c \in CPU |-> [proc |-> None, pos |-> 0]]
  /\ thread = [p \in Slot |-> InUser]
  /\ watch \in Slot /\ passed = {}

-----------------------------------------------------------------------------
proc == ptable.proc

\* CPU c is in process p, which is at pc.
Runs(c, p, pc) == cpus[c].proc = p /\ thread[p].pc = pc
Calls(c, p) == Runs(c, p, "user") /\ ~proc[p].killed /\ ptable.lock = None
AfterCall(p) == IF proc[p].killed THEN "exit" ELSE "user"
RRGoto(p, pc) == thread' = [thread EXCEPT ![p].pc = pc]
Table(t) == ptable' = [ptable EXCEPT !.proc = t]

\* wakeup1() on each channel of C, in the table t.
Awake(t, C) == [q \in Slot |-> IF t[q].state = "SLEEPING" /\ t[q].chan \in C
                               THEN [t[q] EXCEPT !.state = "RUNNABLE"] ELSE t[q]]

-----------------------------------------------------------------------------
\* scheduler() goes on from pos, under the lock: to the next process, or to the end
\* of the table, where it lets go of the lock and starts again.
Ready(c) == {q \in Slot : q >= cpus[c].pos /\ proc[q].state = "RUNNABLE"}
Scanning(c) == /\ cpus[c].proc = None
               /\ ptable.lock = c \/ (ptable.lock = None /\ cpus[c].pos = 0)

\* Where the timer trap returns to.
Back(q) == IF thread[q].back = "user" THEN AfterCall(q) ELSE thread[q].back

\* The process that was switched to releases the lock, in forkret(), yield() or
\* sleep(), but not in wait(), which slept on the lock itself.
scheduler(c) ==
  /\ Scanning(c)
  /\ \E q \in Slot :
       /\ First(q, Ready(c))
       /\ cpus' = [cpus EXCEPT ![c] = [proc |-> q, pos |-> 0]]
       /\ ptable' = [ptable EXCEPT !.lock = IF thread[q].pc = "wait" THEN c ELSE None,
                                   !.proc[q].state = "RUNNING", !.proc[q].chan = None]
       /\ thread' = [thread EXCEPT ![q].back = "user",
                                   ![q].pc = IF @ = "yield" THEN Back(q) ELSE @]

EndOfTable(c) == /\ Scanning(c) /\ ptable.lock = c /\ Ready(c) = {}
                 /\ ptable' = [ptable EXCEPT !.lock = None]
                 /\ cpus' = [cpus EXCEPT ![c].pos = 0] /\ UNCHANGED thread

MutNextPos(p) == 0
NextPos(p) == p + 1

\* sched(): p, which has changed its state in the table t, goes back to scheduler().
sched(c, p, t) == /\ ptable' = [ptable EXCEPT !.lock = c, !.proc = t]
                  /\ cpus' = [cpus EXCEPT ![c] = [proc |-> None, pos |-> NextPos(p)]]

-----------------------------------------------------------------------------
\* trap(): the timer.  CPU 0 counts the tick and wakes who sleeps for it.
RRClock(c) ==
  /\ c = 0 => ptable.lock = None
  /\ Table(IF c = 0 THEN Awake(proc, {TicksChan}) ELSE proc)

Ticked(c) == [q \in Slot |-> IF c = 0 /\ thread[q].left > 0
                             THEN [thread[q] EXCEPT !.left = @ - 1] ELSE thread[q]]

trap(c, p) ==
  /\ cpus[c].proc = p /\ thread[p].pc \in {"user", "fork", "exit"}
  /\ RRClock(c)
  /\ thread' = [Ticked(c) EXCEPT ![p] =
                  IF thread[p].pc = "user" /\ proc[p].killed THEN [@ EXCEPT !.pc = "exit"]
                  ELSE [@ EXCEPT !.pc = "yield", !.back = thread[p].pc]]
  /\ UNCHANGED cpus

\* The same while CPU 0 is between two scans.
TickIdle == /\ cpus[0].proc = None /\ cpus[0].pos = 0
            /\ RRClock(0) /\ thread' = Ticked(0) /\ UNCHANGED cpus

yield(c, p) == /\ Runs(c, p, "yield") /\ ptable.lock = None
               /\ sched(c, p, [proc EXCEPT ![p].state = "RUNNABLE"])
               /\ UNCHANGED thread

\* The exit() call, a fault, or any trap of a process that was killed.
IntoExit(c, p) == /\ Runs(c, p, "user") /\ RRGoto(p, "exit")
                  /\ \E k \in {proc[p].killed, TRUE} : Table([proc EXCEPT ![p].killed = k])
                  /\ UNCHANGED cpus

-----------------------------------------------------------------------------
allocproc(c, p) ==
  /\ Calls(c, p) /\ ptable.nextpid <= MaxPid
  /\ \E q \in Slot :
       /\ First(q, {s \in Slot : proc[s].state = "UNUSED"})
       /\ ptable' = [ptable EXCEPT !.nextpid = @ + 1, !.proc[q].state = "EMBRYO",
                                   !.proc[q].pid = ptable.nextpid]
       /\ thread' = [thread EXCEPT ![p].pc = "fork", ![p].np = q]
  /\ UNCHANGED cpus

\* fork() makes the child runnable, or gives its slot back when memory is short.
fork(c, p) ==
  LET q == thread[p].np
  IN  /\ Runs(c, p, "fork")
      /\ \/ Table([proc EXCEPT ![q].state = "UNUSED"])
         \/ /\ ptable.lock = None
            /\ Table([proc EXCEPT ![q].state = "RUNNABLE", ![q].parent = p])
      /\ thread' = [thread EXCEPT ![p] = [InUser EXCEPT !.pc = AfterCall(p)], ![q] = InUser]
      /\ UNCHANGED cpus

Children(p) == {q \in Slot : proc[q].parent = p}
Zombies(p) == {q \in Children(p) : proc[q].state = "ZOMBIE"}

\* exit(), which for init is a panic: that CPU stops.
exit(c, p) ==
  \/ /\ Runs(c, p, "exit") /\ p = initproc
     /\ RRGoto(p, "panic") /\ UNCHANGED <<ptable, cpus>>
  \/ /\ Runs(c, p, "exit") /\ p # initproc /\ ptable.lock = None
     /\ LET t == Awake(proc, {proc[p].parent} \cup IF Zombies(p) = {} THEN {} ELSE {initproc})
            mine == [q \in Slot |-> IF q \in Children(p) THEN [t[q] EXCEPT !.parent = initproc]
                                    ELSE t[q]]
        IN  sched(c, p, [mine EXCEPT ![p].state = "ZOMBIE"])
     /\ RRGoto(p, "zombie")

\* wait(), on entry and when it was woken up, which is with the lock.
wait(c, p) ==
  /\ Calls(c, p) \/ (Runs(c, p, "wait") /\ ptable.lock = c)
  /\ \/ /\ \E q \in Slot : /\ First(q, Zombies(p))
                           /\ ptable' = [ptable EXCEPT !.lock = None, !.proc[q] = Unused]
        /\ RRGoto(p, AfterCall(p)) /\ UNCHANGED cpus
     \/ /\ Zombies(p) = {} /\ (Children(p) = {} \/ proc[p].killed)
        /\ ptable' = [ptable EXCEPT !.lock = None]
        /\ RRGoto(p, AfterCall(p)) /\ UNCHANGED cpus
     \/ /\ Zombies(p) = {} /\ Children(p) # {} /\ ~proc[p].killed
        /\ sched(c, p, [proc EXCEPT ![p].state = "SLEEPING", ![p].chan = p])
        /\ RRGoto(p, "wait")

kill(c, p, n) ==
  /\ Calls(c, p)
  /\ \E q \in Slot :
       /\ First(q, {s \in Slot : proc[s].pid = n})
       /\ Table([proc EXCEPT ![q].killed = TRUE,
                             ![q].state = IF @ = "SLEEPING" THEN "RUNNABLE" ELSE @])
       /\ RRGoto(p, IF q = p THEN "exit" ELSE "user")
  /\ UNCHANGED cpus

\* sys_sleep(n), on entry and when it was woken up: sleep(&ticks, &tickslock) as long
\* as ticks are left.
sleep(c, p, n) ==
  LET left == IF thread[p].pc = "user" THEN n ELSE thread[p].left
  IN  /\ Calls(c, p) \/ (Runs(c, p, "sleep") /\ ptable.lock = None)
      /\ \/ /\ left > 0 /\ ~proc[p].killed
            /\ sched(c, p, [proc EXCEPT ![p].state = "SLEEPING", ![p].chan = TicksChan])
            /\ thread' = [thread EXCEPT ![p].pc = "sleep", ![p].left = left]
         \/ /\ left = 0 \/ proc[p].killed
            /\ thread' = [thread EXCEPT ![p].pc = AfterCall(p), ![p].left = 0]
            /\ UNCHANGED <<ptable, cpus>>

Panicked(c, p) == Runs(c, p, "panic") /\ UNCHANGED <<ptable, cpus, thread>>

-----------------------------------------------------------------------------
InProcess(c, p) == \/ trap(c, p) \/ yield(c, p) \/ IntoExit(c, p) \/ allocproc(c, p) \/ fork(c, p)
                   \/ exit(c, p) \/ wait(c, p) \/ Panicked(c, p)
                   \/ \E n \in KillPids : kill(c, p, n)
                   \/ \E n \in 1..MaxSleep : sleep(c, p, n)

\* Who was given a processor in this step.
Given == {<<c, cpus'[c].proc>> : c \in {d \in CPU : cpus[d].proc = None /\ cpus'[d].proc # None}}
Waits == proc[watch].state = "RUNNABLE" /\ ptable'.proc[watch].state = "RUNNABLE"

RRNext == /\ \/ TickIdle
             \/ \E c \in CPU : \/ scheduler(c) \/ EndOfTable(c)
                               \/ \E p \in Slot : InProcess(c, p)
          /\ passed' = IF Waits THEN passed \cup Given ELSE {}
          /\ UNCHANGED watch

RRSpec == RRInit /\ [][RRNext]_rvars

\* While a process is runnable, no processor runs the same other process twice:
\* its turn comes after at most NCPU * (NPROC - 1) others, wherever the scans of
\* the processors are, and whoever sleeps, forks or exits meanwhile.
RoundRobin == [][Waits => Given \cap passed = {}]_rvars

-----------------------------------------------------------------------------
\* The inductive invariant behind RoundRobin

ProcTables == [Slot -> [state : States, pid : Nat, parent : Slot \cup {None},
                        chan : Slot \cup {TicksChan, None}, killed : BOOLEAN]]

\* The table and the processors stay in range.
TableOK ==
  /\ ptable \in [lock : CPU \cup {None}, nextpid : Nat, proc : ProcTables]
  /\ cpus \in [CPU -> [proc : Slot \cup {None}, pos : 0 .. NPROC]]

\* The slot behind the last one that c looked at.
Scanned(c) == IF cpus[c].proc = None THEN cpus[c].pos ELSE cpus[c].proc + 1

\* A scan that is behind the slot waited for has met nobody in front of it since
\* the waiting began; one that is not there yet has met those behind the slot,
\* before it started again, and those it has just passed.
Turns == \A c \in CPU : \A q \in Slot : <<c, q>> \in passed =>
           IF Scanned(c) > watch THEN watch < q /\ q < Scanned(c)
           ELSE watch < q \/ q < Scanned(c)

RRInv == TableOK /\ watch \in Slot /\ passed \subseteq CPU \X Slot /\ Turns
=============================================================================
