----------------------------- MODULE ProcTable ------------------------------
(***************************************************************************)
(* What the process tables of the two kernels have in common: the slots of *)
(* ptable, the processors and the states of a process.                     *)
(***************************************************************************)
EXTENDS Integers

CONSTANTS
  NPROC,     \* slots of ptable.proc (param.h)
  NCPU,      \* processors
  KillPids,  \* the pids programs pass to kill()
  MaxSleep,  \* bound: longest sleep(n), in ticks
  MaxPid     \* bound: last pid handed out

Slot == 0 .. NPROC - 1
CPU  == 0 .. NCPU - 1
None == -1                \* the null pointer: no process, no CPU, no channel
TicksChan == NPROC        \* the channel &ticks; wait() sleeps on its own slot
initproc == 0             \* userinit() takes the first slot of an empty table

States == {"UNUSED", "EMBRYO", "SLEEPING", "RUNNABLE", "RUNNING", "ZOMBIE"}

\* A loop over ptable.proc stops at the first slot that qualifies.
First(p, S) == p \in S /\ \A q \in S : p <= q
=============================================================================
