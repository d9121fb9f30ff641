------------------------------- MODULE Streams -------------------------------
(***************************************************************************)
(* Where processes wait for each other's bytes and the locks they use for  *)
(* it: the pipes, the console and the spin locks.  The three share no      *)
(* state; a behaviour is one of one of them, as topic says.                *)
(***************************************************************************)
EXTENDS Pipe, Console, Spinlock, TLC

VARIABLE topic

\* The processes are the same in all three, and none is special.
Symmetry == Permutations(Proc) \cup Permutations(Cpu)

Messages == {<<"x">>, <<"y", "x", "y">>}
Keys == {"a", "\n", "^D", "^U", "^H", "^P"}

Init == /\ PipeInit /\ ConsoleInit /\ SpinInit
        /\ topic \in {"pipe", "console", "lock"}

Next == /\ \/ topic = "pipe" /\ PipeNext /\ UNCHANGED <<cvars, svars>>
           \/ topic = "console" /\ ConsoleNext /\ UNCHANGED <<pvars, svars>>
           \/ topic = "lock" /\ SpinNext /\ UNCHANGED <<pvars, cvars>>
        /\ UNCHANGED topic

Spec == Init /\ [][Next]_<<pvars, cvars, svars, topic>>
=============================================================================
