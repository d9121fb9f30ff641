----------------------------- MODULE AtomicDisk -----------------------------
(***************************************************************************)
(* What the log promises to the file system: system calls write a common   *)
(* view of the blocks; what is on the disk for good changes in one step,   *)
(* from one view to a later one, and only when no system call is half way  *)
(* through; a crash goes back to it.                                       *)
(***************************************************************************)
CONSTANTS Block, Val, Proc

VARIABLES
  durable,  \* the contents of the blocks after a crash and recovery
  view,     \* the contents a system call reads
  active    \* the processes between begin_op() and end_op()

Init ==
  /\ durable \in [Block -> Val]
  /\ view = durable
  /\ active = {}

Begin(p) == active' = active \cup {p} /\ UNCHANGED <<durable, view>>

Write(p, b, v) ==
  /\ p \in active
  /\ view' = [view EXCEPT ![b] = v]
  /\ UNCHANGED <<durable, active>>

End(p) == active' = active \ {p} /\ UNCHANGED <<durable, view>>

Commit == active = {} /\ durable' = view /\ UNCHANGED <<view, active>>

Crash == view' = durable /\ active' = {} /\ UNCHANGED durable

Next ==
  \/ \E p \in Proc : Begin(p) \/ End(p)
  \/ \E p \in Proc, b \in Block, v \in Val : Write(p, b, v)
  \/ Commit \/ Crash

Spec == Init /\ [][Next]_<<durable, view, active>>
=============================================================================
