----------------------------- MODULE BlockStore -----------------------------
(***************************************************************************)
(* What the buffer cache promises to the log and the file system: one      *)
(* process at a time has a block, from bread() to brelse(); a block keeps  *)
(* its contents until the process that has it writes others, whatever the  *)
(* cache and the disk do meanwhile.                                        *)
(***************************************************************************)
CONSTANTS Block, Val, Proc

VARIABLES
  content,  \* the contents of each block
  holders   \* the processes that have it

Init ==
  /\ content \in [Block -> Val]
  /\ holders = [b \in Block |-> {}]

Take(p, b) ==
  /\ holders[b] = {}
  /\ holders' = [holders EXCEPT ![b] = {p}]
  /\ UNCHANGED content

Write(p, b, v) ==
  /\ p \in holders[b]
  /\ content' = [content EXCEPT ![b] = v]
  /\ UNCHANGED holders

Give(p, b) ==
  /\ p \in holders[b]
  /\ holders' = [holders EXCEPT ![b] = {}]
  /\ UNCHANGED content

Next ==
  \E p \in Proc, b \in Block :
    \/ Take(p, b) \/ Give(p, b)
    \/ \E v \in Val : Write(p, b, v)

Spec == Init /\ [][Next]_<<content, holders>>
=============================================================================
