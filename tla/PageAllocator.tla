---------------------------- MODULE PageAllocator ---------------------------
(***************************************************************************)
(* What the kernel expects of kalloc() and kfree(): kalloc() returns a page *)
(* only while it is free, so that it has one holder, and a page comes back  *)
(* only from its holder.  A page that is neither free nor used is on its   *)
(* way through kfree(), or has not been handed to the allocator yet.       *)
(***************************************************************************)
CONSTANTS Page, CPU, Null

VARIABLES
  free, used,
  ret          \* what kalloc() returned to each processor

Init == free = {} /\ used = {} /\ ret = [c \in CPU |-> Null]

\* A call begins, or fails.
NoPage(c) == ret' = [ret EXCEPT ![c] = Null] /\ UNCHANGED <<free, used>>

Grant(c, x) ==
  /\ x \in free /\ free' = free \ {x} /\ used' = used \cup {x}
  /\ ret' = [ret EXCEPT ![c] = x]

GiveUp(x) == x \in used /\ used' = used \ {x} /\ UNCHANGED <<free, ret>>
Insert(x) == x \notin free \cup used /\ free' = free \cup {x} /\ UNCHANGED <<used, ret>>

Next ==
  \/ \E c \in CPU : NoPage(c) \/ \E x \in Page : Grant(c, x)
  \/ \E x \in Page : GiveUp(x) \/ Insert(x)

Spec == Init /\ [][Next]_<<free, used, ret>>
=============================================================================
