----------------------------- MODULE KallocLifo -----------------------------
(***************************************************************************)
(* The allocator of xv6-public/kalloc.c: a stack of free pages.            *)
(***************************************************************************)
EXTENDS Kmem

VARIABLE head      \* per CPU: kalloc()'s local r, the head it found

lifoVars == <<kmemVars, head>>

LifoInit == KmemInit /\ head = [c \in CPU |-> Null]

KallocHead(c) ==
  /\ KallocEnter(c)
  /\ head' = [head EXCEPT ![c] = freelist]

KallocPop(c) ==
  /\ pc[c] = "kalloc"
  /\ freelist' = IF head[c] = Null THEN freelist ELSE next[head[c]]
  /\ KallocReturn(c, head[c])
  /\ head' = [head EXCEPT ![c] = Null]
  /\ UNCHANGED next

LifoKfree(c) == KfreeLink(c) \/ KfreePush(c) \/ \E x \in used : KfreeCall(c, x)

LifoNext ==
  \/ \E c \in CPU : KallocHead(c) \/ KallocPop(c)
  \/ /\ Freerange \/ MainGoesOn \/ (\E c \in CPU : LifoKfree(c)) \/ \E x \in Page : Scribble(x)
     /\ UNCHANGED head

LifoSpec == LifoInit /\ [][LifoNext]_lifoVars

\* The inductive invariant behind LifoPromised: the head kalloc() is about to take
\* is still the head.
LifoInv ==
  /\ KmemInv
  /\ head \in [CPU -> Page \cup {Null}]
  /\ \A c \in CPU : pc[c] = "kalloc" => head[c] = freelist

LifoPromise == INSTANCE PageAllocator WITH free <- Free

\* kalloc() returns a page only while nobody else has it: the list
\* inside the pages, and the boot without a lock, implement PageAllocator.
LifoPromised == LifoPromise!Spec
=============================================================================
