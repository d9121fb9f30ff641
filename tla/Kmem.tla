-------------------------------- MODULE Kmem --------------------------------
(***************************************************************************)
(* What the original and the modified kalloc.c share: the free list kept   *)
(* inside the free pages themselves, kfree(), and the boot sequence of     *)
(* main(), during which kmem.lock is not used.                             *)
(*                                                                         *)
(* next[x] is the word of page x where kfree() keeps its link, whoever      *)
(* owns the page: a holder writes what it likes there.                      *)
(***************************************************************************)
EXTENDS Integers

CONSTANTS
  NPAGE,   \* physical pages from end to PHYSTOP
  NLOW,    \* those of them below 4 MB, which kinit1() frees
  NCPU,
  Words    \* what holders write where the list had its links

ASSUME KmemAssumption ==
  /\ NPAGE \in Nat /\ NLOW \in 0 .. NPAGE
  /\ NCPU \in Nat \ {0}
  /\ Words \subseteq Nat

Page == 1 .. NPAGE
CPU  == 0 .. NCPU - 1
boot == 0              \* the processor that runs main()
Null == 0
Junk == NPAGE + 1      \* the pointer that memset(v, 1, PGSIZE) leaves: no page
NoCPU == -1

VARIABLES
  phase,      \* how far main() is
  todo,       \* freerange(): the next page to free
  use_lock, klock, freelist,   \* struct kmem
  next,
  used,       \* pages that callers of kalloc() hold
  pc, v,      \* per CPU: where it is in kalloc() or kfree(), the argument of kfree()
  ret         \* per CPU: what kalloc() returned, until it is called again

kmemVars == <<phase, todo, use_lock, klock, freelist, next, used, pc, v, ret>>

KmemInit ==
  /\ phase = "kinit1" /\ todo = 1
  /\ use_lock = FALSE /\ klock = NoCPU
  /\ freelist = Null
  /\ next = [x \in Page |-> Junk]
  /\ used = {}
  /\ pc = [c \in CPU |-> "idle"]
  /\ v = [c \in CPU |-> Null]
  /\ ret = [c \in CPU |-> Null]

\* The other processors find nothing to run, hence nothing to allocate, until
\* userinit() makes the first process, after kinit2().
MayCall(c) ==
  pc[c] = "idle" /\ (phase = "up" \/ (phase = "main" /\ c = boot))

Acquire(c) ==
  IF use_lock THEN klock = NoCPU /\ klock' = c ELSE UNCHANGED klock

Release(c) == klock' = IF use_lock THEN NoCPU ELSE klock

Goto(c, l) == pc' = [pc EXCEPT ![c] = l]

-----------------------------------------------------------------------------
\* kfree()

\* Up to the memset(), which is done without the lock.
KfreeJunk(c, x) ==
  /\ v' = [v EXCEPT ![c] = x]
  /\ next' = [next EXCEPT ![x] = Junk]
  /\ Goto(c, "link")

\* A holder gives its page back.
KfreeCall(c, x) ==
  /\ MayCall(c)
  /\ x \in used /\ used' = used \ {x}
  /\ KfreeJunk(c, x)
  /\ UNCHANGED <<phase, todo, use_lock, klock, freelist, ret>>

MutKfreeLink(c) ==
  /\ pc[c] = "link"
  /\ next' = [next EXCEPT ![v[c]] = freelist]
  /\ Goto(c, "push")
  /\ UNCHANGED <<phase, todo, use_lock, klock, freelist, used, v, ret>>
KfreeLink(c) ==
  /\ pc[c] = "link"
  /\ Acquire(c)
  /\ next' = [next EXCEPT ![v[c]] = freelist]
  /\ Goto(c, "push")
  /\ UNCHANGED <<phase, todo, use_lock, freelist, used, v, ret>>

KfreePush(c) ==
  /\ pc[c] = "push"
  /\ freelist' = v[c]
  /\ v' = [v EXCEPT ![c] = Null]
  /\ Release(c)
  /\ Goto(c, "idle")
  /\ UNCHANGED <<phase, todo, use_lock, next, used, ret>>

\* kalloc() takes the lock; what it does with the list is the allocator's.
KallocEnter(c) ==
  /\ MayCall(c)
  /\ Acquire(c)
  /\ Goto(c, "kalloc")
  /\ ret' = [ret EXCEPT ![c] = Null]
  /\ UNCHANGED <<phase, todo, use_lock, freelist, next, used, v>>

\* kalloc() releases the lock and returns x, which may be null.
KallocReturn(c, x) ==
  /\ ret' = [ret EXCEPT ![c] = x]
  /\ used' = used \cup ({x} \ {Null})
  /\ Release(c)
  /\ Goto(c, "idle")
  /\ UNCHANGED <<phase, todo, use_lock, v>>

-----------------------------------------------------------------------------
\* main(): kinit1(), then everything up to startothers(), then kinit2()

Last == IF phase = "kinit1" THEN NLOW ELSE NPAGE

\* One turn of the loop of freerange().
Freerange ==
  /\ phase \in {"kinit1", "kinit2"}
  /\ pc[boot] = "idle" /\ todo <= Last
  /\ KfreeJunk(boot, todo)
  /\ todo' = todo + 1
  /\ UNCHANGED <<phase, use_lock, klock, freelist, used, ret>>

After == [kinit1 |-> "main", main |-> "kinit2", kinit2 |-> "up"]

\* main() goes on; leaving kinit2() turns the lock on.
MainGoesOn ==
  /\ phase # "up" /\ pc[boot] = "idle"
  /\ phase = "main" \/ todo > Last
  /\ phase' = After[phase]
  /\ use_lock' = (phase = "kinit2")
  /\ UNCHANGED <<todo, klock, freelist, next, used, pc, v, ret>>

\* The holder of a page writes on it.
Scribble(x) ==
  /\ x \in used
  /\ \E l \in Words : next' = [next EXCEPT ![x] = l]
  /\ UNCHANGED <<phase, todo, use_lock, klock, freelist, used, pc, v, ret>>

-----------------------------------------------------------------------------
\* Pages on their way through kfree(), and the pages nobody has.
Returning == {v[c] : c \in CPU} \ {Null}
Free == {x \in Page : x < todo /\ x \notin used \cup Returning}

-----------------------------------------------------------------------------
\* The pages on the list, following next from the head.
Chain[n \in 0 .. NPAGE] ==
  IF n = 0 THEN freelist
  ELSE IF Chain[n - 1] \in Page THEN next[Chain[n - 1]] ELSE Chain[n - 1]

\* The list holds exactly the pages nobody has, whatever their former holders
\* left in them, and ends: no page leaks, kalloc() fails only when all are taken.
FreeListExact ==
  /\ {Chain[n] : n \in 0 .. NPAGE} \ {Null} = Free
  /\ Chain[NPAGE] = Null

-----------------------------------------------------------------------------
\* The inductive invariant of both allocators

\* The variables stay in range; the head of the list is a page or null.
KmemTypeOK ==
  /\ phase \in {"kinit1", "main", "kinit2", "up"} /\ todo \in 1 .. NPAGE + 1
  /\ use_lock \in BOOLEAN /\ klock \in CPU \cup {NoCPU}
  /\ freelist \in Page \cup {Null} /\ next \in [Page -> Nat]
  /\ used \subseteq Page
  /\ pc \in [CPU -> {"idle", "link", "push", "kalloc"}]
  /\ v \in [CPU -> Page \cup {Null}]

\* Until the lock is in use only the boot processor is in the allocator.
LockInv ==
  /\ use_lock <=> phase = "up"
  /\ phase # "up" => klock = NoCPU /\ \A c \in CPU \ {boot} : pc[c] = "idle"
  /\ phase = "up" => \A c \in CPU : pc[c] \in {"push", "kalloc"} <=> klock = c

\* A page is with one holder, or in one kfree(), or with the allocator.
PageInv ==
  /\ \A c \in CPU :
       /\ v[c] # Null <=> pc[c] \in {"link", "push"}
       /\ v[c] # Null => v[c] < todo /\ v[c] \notin used
  /\ \A c, d \in CPU : v[c] = v[d] /\ v[c] # Null => c = d
  /\ \A x \in used : x < todo

\* The links lead from free pages to free pages, no two to the same, none to
\* the head: taking the head leaves no link to a page in use.
ListInv ==
  /\ freelist \in Free \cup {Null}
  /\ \A x \in Free : next[x] \in Free \cup {Null} /\ (next[x] = freelist => freelist = Null)
  /\ \A x, y \in Free : next[x] = next[y] /\ next[x] # Null => x = y
  /\ \A c \in CPU : pc[c] = "push" => next[v[c]] = freelist

KmemInv == KmemTypeOK /\ LockInv /\ PageInv /\ ListInv

\* The pages of F are l[1], ..., l[k], from h along the links to null.
IsList(F, h, link, k, l) ==
  /\ l \in [1 .. k -> F] /\ \A x \in F : \E i \in 1 .. k : l[i] = x
  /\ \A i, j \in 1 .. k : l[i] = l[j] => i = j
  /\ h = IF k = 0 THEN Null ELSE l[1]
  /\ \A i \in 1 .. k : link[l[i]] = IF i = k THEN Null ELSE l[i + 1]

\* ListInv alone allows a circle of free pages beside the list.
OneList == \E k \in 0 .. NPAGE : \E l \in [1 .. k -> Page] :
             IsList(Free, freelist, next, k, l)
=============================================================================
