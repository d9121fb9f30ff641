--------------------------- MODULE KallocBestFit ----------------------------
(***************************************************************************)
(* The allocator of xv6-public-modificado/kalloc.c: each free page also    *)
(* records its size, and kalloc() searches the list for the smallest block *)
(* that is large enough.                                                   *)
(***************************************************************************)
EXTENDS Kmem

PGSIZE   == 4096
JunkSize == 16843009        \* the four bytes 1 that memset() leaves in size

VARIABLES
  size,                     \* the word of each page where kfree() keeps r->size
  r, prev, best, best_prev  \* per CPU: the locals of kalloc()

locals == <<r, prev, best, best_prev>>
vars == <<kmemVars, size, locals>>

Init ==
  /\ KmemInit
  /\ size = [x \in Page |-> JunkSize]
  /\ r = [c \in CPU |-> Null] /\ prev = [c \in CPU |-> Null]
  /\ best = [c \in CPU |-> Null] /\ best_prev = [c \in CPU |-> Null]

-----------------------------------------------------------------------------
\* The other locals are null: Init and Take leave them so.
KallocStart(c) ==
  /\ KallocEnter(c)
  /\ r' = [r EXCEPT ![c] = freelist]
  /\ UNCHANGED <<size, prev, best, best_prev>>

MutFits(c) == size[r[c]] >= PGSIZE /\ (best[c] = Null \/ size[r[c]] <= size[best[c]])
Fits(c) == size[r[c]] >= PGSIZE /\ (best[c] = Null \/ size[r[c]] < size[best[c]])

\* One turn of the search.
Search(c) ==
  /\ pc[c] = "kalloc" /\ r[c] # Null
  /\ best' = [best EXCEPT ![c] = IF Fits(c) THEN r[c] ELSE @]
  /\ best_prev' = [best_prev EXCEPT ![c] = IF Fits(c) THEN prev[c] ELSE @]
  /\ prev' = [prev EXCEPT ![c] = r[c]]
  /\ r' = [r EXCEPT ![c] = next[r[c]]]
  /\ UNCHANGED <<kmemVars, size>>

\* kalloc() returns and its locals are gone.
Forget(c) ==
  /\ prev' = [prev EXCEPT ![c] = Null]
  /\ best' = [best EXCEPT ![c] = Null]
  /\ best_prev' = [best_prev EXCEPT ![c] = Null]

\* The block found is unlinked and returned; or none was, and null is.
MutTake(c) ==
  /\ pc[c] = "kalloc" /\ r[c] = Null
  /\ next' = IF best[c] # Null /\ best_prev[c] # Null
             THEN [next EXCEPT ![best_prev[c]] = next[best[c]]] ELSE next
  /\ KallocReturn(c, best[c])
  /\ Forget(c)
  /\ UNCHANGED <<freelist, size, r>>
Take(c) ==
  /\ pc[c] = "kalloc" /\ r[c] = Null
  /\ freelist' = IF best[c] # Null /\ best_prev[c] = Null THEN next[best[c]] ELSE freelist
  /\ next' = IF best[c] # Null /\ best_prev[c] # Null
             THEN [next EXCEPT ![best_prev[c]] = next[best[c]]] ELSE next
  /\ KallocReturn(c, best[c])
  /\ Forget(c)
  /\ UNCHANGED <<size, r>>

-----------------------------------------------------------------------------
\* kfree() and the holders of pages write the size as well.
Junked(c, x) == KfreeCall(c, x) /\ size' = [size EXCEPT ![x] = JunkSize]
Linked(c) == KfreeLink(c) /\ size' = [size EXCEPT ![v[c]] = PGSIZE]
Pushed(c) == KfreePush(c) /\ UNCHANGED size
FreerangeStep == Freerange /\ size' = [size EXCEPT ![todo] = JunkSize]
Scribbled(x) ==
  Scribble(x) /\ \E n \in Words : size' = [size EXCEPT ![x] = n]

Kalloc(c) == KallocStart(c) \/ Search(c) \/ Take(c)
Kfree(c)  == (\E x \in used : Junked(c, x)) \/ Linked(c) \/ Pushed(c)

Next ==
  \/ \E c \in CPU : Kalloc(c)
  \/ /\ \/ \E c \in CPU : Kfree(c)
        \/ FreerangeStep
        \/ MainGoesOn /\ UNCHANGED size
        \/ \E x \in Page : Scribbled(x)
     /\ UNCHANGED locals

Spec == Init /\ [][Next]_vars

-----------------------------------------------------------------------------
\* Properties

Lifo == INSTANCE KallocLifo WITH
          head <- [c \in CPU |-> IF pc[c] = "kalloc" THEN freelist ELSE Null]

\* The best-fit search never chooses anything but the head of the list: all
\* blocks have one page, so the modified kalloc() implements the original one.
SameAsOriginal == Lifo!LifoSpec

Promise == INSTANCE PageAllocator WITH free <- Free

\* kalloc() returns a page only while nobody else has it: the list inside the
\* pages, and the boot without a lock, implement PageAllocator.
Promised == Promise!Spec

\* Every block on the list has one page, so the first one is chosen and no
\* later one is better: the search holds nothing, or the head of the list.
SearchInv ==
  /\ size \in [Page -> Nat]
  /\ r \in [CPU -> Page \cup {Null}] /\ prev \in [CPU -> Page \cup {Null}]
  /\ best \in [CPU -> Page \cup {Null}] /\ best_prev \in [CPU -> {Null}]
  /\ \A x \in Free : size[x] = PGSIZE
  /\ \A c \in CPU :
       /\ pc[c] = "push" => size[v[c]] = PGSIZE
       /\ pc[c] # "kalloc" => r[c] = Null /\ prev[c] = Null /\ best[c] = Null
       /\ pc[c] = "kalloc" =>
            /\ r[c] \in Free \cup {Null}
            /\ IF best[c] = Null THEN r[c] = freelist /\ prev[c] = Null
               ELSE best[c] = freelist

\* The inductive invariant behind SameAsOriginal.
BestFitInv == KmemInv /\ SearchInv
=============================================================================
