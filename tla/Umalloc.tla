------------------------------ MODULE Umalloc ------------------------------
(***************************************************************************)
(* malloc() and free() of umalloc.c.  Addresses and sizes count headers;   *)
(* base, which is below the heap, is address 0.  head[a] is the header at  *)
(* address a, and reads NoHeader where none is.  The program may also call *)
(* sbrk() itself, so that the core of malloc() need not be one piece.      *)
(***************************************************************************)
EXTENDS Integers, FiniteSets, Sequences

CONSTANTS NALLOC,   \* units that morecore() asks for at least
          TOP,      \* units the heap can have: sbrk() fails above
          Sizes     \* the sizes malloc() is called with, in units with the header

VARIABLES head,   \* from an address to the header there, [ptr, size]
          freep,  \* where the last search ended, or -1 before the first call
          brk,    \* the end of the heap
          core,   \* the units that morecore() got
          held    \* from the address of a block the program has to its size

uvars == <<head, freep, brk, core, held>>

Addrs == 0..TOP
NoHeader == [ptr |-> 0, size |-> 0]

UmallocInit == /\ head = [a \in Addrs |-> NoHeader]
               /\ freep = -1 /\ brk = 1 /\ core = {}
               /\ held = [a \in {} |-> 0]

-----------------------------------------------------------------------------

\* Where the loop of free() stops, from p: bp belongs after the block found.
RECURSIVE FindPlace(_, _, _)
FindPlace(h, bp, p) ==
  LET next == h[p].ptr
  IN  IF (bp > p /\ bp < next) \/ (p >= next /\ (bp > p \/ bp < next)) THEN p
      ELSE FindPlace(h, bp, next)

MutFreeBlock(h, fp, bp) ==
  LET p == FindPlace(h, bp, fp)
      next == h[p].ptr
      h1 == IF bp + h[bp].size = next
            THEN [h EXCEPT ![bp] = [ptr |-> h[next].ptr, size |-> @.size + h[next].size],
                           ![next] = NoHeader]
            ELSE [h EXCEPT ![bp].ptr = next]
      h2 == IF p + h1[p].size = bp
            THEN [h1 EXCEPT ![p].size = @ + h1[bp].size,
                            ![bp] = NoHeader]
            ELSE [h1 EXCEPT ![p].ptr = bp]
  IN  [h |-> h2, fp |-> p]

\* free() of the block at bp: merged with the block above and with the one below.
FreeBlock(h, fp, bp) ==
  LET p == FindPlace(h, bp, fp)
      next == h[p].ptr
      h1 == IF bp + h[bp].size = next
            THEN [h EXCEPT ![bp] = [ptr |-> h[next].ptr, size |-> @.size + h[next].size],
                           ![next] = NoHeader]
            ELSE [h EXCEPT ![bp].ptr = next]
      h2 == IF p + h1[p].size = bp
            THEN [h1 EXCEPT ![p] = [ptr |-> h1[bp].ptr, size |-> @.size + h1[bp].size],
                            ![bp] = NoHeader]
            ELSE [h1 EXCEPT ![p].ptr = bp]
  IN  [h |-> h2, fp |-> p]

\* The first block of n units after prevp, once around the ring: <<prevp, p>>, or
\* <<prevp, -1>> when the search is back at fp.
RECURSIVE Search(_, _, _, _)
Search(h, fp, n, prevp) ==
  LET p == h[prevp].ptr
  IN  IF h[p].size >= n THEN <<prevp, p>>
      ELSE IF p = fp THEN <<prevp, -1>> ELSE Search(h, fp, n, p)

\* Take n units at the end of block p, or all of it.
Take(h, n, prevp, p) ==
  LET exact == h[p].size = n
      at == IF exact THEN p ELSE p + h[p].size - n
      h1 == IF exact THEN [h EXCEPT ![prevp].ptr = h[p].ptr]
            ELSE [h EXCEPT ![p].size = @ - n, ![at] = [ptr |-> 0, size |-> n]]
  IN  /\ head' = h1 /\ freep' = prevp
      /\ held' = [a \in DOMAIN held \cup {at} |-> IF a = at THEN n ELSE held[a]]

malloc(n) ==
  LET h == IF freep = -1 THEN [head EXCEPT ![0] = NoHeader] ELSE head
      fp == IF freep = -1 THEN 0 ELSE freep
      found == Search(h, fp, n, fp)
      nu == IF n < NALLOC THEN NALLOC ELSE n
      more == FreeBlock([h EXCEPT ![brk] = [ptr |-> 0, size |-> nu]], fp, brk)
      again == Search(more.h, more.fp, n, more.fp)
  IN  \/ /\ found[2] # -1
         /\ Take(h, n, found[1], found[2])
         /\ UNCHANGED <<brk, core>>
      \/ /\ found[2] = -1 /\ brk + nu - 1 > TOP     \* sbrk() fails
         /\ head' = h /\ freep' = fp
         /\ UNCHANGED <<brk, core, held>>
      \/ /\ found[2] = -1 /\ brk + nu - 1 <= TOP    \* morecore()
         /\ Take(more.h, n, again[1], again[2])
         /\ brk' = brk + nu /\ core' = core \cup (brk..(brk + nu - 1))

free(bp) ==
  LET f == FreeBlock(head, freep, bp)
  IN  /\ head' = f.h /\ freep' = f.fp
      /\ held' = [a \in DOMAIN held \ {bp} |-> held[a]]
      /\ UNCHANGED <<brk, core>>

\* The program moves the end of the heap itself.
Sbrk == /\ brk < TOP /\ brk' = brk + 1
        /\ UNCHANGED <<head, freep, core, held>>

UmallocNext == \/ \E n \in Sizes : malloc(n)
               \/ \E bp \in DOMAIN held : free(bp)
               \/ Sbrk

-----------------------------------------------------------------------------

\* The addresses on the ring, from freep.
RECURSIVE RingFrom(_, _)
RingFrom(p, seen) == IF p \in seen THEN seen ELSE RingFrom(head[p].ptr, seen \cup {p})
Ring == RingFrom(freep, {})

Units(a, size) == a..(a + size - 1)

\* malloc() neither loses memory nor gives it out twice: blocks in use and free
\* blocks are disjoint and make up all that morecore() got; the ring passes every
\* free block once, in the order of addresses, and neighbours are merged.
HeapExact ==
  freep # -1 =>
    LET use == {Units(a, held[a]) : a \in DOMAIN held}
        spare == {Units(a, head[a].size) : a \in Ring \ {0}}
    IN  /\ UNION use \cup UNION spare = core
        /\ \A x, y \in use \cup spare : x # y => x \cap y = {}
        /\ use \cap spare = {} /\ Cardinality(spare) = Cardinality(Ring \ {0})
        /\ \A a \in DOMAIN held : head[a].size = held[a]
        /\ 0 \in Ring /\ freep \in Ring
        /\ \A a \in Ring : LET next == head[a].ptr
             IN /\ next \in Ring
                /\ next > a \/ next = 0
                /\ ~\E b \in Ring : (b > a /\ b < next) \/ (next = 0 /\ b > a)
                /\ a # 0 => a + head[a].size # next

=============================================================================
