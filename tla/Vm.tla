--------------------------------- MODULE Vm ---------------------------------
(***************************************************************************)
(* The memory of a process: vm.c, as operators.                            *)
(*                                                                         *)
(* An address space vm is [kpt, pt, pg, guard]: page tables of the kernel  *)
(* half, the page tables of the user half by number, the user pages that   *)
(* are present by number, and those of them the user may not touch.  An    *)
(* operator takes s = [free, vm], with the number of free physical pages,  *)
(* and returns the same with a result r.  kalloc() fails when none is      *)
(* free, which can happen at every page and at every page table.           *)
(***************************************************************************)
EXTENDS Integers, FiniteSets, Sequences, SequencesExt, FiniteSetsExt

CONSTANTS PGSIZE,      \* bytes of a page
          NPTENTRIES,  \* pages that a page table maps
          KPTS,        \* page tables that map the kernel
          KERNBASE,    \* first address that belongs to the kernel
          WORD         \* addresses are computed modulo WORD

ASSUME VmAssumption ==
  /\ {PGSIZE, NPTENTRIES, KPTS, KERNBASE, WORD} \subseteq Nat \ {0}
  /\ WORD > KERNBASE

Unmapped == [kpt |-> 0, pt |-> {}, pg |-> {}, guard |-> {}]

\* PGROUNDUP(sz) as a number of pages.
Frames(sz) == (sz + PGSIZE - 1) \div PGSIZE

\* The physical pages an address space takes, with its page directory.
Taken(vm) == 1 + vm.kpt + Cardinality(vm.pt) + Cardinality(vm.pg)

-----------------------------------------------------------------------------

\* mappages() of one page: walkpgdir() may need a page for the page table.
mappages(s, n) ==
  LET t == n \div NPTENTRIES
      here == t \in s.vm.pt
  IN  IF ~here /\ s.free = 0 THEN [s EXCEPT !.r = -1]
      ELSE [s EXCEPT !.free = IF here THEN @ ELSE @ - 1,
                     !.vm.pt = @ \cup {t}, !.vm.pg = @ \cup {n}]

\* Page tables stay; the result is the new size.
deallocuvm(s, oldsz, newsz) ==
  LET gone == {n \in s.vm.pg : n >= Frames(newsz) /\ n * PGSIZE < oldsz}
  IN  IF newsz >= oldsz THEN [s EXCEPT !.r = oldsz]
      ELSE [s EXCEPT !.free = @ + Cardinality(gone), !.vm.pg = @ \ gone,
                     !.vm.guard = @ \ gone, !.r = newsz]

freevm(s) ==
  LET u == deallocuvm(s, KERNBASE, 0)
  IN  [u EXCEPT !.free = @ + Taken(u.vm), !.vm = Unmapped, !.r = 0]

\* The page directory and the page tables of the kernel, or nothing (r = 0).
setupkvm(free) ==
  LET k == Min({KPTS, free - 1})
      s == [free |-> free - 1 - k, vm |-> [Unmapped EXCEPT !.kpt = k], r |-> 1]
  IN  IF free = 0 THEN [free |-> 0, vm |-> Unmapped, r |-> 0]
      ELSE IF k < KPTS THEN freevm(s) ELSE s

MutAllocuvm(s, oldsz, newsz) ==
  LET first == Frames(oldsz)
      Grow(u, n) ==
        IF u.r = 0 THEN u
        ELSE IF u.free = 0 THEN [deallocuvm(u, newsz, oldsz) EXCEPT !.r = 0]
        ELSE LET m == mappages([u EXCEPT !.free = @ - 1], n)
             IN  IF m.r # -1 THEN m
                 ELSE [deallocuvm(m, newsz, oldsz) EXCEPT !.r = 0]
  IN  IF newsz >= KERNBASE THEN [s EXCEPT !.r = 0]
      ELSE IF newsz < oldsz THEN [s EXCEPT !.r = oldsz]
      ELSE FoldLeft(Grow, [s EXCEPT !.r = newsz],
                    [k \in 1..(Frames(newsz) - first) |-> first + k - 1])

\* Page by page; a failure gives the new pages back.  The result is 0 on error.
allocuvm(s, oldsz, newsz) ==
  LET first == Frames(oldsz)
      Grow(u, n) ==
        IF u.r = 0 THEN u
        ELSE IF u.free = 0 THEN [deallocuvm(u, newsz, oldsz) EXCEPT !.r = 0]
        ELSE LET m == mappages([u EXCEPT !.free = @ - 1], n)
             IN  IF m.r # -1 THEN m
                 ELSE [deallocuvm(m, newsz, oldsz) EXCEPT !.free = @ + 1, !.r = 0]
  IN  IF newsz >= KERNBASE THEN [s EXCEPT !.r = 0]
      ELSE IF newsz < oldsz THEN [s EXCEPT !.r = oldsz]
      ELSE FoldLeft(Grow, [s EXCEPT !.r = newsz],
                    [k \in 1..(Frames(newsz) - first) |-> first + k - 1])

\* copyuvm() panics if a page below sz is not present.
CanCopy(vm, sz) == \A n \in 0..(Frames(sz) - 1) : n \in vm.pg

\* A copy of the pages below sz of vm, with their protection; r = 0 on error.
copyuvm(free, vm, sz) ==
  LET Copy(u, n) ==
        IF u.r = 0 THEN u
        ELSE IF u.free = 0 THEN freevm(u)
        ELSE LET m == mappages([u EXCEPT !.free = @ - 1], n)
             IN  IF m.r = -1 THEN freevm([m EXCEPT !.free = @ + 1])
                 ELSE [m EXCEPT !.vm.guard = IF n \in vm.guard THEN @ \cup {n} ELSE @]
      d == setupkvm(free)
  IN  IF d.r = 0 THEN d ELSE FoldLeft(Copy, d, [k \in 1..Frames(sz) |-> k - 1])

\* May the user (or copyout() for the user) use bytes a .. a+len-1?
uva2ka(vm, a, len) ==
  \A n \in (a \div PGSIZE)..((a + len - 1) \div PGSIZE) : n \in vm.pg \ vm.guard

\* growproc(): the new size, or 0 on error.
growproc(s, sz, n) ==
  IF n > 0 THEN allocuvm(s, sz, (sz + n) % WORD)
  ELSE IF n < 0 THEN deallocuvm(s, sz, (sz + n) % WORD)
  ELSE [s EXCEPT !.r = sz]

\* exec() from the ELF file units: the image, or r = 0 with everything given back.
\* hdr is the header, ph the program header, text the bytes of the segment.
execvm(free, hdr, ph, text, arglen) ==
  LET k == setupkvm(free)
      memsz == ph[1][1]
      a == allocuvm(k, 0, memsz)
      top == (Frames(memsz) + 2) * PGSIZE
      b == allocuvm(a, top - 2 * PGSIZE, top)
      c == [b EXCEPT !.vm.guard = {Frames(memsz)}]
  IN  IF Len(hdr) # 1 \/ hdr[1][2] # "ELF" THEN [k EXCEPT !.free = free, !.vm = Unmapped, !.r = 0]
      ELSE IF k.r = 0 THEN k
      ELSE IF Len(ph) # 1 THEN freevm(k)
      ELSE IF a.r = 0 \/ Len(text) # 1 THEN freevm(a)
      ELSE IF b.r = 0 THEN freevm(b)
      ELSE IF ~uva2ka(c.vm, top - arglen, arglen) THEN freevm(c)
      ELSE c

=============================================================================
