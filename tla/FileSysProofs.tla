--------------------------- MODULE FileSysProofs ----------------------------
(***************************************************************************)
(* The reference counts of inodes, files and pipes, for any programs and   *)
(* any sizes of the tables.                                                *)
(***************************************************************************)
EXTENDS FileSys, FiniteSetTheorems, WellFoundedInduction, TLAPS

One(b) == IF b THEN 1 ELSE 0

-----------------------------------------------------------------------------
(* What the operations on inodes do to the counts of the cache.  e is the  *)
(* file system after an operation on d that adds f[i] to the count of i.   *)

Counts(d, e, f) ==
  /\ FsOK(e) /\ (d.panic => e.panic)
  /\ e.panic \/ \A j \in Inums : e.ic[j].ref = d.ic[j].ref + f[j]

Nothing == [j \in Inums |-> 0]
Plus(i) == [j \in Inums |-> One(j = i)]
Minus(i) == [j \in Inums |-> -One(j = i)]

\* No count is negative, unless there was a panic.
Good(d) == FsOK(d) /\ (d.panic \/ \A j \in Inums : d.ic[j].ref >= 0)

LEMMA Ints ==
  /\ \A b : One(b) \in Int
  /\ Nothing \in [Inums -> Int] /\ \A j \in Inums : Nothing[j] = 0
  /\ \A i : Plus(i) \in [Inums -> Int] /\ \A j \in Inums : Plus(i)[j] = One(j = i)
  /\ \A i : Minus(i) \in [Inums -> Int] /\ \A j \in Inums : Minus(i)[j] = -One(j = i)
  BY DEF One, Nothing, Plus, Minus

LEMMA PanicOK ==
  ASSUME NEW d, FsOK(d), NEW f
  PROVE  Counts(d, Panic(d), f)
  BY DEF FsOK, Panic, Counts

LEMMA SameOK ==
  ASSUME NEW d, FsOK(d)
  PROVE  Counts(d, d, Nothing)
  BY Ints DEF FsOK, Counts

LEMMA iupdateOK ==
  ASSUME NEW d, FsOK(d), NEW i
  PROVE  Counts(d, iupdate(d, i), Nothing)
  BY Ints DEF FsOK, iupdate, Counts

LEMMA igetOK ==
  ASSUME NEW d, Good(d), NEW i
  PROVE  Counts(d, iget(d, i), Plus(i))
<1> USE DEF Good
<1>1. CASE i \notin Inums \/ (i \in Inums /\ d.ic[i].ref <= 0 /\ Cardinality(Cached(d)) = NINODE)
  BY <1>1, PanicOK DEF iget, FsOK
<1>2. CASE i \in Inums /\ d.ic[i].ref > 0
  <2>1. iget(d, i) = [d EXCEPT !.ic[i].ref = @ + 1]
    BY <1>2 DEF iget
  <2> QED
    BY <1>2, <2>1, Ints DEF FsOK, Counts, One
<1>3. CASE i \in Inums /\ d.ic[i].ref <= 0 /\ Cardinality(Cached(d)) # NINODE
  <2>1. iget(d, i) = [d EXCEPT !.ic[i] = [NotCached EXCEPT !.ref = 1]] /\ (d.panic \/ d.ic[i].ref = 0)
    BY <1>3 DEF iget, FsOK
  <2> QED
    BY <1>3, <2>1, Ints DEF FsOK, Counts, One, NotCached
<1> QED
  BY <1>1, <1>2, <1>3 DEF FsOK

LEMMA idupOK ==
  ASSUME NEW d, FsOK(d), NEW i \in Inums
  PROVE  Counts(d, idup(d, i), Plus(i))
  BY Ints DEF FsOK, idup, Counts, One

LEMMA ilockOK ==
  ASSUME NEW d, FsOK(d), NEW i \in Inums
  PROVE  Counts(d, ilock(d, i), Nothing)
<1>1. CASE ilock(d, i) = Panic(d)
  BY <1>1, PanicOK
<1>2. CASE ilock(d, i) = d
  BY <1>2, SameOK
<1>3. CASE ilock(d, i) = [d EXCEPT !.ic[i].valid = TRUE, !.ic[i].ip = d.din[i]]
  BY <1>3, Ints DEF FsOK, Counts
<1> QED
  BY <1>1, <1>2, <1>3 DEF ilock

\* The copy of an inode in the cache, the bitmap and the blocks are not counted.
LEMMA InodeOK ==
  ASSUME NEW d, FsOK(d), NEW i \in Inums, NEW x
  PROVE  Counts(d, [d EXCEPT !.ic[i].ip = x], Nothing)
  BY Ints DEF FsOK, Counts

LEMMA BitmapOK ==
  ASSUME NEW d, FsOK(d), NEW u, NEW b, d.panic => b
  PROVE  Counts(d, [d EXCEPT !.used = u, !.panic = b], Nothing)
  BY Ints DEF FsOK, Counts

\* One operation after another.
LEMMA Then ==
  ASSUME NEW d, NEW e, NEW f, NEW x \in [Inums -> Int], NEW y \in [Inums -> Int],
         FsOK(d), Counts(d, e, x), Counts(e, f, y)
  PROVE  Counts(d, f, [j \in Inums |-> x[j] + y[j]])
  BY DEF Counts, FsOK

LEMMA ThenNothing ==
  ASSUME NEW d, NEW e, NEW f, NEW x \in [Inums -> Int], FsOK(d), Counts(d, e, x), Counts(e, f, Nothing)
  PROVE  Counts(d, f, x)
  BY Ints DEF Counts, FsOK

LEMMA itruncOK ==
  ASSUME NEW d, FsOK(d), NEW i \in Inums
  PROVE  Counts(d, itrunc(d, i), Nothing)
<1> DEFINE gone == BlocksOf(d, d.ic[i].ip)
           e == [d EXCEPT !.ic[i].ip.addrs = NoInode.addrs, !.ic[i].ip.size = 0]
           g == [e EXCEPT !.used = @ \ gone, !.panic = @ \/ ~(gone \subseteq d.used)]
<1> HIDE DEF gone
<1>2. Counts(d, e, Nothing)
  BY Ints DEF FsOK, Counts
<1> HIDE DEF e
<1>3. Counts(e, g, Nothing)
  <2> DEFINE u == e.used \ gone
             b == e.panic \/ ~(gone \subseteq d.used)
  <2>1. FsOK(e) /\ (e.panic => b) /\ g = [e EXCEPT !.used = u, !.panic = b]
    BY <1>2 DEF Counts
  <2> HIDE DEF u, b, g
  <2> QED
    BY <2>1, BitmapOK
<1> HIDE DEF g
<1>4. itrunc(d, i) = iupdate(g, i)
  BY DEF itrunc, g, e, gone
<1>5. Counts(g, iupdate(g, i), Nothing)
  BY <1>3, iupdateOK DEF Counts
<1> QED
  BY <1>2, <1>3, <1>4, <1>5, ThenNothing, Ints

\* What iput() does to the counts while it has the lock, and afterwards.
LEMMA ReleasedOK ==
  ASSUME NEW d, FsOK(d), NEW i \in Inums
  PROVE  Counts(d, Released(d, i), Nothing)
<1> DEFINE e == d.ic[i]
           t == [itrunc(d, i) EXCEPT !.ic[i].ip.type = "free"]
           g == iupdate(t, i)
           f == [g EXCEPT !.ic[i].valid = FALSE]
<1>1. Counts(d, itrunc(d, i), Nothing)
  BY itruncOK
<1>a. Counts(itrunc(d, i), t, Nothing)
  BY <1>1, InodeOK DEF Counts
<1>4. Released(d, i) \in {f, d}
  BY DEF Released
<1> HIDE DEF t
<1>2. Counts(d, t, Nothing)
  BY <1>1, <1>a, ThenNothing, Ints
<1>3. Counts(t, g, Nothing)
  BY <1>2, iupdateOK DEF Counts
<1> HIDE DEF g
<1>5. Counts(d, g, Nothing)
  BY <1>2, <1>3, ThenNothing, Ints
<1>6. Counts(d, f, Nothing)
  BY <1>5, Ints DEF Counts, FsOK
<1> HIDE DEF f
<1> QED
  BY <1>4, <1>6, SameOK

LEMMA DroppedOK ==
  ASSUME NEW d, FsOK(d), NEW i \in Inums
  PROVE  Counts(d, Dropped(d, i), Minus(i))
<1> DEFINE c == IF d.ic[i].ref = 1 THEN NotCached ELSE [d.ic[i] EXCEPT !.ref = @ - 1]
<1>1. DOMAIN c = {"ref", "lock", "valid", "ip"} /\ c.ref \in Int /\ c.ref = d.ic[i].ref - 1
  BY DEF FsOK, NotCached
<1>2. Dropped(d, i) = [d EXCEPT !.ic[i] = c]
  BY DEF Dropped, FsOK
<1> HIDE DEF c
<1> QED
  BY <1>1, <1>2, Ints DEF FsOK, Counts, One

LEMMA writeiOK ==
  ASSUME NEW d, FsOK(d), NEW i \in Inums, NEW off, NEW src
  PROVE  Counts(d, writei(d, i, off, src).d, Nothing)
<1> DEFINE all == Copied(d, i, off, src)
           w == [d EXCEPT !.blk = all.blk, !.used = all.used, !.ic[i].ip = all.ic[i].ip,
                          !.panic = @ \/ all.panic]
           u == [w EXCEPT !.ic[i].ip.size = off + Len(src)]
<1> HIDE DEF all
<1>1. Counts(d, w, Nothing)
  <2> DEFINE bk == all.blk  us == all.used  ip == all.ic[i].ip  b == d.panic \/ all.panic
             v == [d EXCEPT !.ic[i].ip = ip]
  <2>1. Counts(d, v, Nothing)
    BY InodeOK
  <2>2. w = [v EXCEPT !.blk = bk, !.used = us, !.panic = b] /\ (d.panic => b) /\ v.panic = d.panic
    BY DEF FsOK
  <2> HIDE DEF v, w, bk, us, ip, b
  <2>3. Counts(v, w, Nothing)
    BY <2>1, <2>2, Ints DEF Counts, FsOK
  <2> QED
    BY <2>1, <2>3, ThenNothing, Ints
<1> HIDE DEF w
<1>2. Counts(w, u, Nothing)
  BY <1>1, InodeOK DEF Counts
<1> HIDE DEF u
<1>3. Counts(d, iupdate(u, i), Nothing)
  BY <1>1, <1>2, iupdateOK, ThenNothing, Ints DEF Counts
<1>4. writei(d, i, off, src).d \in {d, w, iupdate(u, i)}
  BY DEF writei, Stored, w, u, all
<1> QED
  BY <1>1, <1>3, <1>4, SameOK

LEMMA dirlinkOK ==
  ASSUME NEW d, FsOK(d), NEW i \in Inums, NEW name, NEW inum
  PROVE  Counts(d, dirlink(d, i, name, inum).d, Nothing)
<1> DEFINE w == writei(d, i, EntryOff(d, i), <<<<inum, name>>>>)
<1>1. Counts(d, w.d, Nothing)
  BY writeiOK
<1> HIDE DEF w
<1>2. dirlink(d, i, name, inum) =
        IF dirlookup(d, i, name) # 0 THEN [d |-> d, r |-> -1]
        ELSE [d |-> IF w.r = 1 THEN w.d ELSE Panic(d), r |-> 0]
  BY DEF dirlink, w
<1>3. dirlink(d, i, name, inum).d \in {d, Panic(d), w.d}
  BY <1>2
<1> QED
  BY <1>1, <1>3, SameOK, PanicOK

-----------------------------------------------------------------------------
(* Sets of numbers.                                                        *)

\* Numbers are well ordered.
LEMMA Least ==
  ASSUME NEW T, T \subseteq Nat, T # {}
  PROVE  Min(T) \in T
<1> DEFINE R == OpToRel(<, Nat)
<1>1. PICK x \in T : \A y \in T : <<y, x>> \notin R
  <2>1. IsWellFoundedOn(R, Nat)
    BY NatLessThanWellFounded
  <2> HIDE DEF R
  <2> QED
    BY <2>1, WFMin
<1>2. ASSUME NEW y \in T
      PROVE  x <= y
  <2>1. <<y, x>> \notin R /\ x \in Nat /\ y \in Nat
    BY <1>1
  <2>2. ~(y < x) /\ x \in Nat /\ y \in Nat
    BY <2>1 DEF OpToRel
  <2> HIDE DEF R
  <2> QED
    BY <2>2
<1>3. \E x1 \in T : \A y \in T : x1 <= y
  BY <1>2
<1> QED
  BY <1>3 DEF Min

\* The tables are finite.
LEMMA Tables ==
  /\ IsFiniteSet(Files) /\ IsFiniteSet(Procs) /\ IsFiniteSet(Fds)
  /\ Files \subseteq Nat /\ Procs \subseteq Nat /\ Fds \subseteq Nat /\ Inums \subseteq Nat
  /\ 0 \notin Files /\ 0 \notin Inums /\ ROOTINO \in Inums /\ 1 \in Procs
<1>1. NFILE \in Int /\ NPROC \in Int /\ NOFILE - 1 \in Int /\ NINODES \in Nat \ {0} /\ NPROC >= 2
  BY SizesAssumption
<1>2. IsFiniteSet(Files) /\ IsFiniteSet(Procs) /\ IsFiniteSet(Fds)
  BY <1>1, FS_Interval DEF Files, Procs, Fds
<1>3. /\ Files \subseteq Nat /\ Procs \subseteq Nat /\ Fds \subseteq Nat /\ Inums \subseteq Nat
      /\ 0 \notin Files /\ 0 \notin Inums /\ ROOTINO \in Inums /\ 1 \in Procs
  BY <1>1 DEF Files, Procs, Fds, Inums, ROOTINO
<1> QED
  BY <1>2, <1>3

\* Two sets that differ in x at most.
LEMMA CountStep ==
  ASSUME NEW S, NEW T, IsFiniteSet(S), NEW x, S \ {x} = T \ {x}
  PROVE  /\ IsFiniteSet(T) /\ Cardinality(S) \in Nat /\ Cardinality(T) \in Nat
         /\ Cardinality(T) = Cardinality(S) + One(x \in T) - One(x \in S)
<1>1. IsFiniteSet(S \ {x}) /\ Cardinality(S \ {x}) = Cardinality(S) - One(x \in S)
      /\ Cardinality(S) \in Nat /\ Cardinality(S \ {x}) \in Nat
  BY FS_RemoveElement, FS_CardinalityType DEF One
<1> DEFINE U == S \ {x}
<1>2. T = U \/ T = U \cup {x}
  OBVIOUS
<1>3. x \notin U /\ (x \in T => T = U \cup {x}) /\ (x \notin T => T = U)
  OBVIOUS
<1>4. IsFiniteSet(U) /\ Cardinality(U) = Cardinality(S) - One(x \in S) /\ Cardinality(U) \in Nat
  BY <1>1
<1> HIDE DEF U
<1>5. IsFiniteSet(U \cup {x}) /\ Cardinality(U \cup {x}) = Cardinality(U) + 1
  BY <1>3, <1>4, FS_AddElement
<1>6. IsFiniteSet(T) /\ Cardinality(T) = Cardinality(U) + One(x \in T)
  <2>1. CASE x \in T
    <3>1. T = U \cup {x} /\ One(x \in T) = 1
      BY <2>1, <1>3 DEF One
    <3> QED
      BY <3>1, <1>5
  <2>2. CASE x \notin T
    <3>1. T = U /\ One(x \in T) = 0
      BY <2>2, <1>3 DEF One
    <3> QED
      BY <3>1, <1>4
  <2> QED
    BY <2>1, <2>2
<1> QED
  BY <1>1, <1>4, <1>6, Ints DEF One

-----------------------------------------------------------------------------
(* New inodes.                                                             *)

LEMMA iallocOK ==
  ASSUME NEW d, Good(d), NEW type
  PROVE  /\ ialloc(d, type).i \in Inums
         /\ Counts(d, ialloc(d, type).d, Plus(ialloc(d, type).i))
<1> DEFINE free == {i \in Inums : d.din[i].type = "free"}
           i == Min(free)
           e == [d EXCEPT !.din[i] = [NoInode EXCEPT !.type = type]]
<1>1. CASE free = {}
  <2>1. ialloc(d, type) = [d |-> Panic(d), i |-> ROOTINO]
    BY <1>1 DEF ialloc
  <2> QED
    BY <2>1, PanicOK, Tables DEF Good
<1>2. CASE free # {}
  <2>1. i \in Inums
    BY <1>2, Least, Tables
  <2>2. ialloc(d, type) = [d |-> iget(e, i), i |-> i]
    BY <1>2 DEF ialloc
  <2> HIDE DEF i
  <2>3. FsOK(e) /\ e.panic = d.panic /\ \A j \in Inums : e.ic[j].ref = d.ic[j].ref
    BY DEF Good, FsOK
  <2> HIDE DEF e
  <2>4. Counts(e, iget(e, i), Plus(i))
    BY <2>3, igetOK DEF Good
  <2>5. Counts(d, iget(e, i), Plus(i))
    BY <2>3, <2>4 DEF Counts
  <2> QED
    BY <2>1, <2>2, <2>5
<1> QED
  BY <1>1, <1>2

LEMMA NewEntryOK ==
  ASSUME NEW d, Good(d), NEW dp \in Inums, NEW name, NEW type, NEW major
  PROVE  /\ NewEntry(d, dp, name, type, major).i \in Inums
         /\ Counts(d, NewEntry(d, dp, name, type, major).d,
                   Plus(NewEntry(d, dp, name, type, major).i))
<1> DEFINE a == ialloc(d, type)
           i == a.i
           d0 == a.d
           d1 == ilock(d0, i)
           m == [d1 EXCEPT !.ic[i].ip.nlink = 1, !.ic[i].ip.major = major]
           d2 == iupdate(m, i)
           n == [d2 EXCEPT !.ic[dp].ip.nlink = @ + 1]
           d3 == IF type = "dir" THEN iupdate(n, dp) ELSE d2
           l == dirlink(d3, i, ".", i).d
           d4 == IF type = "dir" THEN dirlink(l, i, "..", dp).d ELSE d3
           d5 == dirlink(d4, dp, name, i).d
<1>0. NewEntry(d, dp, name, type, major) = [d |-> d5, i |-> i]
  BY DEF NewEntry
<1>1. i \in Inums /\ Counts(d, d0, Plus(i)) /\ FsOK(d)
  BY iallocOK DEF Good
<1> HIDE DEF a, d5, d4, l, d3, n, d2, m, d1, i, d0
<1>2. Counts(d0, d1, Nothing)
  BY <1>1, ilockOK DEF d1, Counts
<1>3. Counts(d1, m, Nothing)
  BY <1>1, <1>2, Ints DEF m, Counts, FsOK
<1>4. Counts(m, d2, Nothing)
  BY <1>3, iupdateOK DEF d2, Counts
<1>5. Counts(d2, n, Nothing)
  BY <1>4, Ints DEF n, Counts, FsOK
<1>6. Counts(n, iupdate(n, dp), Nothing)
  BY <1>5, iupdateOK DEF Counts
<1>7. Counts(d2, d3, Nothing)
  BY <1>4, <1>5, <1>6, ThenNothing, SameOK, Ints DEF d3, Counts
<1>8. Counts(d3, l, Nothing)
  BY <1>1, <1>7, dirlinkOK DEF l, Counts
<1>9. Counts(l, dirlink(l, i, "..", dp).d, Nothing)
  BY <1>1, <1>8, dirlinkOK DEF Counts
<1>10. Counts(d3, d4, Nothing)
  BY <1>7, <1>8, <1>9, ThenNothing, SameOK, Ints DEF d4, Counts
<1>11. Counts(d4, d5, Nothing)
  BY <1>10, dirlinkOK DEF d5, Counts
<1>12. Counts(d, d5, Plus(i))
  <2>1. Counts(d, d1, Plus(i))
    BY <1>1, <1>2, ThenNothing, Ints
  <2>2. Counts(d, m, Plus(i))
    BY <1>1, <2>1, <1>3, ThenNothing, Ints
  <2>3. Counts(d, d2, Plus(i))
    BY <1>1, <2>2, <1>4, ThenNothing, Ints
  <2>4. Counts(d, d3, Plus(i))
    BY <1>1, <2>3, <1>7, ThenNothing, Ints
  <2>5. Counts(d, d4, Plus(i))
    BY <1>1, <2>4, <1>10, ThenNothing, Ints
  <2> QED
    BY <1>1, <2>5, <1>11, ThenNothing, Ints
<1> QED
  BY <1>0, <1>1, <1>12

-----------------------------------------------------------------------------
(* Who refers to what, before and after a step.                            *)

\* The references a file or a process has to inode i.
FileHolds(e, i) == One(e.type = "inode" /\ e.ip = i)
CallHolds(sc, i) == One(sc.ip = i) + One(sc.keep = i) + One(sc.put = i)
Holds(pr, i) == One(pr.st = "live" /\ pr.cwd = i) + CallHolds(pr.sc, i)

Calls(i) == Cardinality(LiveIn(i)) + Cardinality(CallsAt(i)) + Cardinality(Keeping(i))
            + Cardinality(PutsOf(i))

SameCall(a, b) == a.st = b.st /\ a.cwd = b.cwd /\ a.sc = b.sc

LEMMA HoldsInt ==
  \A pr, sc, i : CallHolds(sc, i) \in Int /\ Holds(pr, i) \in Int
  BY Ints DEF Holds, CallHolds

LEMMA FilesStep ==
  ASSUME NEW f \in Files, NEW i,
         \A g \in Files \ {f} : ftable'[g].type = ftable[g].type /\ ftable'[g].ip = ftable[g].ip
  PROVE  /\ Cardinality(FilesOf(i)) \in Nat /\ Cardinality(FilesOf(i))' \in Nat
         /\ Cardinality(FilesOf(i))' = Cardinality(FilesOf(i))
                                       + FileHolds(ftable'[f], i) - FileHolds(ftable[f], i)
<1> DEFINE S == FilesOf(i)
           T == FilesOf(i)'
<1>0. S \ {f} = T \ {f}
  BY DEF FilesOf
<1>1. (f \in S <=> ftable[f].type = "inode" /\ ftable[f].ip = i)
      /\ (f \in T <=> ftable'[f].type = "inode" /\ ftable'[f].ip = i)
  BY DEF FilesOf
<1>2. IsFiniteSet(S)
  BY Tables, FS_Subset DEF FilesOf
<1>3. FileHolds(ftable'[f], i) = One(f \in T) /\ FileHolds(ftable[f], i) = One(f \in S)
  BY <1>1 DEF FileHolds, One
<1> HIDE DEF S, T
<1>4. /\ Cardinality(S) \in Nat /\ Cardinality(T) \in Nat
      /\ Cardinality(T) = Cardinality(S) + One(f \in T) - One(f \in S)
  BY <1>0, <1>2, CountStep
<1> QED
  BY <1>3, <1>4 DEF S, T

LEMMA CallsStep ==
  ASSUME NEW p \in Procs, NEW i, \A q \in Procs \ {p} : SameCall(proc'[q], proc[q])
  PROVE  /\ Calls(i) \in Nat /\ Calls(i)' \in Nat
         /\ Calls(i)' = Calls(i) + Holds(proc'[p], i) - Holds(proc[p], i)
<1> DEFINE S == LiveIn(i)    T == LiveIn(i)'
           U == CallsAt(i)   V == CallsAt(i)'
           X == Keeping(i)   Y == Keeping(i)'
           P == PutsOf(i)    Q == PutsOf(i)'
<1>1. S \ {p} = T \ {p} /\ U \ {p} = V \ {p} /\ X \ {p} = Y \ {p} /\ P \ {p} = Q \ {p}
  BY DEF SameCall, LiveIn, CallsAt, Keeping, PutsOf
<1>2. IsFiniteSet(S) /\ IsFiniteSet(U) /\ IsFiniteSet(X) /\ IsFiniteSet(P)
  BY Tables, FS_Subset DEF LiveIn, CallsAt, Keeping, PutsOf
<1>3. /\ Holds(proc'[p], i) = One(p \in T) + (One(p \in V) + One(p \in Y) + One(p \in Q))
      /\ Holds(proc[p], i) = One(p \in S) + (One(p \in U) + One(p \in X) + One(p \in P))
  BY DEF Holds, CallHolds, One, LiveIn, CallsAt, Keeping, PutsOf
<1>4. /\ Calls(i) = Cardinality(S) + Cardinality(U) + Cardinality(X) + Cardinality(P)
      /\ Calls(i)' = Cardinality(T) + Cardinality(V) + Cardinality(Y) + Cardinality(Q)
  BY DEF Calls
<1> HIDE DEF S, T, U, V, X, Y, P, Q
<1>5. /\ Cardinality(S) \in Nat /\ Cardinality(T) \in Nat
      /\ Cardinality(T) = Cardinality(S) + One(p \in T) - One(p \in S)
  BY <1>1, <1>2, CountStep
<1>6. /\ Cardinality(U) \in Nat /\ Cardinality(V) \in Nat
      /\ Cardinality(V) = Cardinality(U) + One(p \in V) - One(p \in U)
  BY <1>1, <1>2, CountStep
<1>7. /\ Cardinality(X) \in Nat /\ Cardinality(Y) \in Nat
      /\ Cardinality(Y) = Cardinality(X) + One(p \in Y) - One(p \in X)
  BY <1>1, <1>2, CountStep
<1>a. /\ Cardinality(P) \in Nat /\ Cardinality(Q) \in Nat
      /\ Cardinality(Q) = Cardinality(P) + One(p \in Q) - One(p \in P)
  BY <1>1, <1>2, CountStep
<1> DEFINE s == One(p \in S)  t == One(p \in T)  u == One(p \in U)  v == One(p \in V)
           x == One(p \in X)  y == One(p \in Y)  a == One(p \in P)  b == One(p \in Q)
<1>8. /\ s \in Int /\ t \in Int /\ u \in Int /\ v \in Int
      /\ x \in Int /\ y \in Int /\ a \in Int /\ b \in Int
  BY Ints
<1>9. Holds(proc'[p], i) = t + (v + y + b) /\ Holds(proc[p], i) = s + (u + x + a)
  BY <1>3
<1>10. /\ Cardinality(T) = Cardinality(S) + t - s /\ Cardinality(V) = Cardinality(U) + v - u
       /\ Cardinality(Y) = Cardinality(X) + y - x /\ Cardinality(Q) = Cardinality(P) + b - a
  BY <1>5, <1>6, <1>7, <1>a
<1> HIDE DEF s, t, u, v, x, y, a, b
<1> QED
  BY <1>4, <1>5, <1>6, <1>7, <1>a, <1>8, <1>9, <1>10

\* The counts of inodes stay exact if what an operation adds to them is what one
\* file and one process refer to after the step and did not before.
LEMMA InodesStep ==
  ASSUME RefsExact, NEW p \in Procs, NEW f \in Files, NEW x \in [Inums -> Int],
         \A q \in Procs \ {p} : SameCall(proc'[q], proc[q]),
         \A g \in Files \ {f} : ftable'[g].type = ftable[g].type /\ ftable'[g].ip = ftable[g].ip,
         Counts(fs, fs', x), ~fs'.panic,
         \A i \in Inums : x[i] = Holds(proc'[p], i) - Holds(proc[p], i)
                                 + FileHolds(ftable'[f], i) - FileHolds(ftable[f], i)
  PROVE  \A i \in Inums : fs'.ic[i].ref = Holders(i)'
<1> TAKE i \in Inums
<1> DEFINE a == Cardinality(FilesOf(i))
           b == Cardinality(FilesOf(i))'
           c == Calls(i)
           d == Calls(i)'
<1>1. a \in Nat /\ b \in Nat /\ b = a + FileHolds(ftable'[f], i) - FileHolds(ftable[f], i)
  BY FilesStep
<1>2. c \in Nat /\ d \in Nat /\ d = c + Holds(proc'[p], i) - Holds(proc[p], i)
  BY CallsStep
<1>a. LET u == Cardinality(LiveIn(i))  v == Cardinality(CallsAt(i))  w == Cardinality(Keeping(i))
          y == Cardinality(PutsOf(i))
      IN  u \in Nat /\ v \in Nat /\ w \in Nat /\ y \in Nat
  BY Tables, FS_Subset, FS_CardinalityType DEF LiveIn, CallsAt, Keeping, PutsOf
<1>b. LET u == Cardinality(LiveIn(i))'  v == Cardinality(CallsAt(i))'  w == Cardinality(Keeping(i))'
          y == Cardinality(PutsOf(i))'
      IN  u \in Nat /\ v \in Nat /\ w \in Nat /\ y \in Nat
  BY Tables, FS_Subset, FS_CardinalityType DEF LiveIn, CallsAt, Keeping, PutsOf
<1>3. Holders(i) = a + c
  BY <1>1, <1>a DEF Holders, Calls
<1>4. Holders(i)' = b + d
  BY <1>1, <1>b DEF Holders, Calls
<1>5. fs'.ic[i].ref = fs.ic[i].ref + x[i]
  BY DEF Counts
<1>6. fs.ic[i].ref = Holders(i)
  BY DEF RefsExact
<1>7. /\ Holds(proc'[p], i) \in Int /\ Holds(proc[p], i) \in Int
      /\ FileHolds(ftable'[f], i) \in Int /\ FileHolds(ftable[f], i) \in Int
  BY Ints, HoldsInt DEF FileHolds
<1>8. x[i] = Holds(proc'[p], i) - Holds(proc[p], i)
                                 + FileHolds(ftable'[f], i) - FileHolds(ftable[f], i)
  OBVIOUS
<1> HIDE DEF a, b, c, d
<1> QED
  BY <1>1, <1>2, <1>3, <1>4, <1>5, <1>6, <1>7, <1>8

\* The descriptors of f in a table of processes, of which one descriptor changes.
DescsIn(t, f) == {x \in Procs \X Fds : t[x[1]].ofile[x[2]] = f}

OtherDescs(t, u, p, fd) ==
  \A q \in Procs : \A e \in Fds : <<q, e>> # <<p, fd>> => u[q].ofile[e] = t[q].ofile[e]

LEMMA DescsStep ==
  ASSUME NEW t, NEW u, NEW p \in Procs, NEW fd \in Fds, NEW f, OtherDescs(t, u, p, fd)
  PROVE  /\ Cardinality(DescsIn(t, f)) \in Nat /\ Cardinality(DescsIn(u, f)) \in Nat
         /\ Cardinality(DescsIn(u, f)) = Cardinality(DescsIn(t, f))
                                         + One(<<p, fd>> \in DescsIn(u, f))
                                         - One(<<p, fd>> \in DescsIn(t, f))
<1> DEFINE S == DescsIn(t, f)
           T == DescsIn(u, f)
           x == <<p, fd>>
<1>0. S \ {x} = T \ {x}
  BY DEF DescsIn, OtherDescs
<1>2. IsFiniteSet(S)
  BY Tables, FS_Subset, FS_Product DEF DescsIn
<1> HIDE DEF S, T, x
<1>4. /\ Cardinality(S) \in Nat /\ Cardinality(T) \in Nat
      /\ Cardinality(T) = Cardinality(S) + One(x \in T) - One(x \in S)
  BY <1>0, <1>2, CountStep
<1> QED
  BY <1>4 DEF S, T, x

-----------------------------------------------------------------------------
(* Steps after which the tables are as before, but for one process.        *)

\* The pipe ends among the files are the same, and so are the pipes.
EndsKept == /\ DOMAIN pipes' = Pipes
            /\ \A x \in Pipes : DOMAIN pipes'[x] = {"open", "data"} /\ pipes'[x].open = pipes[x].open
            /\ \A f \in Files : /\ ftable'[f].type = "pipe" <=> ftable[f].type = "pipe"
                                /\ ftable[f].type = "pipe" => /\ ftable'[f].ip = ftable[f].ip
                                                              /\ ftable'[f].writable = ftable[f].writable

\* The same ends are being closed.
ShutsKept == \A q \in Procs : proc'[q].sc.shut = proc[q].sc.shut

LEMMA EndsStep ==
  ASSUME EndsOK, RefsExact, EndsKept, ShutsKept
  PROVE  EndsOK' /\ \A x \in Pipes : pipes'[x].open = Sides(x)'
<1>0. \A f \in Files : ftable[f].type = "pipe" => Side(ftable'[f]) = Side(ftable[f])
  BY DEF EndsKept, Side
<1>1. EndsOK'
  BY <1>0 DEF EndsOK, EndsKept, ShutsKept
<1>2. ASSUME NEW x \in Pipes
      PROVE  pipes'[x].open = Sides(x)'
  <2>1. Ends(x)' = Ends(x) /\ Shuts(x)' = Shuts(x)
    BY DEF Ends, EndsKept, Shuts, ShutsKept
  <2>2. \A f \in Ends(x) : Side(ftable'[f]) = Side(ftable[f])
    BY <1>0 DEF Ends
  <2>3. Sides(x)' = Sides(x)
    BY <2>1, <2>2 DEF Sides
  <2> QED
    BY <2>3 DEF EndsKept, RefsExact
<1> QED
  BY <1>1, <1>2

FilesKept == /\ DOMAIN ftable' = Files
             /\ \A f \in Files : /\ FileOK(ftable'[f]) /\ ftable'[f].ref = ftable[f].ref
                                 /\ ftable'[f].type = ftable[f].type /\ ftable'[f].ip = ftable[f].ip
                                 /\ ftable'[f].writable = ftable[f].writable

DescsKept == /\ DOMAIN proc' = Procs
             /\ \A q \in Procs : /\ ProcOK(proc'[q])
                                 /\ \A fd \in Fds : proc'[q].ofile[fd] = proc[q].ofile[fd]

LEMMA CallStep ==
  ASSUME RefsInv, ~fs.panic, NEW p \in Procs, NEW x \in [Inums -> Int],
         \A q \in Procs \ {p} : SameCall(proc'[q], proc[q]),
         DescsKept, FilesKept, EndsKept, ShutsKept, Counts(fs, fs', x),
         \A i \in Inums : x[i] = Holds(proc'[p], i) - Holds(proc[p], i)
  PROVE  RefsInv'
<1> SUFFICES ASSUME ~fs'.panic
             PROVE  RefsInv'
  BY DEF RefsInv
<1>1. Shapes /\ EndsOK /\ RefsExact
  BY DEF RefsInv
<1>2. Shapes'
  BY DEF Counts, Shapes, DescsKept, FilesKept, EndsKept
<1>3. EndsOK' /\ \A y \in Pipes : pipes'[y].open = Sides(y)'
  BY <1>1, EndsStep
<1>4. \A i \in Inums : fs'.ic[i].ref = Holders(i)'
  <2>1. PICK f : f \in Files
    BY SizesAssumption DEF Files
  <2>2. \A g \in Files \ {f} : ftable'[g].type = ftable[g].type /\ ftable'[g].ip = ftable[g].ip
    BY DEF FilesKept
  <2>3. \A i \in Inums : /\ FileHolds(ftable'[f], i) = FileHolds(ftable[f], i)
                         /\ FileHolds(ftable[f], i) \in Int
                         /\ Holds(proc'[p], i) \in Int /\ Holds(proc[p], i) \in Int
    BY <2>1, Ints, HoldsInt DEF FilesKept, FileHolds
  <2>4. \A i \in Inums : x[i] = Holds(proc'[p], i) - Holds(proc[p], i)
                                 + FileHolds(ftable'[f], i) - FileHolds(ftable[f], i)
    BY <2>3
  <2> QED
    BY <1>1, <2>1, <2>2, <2>4, InodesStep
<1>5. \A f \in Files : ftable'[f].ref = Cardinality(Descs(f))'
  <2> TAKE f \in Files
  <2>1. Descs(f)' = Descs(f)
    BY DEF Descs, DescsKept
  <2> QED
    BY <1>1, <2>1 DEF RefsExact, FilesKept
<1> QED
  BY <1>2, <1>3, <1>4, <1>5 DEF RefsInv, RefsExact

\* A call that is in user mode refers to no inode of the disk.
LEMMA UserFields ==
  /\ UserMode.st = "user" /\ UserMode.ip = 0 /\ UserMode.keep = 0 /\ UserMode.put = 0
  /\ UserMode.shut = <<>>
  /\ DOMAIN UserMode = {"st", "path", "ip", "keep", "name", "n", "put", "drop", "shut"}
  BY DEF UserMode

LEMMA UserCall ==
  \A ins : CallOK(UserMode, ins)
  BY UserFields DEF CallOK

LEMMA UserHolds ==
  ASSUME NEW i \in Inums
  PROVE  CallHolds(UserMode, i) = 0
  BY Tables, UserFields DEF CallHolds, One

\* A call that is done but for iput() or pipeclose().
Leaving(sc) == /\ DOMAIN sc = DOMAIN UserMode /\ sc.st = "user" /\ sc.ip = 0 /\ sc.keep = 0
               /\ sc.put \in Inums \cup {0}

LEMMA LeavingOK ==
  ASSUME NEW sc, Leaving(sc)
  PROVE  (\A ins : CallOK(sc, ins)) /\ \A i \in Inums : CallHolds(sc, i) = One(sc.put = i)
<1>1. \A ins : CallOK(sc, ins)
  BY DEF Leaving, CallOK
<1>2. \A i \in Inums : CallHolds(sc, i) = One(sc.put = i)
  BY Tables DEF CallHolds, One, Leaving
<1> QED
  BY <1>1, <1>2

\* The call of p ends, and p keeps its descriptors.
LEMMA ReturnStep ==
  ASSUME RefsInv, ~fs.panic, NEW p \in Procs, NEW pr, NEW v, NEW sc, NEW x \in [Inums -> Int],
         ReturnWith(p, pr, v, sc), Leaving(sc), sc.shut = proc[p].sc.shut,
         DOMAIN pr = DOMAIN NoProc, pr.ofile = proc[p].ofile,
         pr.st = "live", pr.cwd \in Inums,
         FilesKept, EndsKept, Counts(fs, fs', x),
         \A i \in Inums : x[i] = One(pr.cwd = i) + One(sc.put = i) - Holds(proc[p], i)
  PROVE  RefsInv'
<1>1. DOMAIN proc = Procs /\ \A q \in Procs : ProcOK(proc[q])
  BY DEF RefsInv, Shapes
<1> DEFINE n == [pr EXCEPT !.sc = sc, !.pc = @ + 1, !.ret = v,
             !.reg = IF "dst" \in DOMAIN Ins(p) THEN [@ EXCEPT ![Ins(p).dst] = v] ELSE @]
<1>2. proc' = [proc EXCEPT ![p] = n]
  BY DEF ReturnWith
<1>3. /\ DOMAIN n = DOMAIN NoProc /\ n.ofile = pr.ofile /\ n.st = pr.st /\ n.cwd = pr.cwd
      /\ n.sc = sc
  BY DEF NoProc
<1> HIDE DEF n
<1>a. CallOK(n.sc, Program[n.prog][n.pc])
  BY <1>3, LeavingOK
<1>4. ProcOK(n)
  BY <1>1, <1>3, <1>a DEF ProcOK, Leaving
<1>5. proc'[p] = n /\ DOMAIN proc' = Procs /\ \A q \in Procs \ {p} : proc'[q] = proc[q]
  BY <1>1, <1>2
<1>6. DescsKept /\ ShutsKept /\ \A q \in Procs \ {p} : SameCall(proc'[q], proc[q])
  BY <1>1, <1>3, <1>4, <1>5 DEF DescsKept, SameCall, ShutsKept
<1>7. \A i \in Inums : x[i] = Holds(proc'[p], i) - Holds(proc[p], i)
  BY <1>3, <1>5, LeavingOK, HoldsInt, Ints DEF Holds, One
<1> QED
  BY <1>6, <1>7, CallStep

\* The call of p goes on.
LEMMA GotoStep ==
  ASSUME RefsInv, ~fs.panic, NEW p \in Procs, NEW sc, NEW x \in [Inums -> Int],
         Goto(p, sc), proc[p].st = "live", fs'.panic \/ CallOK(sc, Ins(p)),
         (proc[p].cwd \in Inums /\ sc.st # "exited") \/ sc.st = proc[p].sc.st, sc.shut = proc[p].sc.shut,
         FilesKept, EndsKept, Counts(fs, fs', x),
         \A i \in Inums : x[i] = CallHolds(sc, i) - CallHolds(proc[p].sc, i)
  PROVE  RefsInv'
<1> SUFFICES ASSUME ~fs'.panic
             PROVE  RefsInv'
  BY DEF RefsInv
<1>1. DOMAIN proc = Procs /\ \A q \in Procs : ProcOK(proc[q])
  BY DEF RefsInv, Shapes
<1> DEFINE n == [proc[p] EXCEPT !.sc = sc]
<1>2. proc' = [proc EXCEPT ![p] = n]
  BY DEF Goto
<1>3. /\ DOMAIN n = DOMAIN NoProc /\ n.ofile = proc[p].ofile /\ n.st = proc[p].st
      /\ n.cwd = proc[p].cwd /\ n.sc = sc /\ n.prog = proc[p].prog /\ n.pc = proc[p].pc
  BY <1>1 DEF ProcOK, NoProc
<1>b. CallOK(n.sc, Program[n.prog][n.pc])
  BY <1>3 DEF Ins
<1> HIDE DEF n
<1>4. ProcOK(n)
  BY <1>1, <1>3, <1>b DEF ProcOK
<1>5. proc'[p] = n /\ DOMAIN proc' = Procs /\ \A q \in Procs \ {p} : proc'[q] = proc[q]
  BY <1>1, <1>2
<1>6. DescsKept /\ ShutsKept /\ \A q \in Procs \ {p} : SameCall(proc'[q], proc[q])
  BY <1>1, <1>3, <1>4, <1>5 DEF DescsKept, SameCall, ShutsKept
<1>7. \A i \in Inums : x[i] = Holds(proc'[p], i) - Holds(proc[p], i)
  BY <1>3, <1>5, HoldsInt, Ints DEF Holds
<1> QED
  BY <1>6, <1>7, CallStep

\* No count is negative where the counts are exact.
LEMMA GoodCounts ==
  ASSUME RefsInv, ~fs.panic
  PROVE  Good(fs) /\ FsOK(fs)
<1>1. FsOK(fs) /\ \A i \in Inums : fs.ic[i].ref = Holders(i)
  BY DEF RefsInv, Shapes, RefsExact
<1>2. ASSUME NEW i \in Inums
      PROVE  Holders(i) \in Nat
  <2>1. /\ Cardinality(LiveIn(i)) \in Nat /\ Cardinality(CallsAt(i)) \in Nat
        /\ Cardinality(Keeping(i)) \in Nat /\ Cardinality(FilesOf(i)) \in Nat
        /\ Cardinality(PutsOf(i)) \in Nat
    BY Tables, FS_Subset, FS_CardinalityType DEF LiveIn, CallsAt, Keeping, FilesOf, PutsOf
  <2> QED
    BY <2>1 DEF Holders
<1> QED
  BY <1>1, <1>2 DEF Good

LEMMA LockGood ==
  ASSUME NEW d, NEW e, Good(d), Counts(d, e, Nothing)
  PROVE  Good(e)
  BY Ints DEF Good, Counts, FsOK

LEMMA ThenGet ==
  ASSUME NEW d, NEW e, Good(d), Counts(d, e, Nothing), NEW i
  PROVE  Counts(d, iget(e, i), Plus(i))
<1>1. Counts(e, iget(e, i), Plus(i))
  BY LockGood, igetOK
<1> QED
  BY <1>1, Ints DEF Counts, Good, FsOK

\* Steps that leave files, pipes or the disk alone.
LEMMA KeptSame ==
  ASSUME RefsInv, ~fs.panic
  PROVE  /\ UNCHANGED ftable => FilesKept
         /\ UNCHANGED <<ftable, pipes>> => EndsKept
         /\ UNCHANGED fs => Counts(fs, fs', Nothing)
<1>1. UNCHANGED ftable => FilesKept
  BY DEF RefsInv, Shapes, FilesKept
<1>2. UNCHANGED <<ftable, pipes>> => EndsKept
  BY DEF RefsInv, Shapes, EndsKept
<1>3. UNCHANGED fs => Counts(fs, fs', Nothing)
  BY SameOK, GoodCounts
<1> QED
  BY <1>1, <1>2, <1>3

-----------------------------------------------------------------------------
(* The calls that take a path.                                             *)
LEMMA LockOK ==
  ASSUME NEW d, NEW e, NEW i \in Inums, NEW q, NEW x, Counts(d, e, x)
  PROVE  Counts(d, [e EXCEPT !.ic[i].lock = q], x)
  BY DEF Counts, FsOK

\* iput() of a process, and what it does after it has let go of the lock.
LEMMA iputOK ==
  ASSUME RefsInv, ~fs.panic, NEW p \in Procs, iput(p) \/ iputEnd(p)
  PROVE  RefsInv'
<1> DEFINE sc == proc[p].sc
           i == sc.put
<1>1. i # 0 /\ UNCHANGED <<ftable, pipes>>
  BY DEF iput, iputEnd
<1>2. ProcOK(proc[p]) /\ FsOK(fs) /\ FilesKept /\ EndsKept
  BY <1>1, KeptSame, GoodCounts DEF RefsInv, Shapes
<1>3. CallOK(sc, Ins(p)) /\ i \in Inums /\ DOMAIN sc = DOMAIN UserMode
  BY <1>1, <1>2 DEF ProcOK, CallOK, Ins
<1>4. proc[p].st = "live"
  BY <1>1, <1>2, UserFields DEF ProcOK
<1>6. CASE iput(p)
  <2> DEFINE u == [sc EXCEPT !.drop = TRUE]
  <2>1. /\ DOMAIN u = DOMAIN UserMode /\ u.st = sc.st /\ u.ip = sc.ip /\ u.keep = sc.keep
        /\ u.put = sc.put /\ u.shut = sc.shut
    BY <1>3, UserFields
  <2>2. Goto(p, u) /\ Counts(fs, fs', Nothing)
    BY <1>2, <1>3, <1>6, ReleasedOK DEF iput
  <2> HIDE DEF u
  <2>3. CallOK(u, Ins(p))
    BY <1>3, <2>1 DEF CallOK
  <2>4. \A j \in Inums : Nothing[j] = CallHolds(u, j) - CallHolds(sc, j)
    <3> TAKE j \in Inums
    <3>1. CallHolds(u, j) = CallHolds(sc, j)
      BY <2>1 DEF CallHolds
    <3>2. CallHolds(sc, j) \in Int /\ Nothing[j] = 0
      BY HoldsInt, Ints
    <3> HIDE DEF sc
    <3> QED
      BY <3>1, <3>2
  <2> QED
    BY <1>2, <1>4, <2>1, <2>2, <2>3, <2>4, GotoStep, Ints
<1>7. CASE iputEnd(p)
  <2> DEFINE u == [sc EXCEPT !.put = 0, !.drop = FALSE]
  <2>1. /\ DOMAIN u = DOMAIN UserMode /\ u.st = sc.st /\ u.ip = sc.ip /\ u.keep = sc.keep
        /\ u.put = 0 /\ u.shut = sc.shut
    BY <1>3, UserFields
  <2>2. Goto(p, u) /\ Counts(fs, fs', Minus(i))
    BY <1>2, <1>3, <1>7, DroppedOK DEF iputEnd
  <2> HIDE DEF u
  <2>3. CallOK(u, Ins(p))
    BY <1>3, <2>1 DEF CallOK
  <2>4. \A j \in Inums : Minus(i)[j] = CallHolds(u, j) - CallHolds(sc, j)
    <3> TAKE j \in Inums
    <3>1. Minus(i)[j] = -One(i = j) /\ One(u.put = j) = 0
      BY <2>1, Ints, Tables DEF One
    <3>2. CallHolds(u, j) = One(sc.ip = j) + One(sc.keep = j) + One(u.put = j)
      BY <2>1 DEF CallHolds
    <3>3. CallHolds(sc, j) = One(sc.ip = j) + One(sc.keep = j) + One(i = j)
      BY DEF CallHolds
    <3> HIDE DEF sc, i
    <3> QED
      BY <3>1, <3>2, <3>3, Ints
  <2> QED
    BY <1>2, <1>4, <2>1, <2>2, <2>3, <2>4, GotoStep, Ints
<1> QED
  BY <1>6, <1>7

-----------------------------------------------------------------------------
(* The calls that take a path.                                             *)

\* A process inside a call.
LEMMA InCall ==
  ASSUME RefsInv, ~fs.panic, NEW p \in Procs, NEW st, At(p, st)
  PROVE  /\ DOMAIN proc[p] = DOMAIN NoProc /\ proc[p].st = "live"
         /\ st # "exited" => proc[p].cwd \in Inums
         /\ st = "exited" => proc[p].cwd = 0 /\ \A fd \in Fds : proc[p].ofile[fd] = 0
         /\ CallOK(proc[p].sc, Ins(p)) /\ proc[p].sc.st = st /\ DOMAIN proc[p].sc = DOMAIN UserMode
         /\ proc[p].sc.put = 0 /\ proc[p].sc.shut = <<>>
         /\ \A i : Holds(proc[p], i) = One(proc[p].cwd = i) + CallHolds(proc[p].sc, i)
<1>1. ProcOK(proc[p]) /\ proc[p].st = "live" /\ proc[p].sc.st = st
  BY DEF RefsInv, Shapes, At
<1>2. \A i : Holds(proc[p], i) = One(proc[p].cwd = i) + CallHolds(proc[p].sc, i)
  BY <1>1 DEF Holds, One
<1>3. proc[p].sc.put = 0 /\ proc[p].sc.shut = <<>>
  BY DEF At, Idle
<1>4. CallOK(proc[p].sc, Ins(p))
  BY <1>1 DEF ProcOK, Ins
<1>5. DOMAIN proc[p].sc = DOMAIN UserMode
  BY <1>4 DEF CallOK
<1> QED
  BY <1>1, <1>2, <1>3, <1>4, <1>5 DEF ProcOK

\* A process that is in no call on a path refers to its directory only.
LEMMA NoCall ==
  ASSUME RefsInv, ~fs.panic, NEW p \in Procs, NEW st \in {"user", "write", "exit", "exited"}, At(p, st)
  PROVE  \A i \in Inums : CallHolds(proc[p].sc, i) = 0 /\ Nothing[i] = One(proc[p].cwd = i) - Holds(proc[p], i)
<1>1. proc[p].sc.ip = 0 /\ proc[p].sc.keep = 0 /\ proc[p].sc.put = 0
  BY InCall DEF CallOK
<1>2. \A i \in Inums : CallHolds(proc[p].sc, i) = 0
  BY <1>1, Tables DEF CallHolds, One
<1>3. \A i : Holds(proc[p], i) = One(proc[p].cwd = i) + CallHolds(proc[p].sc, i)
  BY InCall
<1>4. ASSUME NEW i \in Inums
      PROVE  Nothing[i] = One(proc[p].cwd = i) - Holds(proc[p], i)
  <2>1. Holds(proc[p], i) = One(proc[p].cwd = i) + 0 /\ One(proc[p].cwd = i) \in Int /\ Nothing[i] = 0
    BY <1>2, <1>3, Ints
  <2> QED
    BY <2>1
<1> QED
  BY <1>2, <1>4

\* A call that refers to one inode.
LEMMA OneCall ==
  ASSUME RefsInv, ~fs.panic, NEW p \in Procs,
         NEW st \in {"open", "create", "existing", "created", "chdir", "exec", "link", "unlink",
                     "unlinkbad"}, At(p, st)
  PROVE  /\ proc[p].sc.ip \in Inums /\ proc[p].sc.keep = 0
         /\ \A i \in Inums : CallHolds(proc[p].sc, i) = One(proc[p].sc.ip = i)
<1>1. proc[p].sc.ip \in Inums /\ proc[p].sc.keep = 0 /\ proc[p].sc.st = st /\ proc[p].sc.put = 0
  BY InCall DEF CallOK
<1> QED
  BY <1>1, Tables DEF CallHolds, One

LEMMA KeepCall ==
  ASSUME RefsInv, ~fs.panic, NEW p \in Procs, NEW st \in {"linked", "linkbad", "unlinked"}, At(p, st)
  PROVE  /\ proc[p].sc.keep \in Inums
         /\ \A i \in Inums : CallHolds(proc[p].sc, i) = One(proc[p].sc.keep = i)
<1>1. proc[p].sc.keep \in Inums /\ proc[p].sc.ip = 0 /\ proc[p].sc.st = st /\ proc[p].sc.put = 0
  BY InCall DEF CallOK
<1> QED
  BY <1>1, Tables DEF CallHolds, One

\* The call that returns with an inode to put.
LEMMA PuttingUser ==
  ASSUME NEW i \in Inums \cup {0}
  PROVE  /\ Leaving(Putting(UserMode, i)) /\ Putting(UserMode, i).put = i
         /\ Putting(UserMode, i).shut = <<>> /\ Leaving(UserMode)
  BY UserFields DEF Putting, Leaving

\* The call of p ends at once: p has the directory of pr, and nothing else.
LEMMA PlainReturn ==
  ASSUME RefsInv, ~fs.panic, NEW p \in Procs, NEW st, At(p, st), NEW pr, NEW v,
         NEW x \in [Inums -> Int],
         Return(p, pr, v), DOMAIN pr = DOMAIN NoProc, pr.ofile = proc[p].ofile,
         pr.st = "live", pr.cwd \in Inums, FilesKept, EndsKept, Counts(fs, fs', x),
         \A i \in Inums : x[i] = One(pr.cwd = i) - Holds(proc[p], i)
  PROVE  RefsInv'
<1>1. Leaving(UserMode) /\ UserMode.shut = proc[p].sc.shut /\ UserMode.put = 0
  BY PuttingUser, UserFields, InCall
<1>2. \A i \in Inums : x[i] = One(pr.cwd = i) + One(UserMode.put = i) - Holds(proc[p], i)
  <2> TAKE i \in Inums
  <2>1. One(UserMode.put = i) = 0
    BY <1>1, Tables DEF One
  <2>2. One(pr.cwd = i) \in Int /\ Holds(proc[p], i) \in Int
    BY Ints, HoldsInt
  <2>3. x[i] = One(pr.cwd = i) - Holds(proc[p], i)
    OBVIOUS
  <2> QED
    BY <2>1, <2>2, <2>3
<1>3. ReturnWith(p, pr, v, UserMode)
  BY DEF Return
<1> QED
  BY <1>1, <1>2, <1>3, ReturnStep

\* The call of p puts the inode i and ends.
LEMMA PutStep ==
  ASSUME RefsInv, ~fs.panic, NEW p \in Procs, NEW st, At(p, st), NEW pr, NEW v, NEW i \in Inums,
         NEW x \in [Inums -> Int],
         PutReturn(p, pr, v, i), DOMAIN pr = DOMAIN NoProc, pr.ofile = proc[p].ofile,
         pr.st = "live", pr.cwd \in Inums, FilesKept, EndsKept, Counts(fs, fs', x),
         \A j \in Inums : x[j] = One(pr.cwd = j) + One(i = j) - Holds(proc[p], j)
  PROVE  RefsInv'
<1> DEFINE sc == Putting(UserMode, i)
<1>1. Leaving(sc) /\ sc.shut = proc[p].sc.shut /\ sc.put = i
  BY PuttingUser, InCall
<1>2. ReturnWith(p, pr, v, sc)
  BY DEF PutReturn
<1> HIDE DEF sc
<1>3. \A j \in Inums : x[j] = One(pr.cwd = j) + One(sc.put = j) - Holds(proc[p], j)
  BY <1>1
<1> QED
  BY <1>1, <1>2, <1>3, ReturnStep

\* It is the one inode that the call refers to.
LEMMA PutOne ==
  ASSUME RefsInv, ~fs.panic, NEW p \in Procs, NEW st, st # "exited", At(p, st), NEW v, NEW i \in Inums,
         \A j \in Inums : CallHolds(proc[p].sc, j) = One(i = j),
         Counts(fs, fs', Nothing), PutReturn(p, proc[p], v, i), FilesKept, EndsKept
  PROVE  RefsInv'
<1>1. /\ DOMAIN proc[p] = DOMAIN NoProc /\ proc[p].st = "live" /\ proc[p].cwd \in Inums
      /\ \A j : Holds(proc[p], j) = One(proc[p].cwd = j) + CallHolds(proc[p].sc, j)
  BY InCall
<1>2. \A j \in Inums : Nothing[j] = One(proc[p].cwd = j) + One(i = j) - Holds(proc[p], j)
  BY <1>1, Ints
<1> QED
  BY <1>1, <1>2, PutStep, Ints

\* ilock() of an inode that a call refers to.
LEMMA Locked ==
  ASSUME RefsInv, ~fs.panic, NEW i \in Inums
  PROVE  Counts(fs, ilock(fs, i), Nothing) /\ Good(ilock(fs, i))
  BY GoodCounts, ilockOK, LockGood

LEMMA sys_chdirOK ==
  ASSUME RefsInv, ~fs.panic, NEW p \in Procs, sys_chdir(p)
  PROVE  RefsInv'
<1> DEFINE i == proc[p].sc.ip
           d == ilock(fs, i)
           cwd == proc[p].cwd
<1>1. At(p, "chdir") /\ UNCHANGED <<ftable, pipes>> /\ fs' = d
  BY DEF sys_chdir
<1>2. /\ i \in Inums /\ cwd \in Inums /\ FilesKept /\ EndsKept /\ FsOK(fs)
      /\ \A j \in Inums : CallHolds(proc[p].sc, j) = One(i = j)
  BY <1>1, OneCall, InCall, KeptSame, GoodCounts
<1>3. Counts(fs, fs', Nothing)
  BY <1>1, <1>2, Locked
<1>4. CASE PutReturn(p, proc[p], -1, i)
  BY <1>1, <1>2, <1>3, <1>4, PutOne
<1>5. CASE PutReturn(p, [proc[p] EXCEPT !.cwd = i], 0, cwd)
  <2> DEFINE pr == [proc[p] EXCEPT !.cwd = i]
  <2>2. DOMAIN pr = DOMAIN NoProc /\ pr.ofile = proc[p].ofile /\ pr.st = "live" /\ pr.cwd = i
    BY <1>1, InCall DEF NoProc
  <2>3. \A j \in Inums : Nothing[j] = One(i = j) + One(cwd = j) - Holds(proc[p], j)
    <3>0. \A j : Holds(proc[p], j) = One(cwd = j) + CallHolds(proc[p].sc, j)
      BY <1>1, InCall
    <3>1. \A j \in Inums : Holds(proc[p], j) = One(cwd = j) + One(i = j)
      BY <1>2, <3>0
    <3> HIDE DEF cwd, i
    <3> QED
      BY <3>1, Ints
  <2>4. PutReturn(p, pr, 0, cwd)
    BY <1>5
  <2> HIDE DEF pr
  <2> QED
    BY <1>1, <1>2, <1>3, <2>2, <2>3, <2>4, PutStep, Ints
<1> QED
  BY <1>4, <1>5 DEF sys_chdir

\* Where a walk leads to.
LEMMA PhaseIn ==
  ASSUME NEW ins, ins.op \in PathOps
  PROVE  Phase(ins) \in {"open", "create", "chdir", "exec", "link", "unlink"}
  BY DEF Phase, Creates, PathOps

\* A call that walks a path, keep being the other inode of link().
OnPath(sc, ins) ==
  /\ DOMAIN sc = DOMAIN UserMode /\ sc.st \in {"namei", "parent"} /\ sc.ip \in Inums
  /\ sc.keep \in Inums \/ (sc.keep = 0 /\ ins.op \in PathOps)
  /\ sc.put \in Inums \cup {0}

SameRefs(u, sc) == /\ DOMAIN u = DOMAIN UserMode /\ u.ip = sc.ip /\ u.keep = sc.keep
                   /\ u.put = sc.put /\ u.shut = sc.shut

LEMMA ArrivedOK ==
  ASSUME NEW sc, NEW ins, OnPath(sc, ins)
  PROVE  LET u == [sc EXCEPT !.st = Arrived(sc, ins)]
         IN  CallOK(u, ins) /\ SameRefs(u, sc) /\ u.st # "exited"
<1> DEFINE a == Arrived(sc, ins)
           u == [sc EXCEPT !.st = a]
<1>1. \/ a \in {"open", "create", "chdir", "exec", "link", "unlink"} /\ sc.keep = 0
      \/ a = "linknew" /\ sc.keep \in Inums
  BY PhaseIn, Tables DEF Arrived, OnPath
<1> HIDE DEF a
<1>2. u.st = a /\ SameRefs(u, sc)
  BY UserFields DEF OnPath, SameRefs
<1> HIDE DEF u
<1>3. CallOK(u, ins)
  BY <1>1, <1>2 DEF CallOK, SameRefs, OnPath
<1> QED
  BY <1>1, <1>2, <1>3 DEF u, a

LEMMA WalkingOK ==
  ASSUME NEW sc, NEW ins, OnPath(sc, ins)
  PROVE  /\ CallOK(Walking(sc, ins), ins) /\ SameRefs(Walking(sc, ins), sc)
         /\ Walking(sc, ins).st # "exited"
<1>1. CallOK(sc, ins) /\ SameRefs(sc, sc) /\ sc.st # "exited"
  BY DEF OnPath, CallOK, SameRefs
<1> QED
  BY <1>1, ArrivedOK DEF Walking

LEMMA SameRefsHolds ==
  ASSUME NEW u, NEW sc, SameRefs(u, sc)
  PROVE  \A i : CallHolds(u, i) = CallHolds(sc, i)
  BY DEF SameRefs, CallHolds

LEMMA WalkStep ==
  ASSUME RefsInv, ~fs.panic, NEW p \in Procs, NEW st, st # "exited", At(p, st),
         NEW d, NEW path, NEW parent \in BOOLEAN, NEW keep, Counts(fs, d, Nothing),
         Walk(p, d, path, parent, keep), FilesKept, EndsKept,
         keep \in Inums \/ (keep = 0 /\ Ins(p).op \in PathOps),
         \A i \in Inums : CallHolds(proc[p].sc, i) = One(keep = i)
  PROVE  RefsInv'
<1>0. proc[p].st = "live" /\ proc[p].cwd \in Inums /\ proc[p].sc.shut = <<>>
  BY InCall
<1> DEFINE abs == path # <<>> /\ Head(path) = "/"
           ss == IF parent THEN "parent" ELSE "namei"
           rest == IF abs THEN Tail(path) ELSE path
           ip == IF abs THEN ROOTINO ELSE proc[p].cwd
           sc == [UserMode EXCEPT !.st = ss, !.path = rest, !.ip = ip, !.keep = keep]
           u == Walking(sc, Ins(p))
<1>1. ip \in Inums /\ ss \in {"parent", "namei"}
  BY <1>0, Tables
<1>2. Goto(p, u) /\ fs' = IF abs THEN iget(d, ROOTINO) ELSE idup(d, proc[p].cwd)
  BY DEF Walk
<1>3. Counts(fs, fs', Plus(ip))
  <2>1. Counts(fs, iget(d, ROOTINO), Plus(ROOTINO))
    BY GoodCounts, ThenGet
  <2>2. Counts(d, idup(d, proc[p].cwd), Plus(proc[p].cwd))
    BY <1>0, idupOK DEF Counts
  <2>3. Counts(fs, idup(d, proc[p].cwd), Plus(proc[p].cwd))
    BY <2>2, GoodCounts, Ints DEF Counts, FsOK
  <2> QED
    BY <1>2, <2>1, <2>3
<1> HIDE DEF ss, rest, ip, abs
<1>4. /\ DOMAIN sc = DOMAIN UserMode /\ sc.st = ss /\ sc.ip = ip /\ sc.keep = keep
      /\ sc.put = 0 /\ sc.shut = <<>>
  BY DEF UserMode
<1> HIDE DEF sc
<1>5. OnPath(sc, Ins(p))
  BY <1>1, <1>4 DEF OnPath
<1>6. CallOK(u, Ins(p)) /\ SameRefs(u, sc) /\ u.st # "exited"
  BY <1>5, WalkingOK
<1> HIDE DEF u
<1>7. Plus(ip) \in [Inums -> Int] /\ \A i \in Inums : Plus(ip)[i] = CallHolds(u, i) - CallHolds(proc[p].sc, i)
  <2>1. Plus(ip) \in [Inums -> Int]
    BY Ints
  <2>2. ASSUME NEW i \in Inums
        PROVE  Plus(ip)[i] = CallHolds(u, i) - CallHolds(proc[p].sc, i)
    <3>1. CallHolds(u, i) = CallHolds(sc, i) /\ CallHolds(proc[p].sc, i) = One(keep = i)
      BY <1>6, SameRefsHolds
    <3>2. CallHolds(sc, i) = One(ip = i) + One(keep = i)
      BY <1>4, Tables DEF CallHolds, One
    <3>3. Plus(ip)[i] = One(ip = i) /\ One(ip = i) \in Int /\ One(keep = i) \in Int
      BY Ints DEF One
    <3> QED
      BY <3>1, <3>2, <3>3
  <2> QED
    BY <2>1, <2>2
<1>8. u.shut = proc[p].sc.shut
  BY <1>0, <1>4, <1>6 DEF SameRefs
<1> QED
  BY <1>0, <1>2, <1>3, <1>6, <1>7, <1>8, GotoStep

LEMMA SysPathOK ==
  ASSUME RefsInv, ~fs.panic, NEW p \in Procs, SysPath(p)
  PROVE  RefsInv'
<1>1. At(p, "user") /\ Ins(p).op \in PathOps /\ FilesKept /\ EndsKept
  BY KeptSame DEF SysPath
<1>2. CASE Return(p, proc[p], -1) /\ UNCHANGED fs
  BY <1>1, <1>2, InCall, NoCall, KeptSame, PlainReturn, Ints
<1>3. CASE Walk(p, fs, Ins(p).path, Creates(Ins(p)) \/ Ins(p).op = "unlink", 0)
  <2> DEFINE b == Creates(Ins(p)) \/ Ins(p).op = "unlink"
  <2>1. b \in BOOLEAN /\ Counts(fs, fs, Nothing)
    BY <1>1, SameOK, GoodCounts DEF Creates
  <2>2. \A i \in Inums : CallHolds(proc[p].sc, i) = One(0 = i)
    BY <1>1, NoCall, Tables DEF One
  <2>3. Walk(p, fs, Ins(p).path, b, 0)
    BY <1>3
  <2> HIDE DEF b
  <2> QED
    BY <1>1, <2>1, <2>2, <2>3, WalkStep
<1> QED
  BY <1>2, <1>3 DEF SysPath

LEMMA InWalk ==
  ASSUME RefsInv, ~fs.panic, NEW p \in Procs, NEW st \in {"namei", "parent"}, At(p, st)
  PROVE  /\ OnPath(proc[p].sc, Ins(p)) /\ proc[p].sc.put = 0 /\ proc[p].sc.shut = <<>>
         /\ \A i \in Inums : CallHolds(proc[p].sc, i) = One(proc[p].sc.ip = i) + One(proc[p].sc.keep = i)
<1>1. CallOK(proc[p].sc, Ins(p)) /\ proc[p].sc.st = st /\ proc[p].sc.put = 0 /\ proc[p].sc.shut = <<>>
  BY InCall
<1>2. OnPath(proc[p].sc, Ins(p))
  BY <1>1 DEF CallOK, OnPath
<1>3. ASSUME NEW i \in Inums
      PROVE  CallHolds(proc[p].sc, i) = One(proc[p].sc.ip = i) + One(proc[p].sc.keep = i)
  BY <1>1, Tables DEF CallHolds, One
<1> QED
  BY <1>1, <1>2, <1>3

\* The call of p goes on and refers to the same inodes as before.
LEMMA SameStep ==
  ASSUME RefsInv, ~fs.panic, NEW p \in Procs, NEW st, st # "exited", At(p, st), NEW u,
         Goto(p, u), CallOK(u, Ins(p)), u.st # "exited", u.shut = <<>>,
         \A i \in Inums : CallHolds(u, i) = CallHolds(proc[p].sc, i),
         Counts(fs, fs', Nothing), FilesKept, EndsKept
  PROVE  RefsInv'
<1>1. proc[p].st = "live" /\ proc[p].cwd \in Inums /\ proc[p].sc.shut = <<>>
  BY InCall
<1>2. \A i \in Inums : Nothing[i] = CallHolds(u, i) - CallHolds(proc[p].sc, i)
  <2> TAKE i \in Inums
  <2>1. CallHolds(u, i) = CallHolds(proc[p].sc, i) /\ CallHolds(proc[p].sc, i) \in Int /\ Nothing[i] = 0
    BY HoldsInt, Ints
  <2> QED
    BY <2>1
<1> QED
  BY <1>1, <1>2, GotoStep, Ints

LEMMA namexOK ==
  ASSUME RefsInv, ~fs.panic, NEW p \in Procs, namex(p)
  PROVE  RefsInv'
<1> DEFINE sc == proc[p].sc
           i == sc.ip
           d == ilock(fs, i)
           par == sc.st = "parent"
           name == skipelem(Head(sc.path))
           next == dirlookup(d, i, name)
           Lost == IF sc.keep = 0 THEN PutReturn(p, proc[p], -1, i)
                   ELSE Goto(p, [sc EXCEPT !.st = "linkbad", !.ip = 0, !.put = i])
           here == [[sc EXCEPT !.name = name] EXCEPT !.st = Arrived(sc, Ins(p))]
           on == [sc EXCEPT !.path = Tail(@), !.ip = next]
<1>1. PICK st \in {"namei", "parent"} : At(p, st)
  BY DEF namex
<1>2. FilesKept /\ EndsKept
  BY KeptSame DEF namex
<1>3. /\ OnPath(sc, Ins(p)) /\ i \in Inums /\ DOMAIN sc = DOMAIN UserMode
      /\ sc.put = 0 /\ sc.shut = <<>>
      /\ \A j \in Inums : CallHolds(sc, j) = One(i = j) + One(sc.keep = j)
      /\ proc[p].st = "live" /\ proc[p].cwd \in Inums
  BY <1>1, InWalk, InCall DEF OnPath
<1>4. Counts(fs, d, Nothing) /\ Counts(fs, fs, Nothing) /\ Good(fs) /\ Good(d) /\ FsOK(fs)
  BY <1>3, Locked, GoodCounts, SameOK
<1>5. \/ Counts(fs, fs', Nothing) /\ Lost
      \/ fs' = d /\ Goto(p, here)
      \/ fs' = iget(d, next) /\ Goto(p, Putting(Walking(on, Ins(p)), i))
  <2>1. fs' = d => Counts(fs, fs', Nothing)
    BY <1>4
  <2>2. UNCHANGED fs => Counts(fs, fs', Nothing)
    BY <1>4
  <2>3. here = [sc EXCEPT !.name = name, !.st = Arrived(sc, Ins(p))]
    OBVIOUS
  <2> QED
    BY <2>1, <2>2, <2>3 DEF namex
<1>6. CASE Counts(fs, fs', Nothing) /\ Lost
  <2>1. CASE sc.keep = 0
    <3>1. \A j \in Inums : CallHolds(sc, j) = One(i = j)
      <4> TAKE j \in Inums
      <4>1. One(sc.keep = j) = 0 /\ One(i = j) \in Int
        BY <2>1, Tables, Ints DEF One
      <4> QED
        BY <1>3, <4>1
    <3> QED
      BY <1>1, <1>2, <1>3, <1>6, <2>1, <3>1, PutOne
  <2>2. CASE sc.keep # 0
    <3> DEFINE u == [sc EXCEPT !.st = "linkbad", !.ip = 0, !.put = i]
    <3>1. /\ DOMAIN u = DOMAIN UserMode /\ u.st = "linkbad" /\ u.ip = 0 /\ u.keep = sc.keep
          /\ u.put = i /\ u.shut = <<>>
      BY <1>3, UserFields
    <3>2. Goto(p, u) /\ sc.keep \in Inums
      BY <1>3, <1>6, <2>2 DEF OnPath
    <3> HIDE DEF u
    <3>3. CallOK(u, Ins(p))
      BY <1>3, <3>1, <3>2 DEF CallOK
    <3>4. ASSUME NEW j \in Inums
          PROVE  CallHolds(u, j) = CallHolds(sc, j)
      <4>1. CallHolds(u, j) = One(sc.keep = j) + One(i = j)
        BY <3>1, Tables DEF CallHolds, One
      <4>2. CallHolds(sc, j) = One(i = j) + One(sc.keep = j) /\ One(i = j) \in Int /\ One(sc.keep = j) \in Int
        BY <1>3, Ints
      <4> QED
        BY <4>1, <4>2
    <3> QED
      BY <1>1, <1>2, <1>6, <3>1, <3>2, <3>3, <3>4, SameStep
  <2> QED
    BY <2>1, <2>2
<1>7. CASE fs' = d /\ Goto(p, here)
  <2> DEFINE t == [sc EXCEPT !.name = name]
             u == [t EXCEPT !.st = Arrived(t, Ins(p))]
  <2>1. SameRefs(t, sc) /\ t.st = sc.st
    BY <1>3, UserFields DEF SameRefs
  <2>2. here = u
    BY <2>1 DEF Arrived, SameRefs
  <2> HIDE DEF t, here
  <2>3. OnPath(t, Ins(p))
    BY <1>3, <2>1 DEF OnPath, SameRefs
  <2>4. CallOK(u, Ins(p)) /\ SameRefs(u, t) /\ u.st # "exited"
    BY <2>3, ArrivedOK
  <2> HIDE DEF u
  <2>5. \A j \in Inums : CallHolds(u, j) = CallHolds(sc, j)
    BY <2>1, <2>4, SameRefsHolds
  <2>6. u.shut = <<>> /\ Goto(p, u)
    BY <1>3, <1>7, <2>1, <2>2, <2>4 DEF SameRefs
  <2> QED
    BY <1>1, <1>2, <1>4, <1>7, <2>4, <2>5, <2>6, SameStep
<1>8. CASE fs' = iget(d, next) /\ Goto(p, Putting(Walking(on, Ins(p)), i))
  <2> DEFINE w == Walking(on, Ins(p))
             u == Putting(w, i)
  <2>1. Counts(fs, fs', Plus(next))
    BY <1>4, <1>8, ThenGet
  <2>2. next \notin Inums => fs'.panic
    BY <1>4, <1>8 DEF iget, Panic, FsOK, Good
  <2> SUFFICES ASSUME next \in Inums
               PROVE  RefsInv'
    BY <2>2 DEF RefsInv
  <2>3. /\ DOMAIN on = DOMAIN UserMode /\ on.st = sc.st /\ on.ip = next /\ on.keep = sc.keep
        /\ on.put = 0 /\ on.shut = <<>>
    BY <1>3, UserFields
  <2> HIDE DEF on, next
  <2>4. OnPath(on, Ins(p))
    BY <1>3, <2>3 DEF OnPath
  <2>5. CallOK(w, Ins(p)) /\ SameRefs(w, on) /\ w.st # "exited"
    BY <2>4, WalkingOK
  <2>6. Goto(p, u)
    BY <1>8
  <2> HIDE DEF w
  <2>7. /\ DOMAIN u = DOMAIN UserMode /\ u.st = w.st /\ u.ip = next /\ u.keep = sc.keep
        /\ u.put = i /\ u.shut = <<>>
    BY <2>3, <2>5, UserFields DEF SameRefs, Putting
  <2> HIDE DEF u
  <2>8. CallOK(u, Ins(p))
    BY <1>3, <2>3, <2>5, <2>7 DEF CallOK, SameRefs
  <2>9. ASSUME NEW j \in Inums
        PROVE  Plus(next)[j] = CallHolds(u, j) - CallHolds(sc, j)
    <3>1. CallHolds(u, j) = One(next = j) + One(sc.keep = j) + One(i = j)
      BY <2>7 DEF CallHolds
    <3>2. CallHolds(sc, j) = One(i = j) + One(sc.keep = j)
      BY <1>3
    <3>3. Plus(next)[j] = One(next = j) /\ One(next = j) \in Int /\ One(sc.keep = j) \in Int /\ One(i = j) \in Int
      BY Ints DEF One
    <3> QED
      BY <3>1, <3>2, <3>3
  <2>10. Plus(next) \in [Inums -> Int]
    BY Ints
  <2> QED
    BY <1>2, <1>3, <2>1, <2>5, <2>6, <2>7, <2>8, <2>9, <2>10, GotoStep
<1> QED
  BY <1>5, <1>6, <1>7, <1>8

-----------------------------------------------------------------------------
(* Steps that change one descriptor of a process and the file it is of.    *)

OneDesc(p, fd, f) ==
  LET n == proc'[p]
      e == ftable'[f]
  IN  /\ ProcOK(n) /\ proc' = [proc EXCEPT ![p] = n]
      /\ \A g \in Fds \ {fd} : n.ofile[g] = proc[p].ofile[g]
      /\ FileOK(e) /\ (ftable' = [ftable EXCEPT ![f] = e] \/ UNCHANGED ftable)
      /\ e.ref = ftable[f].ref + One(n.ofile[fd] = f) - One(proc[p].ofile[fd] = f)
      /\ \A g \in Files \ {f} : n.ofile[fd] # g /\ proc[p].ofile[fd] # g

PipesFit == /\ DOMAIN pipes' = Pipes /\ \A y \in Pipes : DOMAIN pipes'[y] = {"open", "data"}
            /\ EndsOK' /\ \A y \in Pipes : pipes'[y].open = Sides(y)'

LEMMA DescStep ==
  ASSUME RefsInv, ~fs.panic, NEW p \in Procs, NEW fd \in Fds, NEW f \in Files,
         OneDesc(p, fd, f), PipesFit, NEW x \in [Inums -> Int], Counts(fs, fs', x),
         \A i \in Inums : x[i] = Holds(proc'[p], i) - Holds(proc[p], i)
                                 + FileHolds(ftable'[f], i) - FileHolds(ftable[f], i)
  PROVE  RefsInv'
<1> DEFINE n == proc'[p]
           e == ftable'[f]
<1> SUFFICES ASSUME ~fs'.panic
             PROVE  RefsInv'
  BY DEF RefsInv
<1>1. Shapes /\ EndsOK /\ RefsExact
  BY DEF RefsInv
<1>2. /\ DOMAIN proc = Procs /\ \A q \in Procs : ProcOK(proc[q])
      /\ DOMAIN ftable = Files /\ \A g \in Files : FileOK(ftable[g])
  BY <1>1 DEF Shapes
<1>a. /\ proc' = [proc EXCEPT ![p] = n] /\ (ftable' = [ftable EXCEPT ![f] = e] \/ UNCHANGED ftable)
      /\ ProcOK(n) /\ FileOK(e)
  BY DEF OneDesc
<1>c. ftable'[f] = e
  OBVIOUS
<1>b. /\ \A g \in Fds \ {fd} : n.ofile[g] = proc[p].ofile[g]
      /\ e.ref = ftable[f].ref + One(n.ofile[fd] = f) - One(proc[p].ofile[fd] = f)
      /\ \A g \in Files \ {f} : n.ofile[fd] # g /\ proc[p].ofile[fd] # g
  BY DEF OneDesc
<1> HIDE DEF n, e
<1>3. /\ proc'[p] = n /\ DOMAIN proc' = Procs /\ \A q \in Procs \ {p} : proc'[q] = proc[q]
      /\ ftable'[f] = e /\ DOMAIN ftable' = Files /\ \A g \in Files \ {f} : ftable'[g] = ftable[g]
  BY <1>2, <1>a, <1>c
<1>4. Shapes'
  <2>1. FsOK(fs')
    BY DEF Counts
  <2> QED
    BY <1>2, <1>3, <1>a, <2>1 DEF Shapes, PipesFit
<1>5. \A i \in Inums : fs'.ic[i].ref = Holders(i)'
  <2>1. \A q \in Procs \ {p} : SameCall(proc'[q], proc[q])
    BY <1>3 DEF SameCall
  <2>2. \A g \in Files \ {f} : ftable'[g].type = ftable[g].type /\ ftable'[g].ip = ftable[g].ip
    BY <1>3
  <2>3. \A i \in Inums : x[i] = Holds(proc'[p], i) - Holds(proc[p], i)
                                 + FileHolds(ftable'[f], i) - FileHolds(ftable[f], i)
    BY <1>3
  <2> QED
    BY <1>1, <2>1, <2>2, <2>3, InodesStep
<1>6. \A g \in Files : ftable'[g].ref = Cardinality(Descs(g))'
  <2> TAKE g \in Files
  <2>1. OtherDescs(proc, proc', p, fd)
    BY <1>3, <1>b DEF OtherDescs
  <2> DEFINE a == Cardinality(DescsIn(proc, g))
             b == Cardinality(DescsIn(proc', g))
  <2>0. p \in Procs /\ fd \in Fds
    OBVIOUS
  <2>2. /\ a \in Nat /\ b \in Nat
        /\ b = a + One(<<p, fd>> \in DescsIn(proc', g)) - One(<<p, fd>> \in DescsIn(proc, g))
    BY <2>0, <2>1, DescsStep
  <2>3. ftable[g].ref = a /\ Cardinality(Descs(g))' = b
    BY <1>1 DEF RefsExact, Descs, DescsIn
  <2> HIDE DEF a, b
  <2>4. b = a + One(n.ofile[fd] = g) - One(proc[p].ofile[fd] = g)
    <3>1. /\ <<p, fd>> \in DescsIn(proc', g) <=> n.ofile[fd] = g
          /\ <<p, fd>> \in DescsIn(proc, g) <=> proc[p].ofile[fd] = g
      BY <1>3, <2>0 DEF DescsIn
    <3>2. /\ One(<<p, fd>> \in DescsIn(proc', g)) = One(n.ofile[fd] = g)
          /\ One(<<p, fd>> \in DescsIn(proc, g)) = One(proc[p].ofile[fd] = g)
      BY <3>1 DEF One
    <3> QED
      BY <2>2, <3>2
  <2>5. CASE g = f
    BY <1>3, <1>b, <2>2, <2>3, <2>4, <2>5, Ints
  <2>6. CASE g # f
    <3>1. One(n.ofile[fd] = g) = 0 /\ One(proc[p].ofile[fd] = g) = 0
      BY <1>b, <2>6 DEF One
    <3> QED
      BY <1>3, <2>2, <2>3, <2>4, <2>6, <3>1
  <2> QED
    BY <2>5, <2>6
<1> QED
  BY <1>4, <1>5, <1>6 DEF RefsInv, RefsExact, PipesFit

\* What is left of the process when its call ends.
LEMMA Returned ==
  ASSUME RefsInv, ~fs.panic, NEW p \in Procs, NEW pr, NEW v, NEW sc, ReturnWith(p, pr, v, sc),
         Leaving(sc), DOMAIN pr = DOMAIN NoProc, DOMAIN pr.ofile = Fds,
         \A fd \in Fds : pr.ofile[fd] \in Files \cup {0}, pr.st = "live", pr.cwd \in Inums
  PROVE  \E n : /\ proc' = [proc EXCEPT ![p] = n] /\ ProcOK(n) /\ n.ofile = pr.ofile /\ n.sc = sc
                /\ \A i \in Inums : Holds(n, i) = One(pr.cwd = i) + One(sc.put = i)
<1> DEFINE n == [pr EXCEPT !.sc = sc, !.pc = @ + 1, !.ret = v,
             !.reg = IF "dst" \in DOMAIN Ins(p) THEN [@ EXCEPT ![Ins(p).dst] = v] ELSE @]
<1>2. proc' = [proc EXCEPT ![p] = n]
  BY DEF ReturnWith
<1>3. /\ DOMAIN n = DOMAIN NoProc /\ n.ofile = pr.ofile /\ n.st = pr.st /\ n.cwd = pr.cwd
      /\ n.sc = sc
  BY DEF NoProc
<1> HIDE DEF n
<1>4. CallOK(n.sc, Program[n.prog][n.pc])
  BY <1>3, LeavingOK
<1>5. ProcOK(n)
  BY <1>3, <1>4 DEF ProcOK, Leaving
<1>6. \A i \in Inums : Holds(n, i) = One(pr.cwd = i) + One(sc.put = i)
  BY <1>3, LeavingOK, Ints DEF Holds, One
<1> QED
  BY <1>2, <1>3, <1>5, <1>6

\* The one inode that a call refers to becomes the inode of a file, or is put.
LEMMA OpenStep ==
  ASSUME RefsInv, ~fs.panic, NEW p \in Procs, NEW st, st # "exited", At(p, st),
         NEW d, NEW i \in Inums, Counts(fs, d, Nothing),
         \A j \in Inums : CallHolds(proc[p].sc, j) = One(i = j),
         OpenInode(p, d, i), UNCHANGED pipes
  PROVE  RefsInv'
<1>b. \A j : Holds(proc[p], j) = One(proc[p].cwd = j) + CallHolds(proc[p].sc, j)
  BY InCall
<1>c. /\ proc[p].st = "live" /\ proc[p].cwd \in Inums /\ DOMAIN proc[p] = DOMAIN NoProc
      /\ proc[p].sc.shut = <<>>
  BY InCall
<1>0. /\ proc[p].st = "live" /\ proc[p].cwd \in Inums /\ DOMAIN proc[p] = DOMAIN NoProc
      /\ \A j : Holds(proc[p], j) = One(proc[p].cwd = j) + CallHolds(proc[p].sc, j)
      /\ proc[p].sc.shut = <<>>
  BY <1>b, <1>c
<1>a. Counts(fs, fs', Nothing)
  BY DEF OpenInode
<1>1. CASE PutReturn(p, proc[p], -1, i) /\ UNCHANGED ftable
  <2>1. FilesKept /\ EndsKept
    BY <1>1, KeptSame
  <2> QED
    BY <1>a, <1>1, <2>1, PutOne
<1>2. CASE ~(FreeFiles = {} \/ FreeFds(p) = {})
  <2> DEFINE f == Min(FreeFiles)
             fd == Min(FreeFds(p))
             mode == Ins(p).mode
             e == [type |-> "inode", ref |-> 1, readable |-> "WRONLY" \notin mode,
                   writable |-> mode \cap {"WRONLY", "RDWR"} # {}, ip |-> i, off |-> 0]
             pr == [proc[p] EXCEPT !.ofile[fd] = f]
  <2>1. ftable' = [ftable EXCEPT ![f] = e] /\ ReturnWith(p, pr, fd, UserMode)
    BY <1>2 DEF OpenInode, Return
  <2>2. f \in Files /\ ftable[f].ref = 0 /\ fd \in Fds /\ proc[p].ofile[fd] = 0
    <3>1. f \in FreeFiles /\ fd \in FreeFds(p)
      BY <1>2, Least, Tables DEF FreeFiles, FreeFds
    <3> HIDE DEF f, fd
    <3> QED
      BY <3>1 DEF FreeFiles, FreeFds
  <2> HIDE DEF f, fd, mode
  <2>3. Shapes /\ EndsOK /\ RefsExact
    BY DEF RefsInv
  <2>4. /\ FileOK(ftable[f]) /\ ProcOK(proc[p])
        /\ DOMAIN ftable = Files
    BY <2>2, <2>3 DEF Shapes
  <2>5. /\ DOMAIN pr = DOMAIN NoProc /\ DOMAIN pr.ofile = Fds /\ pr.ofile[fd] = f
        /\ \A g \in Fds \ {fd} : pr.ofile[g] = proc[p].ofile[g]
        /\ pr.st = "live" /\ pr.cwd = proc[p].cwd
    BY <1>0, <2>2, <2>4 DEF ProcOK, NoProc
  <2>6. \A g \in Fds : pr.ofile[g] \in Files \cup {0}
    BY <2>2, <2>4, <2>5 DEF ProcOK
  <2>7. FileOK(e) /\ e.ref = 1 /\ e.type = "inode" /\ e.ip = i
    BY DEF FileOK, NoFile
  <2> HIDE DEF pr, e
  <2>a. Leaving(UserMode) /\ UserMode.put = 0 /\ UserMode.shut = <<>>
    BY PuttingUser, UserFields
  <2>8. PICK n : /\ proc' = [proc EXCEPT ![p] = n] /\ ProcOK(n) /\ n.ofile = pr.ofile /\ n.sc = UserMode
                 /\ \A j \in Inums : Holds(n, j) = One(pr.cwd = j) + One(UserMode.put = j)
    BY <1>0, <2>1, <2>a, <2>5, <2>6, Returned
  <2>b. proc'[p] = n /\ \A q \in Procs \ {p} : proc'[q] = proc[q]
    BY <2>3, <2>8 DEF Shapes
  <2>9. PipesFit
    <3>1. ftable'[f] = e /\ \A g \in Files \ {f} : ftable'[g] = ftable[g]
      BY <2>1, <2>2, <2>4
    <3>2. ftable[f].type = "none"
      BY <2>2, <2>4 DEF FileOK
    <3>3. EndsKept
      BY <2>3, <2>7, <3>1, <3>2 DEF EndsKept, Shapes
    <3>4. ShutsKept
      BY <1>0, <2>8, <2>a, <2>b DEF ShutsKept
    <3> QED
      BY <2>3, <3>3, <3>4, EndsStep DEF PipesFit, EndsKept
  <2>10. \A j \in Inums : Nothing[j] = Holds(n, j) - Holds(proc[p], j) + FileHolds(e, j) - FileHolds(ftable[f], j)
    <3>1. ftable[f].type = "none"
      BY <2>2, <2>4 DEF FileOK
    <3> TAKE j \in Inums
    <3>2. FileHolds(ftable[f], j) = 0 /\ FileHolds(e, j) = One(i = j)
      BY <2>7, <3>1 DEF FileHolds, One
    <3>3. Holds(n, j) = One(proc[p].cwd = j)
      BY <2>5, <2>8, <2>a, Tables DEF One
    <3>4. Holds(proc[p], j) = One(proc[p].cwd = j) + One(i = j)
      BY <1>0
    <3>5. One(proc[p].cwd = j) \in Int /\ One(i = j) \in Int /\ Nothing[j] = 0
      BY Ints
    <3> QED
      BY <3>2, <3>3, <3>4, <3>5
  <2>11. /\ e.ref = ftable[f].ref + One(n.ofile[fd] = f) - One(proc[p].ofile[fd] = f)
         /\ \A g \in Files \ {f} : n.ofile[fd] # g /\ proc[p].ofile[fd] # g
         /\ \A g \in Fds \ {fd} : n.ofile[g] = proc[p].ofile[g]
    BY <2>2, <2>5, <2>7, <2>8, Tables DEF One
  <2>12. proc'[p] = n /\ ftable'[f] = e
    BY <2>1, <2>2, <2>3, <2>8 DEF Shapes
  <2>13. OneDesc(p, fd, f)
    BY <2>1, <2>7, <2>8, <2>11, <2>12 DEF OneDesc
  <2>14. Nothing \in [Inums -> Int]
    BY Ints
  <2> QED
    BY <1>a, <2>2, <2>9, <2>10, <2>12, <2>13, <2>14, DescStep
<1> QED
  BY <1>1, <1>2 DEF OpenInode

LEMMA sys_openOK ==
  ASSUME RefsInv, ~fs.panic, NEW p \in Procs, sys_open(p) \/ CreateExisting(p) \/ Created(p)
  PROVE  RefsInv'
<1> DEFINE i == proc[p].sc.ip
<1>1. PICK st \in {"open", "existing", "created"} : At(p, st)
  BY DEF sys_open, CreateExisting, Created
<1>2. /\ i \in Inums /\ UNCHANGED pipes
      /\ \A j \in Inums : CallHolds(proc[p].sc, j) = One(i = j)
  BY <1>1, OneCall DEF sys_open, CreateExisting, Created
<1>3. Counts(fs, ilock(fs, i), Nothing) /\ Counts(fs, iunlock(fs, i), Nothing)
  BY <1>2, Locked, SameOK, GoodCounts, LockOK DEF iunlock
<1>4. ASSUME NEW d, Counts(fs, d, Nothing), NEW v,
             OpenInode(p, d, i) \/ (fs' = d /\ PutReturn(p, proc[p], v, i) /\ UNCHANGED ftable)
      PROVE  RefsInv'
  <2>1. CASE OpenInode(p, d, i)
    BY <1>1, <1>2, <1>4, <2>1, OpenStep
  <2>2. CASE fs' = d /\ PutReturn(p, proc[p], v, i) /\ UNCHANGED ftable
    <3>1. FilesKept /\ EndsKept
      BY <1>2, <2>2, KeptSame
    <3> QED
      BY <1>1, <1>2, <1>4, <2>2, <3>1, PutOne
  <2> QED
    BY <1>4, <2>1, <2>2
<1>5. CASE sys_open(p) \/ CreateExisting(p)
  <2>1. \/ OpenInode(p, ilock(fs, i), i)
        \/ fs' = ilock(fs, i) /\ PutReturn(p, proc[p], -1, i) /\ UNCHANGED ftable
    BY <1>5 DEF sys_open, CreateExisting
  <2> QED
    BY <1>3, <1>4, <2>1
<1>6. CASE Created(p)
  <2>1. \/ OpenInode(p, iunlock(fs, i), i)
        \/ fs' = iunlock(fs, i) /\ PutReturn(p, proc[p], 0, i) /\ UNCHANGED ftable
    BY <1>6 DEF Created
  <2> QED
    BY <1>3, <1>4, <2>1
<1> QED
  BY <1>5, <1>6

\* The call of p goes on with one more inode.
LEMMA GetStep ==
  ASSUME RefsInv, ~fs.panic, NEW p \in Procs, NEW st, st # "exited", At(p, st), NEW u, NEW k,
         Goto(p, u), fs'.panic \/ CallOK(u, Ins(p)), u.st # "exited", u.shut = <<>>, Counts(fs, fs', Plus(k)),
         \A i \in Inums : CallHolds(u, i) = CallHolds(proc[p].sc, i) + One(k = i),
         FilesKept, EndsKept
  PROVE  RefsInv'
<1>1. proc[p].st = "live" /\ proc[p].cwd \in Inums /\ proc[p].sc.shut = <<>>
  BY InCall
<1>2. \A i \in Inums : Plus(k)[i] = CallHolds(u, i) - CallHolds(proc[p].sc, i)
  <2> TAKE i \in Inums
  <2>1. CallHolds(u, i) = CallHolds(proc[p].sc, i) + One(k = i) /\ CallHolds(proc[p].sc, i) \in Int
    BY HoldsInt
  <2>2. Plus(k)[i] = One(k = i) /\ One(k = i) \in Int
    BY Ints DEF One
  <2> QED
    BY <2>1, <2>2
<1>3. Plus(k) \in [Inums -> Int]
  BY Ints
<1> QED
  BY <1>1, <1>2, <1>3, GotoStep

\* An entry with a number that is no inode's ends in a panic.
LEMMA GotOrPanic ==
  ASSUME NEW d, FsOK(d), NEW i, i \notin Inums
  PROVE  iget(d, i).panic
  BY DEF iget, Panic, FsOK

LEMMA createOK ==
  ASSUME RefsInv, ~fs.panic, NEW p \in Procs, create(p)
  PROVE  RefsInv'
<1> DEFINE dp == proc[p].sc.ip
           name == proc[p].sc.name
           d == ilock(fs, dp)
           old == dirlookup(d, dp, name)
           op == Ins(p).op
           type == CASE op = "open" -> "file" [] op = "mkdir" -> "dir" [] op = "mknod" -> "dev"
           major == IF op = "mknod" THEN Ins(p).major ELSE 0
           new == NewEntry(d, dp, name, type, major)
           At2(i, st) == [UserMode EXCEPT !.st = st, !.ip = i, !.put = dp]
<1>1. At(p, "create") /\ FilesKept /\ EndsKept
  BY KeptSame DEF create
<1>2. dp \in Inums /\ \A j \in Inums : CallHolds(proc[p].sc, j) = One(dp = j)
  BY <1>1, OneCall
<1>3. Counts(fs, d, Nothing) /\ Good(d) /\ FsOK(d)
  BY <1>2, Locked DEF Good
<1>4. \/ fs' = iget(d, old) /\ Goto(p, At2(old, "existing"))
      \/ fs' = [new.d EXCEPT !.ic[new.i].lock = p] /\ Goto(p, At2(new.i, "created"))
  BY DEF create
<1>5. new.i \in Inums /\ Counts(d, new.d, Plus(new.i))
  BY <1>2, <1>3, NewEntryOK
<1> HIDE DEF old, new, d, name, type, major, op
<1>6. ASSUME NEW i, NEW st \in {"existing", "created"}, Goto(p, At2(i, st)),
             Counts(fs, fs', Plus(i)), fs'.panic \/ i \in Inums
      PROVE  RefsInv'
  <2> DEFINE u == At2(i, st)
  <2>1. /\ DOMAIN u = DOMAIN UserMode /\ u.st = st /\ u.ip = i /\ u.keep = 0 /\ u.put = dp
        /\ u.shut = <<>>
    BY DEF UserMode
  <2>2. Goto(p, u)
    BY <1>6
  <2> HIDE DEF u, dp
  <2>3. fs'.panic \/ CallOK(u, Ins(p))
    BY <1>2, <1>6, <2>1 DEF CallOK
  <2>4. ASSUME NEW j \in Inums
        PROVE  CallHolds(u, j) = CallHolds(proc[p].sc, j) + One(i = j)
    <3>1. CallHolds(u, j) = One(i = j) + One(dp = j)
      BY <2>1, Tables DEF CallHolds, One
    <3>2. CallHolds(proc[p].sc, j) = One(dp = j) /\ One(dp = j) \in Int /\ One(i = j) \in Int
      BY <1>2, Ints
    <3> QED
      BY <3>1, <3>2
  <2> QED
    BY <1>1, <1>6, <2>1, <2>2, <2>3, <2>4, GetStep
<1>7. CASE fs' = iget(d, old) /\ Goto(p, At2(old, "existing"))
  <2>1. Counts(fs, fs', Plus(old)) /\ (fs'.panic \/ old \in Inums)
    BY <1>3, <1>7, GoodCounts, ThenGet, GotOrPanic
  <2> HIDE DEF At2
  <2> QED
    BY <1>6, <1>7, <2>1
<1>8. CASE fs' = [new.d EXCEPT !.ic[new.i].lock = p] /\ Goto(p, At2(new.i, "created"))
  <2>1. Counts(fs, new.d, Plus(new.i))
    BY <1>3, <1>5, GoodCounts, Ints DEF Counts, FsOK
  <2>2. Counts(fs, fs', Plus(new.i))
    BY <1>5, <1>8, <2>1, LockOK
  <2> HIDE DEF At2
  <2> QED
    BY <1>5, <1>6, <1>8, <2>2
<1> QED
  BY <1>4, <1>7, <1>8

-----------------------------------------------------------------------------
(* exec(), link() and unlink().                                            *)

\* One process changes, and keeps its descriptors.
LEMMA OneProc ==
  ASSUME RefsInv, ~fs.panic, NEW p \in Procs, NEW n, proc' = [proc EXCEPT ![p] = n],
         ProcOK(n), n.ofile = proc[p].ofile, n.sc.shut = proc[p].sc.shut, FilesKept, EndsKept,
         NEW x \in [Inums -> Int], Counts(fs, fs', x),
         \A i \in Inums : x[i] = Holds(n, i) - Holds(proc[p], i)
  PROVE  RefsInv'
<1>1. DOMAIN proc = Procs /\ \A q \in Procs : ProcOK(proc[q])
  BY DEF RefsInv, Shapes
<1>2. proc'[p] = n /\ DOMAIN proc' = Procs /\ \A q \in Procs \ {p} : proc'[q] = proc[q]
  BY <1>1
<1>3. DescsKept /\ ShutsKept /\ \A q \in Procs \ {p} : SameCall(proc'[q], proc[q])
  BY <1>1, <1>2 DEF DescsKept, SameCall, ShutsKept
<1>4. \A i \in Inums : x[i] = Holds(proc'[p], i) - Holds(proc[p], i)
  BY <1>2
<1> QED
  BY <1>3, <1>4, CallStep

LEMMA execOK ==
  ASSUME RefsInv, ~fs.panic, NEW p \in Procs, exec(p)
  PROVE  RefsInv'
<1> DEFINE i == proc[p].sc.ip
           d == ilock(fs, i)
           w == Putting(UserMode, i)
<1>1. At(p, "exec") /\ fs' = d /\ UNCHANGED <<ftable, pipes>>
  BY DEF exec
<1>2. /\ i \in Inums /\ FilesKept /\ EndsKept /\ FsOK(fs)
      /\ \A j \in Inums : CallHolds(proc[p].sc, j) = One(i = j)
  BY <1>1, OneCall, KeptSame, GoodCounts
<1>3. Counts(fs, fs', Nothing)
  BY <1>1, <1>2, Locked
<1>4. CASE PutReturn(p, proc[p], -1, i)
  BY <1>1, <1>2, <1>3, <1>4, PutOne
<1>5. ASSUME NEW prog, NEW sz, NEW vm,
             proc' = [proc EXCEPT ![p] = [@ EXCEPT !.sc = w, !.prog = prog, !.pc = 1,
                             !.acc = <<>>, !.sz = sz, !.vm = vm, !.dirty = {}]]
      PROVE  RefsInv'
  <2> DEFINE n == [proc[p] EXCEPT !.sc = w, !.prog = prog, !.pc = 1,
                             !.acc = <<>>, !.sz = sz, !.vm = vm, !.dirty = {}]
  <2>1. ProcOK(proc[p]) /\ DOMAIN proc = Procs /\ proc[p].st = "live" /\ proc[p].cwd \in Inums
    BY <1>1, InCall DEF RefsInv, Shapes
  <2>2. /\ DOMAIN n = DOMAIN proc[p] /\ n.ofile = proc[p].ofile /\ n.st = proc[p].st
        /\ n.cwd = proc[p].cwd /\ n.sc = w
    BY <2>1 DEF ProcOK, NoProc
  <2>3. proc' = [proc EXCEPT ![p] = n]
    BY <1>5
  <2>a. Leaving(w) /\ w.put = i /\ w.shut = <<>> /\ proc[p].sc.shut = <<>>
    BY <1>1, <1>2, PuttingUser, InCall
  <2> HIDE DEF n, w
  <2>4. ProcOK(n)
    <3>1. CallOK(n.sc, Program[n.prog][n.pc])
      BY <2>2, <2>a, LeavingOK
    <3> QED
      BY <2>1, <2>2, <2>a, <3>1 DEF ProcOK, Leaving
  <2>6. \A j \in Inums : Nothing[j] = Holds(n, j) - Holds(proc[p], j)
    <3>0. \A j : Holds(proc[p], j) = One(proc[p].cwd = j) + CallHolds(proc[p].sc, j)
      BY <1>1, InCall
    <3> TAKE j \in Inums
    <3>1. Holds(n, j) = One(proc[p].cwd = j) + One(i = j)
      BY <2>1, <2>2, <2>a, LeavingOK, Ints DEF Holds, One
    <3>2. Holds(proc[p], j) = One(proc[p].cwd = j) + One(i = j)
      BY <1>2, <3>0
    <3>3. Nothing[j] = 0 /\ One(proc[p].cwd = j) \in Int /\ One(i = j) \in Int
      BY Ints
    <3> QED
      BY <3>1, <3>2, <3>3
  <2>7. n.ofile = proc[p].ofile /\ n.sc.shut = proc[p].sc.shut /\ FilesKept /\ EndsKept
    BY <1>2, <2>2, <2>a
  <2>8. Nothing \in [Inums -> Int]
    BY Ints
  <2> HIDE DEF i, d
  <2> QED
    BY <1>3, <2>3, <2>4, <2>6, <2>7, <2>8, OneProc
<1> DEFINE At1(off) == IF ReadFails(d, i, off) THEN <<>> ELSE readi(d, i, off, 1)
           image == execvm(pages, At1(0), At1(1), At1(2), Ins(p).arglen)
           prog == At1(1)[1][2]
<1>6. \/ PutReturn(p, proc[p], -1, i)
      \/ proc' = [proc EXCEPT ![p] = [@ EXCEPT !.sc = w, !.prog = prog, !.pc = 1,
                             !.acc = <<>>, !.sz = image.r, !.vm = image.vm, !.dirty = {}]]
  BY DEF exec
<1> HIDE DEF prog, image, w
<1> QED
  BY <1>4, <1>5, <1>6

\* A change to the link count, written back.
LEMMA NlinkOK ==
  ASSUME NEW d, FsOK(d), NEW i \in Inums, NEW v
  PROVE  Counts(d, iupdate([d EXCEPT !.ic[i].ip.nlink = v], i), Nothing)
<1> DEFINE e == [d EXCEPT !.ic[i].ip.nlink = v]
<1>1. Counts(d, e, Nothing)
  BY Ints DEF FsOK, Counts
<1> HIDE DEF e
<1>2. Counts(e, iupdate(e, i), Nothing)
  BY <1>1, iupdateOK DEF Counts
<1>3. Counts(d, iupdate(e, i), Nothing)
  BY <1>1, <1>2, ThenNothing, Ints
<1> QED
  BY <1>3 DEF e

LEMMA ThenNlink ==
  ASSUME NEW d, NEW e, FsOK(d), Counts(d, e, Nothing), NEW i \in Inums, NEW v
  PROVE  Counts(d, iupdate([e EXCEPT !.ic[i].ip.nlink = v], i), Nothing)
<1>1. FsOK(e)
  BY DEF Counts
<1>2. Counts(e, iupdate([e EXCEPT !.ic[i].ip.nlink = v], i), Nothing)
  BY <1>1, NlinkOK
<1> QED
  BY <1>2, ThenNothing, Ints

LEMMA LinkOldOK ==
  ASSUME RefsInv, ~fs.panic, NEW p \in Procs, LinkOld(p)
  PROVE  RefsInv'
<1> DEFINE i == proc[p].sc.ip
           d == ilock(fs, i)
           v == d.ic[i].ip.nlink + 1
           e == iupdate([d EXCEPT !.ic[i].ip.nlink = v], i)
<1>1. At(p, "link") /\ FilesKept /\ EndsKept
  BY KeptSame DEF LinkOld
<1>2. i \in Inums /\ FsOK(fs) /\ \A j \in Inums : CallHolds(proc[p].sc, j) = One(i = j)
  BY <1>1, OneCall, GoodCounts
<1>3. Counts(fs, d, Nothing)
  BY <1>2, Locked
<1>5. \/ fs' = d /\ PutReturn(p, proc[p], -1, i)
      \/ Walk(p, e, Ins(p).path2, TRUE, i)
  BY DEF LinkOld
<1> HIDE DEF d, v
<1>4. Counts(fs, e, Nothing)
  BY <1>2, <1>3, ThenNlink
<1> HIDE DEF e
<1>6. CASE fs' = d /\ PutReturn(p, proc[p], -1, i)
  BY <1>1, <1>2, <1>3, <1>6, PutOne
<1>7. CASE Walk(p, e, Ins(p).path2, TRUE, i)
  BY <1>1, <1>2, <1>4, <1>7, WalkStep
<1> QED
  BY <1>5, <1>6, <1>7

\* A call that refers to two inodes.
LEMMA TwoCall ==
  ASSUME RefsInv, ~fs.panic, NEW p \in Procs, NEW st \in {"linknew", "linkexists", "unlinkip"}, At(p, st)
  PROVE  /\ proc[p].sc.ip \in Inums /\ proc[p].sc.keep \in Inums /\ DOMAIN proc[p].sc = DOMAIN UserMode
         /\ \A i \in Inums : CallHolds(proc[p].sc, i) = One(proc[p].sc.ip = i) + One(proc[p].sc.keep = i)
<1>1. /\ proc[p].sc.ip \in Inums /\ proc[p].sc.keep \in Inums /\ proc[p].sc.put = 0
      /\ DOMAIN proc[p].sc = DOMAIN UserMode
  BY InCall DEF CallOK
<1>2. ASSUME NEW i \in Inums
      PROVE  CallHolds(proc[p].sc, i) = One(proc[p].sc.ip = i) + One(proc[p].sc.keep = i)
  BY <1>1, Tables DEF CallHolds, One
<1> QED
  BY <1>1, <1>2

\* It goes on and puts one of them, which it refers to no longer otherwise.
LEMMA PutOther ==
  ASSUME RefsInv, ~fs.panic, NEW p \in Procs, NEW st \in {"linknew", "linkexists", "unlinkip"}, At(p, st),
         NEW u, Goto(p, u), DOMAIN u = DOMAIN UserMode, u.shut = <<>>,
         Counts(fs, fs', Nothing), FilesKept, EndsKept,
         \/ /\ u.st \in {"linked", "linkbad", "unlinked"}
            /\ u.ip = 0 /\ u.keep = proc[p].sc.keep /\ u.put = proc[p].sc.ip
         \/ u.st = "unlinkbad" /\ u.ip = proc[p].sc.ip /\ u.keep = 0 /\ u.put = proc[p].sc.keep
  PROVE  RefsInv'
<1> DEFINE sc == proc[p].sc
<1>1. /\ sc.ip \in Inums /\ sc.keep \in Inums
      /\ \A i \in Inums : CallHolds(sc, i) = One(sc.ip = i) + One(sc.keep = i)
  BY TwoCall
<1>2. CallOK(u, Ins(p)) /\ u.st # "exited"
  BY <1>1 DEF CallOK
<1>3. ASSUME NEW i \in Inums
      PROVE  CallHolds(u, i) = CallHolds(sc, i)
  <2>1. CallHolds(u, i) = One(u.ip = i) + One(u.keep = i) + One(u.put = i)
    BY DEF CallHolds
  <2>2. CallHolds(sc, i) = One(sc.ip = i) + One(sc.keep = i) /\ One(sc.ip = i) \in Int /\ One(sc.keep = i) \in Int
    BY <1>1, Ints
  <2>3. 0 # i
    BY Tables
  <2> HIDE DEF sc
  <2> QED
    BY <2>1, <2>2, <2>3 DEF One, sc
<1> QED
  BY <1>2, <1>3, SameStep

LEMMA LinkNewOK ==
  ASSUME RefsInv, ~fs.panic, NEW p \in Procs, LinkNew(p)
  PROVE  RefsInv'
<1> DEFINE sc == proc[p].sc
           dp == sc.ip
           d == ilock(fs, dp)
           old == dirlookup(d, dp, sc.name)
           w == dirlink(d, dp, sc.name, sc.keep)
<1>1. At(p, "linknew") /\ FilesKept /\ EndsKept
  BY KeptSame DEF LinkNew
<1>2. /\ dp \in Inums /\ sc.keep \in Inums /\ DOMAIN sc = DOMAIN UserMode /\ sc.shut = <<>> /\ sc.put = 0
      /\ \A j \in Inums : CallHolds(sc, j) = One(dp = j) + One(sc.keep = j)
  BY <1>1, TwoCall, InCall
<1>3. Counts(fs, d, Nothing) /\ Good(fs) /\ FsOK(fs) /\ FsOK(d)
  BY <1>2, Locked, GoodCounts DEF Good
<1>4. \/ /\ fs' = [iget(d, old) EXCEPT !.ic[dp].lock = p]
         /\ Goto(p, [sc EXCEPT !.st = "linkexists", !.put = old])
      \/ fs' = w.d /\ Goto(p, [sc EXCEPT !.st = "linked", !.ip = 0, !.put = dp])
  BY DEF LinkNew
<1>5. Counts(fs, w.d, Nothing)
  <2>1. Counts(d, w.d, Nothing)
    BY <1>2, <1>3, dirlinkOK
  <2> HIDE DEF d, w
  <2> QED
    BY <1>3, <2>1, ThenNothing, Ints
<1> HIDE DEF w, old, d
<1>6. CASE /\ fs' = [iget(d, old) EXCEPT !.ic[dp].lock = p]
           /\ Goto(p, [sc EXCEPT !.st = "linkexists", !.put = old])
  <2> DEFINE u == [sc EXCEPT !.st = "linkexists", !.put = old]
  <2>0. Counts(fs, iget(d, old), Plus(old))
    BY <1>3, ThenGet
  <2>1. Counts(fs, fs', Plus(old))
    BY <1>2, <1>6, <2>0, LockOK
  <2>2. fs'.panic \/ old \in Inums
    <3>1. old \notin Inums => iget(d, old).panic
      BY <1>3, GotOrPanic
    <3>2. FsOK(iget(d, old))
      BY <2>0 DEF Counts
    <3>3. fs'.panic = iget(d, old).panic
      BY <1>6, <3>2 DEF FsOK
    <3> QED
      BY <3>1, <3>3
  <2>3. /\ DOMAIN u = DOMAIN UserMode /\ u.st = "linkexists" /\ u.ip = dp /\ u.keep = sc.keep
        /\ u.put = old /\ u.shut = <<>>
    BY <1>2, UserFields
  <2>4. Goto(p, u)
    BY <1>6
  <2> HIDE DEF u
  <2>5. fs'.panic \/ CallOK(u, Ins(p))
    BY <1>2, <2>2, <2>3 DEF CallOK
  <2>6. \A j \in Inums : CallHolds(u, j) = CallHolds(sc, j) + One(old = j)
    BY <1>2, <2>3 DEF CallHolds
  <2> QED
    BY <1>1, <2>1, <2>3, <2>4, <2>5, <2>6, GetStep
<1>7. CASE fs' = w.d /\ Goto(p, [sc EXCEPT !.st = "linked", !.ip = 0, !.put = dp])
  <2> DEFINE u == [sc EXCEPT !.st = "linked", !.ip = 0, !.put = dp]
  <2>3. /\ DOMAIN u = DOMAIN UserMode /\ u.st = "linked" /\ u.ip = 0 /\ u.keep = sc.keep
        /\ u.put = dp /\ u.shut = <<>>
    BY <1>2, UserFields
  <2>4. Goto(p, u) /\ Counts(fs, fs', Nothing)
    BY <1>5, <1>7
  <2> HIDE DEF u
  <2> QED
    BY <1>1, <2>3, <2>4, PutOther
<1> QED
  BY <1>4, <1>6, <1>7

LEMMA LinkExistsOK ==
  ASSUME RefsInv, ~fs.panic, NEW p \in Procs, LinkExists(p)
  PROVE  RefsInv'
<1> DEFINE sc == proc[p].sc
           u == [sc EXCEPT !.st = "linkbad", !.ip = 0, !.put = sc.ip]
<1>1. At(p, "linkexists") /\ FilesKept /\ EndsKept
  BY KeptSame DEF LinkExists
<1>2. sc.ip \in Inums /\ DOMAIN sc = DOMAIN UserMode /\ sc.shut = <<>>
  BY <1>1, TwoCall, InCall
<1>3. Counts(fs, fs', Nothing)
  BY <1>2, SameOK, LockOK, GoodCounts DEF LinkExists, iunlock
<1>4. /\ DOMAIN u = DOMAIN UserMode /\ u.st = "linkbad" /\ u.ip = 0 /\ u.keep = sc.keep
      /\ u.put = sc.ip /\ u.shut = <<>>
  BY <1>2, UserFields
<1>5. Goto(p, u)
  BY DEF LinkExists
<1> HIDE DEF u
<1> QED
  BY <1>1, <1>3, <1>4, <1>5, PutOther

LEMMA LinkEndOK ==
  ASSUME RefsInv, ~fs.panic, NEW p \in Procs, Linked(p) \/ LinkBad(p) \/ UnlinkCount(p)
  PROVE  RefsInv'
<1> DEFINE i == proc[p].sc.keep
           d == ilock(fs, i)
           v == d.ic[i].ip.nlink - 1
           b == iupdate([d EXCEPT !.ic[i].ip.nlink = v], i)
           w == fs.ic[i].ip.nlink - 1
           c == iupdate([fs EXCEPT !.ic[i].ip.nlink = w], i)
<1>1. PICK st \in {"linked", "linkbad", "unlinked"} : At(p, st)
  BY DEF Linked, LinkBad, UnlinkCount
<1>2. FilesKept /\ EndsKept /\ FsOK(fs)
  BY KeptSame, GoodCounts DEF Linked, LinkBad, UnlinkCount
<1>3. i \in Inums /\ \A j \in Inums : CallHolds(proc[p].sc, j) = One(i = j)
  BY <1>1, KeepCall
<1>4. fs' \in {fs, b, iunlock(c, i)} /\ \E r : PutReturn(p, proc[p], r, i)
  BY DEF Linked, LinkBad, UnlinkCount
<1>5. Counts(fs, d, Nothing) /\ Counts(fs, fs, Nothing)
  BY <1>2, <1>3, Locked, SameOK
<1> HIDE DEF d, v, w
<1>6. Counts(fs, b, Nothing) /\ Counts(fs, c, Nothing)
  BY <1>2, <1>3, <1>5, ThenNlink
<1> HIDE DEF b, c
<1>7. Counts(fs, iunlock(c, i), Nothing)
  BY <1>3, <1>6, LockOK DEF iunlock
<1>8. Counts(fs, fs', Nothing)
  BY <1>4, <1>5, <1>6, <1>7
<1> QED
  BY <1>1, <1>2, <1>3, <1>4, <1>8, PutOne

LEMMA UnlinkDirOK ==
  ASSUME RefsInv, ~fs.panic, NEW p \in Procs, UnlinkDir(p)
  PROVE  RefsInv'
<1> DEFINE sc == proc[p].sc
           dp == sc.ip
           d == ilock(fs, dp)
           i == dirlookup(d, dp, sc.name)
<1>1. At(p, "unlink") /\ FilesKept /\ EndsKept
  BY KeptSame DEF UnlinkDir
<1>2. /\ dp \in Inums /\ sc.keep = 0 /\ DOMAIN sc = DOMAIN UserMode /\ sc.shut = <<>> /\ sc.put = 0
      /\ \A j \in Inums : CallHolds(sc, j) = One(dp = j)
  BY <1>1, OneCall, InCall
<1>3. Counts(fs, d, Nothing) /\ Good(fs) /\ FsOK(fs) /\ FsOK(d)
  BY <1>2, Locked, GoodCounts DEF Good
<1>4. \/ fs' = d /\ PutReturn(p, proc[p], -1, dp)
      \/ /\ fs' = [iget(d, i) EXCEPT !.ic[dp].lock = p]
         /\ Goto(p, [sc EXCEPT !.st = "unlinkip", !.keep = i])
  BY DEF UnlinkDir
<1> HIDE DEF i, d
<1>5. CASE fs' = d /\ PutReturn(p, proc[p], -1, dp)
  BY <1>1, <1>2, <1>3, <1>5, PutOne
<1>6. CASE /\ fs' = [iget(d, i) EXCEPT !.ic[dp].lock = p]
           /\ Goto(p, [sc EXCEPT !.st = "unlinkip", !.keep = i])
  <2> DEFINE u == [sc EXCEPT !.st = "unlinkip", !.keep = i]
  <2>0. Counts(fs, iget(d, i), Plus(i))
    BY <1>3, ThenGet
  <2>1. Counts(fs, fs', Plus(i))
    BY <1>2, <1>6, <2>0, LockOK
  <2>2. fs'.panic \/ i \in Inums
    <3>1. i \notin Inums => iget(d, i).panic
      BY <1>3, GotOrPanic
    <3>2. FsOK(iget(d, i))
      BY <2>0 DEF Counts
    <3>3. fs'.panic = iget(d, i).panic
      BY <1>6, <3>2 DEF FsOK
    <3> QED
      BY <3>1, <3>3
  <2>3. /\ DOMAIN u = DOMAIN UserMode /\ u.st = "unlinkip" /\ u.ip = dp /\ u.keep = i
        /\ u.put = 0 /\ u.shut = <<>>
    BY <1>2, UserFields
  <2>4. Goto(p, u)
    BY <1>6
  <2> HIDE DEF u
  <2>5. fs'.panic \/ CallOK(u, Ins(p))
    BY <1>2, <2>2, <2>3 DEF CallOK
  <2>6. ASSUME NEW j \in Inums
        PROVE  CallHolds(u, j) = CallHolds(sc, j) + One(i = j)
    BY <1>2, <2>3, Tables DEF CallHolds, One
  <2> QED
    BY <1>1, <2>1, <2>3, <2>4, <2>5, <2>6, GetStep
<1> QED
  BY <1>4, <1>5, <1>6

LEMMA UnlinkInodeOK ==
  ASSUME RefsInv, ~fs.panic, NEW p \in Procs, UnlinkInode(p)
  PROVE  RefsInv'
<1> DEFINE sc == proc[p].sc
           dp == sc.ip
           i == sc.keep
           d == ilock(fs, i)
           dir == d.ic[i].ip.type = "dir"
           w == writei(d, dp, LookOff(d, dp, sc.name), <<Zero>>)
           v == w.d.ic[dp].ip.nlink - 1
           n == iupdate([w.d EXCEPT !.ic[dp].ip.nlink = v], dp)
           e == IF dir THEN n ELSE w.d
           bad == [sc EXCEPT !.st = "unlinkbad", !.keep = 0, !.put = i]
           ok == [sc EXCEPT !.st = "unlinked", !.ip = 0, !.put = dp]
<1>1. At(p, "unlinkip") /\ FilesKept /\ EndsKept
  BY KeptSame DEF UnlinkInode
<1>2. dp \in Inums /\ i \in Inums /\ DOMAIN sc = DOMAIN UserMode /\ sc.shut = <<>>
  BY <1>1, TwoCall, InCall
<1>3. Counts(fs, d, Nothing) /\ FsOK(fs) /\ FsOK(d)
  BY <1>2, Locked, GoodCounts DEF Good
<1>4. \/ fs' = Panic(d)
      \/ fs' = d /\ Goto(p, bad)
      \/ fs' = [iunlock(e, dp) EXCEPT !.ic[i].lock = p] /\ Goto(p, ok)
  BY DEF UnlinkInode
<1>5. Counts(d, w.d, Nothing)
  BY <1>2, <1>3, writeiOK
<1> HIDE DEF w, d, dir, v
<1>6. Counts(fs, w.d, Nothing)
  BY <1>3, <1>5, ThenNothing, Ints
<1>7. Counts(fs, n, Nothing)
  BY <1>2, <1>3, <1>6, ThenNlink
<1> HIDE DEF n
<1>8. Counts(fs, e, Nothing)
  BY <1>6, <1>7
<1> HIDE DEF e
<1>9. CASE fs' = Panic(d)
  BY <1>3, <1>9 DEF RefsInv, Panic, FsOK
<1>10. CASE fs' = d /\ Goto(p, bad)
  <2>1. /\ DOMAIN bad = DOMAIN UserMode /\ bad.st = "unlinkbad" /\ bad.ip = dp /\ bad.keep = 0
        /\ bad.put = i /\ bad.shut = <<>>
    BY <1>2, UserFields
  <2> HIDE DEF bad
  <2> QED
    BY <1>1, <1>3, <1>10, <2>1, PutOther
<1>11. CASE fs' = [iunlock(e, dp) EXCEPT !.ic[i].lock = p] /\ Goto(p, ok)
  <2>1. /\ DOMAIN ok = DOMAIN UserMode /\ ok.st = "unlinked" /\ ok.ip = 0 /\ ok.keep = i
        /\ ok.put = dp /\ ok.shut = <<>>
    BY <1>2, UserFields
  <2>2. Counts(fs, iunlock(e, dp), Nothing)
    BY <1>2, <1>8, LockOK DEF iunlock
  <2>3. Counts(fs, fs', Nothing)
    BY <1>2, <1>11, <2>2, LockOK
  <2> HIDE DEF ok
  <2> QED
    BY <1>1, <1>11, <2>1, <2>3, PutOther
<1> QED
  BY <1>4, <1>9, <1>10, <1>11

LEMMA UnlinkBadOK ==
  ASSUME RefsInv, ~fs.panic, NEW p \in Procs, UnlinkBad(p)
  PROVE  RefsInv'
<1> DEFINE dp == proc[p].sc.ip
<1>1. At(p, "unlinkbad") /\ FilesKept /\ EndsKept
  BY KeptSame DEF UnlinkBad
<1>2. dp \in Inums /\ \A j \in Inums : CallHolds(proc[p].sc, j) = One(dp = j)
  BY <1>1, OneCall
<1>3. Counts(fs, fs', Nothing) /\ PutReturn(p, proc[p], -1, dp)
  BY <1>2, SameOK, LockOK, GoodCounts DEF UnlinkBad, iunlock
<1> QED
  BY <1>1, <1>2, <1>3, PutOne

-----------------------------------------------------------------------------
(* Descriptors.                                                            *)

\* A call on a descriptor that fails, or changes neither files nor inodes.
LEMMA FailStep ==
  ASSUME RefsInv, ~fs.panic, NEW p \in Procs, NEW st \in {"user", "write", "exit"}, At(p, st),
         NEW pr, NEW v, Return(p, pr, v), DOMAIN pr = DOMAIN NoProc, pr.ofile = proc[p].ofile,
         pr.st = proc[p].st, pr.cwd = proc[p].cwd, FilesKept, EndsKept, Counts(fs, fs', Nothing)
  PROVE  RefsInv'
<1>1. proc[p].st = "live" /\ proc[p].cwd \in Inums
  BY InCall
<1>2. \A i \in Inums : Nothing[i] = One(proc[p].cwd = i) - Holds(proc[p], i)
  BY NoCall
<1> QED
  BY <1>1, <1>2, PlainReturn, Ints

\* The same where p goes on at sc.
LEMMA StayStep ==
  ASSUME RefsInv, ~fs.panic, NEW p \in Procs, NEW st \in {"user", "write", "exit"}, At(p, st),
         NEW sc, Goto(p, sc), DOMAIN sc = DOMAIN UserMode, sc.st \in {"user", "write", "exit"},
         sc.ip = 0, sc.keep = 0, sc.put = 0, sc.shut = <<>>,
         FilesKept, EndsKept, Counts(fs, fs', Nothing)
  PROVE  RefsInv'
<1>1. CallOK(sc, Ins(p)) /\ sc.st # "exited"
  BY DEF CallOK
<1>2. \A i \in Inums : CallHolds(sc, i) = 0
  BY Tables DEF CallHolds, One
<1>3. \A i \in Inums : CallHolds(sc, i) = CallHolds(proc[p].sc, i)
  BY <1>2, NoCall
<1> QED
  BY <1>1, <1>3, SameStep

LEMMA StartExitOK ==
  ASSUME RefsInv, ~fs.panic, NEW p \in Procs, StartExit(p)
  PROVE  RefsInv'
<1> DEFINE sc == [UserMode EXCEPT !.st = "exit"]
<1>1. At(p, "user") /\ Goto(p, sc) /\ FilesKept /\ EndsKept /\ Counts(fs, fs', Nothing)
  BY KeptSame DEF StartExit
<1>2. /\ DOMAIN sc = DOMAIN UserMode /\ sc.st = "exit" /\ sc.ip = 0 /\ sc.keep = 0
      /\ sc.put = 0 /\ sc.shut = <<>>
  BY DEF UserMode
<1> HIDE DEF sc
<1> QED
  BY <1>1, <1>2, StayStep

\* argfd() finds an open file.
LEMMA ArgFileIn ==
  ASSUME RefsInv, ~fs.panic, NEW p \in Procs, NEW r, ArgFile(p, r) # 0
  PROVE  /\ ArgFile(p, r) \in Files /\ proc[p].reg[r] \in Fds
         /\ proc[p].ofile[proc[p].reg[r]] = ArgFile(p, r)
  BY DEF RefsInv, Shapes, ProcOK, ArgFile

\* read() and write() move the offset of a file and the bytes of a pipe.
LEMMA OffKept ==
  ASSUME RefsInv, ~fs.panic, NEW f \in Files, NEW v, ftable' = [ftable EXCEPT ![f].off = v]
  PROVE  FilesKept
<1>1. DOMAIN ftable = Files /\ \A g \in Files : FileOK(ftable[g])
  BY DEF RefsInv, Shapes
<1> DEFINE e == [ftable[f] EXCEPT !.off = v]
<1>2. ftable' = [ftable EXCEPT ![f] = e]
  OBVIOUS
<1>3. /\ DOMAIN e = DOMAIN ftable[f] /\ e.ref = ftable[f].ref /\ e.type = ftable[f].type
      /\ e.ip = ftable[f].ip /\ e.writable = ftable[f].writable
  BY <1>1 DEF FileOK, NoFile
<1> HIDE DEF e
<1>4. FileOK(e)
  BY <1>1, <1>3 DEF FileOK
<1> QED
  BY <1>1, <1>2, <1>3, <1>4 DEF FilesKept

LEMMA DataKept ==
  ASSUME RefsInv, ~fs.panic, FilesKept,
         UNCHANGED pipes \/ \E x \in Pipes : \E v : pipes' = [pipes EXCEPT ![x].data = v]
  PROVE  EndsKept
<1>1. DOMAIN pipes = Pipes /\ \A y \in Pipes : DOMAIN pipes[y] = {"open", "data"}
  BY DEF RefsInv, Shapes
<1>2. /\ DOMAIN pipes' = Pipes
      /\ \A y \in Pipes : DOMAIN pipes'[y] = {"open", "data"} /\ pipes'[y].open = pipes[y].open
  BY <1>1
<1> QED
  BY <1>2 DEF EndsKept, FilesKept

LEMMA sys_readOK ==
  ASSUME RefsInv, ~fs.panic, NEW p \in Procs, sys_read(p)
  PROVE  RefsInv'
<1> DEFINE f == ArgFile(p, Ins(p).fd)
           x == ftable[f].ip
           d == ilock(fs, x)
<1>1. At(p, "user") /\ DOMAIN proc[p] = DOMAIN NoProc
  BY InCall DEF sys_read, User
<1>2. CASE BadRead(p) /\ Return(p, proc[p], -1) /\ UNCHANGED <<fs, ftable, pipes>>
  BY <1>1, <1>2, KeptSame, FailStep
<1>3. ASSUME ~BadRead(p)
      PROVE  /\ f \in Files /\ (ftable[f].type = "pipe" => x \in Pipes)
             /\ ftable[f].type = "inode" => x \in Inums
  <2>1. f \in Files
    BY <1>3, ArgFileIn DEF BadRead
  <2> HIDE DEF f
  <2> QED
    BY <2>1 DEF RefsInv, Shapes, FileOK
<1>4. ASSUME NEW got, Got(p, got), FilesKept, EndsKept, Counts(fs, fs', Nothing)
      PROVE  RefsInv'
  <2> DEFINE pr == [proc[p] EXCEPT !.acc = @ \o got]
  <2>1. Return(p, pr, Len(got))
    BY <1>4 DEF Got
  <2>2. /\ DOMAIN pr = DOMAIN NoProc /\ pr.ofile = proc[p].ofile
        /\ pr.st = proc[p].st /\ pr.cwd = proc[p].cwd
    BY <1>1 DEF NoProc
  <2> HIDE DEF pr
  <2> QED
    BY <1>1, <1>4, <2>1, <2>2, FailStep
<1>5. CASE /\ ~BadRead(p) /\ ftable[f].type = "pipe" /\ UNCHANGED <<fs, ftable>>
           /\ \E m : Got(p, SubSeq(pipes[x].data, 1, m))
           /\ \E v : pipes' = [pipes EXCEPT ![x].data = v]
  <2>1. FilesKept /\ Counts(fs, fs', Nothing)
    BY <1>5, KeptSame
  <2>2. PICK v : x \in Pipes /\ pipes' = [pipes EXCEPT ![x].data = v]
    BY <1>3, <1>5
  <2>3. EndsKept
    <3> HIDE DEF x
    <3> QED
      BY <2>1, <2>2, DataKept
  <2> QED
    BY <1>4, <1>5, <2>1, <2>3
<1>6. CASE /\ ~BadRead(p) /\ ftable[f].type = "inode" /\ fs' = d /\ UNCHANGED pipes
           /\ \/ Return(p, proc[p], -1) /\ UNCHANGED ftable
              \/ \E got, v : Got(p, got) /\ ftable' = [ftable EXCEPT ![f].off = v]
  <2>1. Counts(fs, fs', Nothing)
    BY <1>3, <1>6, Locked
  <2>2. FilesKept
    <3>1. f \in Files /\ (UNCHANGED ftable \/ \E v : ftable' = [ftable EXCEPT ![f].off = v])
      BY <1>3, <1>6
    <3> HIDE DEF f
    <3> QED
      BY <3>1, OffKept, KeptSame
  <2>3. EndsKept
    BY <1>6, <2>2, DataKept
  <2> QED
    BY <1>1, <1>4, <1>6, <2>1, <2>2, <2>3, FailStep
<1> QED
  BY <1>2, <1>5, <1>6 DEF sys_read

LEMMA sys_writeOK ==
  ASSUME RefsInv, ~fs.panic, NEW p \in Procs, sys_write(p)
  PROVE  RefsInv'
<1> DEFINE f == ArgFile(p, Ins(p).fd)
           x == ftable[f].ip
           sc == proc[p].sc
<1>1. PICK st \in {"user", "write", "exit"} : At(p, st)
  BY DEF sys_write, User
<1>2. DOMAIN proc[p] = DOMAIN NoProc
  BY <1>1, InCall
<1>3. ASSUME f # 0
      PROVE  /\ f \in Files /\ (ftable[f].type = "pipe" => x \in Pipes)
             /\ ftable[f].type = "inode" => x \in Inums
  <2>1. f \in Files
    BY <1>3, ArgFileIn
  <2> HIDE DEF f
  <2> QED
    BY <2>1 DEF RefsInv, Shapes, FileOK
<1>4. ASSUME NEW m, Goto(p, [sc EXCEPT !.st = "write", !.n = m]), FilesKept, EndsKept,
             Counts(fs, fs', Nothing)
      PROVE  RefsInv'
  <2> DEFINE u == [sc EXCEPT !.st = "write", !.n = m]
  <2>1. DOMAIN sc = DOMAIN UserMode /\ sc.ip = 0 /\ sc.keep = 0 /\ sc.put = 0 /\ sc.shut = <<>>
    BY <1>1, InCall DEF CallOK
  <2>2. /\ DOMAIN u = DOMAIN UserMode /\ u.st = "write" /\ u.ip = 0 /\ u.keep = 0
        /\ u.put = 0 /\ u.shut = <<>>
    BY <2>1, UserFields
  <2>3. Goto(p, u)
    BY <1>4
  <2> HIDE DEF u
  <2> QED
    BY <1>1, <1>4, <2>2, <2>3, StayStep
<1>5. ASSUME FilesKept, EndsKept, Counts(fs, fs', Nothing),
             \/ \E v : Return(p, proc[p], v)
             \/ \E m : Goto(p, [sc EXCEPT !.st = "write", !.n = m])
      PROVE  RefsInv'
  BY <1>1, <1>2, <1>4, <1>5, FailStep
<1>6. CASE Return(p, proc[p], -1) /\ UNCHANGED <<fs, ftable, pipes>>
  BY <1>5, <1>6, KeptSame
<1>7. CASE /\ f # 0 /\ ftable[f].type = "pipe" /\ UNCHANGED <<fs, ftable>>
           /\ UNCHANGED pipes \/ \E v : pipes' = [pipes EXCEPT ![x].data = v]
           /\ \/ \E v : Return(p, proc[p], v)
              \/ \E m : Goto(p, [sc EXCEPT !.st = "write", !.n = m])
  <2>1. FilesKept /\ Counts(fs, fs', Nothing)
    BY <1>7, KeptSame
  <2>2. EndsKept
    <3>1. x \in Pipes /\ (UNCHANGED pipes \/ \E v : pipes' = [pipes EXCEPT ![x].data = v])
      BY <1>3, <1>7
    <3> HIDE DEF x
    <3> QED
      BY <2>1, <3>1, DataKept
  <2> QED
    BY <1>5, <1>7, <2>1, <2>2
<1>8. CASE /\ f # 0 /\ ftable[f].type = "inode" /\ UNCHANGED pipes
           /\ \E off, src : fs' = writei(ilock(fs, x), x, off, src).d
           /\ UNCHANGED ftable \/ \E v : ftable' = [ftable EXCEPT ![f].off = v]
           /\ \/ \E v : Return(p, proc[p], v)
              \/ \E m : Goto(p, [sc EXCEPT !.st = "write", !.n = m])
  <2>1. x \in Inums
    BY <1>3, <1>8
  <2> HIDE DEF x
  <2>2. Counts(fs, ilock(fs, x), Nothing) /\ FsOK(ilock(fs, x)) /\ FsOK(fs)
    BY <2>1, Locked, GoodCounts DEF Counts
  <2>a. PICK off, src : fs' = writei(ilock(fs, x), x, off, src).d
    BY <1>8
  <2>3. Counts(ilock(fs, x), fs', Nothing)
    BY <2>1, <2>2, <2>a, writeiOK
  <2>4. Counts(fs, fs', Nothing)
    BY <2>2, <2>3, ThenNothing, Ints
  <2>5. FilesKept
    <3>1. f \in Files /\ (UNCHANGED ftable \/ \E v : ftable' = [ftable EXCEPT ![f].off = v])
      BY <1>3, <1>8
    <3> HIDE DEF f
    <3> QED
      BY <3>1, OffKept, KeptSame
  <2>6. EndsKept
    BY <1>8, <2>5, DataKept
  <2> QED
    BY <1>5, <1>8, <2>4, <2>5, <2>6
<1> QED
  BY <1>6, <1>7, <1>8 DEF sys_write, BadWrite

-----------------------------------------------------------------------------
(* Processes.                                                              *)

\* What a process may do to another, or to itself in user mode.
Alike(n, o) == /\ DOMAIN n = DOMAIN NoProc /\ n.ofile = o.ofile /\ SameCall(n, o)
               /\ o.sc.st = "user" \/ (n.prog = o.prog /\ n.pc = o.pc)

LEMMA AlikeOK ==
  ASSUME NEW o, ProcOK(o), NEW n, Alike(n, o)
  PROVE  ProcOK(n)
<1>1. CallOK(o.sc, Program[o.prog][o.pc]) /\ n.sc = o.sc
  BY DEF ProcOK, Alike, SameCall
<1>2. CallOK(n.sc, Program[n.prog][n.pc])
  <2>1. CASE o.sc.st = "user"
    BY <1>1, <2>1 DEF CallOK
  <2>2. CASE n.prog = o.prog /\ n.pc = o.pc
    BY <1>1, <2>2
  <2> QED
    BY <2>1, <2>2 DEF Alike
<1> QED
  BY <1>2 DEF ProcOK, Alike, SameCall

LEMMA ProcsStep ==
  ASSUME RefsInv, ~fs.panic, NEW p \in Procs, NEW x \in [Inums -> Int], DOMAIN proc' = Procs,
         \A q \in Procs \ {p} : Alike(proc'[q], proc[q]), ProcOK(proc'[p]),
         \A fd \in Fds : proc'[p].ofile[fd] = proc[p].ofile[fd], proc'[p].sc.shut = proc[p].sc.shut,
         UNCHANGED <<ftable, pipes>>, Counts(fs, fs', x),
         \A i \in Inums : x[i] = Holds(proc'[p], i) - Holds(proc[p], i)
  PROVE  RefsInv'
<1>1. FilesKept /\ EndsKept
  BY KeptSame
<1>2. \A q \in Procs : ProcOK(proc[q])
  BY DEF RefsInv, Shapes
<1>3. \A q \in Procs : ProcOK(proc'[q])
  BY <1>2, AlikeOK
<1>4. DescsKept
  BY <1>3 DEF DescsKept, Alike
<1>5. ShutsKept /\ \A q \in Procs \ {p} : SameCall(proc'[q], proc[q])
  BY DEF Alike, SameCall, ShutsKept
<1> QED
  BY <1>1, <1>4, <1>5, CallStep

LEMMA AlikeStep ==
  ASSUME RefsInv, ~fs.panic, DOMAIN proc' = Procs, \A q \in Procs : Alike(proc'[q], proc[q]),
         UNCHANGED <<fs, ftable, pipes>>
  PROVE  RefsInv'
<1>1. 1 \in Procs
  BY Tables
<1>2. /\ ProcOK(proc'[1]) /\ proc'[1].sc.shut = proc[1].sc.shut
      /\ \A fd \in Fds : proc'[1].ofile[fd] = proc[1].ofile[fd]
  <2>1. ProcOK(proc[1])
    BY <1>1 DEF RefsInv, Shapes
  <2> QED
    BY <1>1, <2>1, AlikeOK DEF Alike, SameCall
<1>3. \A i \in Inums : Nothing[i] = Holds(proc'[1], i) - Holds(proc[1], i)
  <2>1. \A i \in Inums : Holds(proc'[1], i) = Holds(proc[1], i)
    BY <1>1 DEF Holds, Alike, SameCall
  <2>2. \A i \in Inums : Holds(proc[1], i) \in Int
    BY HoldsInt
  <2> QED
    BY <2>1, <2>2, Ints
<1>4. Counts(fs, fs', Nothing) /\ Nothing \in [Inums -> Int]
  BY KeptSame, Ints
<1> QED
  BY <1>1, <1>2, <1>3, <1>4, ProcsStep

\* The processes as they are.
LEMMA ProcTable ==
  ASSUME RefsInv, ~fs.panic
  PROVE  /\ DOMAIN proc = Procs
         /\ \A q \in Procs : /\ ProcOK(proc[q]) /\ DOMAIN proc[q] = DOMAIN NoProc
                             /\ Alike(proc[q], proc[q])
                             /\ \A v : Alike([proc[q] EXCEPT !.killed = v], proc[q])
                             /\ \A v : Alike([proc[q] EXCEPT !.parent = v], proc[q])
<1>1. DOMAIN proc = Procs /\ \A q \in Procs : ProcOK(proc[q]) /\ DOMAIN proc[q] = DOMAIN NoProc
  BY DEF RefsInv, Shapes, ProcOK
<1>2. ASSUME NEW q \in Procs, NEW v
      PROVE  /\ Alike(proc[q], proc[q]) /\ Alike([proc[q] EXCEPT !.killed = v], proc[q])
             /\ Alike([proc[q] EXCEPT !.parent = v], proc[q])
  BY <1>1 DEF Alike, SameCall, NoProc
<1> QED
  BY <1>1, <1>2

LEMMA killOK ==
  ASSUME RefsInv, ~fs.panic, NEW p \in Procs, kill(p)
  PROVE  RefsInv'
<1> DEFINE r == proc[p].reg[Ins(p).pid]
           k == [proc EXCEPT ![r].killed = TRUE]
<1>1. /\ proc[p].sc.st = "user" /\ UNCHANGED <<fs, ftable, pipes>>
      /\ \E pr \in {proc, k} : proc' = [pr EXCEPT ![p].pc = @ + 1]
  BY DEF kill, User, At
<1> HIDE DEF r
<1>2. DOMAIN k = Procs /\ \A q \in Procs : Alike(k[q], proc[q])
  BY ProcTable
<1> HIDE DEF k
<1>3. PICK pr : /\ DOMAIN pr = Procs /\ \A q \in Procs : Alike(pr[q], proc[q])
                /\ proc' = [pr EXCEPT ![p].pc = @ + 1]
  BY <1>1, <1>2, ProcTable
<1>4. /\ DOMAIN proc' = Procs /\ \A q \in Procs \ {p} : proc'[q] = pr[q]
      /\ proc'[p] = [pr[p] EXCEPT !.pc = @ + 1]
  BY <1>3
<1>5. Alike(proc'[p], proc[p])
  BY <1>1, <1>3, <1>4 DEF Alike, SameCall, NoProc
<1>6. \A q \in Procs : Alike(proc'[q], proc[q])
  BY <1>3, <1>4, <1>5
<1> QED
  BY <1>1, <1>4, <1>6, AlikeStep

\* A step of p alone, in user mode.
LEMMA UserStep ==
  ASSUME RefsInv, ~fs.panic, NEW p \in Procs, At(p, "user"), NEW n, proc' = [proc EXCEPT ![p] = n],
         DOMAIN n = DOMAIN NoProc, n.ofile = proc[p].ofile, SameCall(n, proc[p]),
         UNCHANGED <<fs, ftable, pipes>>
  PROVE  RefsInv'
<1>1. /\ DOMAIN proc' = Procs /\ proc'[p] = n /\ \A q \in Procs \ {p} : proc'[q] = proc[q]
  BY ProcTable
<1>2. \A q \in Procs : Alike(proc'[q], proc[q])
  BY <1>1, ProcTable DEF Alike, At
<1> QED
  BY <1>1, <1>2, AlikeStep

LEMMA sbrkOK ==
  ASSUME RefsInv, ~fs.panic, NEW p \in Procs, sbrk(p)
  PROVE  RefsInv'
<1>1. At(p, "user") /\ UNCHANGED <<fs, ftable, pipes>>
  BY DEF sbrk, User
<1>2. FilesKept /\ EndsKept /\ Counts(fs, fs', Nothing) /\ DOMAIN proc[p] = DOMAIN NoProc
  BY <1>1, KeptSame, ProcTable
<1>3. PICK vm, dirty, sz, v :
        \/ Return(p, [proc[p] EXCEPT !.vm = vm, !.dirty = dirty], v)
        \/ Return(p, [[proc[p] EXCEPT !.vm = vm, !.dirty = dirty] EXCEPT !.sz = sz], v)
  BY DEF sbrk
<1> DEFINE a == [proc[p] EXCEPT !.vm = vm, !.dirty = dirty]
           b == [a EXCEPT !.sz = sz]
<1>4. /\ DOMAIN a = DOMAIN NoProc /\ a.ofile = proc[p].ofile /\ a.st = proc[p].st
      /\ a.cwd = proc[p].cwd
  BY <1>2 DEF NoProc
<1>5. Return(p, a, v) \/ Return(p, b, v)
  BY <1>3
<1> HIDE DEF a
<1>6. /\ DOMAIN b = DOMAIN NoProc /\ b.ofile = proc[p].ofile /\ b.st = proc[p].st
      /\ b.cwd = proc[p].cwd
  BY <1>4 DEF NoProc
<1> HIDE DEF b
<1> QED
  BY <1>1, <1>2, <1>4, <1>5, <1>6, FailStep

LEMMA AccessOK ==
  ASSUME RefsInv, ~fs.panic, NEW p \in Procs, Access(p)
  PROVE  RefsInv'
<1>1. At(p, "user") /\ UNCHANGED <<fs, ftable, pipes>>
  BY DEF Access, User
<1>2. FilesKept /\ EndsKept /\ Counts(fs, fs', Nothing) /\ DOMAIN proc[p] = DOMAIN NoProc
  BY <1>1, KeptSame, ProcTable
<1>3. CASE proc' = [proc EXCEPT ![p].killed = TRUE]
  <2> DEFINE n == [proc[p] EXCEPT !.killed = TRUE]
  <2>1. proc' = [proc EXCEPT ![p] = n]
    BY <1>3
  <2>2. DOMAIN n = DOMAIN NoProc /\ n.ofile = proc[p].ofile /\ SameCall(n, proc[p])
    BY <1>2 DEF NoProc, SameCall
  <2> HIDE DEF n
  <2> QED
    BY <1>1, <2>1, <2>2, UserStep
<1>4. CASE \E v : Return(p, proc[p], v)
  BY <1>1, <1>2, <1>4, FailStep
<1>5. CASE \E dirty : Return(p, [proc[p] EXCEPT !.dirty = dirty], 0)
  <2>1. PICK dirty : Return(p, [proc[p] EXCEPT !.dirty = dirty], 0)
    BY <1>5
  <2> DEFINE a == [proc[p] EXCEPT !.dirty = dirty]
  <2>2. /\ DOMAIN a = DOMAIN NoProc /\ a.ofile = proc[p].ofile /\ a.st = proc[p].st
        /\ a.cwd = proc[p].cwd
    BY <1>2 DEF NoProc
  <2>3. Return(p, a, 0)
    BY <2>1
  <2> HIDE DEF a
  <2> QED
    BY <1>1, <1>2, <2>2, <2>3, FailStep
<1> QED
  BY <1>3, <1>4, <1>5 DEF Access

LEMMA LocalOK ==
  ASSUME RefsInv, ~fs.panic, NEW p \in Procs, Local(p)
  PROVE  RefsInv'
<1>1. At(p, "user") /\ UNCHANGED <<fs, ftable, pipes>>
  BY DEF Local, User
<1>2. FilesKept /\ EndsKept /\ Counts(fs, fs', Nothing) /\ DOMAIN proc[p] = DOMAIN NoProc
  BY <1>1, KeptSame, ProcTable
<1>3. CASE proc' = [proc EXCEPT ![p] = [proc[p] EXCEPT !.pc = @ + 1, !.acc = <<>>]]
  <2> DEFINE n == [proc[p] EXCEPT !.pc = @ + 1, !.acc = <<>>]
  <2>1. proc' = [proc EXCEPT ![p] = n]
    BY <1>3
  <2>2. DOMAIN n = DOMAIN NoProc /\ n.ofile = proc[p].ofile /\ SameCall(n, proc[p])
    BY <1>2 DEF NoProc, SameCall
  <2> HIDE DEF n
  <2> QED
    BY <1>1, <2>1, <2>2, UserStep
<1>4. CASE Return(p, proc[p], 0)
  BY <1>1, <1>2, <1>4, FailStep
<1>5. CASE \E k : proc' = [proc EXCEPT ![p].pc = @ + k]
  <2>1. PICK k : proc' = [proc EXCEPT ![p].pc = @ + k]
    BY <1>5
  <2> DEFINE n == [proc[p] EXCEPT !.pc = @ + k]
  <2>2. proc' = [proc EXCEPT ![p] = n]
    BY <2>1
  <2>3. DOMAIN n = DOMAIN NoProc /\ n.ofile = proc[p].ofile /\ SameCall(n, proc[p])
    BY <1>2 DEF NoProc, SameCall
  <2> HIDE DEF n
  <2> QED
    BY <1>1, <2>2, <2>3, UserStep
<1> QED
  BY <1>3, <1>4, <1>5 DEF Local

\* A process that is not running refers to nothing.
LEMMA NotLive ==
  ASSUME NEW pr, ProcOK(pr), pr.st # "live"
  PROVE  \A i \in Inums : Holds(pr, i) = 0
<1>1. pr.sc = UserMode
  BY DEF ProcOK
<1>2. \A i \in Inums : CallHolds(pr.sc, i) = 0
  BY <1>1, UserHolds
<1> QED
  BY <1>2 DEF Holds, One

LEMMA NoProcOK ==
  ProcOK(NoProc) /\ NoProc.sc = UserMode /\ NoProc.st = "unused" /\ \A fd \in Fds : NoProc.ofile[fd] = 0
<1>1. /\ NoProc.st = "unused" /\ NoProc.sc = UserMode /\ DOMAIN NoProc.ofile = Fds
      /\ \A fd \in Fds : NoProc.ofile[fd] = 0
  BY DEF NoProc
<1>2. CallOK(NoProc.sc, Program[NoProc.prog][NoProc.pc])
  BY <1>1, UserCall
<1> QED
  BY <1>1, <1>2, UserFields DEF ProcOK

LEMMA waitOK ==
  ASSUME RefsInv, ~fs.panic, NEW p \in Procs, wait(p)
  PROVE  RefsInv'
<1> DEFINE kids == {q \in Procs : proc[q].st # "unused" /\ proc[q].parent = p}
           dead == {q \in kids : proc[q].st = "zombie"}
           q == Min(dead)
           reaped == [proc EXCEPT ![q] = NoProc]
<1>1. At(p, "user") /\ UNCHANGED <<fs, ftable, pipes>>
  BY DEF wait, User
<1>2. /\ FilesKept /\ EndsKept /\ Counts(fs, fs', Nothing) /\ Nothing \in [Inums -> Int]
      /\ DOMAIN proc[p] = DOMAIN NoProc
  BY <1>1, KeptSame, ProcTable, Ints
<1>3. CASE Return(p, proc[p], -1)
  BY <1>1, <1>2, <1>3, FailStep
<1>4. CASE dead # {} /\ (proc' = [reaped EXCEPT ![p].pc = @ + 1] \/ proc' = reaped)
  <2>1. q \in Procs /\ proc[q].st = "zombie"
    <3>1. q \in dead
      BY <1>4, Least, Tables
    <3> HIDE DEF q
    <3> QED
      BY <3>1
  <2>2. (proc' = [reaped EXCEPT ![p].pc = @ + 1] \/ proc' = reaped)
    BY <1>4
  <2> HIDE DEF q
  <2>3. q # p
    BY <1>1, <2>1 DEF At
  <2>4. /\ DOMAIN proc' = Procs /\ proc'[q] = NoProc
        /\ \A r \in Procs \ {p, q} : proc'[r] = proc[r]
        /\ proc'[p] \in {proc[p], [proc[p] EXCEPT !.pc = @ + 1]}
    BY <2>1, <2>2, <2>3, ProcTable
  <2>5. Alike(proc'[p], proc[p])
    BY <1>1, <1>2, <2>4 DEF Alike, SameCall, NoProc, At
  <2>6. \A r \in Procs \ {q} : Alike(proc'[r], proc[r])
    BY <2>4, <2>5, ProcTable
  <2>7. ProcOK(proc[q])
    BY <2>1, ProcTable
  <2>8. /\ proc'[q].sc.shut = proc[q].sc.shut
        /\ \A fd \in Fds : proc'[q].ofile[fd] = proc[q].ofile[fd]
    BY <2>1, <2>4, <2>7, NoProcOK DEF ProcOK
  <2>9. \A i \in Inums : Nothing[i] = Holds(proc'[q], i) - Holds(proc[q], i)
    BY <2>1, <2>4, <2>7, NoProcOK, NotLive, Ints
  <2> QED
    BY <1>1, <1>2, <2>1, <2>4, <2>6, <2>8, <2>9, NoProcOK, ProcsStep
<1> QED
  BY <1>3, <1>4 DEF wait

LEMMA ExitZombieOK ==
  ASSUME RefsInv, ~fs.panic, NEW p \in Procs, ExitZombie(p)
  PROVE  RefsInv'
<1> DEFINE n == [NoProc EXCEPT !.st = "zombie", !.parent = proc[p].parent, !.vm = proc[p].vm]
<1>1. /\ At(p, "exited") /\ UNCHANGED <<fs, ftable, pipes>>
      /\ proc' = [q \in Procs |->
           IF q = p THEN n
           ELSE IF proc[q].parent = p THEN [proc[q] EXCEPT !.parent = 1] ELSE proc[q]]
  BY DEF ExitZombie
<1>2. DOMAIN n = DOMAIN NoProc /\ n.ofile = NoProc.ofile /\ n.st = "zombie" /\ n.sc = UserMode
  BY DEF NoProc
<1> HIDE DEF n
<1>3. CallOK(n.sc, Program[n.prog][n.pc])
  BY <1>2, UserCall
<1>4. ProcOK(n)
  BY <1>2, <1>3, NoProcOK, UserFields DEF ProcOK
<1>5. /\ DOMAIN proc' = Procs /\ proc'[p] = n
      /\ \A q \in Procs \ {p} : proc'[q] \in {proc[q], [proc[q] EXCEPT !.parent = 1]}
  BY <1>1
<1>6. \A q \in Procs \ {p} : Alike(proc'[q], proc[q])
  BY <1>5, ProcTable
<1>7. /\ proc[p].cwd = 0 /\ proc[p].sc.shut = <<>> /\ \A fd \in Fds : proc[p].ofile[fd] = 0
      /\ \A i : Holds(proc[p], i) = One(proc[p].cwd = i) + CallHolds(proc[p].sc, i)
  BY <1>1, InCall
<1>8. Counts(fs, fs', Nothing) /\ Nothing \in [Inums -> Int]
  BY <1>1, KeptSame, Ints
<1>9. ASSUME NEW i \in Inums
      PROVE  Nothing[i] = Holds(proc'[p], i) - Holds(proc[p], i)
  <2>1. Holds(proc'[p], i) = 0
    BY <1>2, <1>4, <1>5, NotLive
  <2>2. One(proc[p].cwd = i) = 0 /\ CallHolds(proc[p].sc, i) = 0
    BY <1>1, <1>7, NoCall, Tables DEF One
  <2>3. Nothing[i] = 0
    BY Ints
  <2> QED
    BY <1>7, <2>1, <2>2, <2>3
<1>10. /\ proc'[p].sc.shut = proc[p].sc.shut
       /\ \A fd \in Fds : proc'[p].ofile[fd] = proc[p].ofile[fd]
  BY <1>2, <1>5, <1>7, NoProcOK, UserFields
<1> QED
  BY <1>1, <1>4, <1>5, <1>6, <1>8, <1>9, <1>10, ProcsStep

\* exit() puts the directory of the process, which it then no longer has.
LEMMA ExitCwdOK ==
  ASSUME RefsInv, ~fs.panic, NEW p \in Procs, ExitCwd(p)
  PROVE  RefsInv'
<1> DEFINE cwd == proc[p].cwd
           e == [UserMode EXCEPT !.st = "exited"]
           u == Putting(e, cwd)
           n == [proc[p] EXCEPT !.cwd = 0, !.sc = u]
<1>1. /\ At(p, "exit") /\ UNCHANGED <<fs, ftable, pipes>>
      /\ \A fd \in Fds : proc[p].ofile[fd] = 0
      /\ proc' = [proc EXCEPT ![p] = n]
  BY DEF ExitCwd
<1>2. FilesKept /\ EndsKept /\ Counts(fs, fs', Nothing) /\ Nothing \in [Inums -> Int]
  BY <1>1, KeptSame, Ints
<1>3. /\ ProcOK(proc[p]) /\ proc[p].st = "live" /\ cwd \in Inums /\ proc[p].sc.shut = <<>>
      /\ \A i : Holds(proc[p], i) = One(cwd = i) + CallHolds(proc[p].sc, i)
  BY <1>1, InCall, ProcTable
<1>4. /\ DOMAIN u = DOMAIN UserMode /\ u.st = "exited" /\ u.ip = 0 /\ u.keep = 0
      /\ u.put = cwd /\ u.shut = <<>>
  BY DEF UserMode, Putting
<1> HIDE DEF u
<1>5. /\ DOMAIN n = DOMAIN NoProc /\ n.ofile = proc[p].ofile /\ n.st = "live" /\ n.cwd = 0 /\ n.sc = u
  BY <1>3 DEF ProcOK, NoProc
<1> HIDE DEF n, cwd
<1>6. CallOK(n.sc, Program[n.prog][n.pc])
  BY <1>3, <1>4, <1>5 DEF CallOK
<1>7. ProcOK(n)
  BY <1>1, <1>3, <1>4, <1>5, <1>6 DEF ProcOK
<1>8. ASSUME NEW i \in Inums
      PROVE  Nothing[i] = Holds(n, i) - Holds(proc[p], i)
  <2>1. Holds(n, i) = One(cwd = i)
    BY <1>4, <1>5, Tables DEF Holds, CallHolds, One
  <2>2. CallHolds(proc[p].sc, i) = 0
    BY <1>1, NoCall
  <2>3. Nothing[i] = 0 /\ One(cwd = i) \in Int
    BY Ints
  <2> QED
    BY <1>3, <2>1, <2>2, <2>3
<1>9. n.ofile = proc[p].ofile /\ n.sc.shut = proc[p].sc.shut
  BY <1>3, <1>4, <1>5
<1>10. proc' = [proc EXCEPT ![p] = n]
  BY <1>1
<1> QED
  BY <1>2, <1>7, <1>8, <1>9, <1>10, OneProc

-----------------------------------------------------------------------------
(* close(), dup(), pipe() and fork().                                      *)

\* A file with a descriptor is open.
LEMMA OpenFile ==
  ASSUME RefsInv, ~fs.panic, NEW p \in Procs, NEW fd \in Fds, NEW f \in Files, proc[p].ofile[fd] = f
  PROVE  FileOK(ftable[f]) /\ ftable[f].ref \in Nat \ {0} /\ ftable[f].type \in {"inode", "pipe"}
<1>1. <<p, fd>> \in Descs(f)
  BY DEF Descs
<1>2. IsFiniteSet(Descs(f))
  BY Tables, FS_Subset, FS_Product DEF Descs
<1>3. Cardinality(Descs(f)) # 0
  BY <1>1, <1>2, FS_EmptySet
<1>4. FileOK(ftable[f]) /\ ftable[f].ref = Cardinality(Descs(f))
  BY DEF RefsInv, Shapes, RefsExact
<1> QED
  BY <1>3, <1>4 DEF FileOK

\* A change to one file that is not to its being an end of a pipe.
LEMMA OneFile ==
  ASSUME RefsInv, ~fs.panic, NEW f \in Files, NEW g, ftable' = [ftable EXCEPT ![f] = g], UNCHANGED pipes,
         \/ g.type = ftable[f].type /\ g.ip = ftable[f].ip /\ g.writable = ftable[f].writable
         \/ g.type # "pipe" /\ ftable[f].type # "pipe",
         ShutsKept
  PROVE  PipesFit
<1>1. Shapes /\ EndsOK /\ RefsExact
  BY DEF RefsInv
<1>2. DOMAIN ftable = Files
  BY <1>1 DEF Shapes
<1>3. ftable'[f] = g /\ \A h \in Files \ {f} : ftable'[h] = ftable[h]
  BY <1>2
<1>4. EndsKept
  BY <1>1, <1>3 DEF EndsKept, Shapes
<1> QED
  BY <1>1, <1>4, EndsStep DEF PipesFit, EndsKept

\* One process begins or ends to close an end of a pipe.
OtherShuts(p) == \A q \in Procs \ {p} : proc'[q].sc.shut = proc[q].sc.shut

\* The last file of one end of a pipe is closed: pipeclose() is left to do.
LEMMA EndShutting ==
  ASSUME RefsInv, ~fs.panic, NEW f \in Files, ftable[f].type = "pipe", NEW p \in Procs,
         ftable' = [ftable EXCEPT ![f] = NoFile], UNCHANGED pipes, proc[p].sc.shut = <<>>,
         proc'[p].sc.shut = <<ftable[f].ip, Side(ftable[f])>>, OtherShuts(p)
  PROVE  PipesFit
<1>0. PICK x, s : x = ftable[f].ip /\ s = Side(ftable[f])
  OBVIOUS
<1>1. Shapes /\ EndsOK /\ RefsExact
  BY DEF RefsInv
<1>2. DOMAIN ftable = Files /\ x \in Pipes /\ s \in {"r", "w"}
  BY <1>0, <1>1 DEF Shapes, FileOK, Side
<1>3. /\ ftable'[f] = NoFile /\ \A h \in Files \ {f} : ftable'[h] = ftable[h]
      /\ NoFile.type = "none"
  BY <1>2 DEF NoFile
<1>4. proc'[p].sc.shut = <<x, s>> /\ \A q \in Procs \ {p} : proc'[q].sc.shut = proc[q].sc.shut
  BY <1>0 DEF OtherShuts
<1>5. EndsOK'
  <2>1. \A g, h \in Files : /\ ftable'[g].type = "pipe" /\ ftable'[h].type = "pipe"
                            /\ ftable'[g].ip = ftable'[h].ip /\ Side(ftable'[g]) = Side(ftable'[h])
                            => g = h
    BY <1>1, <1>3 DEF EndsOK
  <2>2. \A g \in Files, q \in Procs :
          ftable'[g].type = "pipe" => proc'[q].sc.shut # <<ftable'[g].ip, Side(ftable'[g])>>
    <3> SUFFICES ASSUME NEW g \in Files, NEW q \in Procs, ftable'[g].type = "pipe",
                        proc'[q].sc.shut = <<ftable'[g].ip, Side(ftable'[g])>>
                 PROVE  FALSE
      OBVIOUS
    <3>1. g # f /\ ftable'[g] = ftable[g]
      BY <1>3
    <3>2. q = p
      BY <1>1, <1>4, <3>1 DEF EndsOK
    <3>3. <<ftable[g].ip, Side(ftable[g])>> = <<x, s>>
      BY <1>4, <3>1, <3>2
    <3>4. ftable[g].ip = x /\ Side(ftable[g]) = s
      BY <3>3
    <3> QED
      BY <1>0, <1>1, <3>1, <3>4 DEF EndsOK
  <2>3. \A q, r \in Procs : proc'[q].sc.shut = proc'[r].sc.shut /\ proc'[q].sc.shut # <<>> => q = r
    <3>1. \A q \in Procs : proc[q].sc.shut # <<x, s>>
      BY <1>0, <1>1 DEF EndsOK
    <3> QED
      BY <1>1, <1>4, <3>1 DEF EndsOK
  <2>4. \A q \in Procs : proc'[q].sc.shut \in {<<>>} \cup (Pipes \X {"r", "w"})
    <3>1. <<x, s>> \in Pipes \X {"r", "w"}
      BY <1>2
    <3>2. \A q \in Procs : proc[q].sc.shut \in {<<>>} \cup (Pipes \X {"r", "w"})
      BY <1>1 DEF EndsOK
    <3> QED
      BY <1>4, <3>1, <3>2, Zenon
  <2> QED
    BY <2>1, <2>2, <2>3, <2>4 DEF EndsOK
<1>6. ASSUME NEW y \in Pipes
      PROVE  Shuts(y)' = Shuts(y) \cup (IF y = x THEN {s} ELSE {})
  <2>1. \A t : <<y, t>> = <<x, s>> <=> y = x /\ t = s
    OBVIOUS
  <2>2. \A t : proc[p].sc.shut # <<y, t>>
    OBVIOUS
  <2>3. \A t \in {"r", "w"} : (\E q \in Procs : proc'[q].sc.shut = <<y, t>>)
                              <=> (\E q \in Procs : proc[q].sc.shut = <<y, t>>) \/ (y = x /\ t = s)
    BY <1>4, <2>1, <2>2
  <2> QED
    BY <1>2, <2>3 DEF Shuts
<1>7. ASSUME NEW y \in Pipes \ {x}
      PROVE  Sides(y)' = Sides(y)
  <2>1. Ends(y)' = Ends(y)
    BY <1>0, <1>3 DEF Ends
  <2>2. \A h \in Ends(y) : ftable'[h] = ftable[h]
    BY <1>0, <1>3 DEF Ends
  <2> QED
    BY <1>6, <2>1, <2>2 DEF Sides
<1>8. Sides(x)' = Sides(x)
  <2>1. Ends(x)' = Ends(x) \ {f} /\ f \in Ends(x)
    BY <1>0, <1>3 DEF Ends
  <2>2. \A h \in Ends(x)' : ftable'[h] = ftable[h]
    BY <1>3 DEF Ends
  <2>3. Sides(x)' = {Side(ftable[h]) : h \in Ends(x) \ {f}} \cup Shuts(x) \cup {s}
    BY <1>2, <1>6, <2>1, <2>2 DEF Sides
  <2>4. Sides(x) = {Side(ftable[h]) : h \in Ends(x)} \cup Shuts(x)
    BY DEF Sides
  <2> QED
    BY <1>0, <2>1, <2>3, <2>4
<1>9. \A y \in Pipes : pipes'[y].open = Sides(y)'
  BY <1>1, <1>7, <1>8 DEF RefsExact
<1>10. DOMAIN pipes' = Pipes /\ \A y \in Pipes : DOMAIN pipes'[y] = {"open", "data"}
  BY <1>1 DEF Shapes
<1> QED
  BY <1>5, <1>9, <1>10 DEF PipesFit

\* pipeclose() of an end that p has to close.
LEMMA EndClosed ==
  ASSUME RefsInv, ~fs.panic, NEW p \in Procs, NEW x \in Pipes, NEW s \in {"r", "w"},
         proc[p].sc.shut = <<x, s>>, proc'[p].sc.shut = <<>>, OtherShuts(p), UNCHANGED ftable,
         NEW n, pipes' = [pipes EXCEPT ![x] = n], DOMAIN n = {"open", "data"},
         n.open = pipes[x].open \ {s}
  PROVE  PipesFit
<1>1. Shapes /\ EndsOK /\ RefsExact
  BY DEF RefsInv
<1>2. pipes'[x] = n /\ \A y \in Pipes \ {x} : pipes'[y] = pipes[y]
  BY <1>1 DEF Shapes
<1>3. EndsOK'
  BY <1>1 DEF EndsOK, OtherShuts
<1>4. ASSUME NEW y \in Pipes
      PROVE  Shuts(y)' = Shuts(y) \ (IF y = x THEN {s} ELSE {})
  <2>1. \A t : <<y, t>> = <<x, s>> <=> y = x /\ t = s
    OBVIOUS
  <2>2. \A t : proc'[p].sc.shut # <<y, t>>
    OBVIOUS
  <2>3. \A q \in Procs \ {p} : proc[q].sc.shut # <<x, s>>
    <3>1. \A q \in Procs : proc[p].sc.shut = proc[q].sc.shut /\ proc[p].sc.shut # <<>> => p = q
      BY <1>1 DEF EndsOK
    <3>2. <<x, s>> # <<>>
      OBVIOUS
    <3> QED
      BY <3>1, <3>2
  <2>4. \A t \in {"r", "w"} : (\E q \in Procs : proc'[q].sc.shut = <<y, t>>)
                              <=> (\E q \in Procs : proc[q].sc.shut = <<y, t>>) /\ ~(y = x /\ t = s)
    BY <2>1, <2>2, <2>3 DEF OtherShuts
  <2> QED
    BY <2>4 DEF Shuts
<1>5. ASSUME NEW y \in Pipes
      PROVE  /\ Sides(y) = {Side(ftable[h]) : h \in Ends(y)} \cup Shuts(y)
             /\ Sides(y)' = {Side(ftable[h]) : h \in Ends(y)} \cup Shuts(y)'
  BY DEF Sides, Ends
<1>6. \A h \in Ends(x) : Side(ftable[h]) # s
  BY <1>1 DEF EndsOK, Ends
<1>7. Sides(x)' = Sides(x) \ {s}
  BY <1>4, <1>5, <1>6
<1>8. \A y \in Pipes \ {x} : Sides(y)' = Sides(y)
  BY <1>4, <1>5
<1>9. \A y \in Pipes : pipes'[y].open = Sides(y)'
  BY <1>1, <1>2, <1>7, <1>8 DEF RefsExact
<1>10. DOMAIN pipes' = Pipes /\ \A y \in Pipes : DOMAIN pipes'[y] = {"open", "data"}
  BY <1>1, <1>2 DEF Shapes
<1> QED
  BY <1>3, <1>9, <1>10 DEF PipesFit

\* What fileclose() leaves to do, if sc had nothing of that kind.
LEMMA ClosingOK ==
  ASSUME NEW f \in Files, FileOK(ftable[f]), ftable[f].type \in {"inode", "pipe"},
         NEW sc, DOMAIN sc = DOMAIN UserMode, sc.put = 0, sc.shut = <<>>
  PROVE  LET e == ftable[f]
             c == Closing(f, sc)
         IN  /\ DOMAIN c = DOMAIN UserMode /\ c.st = sc.st /\ c.ip = sc.ip /\ c.keep = sc.keep
             /\ c.put \in Inums \cup {0}
             /\ e.ref > 1 => c.put = 0 /\ c.shut = <<>>
             /\ ~(e.ref > 1) /\ e.type = "pipe" => c.put = 0 /\ c.shut = <<e.ip, Side(e)>>
             /\ ~(e.ref > 1) /\ e.type = "inode" => c.put = e.ip /\ c.shut = <<>>
<1> DEFINE e == ftable[f]
           c == Closing(f, sc)
<1>1. CASE e.ref > 1
  <2>1. c = sc
    BY <1>1 DEF Closing
  <2> QED
    BY <1>1, <2>1
<1>2. CASE ~(e.ref > 1) /\ e.type = "pipe"
  <2>1. c = [sc EXCEPT !.shut = <<e.ip, Side(e)>>]
    BY <1>2 DEF Closing
  <2> QED
    BY <1>2, <2>1, UserFields
<1>3. CASE ~(e.ref > 1) /\ e.type = "inode"
  <2>1. c = [sc EXCEPT !.put = e.ip] /\ e.ip \in Inums
    BY <1>3 DEF Closing, Putting, FileOK
  <2> QED
    BY <1>3, <2>1, UserFields
<1> QED
  BY <1>1, <1>2, <1>3

\* p loses descriptor fd of file f and has to do what fileclose() leaves.
Loses(p, fd, f) ==
  LET n == proc'[p]
      e == ftable[f]
  IN  /\ proc' = [proc EXCEPT ![p] = n] /\ ProcOK(n) /\ n.ofile[fd] = 0
      /\ \A g \in Fds \ {fd} : n.ofile[g] = proc[p].ofile[g]
      /\ \A i \in Inums : Holds(n, i) = Holds(proc[p], i) + One(n.sc.put = i)
      /\ e.ref > 1 => n.sc.put = 0 /\ n.sc.shut = <<>>
      /\ ~(e.ref > 1) /\ e.type = "pipe" => n.sc.put = 0 /\ n.sc.shut = <<e.ip, Side(e)>>
      /\ ~(e.ref > 1) /\ e.type = "inode" => n.sc.put = e.ip /\ n.sc.shut = <<>>

LEMMA CloseStep ==
  ASSUME RefsInv, ~fs.panic, NEW p \in Procs, NEW fd \in Fds, NEW f \in Files, proc[p].ofile[fd] = f,
         proc[p].sc.shut = <<>>, fileclose(f), Loses(p, fd, f)
  PROVE  RefsInv'
<1> DEFINE n == proc'[p]
           e == ftable[f]
           x == e.ip
<1>1. Shapes /\ EndsOK /\ RefsExact
  BY DEF RefsInv
<1>2. /\ FileOK(e) /\ e.ref \in Nat \ {0} /\ e.type \in {"inode", "pipe"}
      /\ DOMAIN ftable = Files /\ DOMAIN proc = Procs
  BY <1>1, OpenFile DEF Shapes
<1>b. /\ proc' = [proc EXCEPT ![p] = n] /\ ProcOK(n) /\ n.ofile[fd] = 0
      /\ \A g \in Fds \ {fd} : n.ofile[g] = proc[p].ofile[g]
      /\ \A i \in Inums : Holds(n, i) = Holds(proc[p], i) + One(n.sc.put = i)
  BY DEF Loses
<1>c. /\ e.ref > 1 => n.sc.put = 0 /\ n.sc.shut = <<>>
      /\ ~(e.ref > 1) /\ e.type = "pipe" => n.sc.put = 0 /\ n.sc.shut = <<x, Side(e)>>
      /\ ~(e.ref > 1) /\ e.type = "inode" => n.sc.put = x /\ n.sc.shut = <<>>
  BY DEF Loses
<1>d. proc'[p] = n
  OBVIOUS
<1> HIDE DEF n
<1>e. OtherShuts(p) /\ (n.sc.shut = <<>> => ShutsKept)
  BY <1>2, <1>b, <1>d DEF OtherShuts, ShutsKept
<1>f. /\ UNCHANGED pipes /\ Counts(fs, fs', Nothing) /\ Nothing \in [Inums -> Int]
      /\ \A i \in Inums : Nothing[i] = 0
  BY KeptSame, SameOK, GoodCounts, Ints DEF fileclose
<1>3. ASSUME NEW g, FileOK(g), g.ref = e.ref - 1, ftable' = [ftable EXCEPT ![f] = g], PipesFit,
             \A i \in Inums : 0 = One(n.sc.put = i) + FileHolds(g, i) - FileHolds(e, i)
      PROVE  RefsInv'
  <2>1. ftable'[f] = g
    BY <1>2, <1>3
  <2>2. g.ref = e.ref + One(n.ofile[fd] = f) - One(proc[p].ofile[fd] = f)
    BY <1>2, <1>3, <1>b, Tables DEF One
  <2>3. \A h \in Files \ {f} : n.ofile[fd] # h /\ proc[p].ofile[fd] # h
    BY <1>b, Tables
  <2>4. OneDesc(p, fd, f)
    BY <1>3, <1>b, <1>d, <2>1, <2>2, <2>3 DEF OneDesc
  <2>6. \A i \in Inums : Nothing[i] = Holds(proc'[p], i) - Holds(proc[p], i)
                                 + FileHolds(ftable'[f], i) - FileHolds(ftable[f], i)
    <3> TAKE i \in Inums
    <3>1. /\ Holds(proc[p], i) \in Int /\ FileHolds(g, i) \in Int
          /\ FileHolds(e, i) \in Int /\ One(n.sc.put = i) \in Int
      BY HoldsInt, Ints DEF FileHolds
    <3>2. /\ Nothing[i] = 0 /\ Holds(proc'[p], i) = Holds(proc[p], i) + One(n.sc.put = i)
          /\ 0 = One(n.sc.put = i) + FileHolds(g, i) - FileHolds(e, i)
      BY <1>3, <1>b, <1>d, <1>f
    <3> QED
      BY <2>1, <3>1, <3>2
  <2> QED
    BY <1>3, <1>f, <2>4, <2>6, DescStep
<1>4. CASE e.ref > 1
  <2> DEFINE g == [e EXCEPT !.ref = @ - 1]
  <2>1. ftable' = [ftable EXCEPT ![f] = g]
    BY <1>4 DEF fileclose
  <2>2. /\ DOMAIN g = DOMAIN NoFile /\ g.ref = e.ref - 1 /\ g.type = e.type /\ g.ip = e.ip
        /\ g.writable = e.writable
    BY <1>2 DEF FileOK, NoFile
  <2> HIDE DEF g
  <2>3. FileOK(g)
    BY <1>2, <1>4, <2>2 DEF FileOK
  <2>4. PipesFit
    BY <1>4, <1>c, <1>e, <1>f, <2>1, <2>2, OneFile
  <2>5. \A i \in Inums : 0 = One(n.sc.put = i) + FileHolds(g, i) - FileHolds(e, i)
    <3> TAKE i \in Inums
    <3>1. FileHolds(g, i) = FileHolds(e, i) /\ FileHolds(e, i) \in Int
      BY <2>2, Ints DEF FileHolds
    <3>2. One(n.sc.put = i) = 0
      BY <1>4, <1>c, Tables DEF One
    <3> QED
      BY <3>1, <3>2
  <2> HIDE DEF e
  <2> QED
    BY <1>3, <2>1, <2>2, <2>3, <2>4, <2>5
<1>a. /\ FileOK(NoFile) /\ NoFile.ref = 0 /\ NoFile.type = "none"
      /\ \A i \in Inums : FileHolds(NoFile, i) = 0
  BY DEF NoFile, FileOK, FileHolds, One
<1>5. CASE ~(e.ref > 1)
  <2>1. ftable' = [ftable EXCEPT ![f] = NoFile]
    BY <1>5 DEF fileclose
  <2>2. NoFile.ref = e.ref - 1
    BY <1>2, <1>5, <1>a
  <2>3. CASE e.type = "pipe"
    <3>1. n.sc.put = 0 /\ n.sc.shut = <<ftable[f].ip, Side(ftable[f])>>
      BY <1>5, <1>c, <2>3
    <3>2. PipesFit
      BY <1>d, <1>e, <1>f, <2>1, <2>3, <3>1, EndShutting
    <3>3. \A i \in Inums : 0 = One(n.sc.put = i) + FileHolds(NoFile, i) - FileHolds(e, i)
      <4> TAKE i \in Inums
      <4>1. FileHolds(e, i) = 0 /\ FileHolds(NoFile, i) = 0
        BY <1>a, <2>3 DEF FileHolds, One
      <4>2. One(n.sc.put = i) = 0
        BY <3>1, Tables DEF One
      <4> QED
        BY <4>1, <4>2
    <3> HIDE DEF e
    <3> QED
      BY <1>3, <1>a, <2>1, <2>2, <3>2, <3>3
  <2>4. CASE e.type = "inode"
    <3>1. n.sc.put = x /\ n.sc.shut = <<>>
      BY <1>5, <1>c, <2>4
    <3>2. PipesFit
      BY <1>a, <1>e, <1>f, <2>1, <2>4, <3>1, OneFile
    <3>3. \A i \in Inums : 0 = One(n.sc.put = i) + FileHolds(NoFile, i) - FileHolds(e, i)
      <4> TAKE i \in Inums
      <4>1. FileHolds(e, i) = One(n.sc.put = i) /\ FileHolds(NoFile, i) = 0
        BY <1>a, <2>4, <3>1 DEF FileHolds, One
      <4>2. One(n.sc.put = i) \in Int
        BY Ints
      <4> QED
        BY <4>1, <4>2
    <3> HIDE DEF e
    <3> QED
      BY <1>3, <1>a, <2>1, <2>2, <3>2, <3>3
  <2> QED
    BY <1>2, <2>3, <2>4
<1> QED
  BY <1>4, <1>5

LEMMA sys_closeOK ==
  ASSUME RefsInv, ~fs.panic, NEW p \in Procs, sys_close(p)
  PROVE  RefsInv'
<1> DEFINE f == ArgFile(p, Ins(p).fd)
           fd == proc[p].reg[Ins(p).fd]
           pr == [proc[p] EXCEPT !.ofile[fd] = 0]
           c == Closing(f, UserMode)
<1>1. /\ At(p, "user") /\ ProcOK(proc[p]) /\ DOMAIN proc[p] = DOMAIN NoProc /\ proc[p].st = "live"
      /\ proc[p].cwd \in Inums /\ proc[p].sc.shut = <<>>
  BY ProcTable, InCall DEF sys_close, User
<1>2. CASE f = 0
  <2>1. Return(p, proc[p], -1) /\ UNCHANGED <<fs, ftable, pipes>>
    BY <1>2 DEF sys_close
  <2> QED
    BY <1>1, <2>1, KeptSame, FailStep
<1>3. CASE f # 0
  <2>1. fileclose(f) /\ ReturnWith(p, pr, 0, c)
    BY <1>3 DEF sys_close
  <2>2. f \in Files /\ fd \in Fds /\ proc[p].ofile[fd] = f
    BY <1>3, ArgFileIn
  <2> HIDE DEF f, fd
  <2>3. /\ DOMAIN pr = DOMAIN NoProc /\ DOMAIN pr.ofile = Fds /\ pr.ofile[fd] = 0
        /\ \A g \in Fds \ {fd} : pr.ofile[g] = proc[p].ofile[g]
        /\ pr.st = "live" /\ pr.cwd = proc[p].cwd
    BY <1>1, <2>2 DEF ProcOK, NoProc
  <2>4. (\A g \in Fds : pr.ofile[g] \in Files \cup {0}) /\ pr.cwd \in Inums
    BY <1>1, <2>3 DEF ProcOK
  <2>b. FileOK(ftable[f]) /\ ftable[f].type \in {"inode", "pipe"}
    BY <2>2, OpenFile
  <2>c. LET e == ftable[f]
        IN  /\ DOMAIN c = DOMAIN UserMode /\ c.st = UserMode.st /\ c.ip = UserMode.ip
            /\ c.keep = UserMode.keep /\ c.put \in Inums \cup {0}
            /\ e.ref > 1 => c.put = 0 /\ c.shut = <<>>
            /\ ~(e.ref > 1) /\ e.type = "pipe" => c.put = 0 /\ c.shut = <<e.ip, Side(e)>>
            /\ ~(e.ref > 1) /\ e.type = "inode" => c.put = e.ip /\ c.shut = <<>>
    BY <2>2, <2>b, UserFields, ClosingOK
  <2> HIDE DEF pr, c
  <2>d. Leaving(c)
    BY <2>c, UserFields DEF Leaving
  <2>5. PICK n : /\ proc' = [proc EXCEPT ![p] = n] /\ ProcOK(n) /\ n.ofile = pr.ofile /\ n.sc = c
                 /\ \A i \in Inums : Holds(n, i) = One(pr.cwd = i) + One(c.put = i)
    BY <2>1, <2>3, <2>4, <2>d, Returned
  <2>6. \A i \in Inums : Holds(n, i) = Holds(proc[p], i) + One(n.sc.put = i)
    <3> TAKE i \in Inums
    <3>1. Holds(proc[p], i) \in Int /\ One(proc[p].cwd = i) \in Int
      BY HoldsInt, Ints
    <3>2. 0 = One(proc[p].cwd = i) - Holds(proc[p], i)
      BY <1>1, NoCall, Ints
    <3>3. One(proc[p].cwd = i) = Holds(proc[p], i)
      BY <3>1, <3>2
    <3>4. Holds(n, i) = One(proc[p].cwd = i) + One(n.sc.put = i)
      BY <2>3, <2>5
    <3> QED
      BY <3>3, <3>4
  <2>7. proc'[p] = n
    BY <2>5, ProcTable
  <2>a. /\ n.ofile[fd] = 0 /\ proc' = [proc EXCEPT ![p] = n] /\ ProcOK(n) /\ n.sc = c
        /\ \A g \in Fds \ {fd} : n.ofile[g] = proc[p].ofile[g]
    BY <2>3, <2>5
  <2>8. Loses(p, fd, f)
    BY <2>6, <2>7, <2>a, <2>c DEF Loses
  <2> QED
    BY <1>1, <2>1, <2>2, <2>8, CloseStep
<1> QED
  BY <1>2, <1>3

LEMMA ExitCloseOK ==
  ASSUME RefsInv, ~fs.panic, NEW p \in Procs, ExitClose(p)
  PROVE  RefsInv'
<1> DEFINE mine == {fd \in Fds : proc[p].ofile[fd] # 0}
           fd == Min(mine)
           f == proc[p].ofile[fd]
           sc == proc[p].sc
           c == Closing(f, sc)
           n == [proc[p] EXCEPT !.ofile[fd] = 0, !.sc = c]
<1>1. /\ At(p, "exit") /\ mine # {} /\ fileclose(f)
      /\ proc' = [proc EXCEPT ![p] = n]
  BY DEF ExitClose
<1>2. /\ ProcOK(proc[p]) /\ DOMAIN proc[p] = DOMAIN NoProc /\ DOMAIN proc[p].ofile = Fds
      /\ proc[p].st = "live" /\ proc[p].cwd \in Inums
  BY <1>1, ProcTable, InCall DEF ProcOK
<1>a. /\ sc.shut = <<>> /\ sc.put = 0 /\ DOMAIN sc = DOMAIN UserMode /\ sc.st = "exit"
      /\ CallOK(sc, Ins(p))
  BY <1>1, InCall
<1>3. fd \in Fds /\ f # 0
  <2>1. fd \in mine
    BY <1>1, Least, Tables
  <2> HIDE DEF fd
  <2> QED
    BY <2>1
<1> HIDE DEF mine, fd
<1>4. f \in Files
  BY <1>2, <1>3 DEF ProcOK
<1>b. FileOK(ftable[f]) /\ ftable[f].type \in {"inode", "pipe"}
  BY <1>3, <1>4, OpenFile
<1>c. LET e == ftable[f]
      IN  /\ DOMAIN c = DOMAIN UserMode /\ c.st = sc.st /\ c.ip = sc.ip
          /\ c.keep = sc.keep /\ c.put \in Inums \cup {0}
          /\ e.ref > 1 => c.put = 0 /\ c.shut = <<>>
          /\ ~(e.ref > 1) /\ e.type = "pipe" => c.put = 0 /\ c.shut = <<e.ip, Side(e)>>
          /\ ~(e.ref > 1) /\ e.type = "inode" => c.put = e.ip /\ c.shut = <<>>
  BY <1>4, <1>a, <1>b, ClosingOK
<1> HIDE DEF c
<1>5. /\ DOMAIN n = DOMAIN NoProc /\ DOMAIN n.ofile = Fds /\ n.ofile[fd] = 0
      /\ \A g \in Fds \ {fd} : n.ofile[g] = proc[p].ofile[g]
      /\ n.st = proc[p].st /\ n.cwd = proc[p].cwd /\ n.sc = c
      /\ n.prog = proc[p].prog /\ n.pc = proc[p].pc
  BY <1>2, <1>3 DEF NoProc
<1> HIDE DEF n
<1>d. CallOK(n.sc, Program[n.prog][n.pc])
  BY <1>5, <1>a, <1>c DEF CallOK
<1>7. ProcOK(n)
  BY <1>2, <1>5, <1>a, <1>c, <1>d DEF ProcOK
<1>8. \A i \in Inums : Holds(n, i) = Holds(proc[p], i) + One(n.sc.put = i)
  <2> TAKE i \in Inums
  <2>a. \A j : Holds(proc[p], j) = One(proc[p].cwd = j) + CallHolds(sc, j)
    BY <1>1, InCall
  <2>b. \A j \in Inums : CallHolds(sc, j) = 0
    BY <1>1, NoCall
  <2>1. Holds(proc[p], i) = One(proc[p].cwd = i) + CallHolds(sc, i) /\ CallHolds(sc, i) = 0
    BY <2>a, <2>b
  <2>2. sc.ip = 0 /\ sc.keep = 0
    BY <1>a DEF CallOK
  <2>3. CallHolds(n.sc, i) = One(n.sc.put = i)
    BY <1>5, <1>c, <2>2, Tables DEF CallHolds, One
  <2>4. Holds(n, i) = One(proc[p].cwd = i) + CallHolds(n.sc, i)
    BY <1>2, <1>5 DEF Holds, One
  <2>5. One(proc[p].cwd = i) \in Int /\ One(n.sc.put = i) \in Int
    BY Ints
  <2> QED
    BY <2>1, <2>3, <2>4, <2>5
<1>9. proc'[p] = n
  BY <1>1, ProcTable
<1>10. Loses(p, fd, f)
  BY <1>1, <1>5, <1>7, <1>8, <1>9, <1>c DEF Loses
<1>11. f \in Files /\ fileclose(f) /\ proc[p].ofile[fd] = f /\ proc[p].sc.shut = <<>>
  BY <1>1, <1>4, <1>a
<1> HIDE DEF f, sc
<1> QED
  BY <1>3, <1>10, <1>11, CloseStep

LEMMA pipecloseOK ==
  ASSUME RefsInv, ~fs.panic, NEW p \in Procs, pipeclose(p)
  PROVE  RefsInv'
<1> DEFINE sc == proc[p].sc
           u == [sc EXCEPT !.shut = <<>>]
           n == [proc[p] EXCEPT !.sc = u]
<1>1. sc.shut # <<>> /\ Goto(p, u) /\ UNCHANGED <<fs, ftable>>
  BY DEF pipeclose
<1>2. Shapes /\ EndsOK /\ DOMAIN proc = Procs /\ ProcOK(proc[p]) /\ DOMAIN ftable = Files
  BY DEF RefsInv, Shapes
<1>3. PICK x \in Pipes, s \in {"r", "w"} : sc.shut = <<x, s>>
  <2>1. sc.shut \in Pipes \X {"r", "w"}
    BY <1>1, <1>2 DEF EndsOK
  <2> QED
    BY <2>1
<1> DEFINE left == pipes[x].open \ {s}
           m == IF left = {} THEN NoPipe ELSE [pipes[x] EXCEPT !.open = left]
<1>4. pipes' = [pipes EXCEPT ![x] = m]
  <2>1. sc.shut[1] = x /\ sc.shut[2] = s
    BY <1>3
  <2> QED
    BY <2>1 DEF pipeclose
<1>5. DOMAIN m = {"open", "data"} /\ m.open = left
  BY <1>2 DEF Shapes, NoPipe
<1> HIDE DEF m
<1>6. proc[p].st = "live" /\ CallOK(sc, Ins(p)) /\ DOMAIN sc = DOMAIN UserMode
  <2>1. CallOK(sc, Ins(p))
    BY <1>2 DEF ProcOK, Ins
  <2> QED
    BY <1>1, <1>2, <2>1, UserFields DEF ProcOK, CallOK
<1>7. /\ DOMAIN u = DOMAIN UserMode /\ u.st = sc.st /\ u.ip = sc.ip /\ u.keep = sc.keep
      /\ u.put = sc.put /\ u.shut = <<>>
  BY <1>6, UserFields
<1>8. proc' = [proc EXCEPT ![p] = n]
  BY <1>1 DEF Goto
<1> HIDE DEF u
<1>9. /\ DOMAIN n = DOMAIN NoProc /\ n.ofile = proc[p].ofile /\ n.st = proc[p].st
      /\ n.cwd = proc[p].cwd /\ n.sc = u /\ n.prog = proc[p].prog /\ n.pc = proc[p].pc
  BY <1>2 DEF ProcOK, NoProc
<1>10. CallOK(n.sc, Program[n.prog][n.pc])
  <2>1. CallOK(u, Ins(p))
    BY <1>6, <1>7 DEF CallOK
  <2> QED
    BY <1>9, <2>1 DEF Ins
<1> HIDE DEF n
<1>11. ProcOK(n)
  BY <1>2, <1>6, <1>7, <1>9, <1>10 DEF ProcOK
<1>12. proc'[p] = n /\ \A q \in Procs \ {p} : proc'[q] = proc[q]
  BY <1>2, <1>8
<1>13. PipesFit
  <2>1. OtherShuts(p) /\ proc'[p].sc.shut = <<>>
    BY <1>7, <1>9, <1>12 DEF OtherShuts
  <2> QED
    BY <1>1, <1>3, <1>4, <1>5, <2>1, EndClosed
<1>14. \A i \in Inums : Holds(n, i) = Holds(proc[p], i)
  BY <1>7, <1>9 DEF Holds, CallHolds
<1>15. 0 \in Fds
  BY SizesAssumption DEF Fds
<1>16. PICK f \in Files : proc[p].ofile[0] \in {0, f}
  <2>1. proc[p].ofile[0] \in Files \cup {0} /\ \E f : f \in Files
    BY <1>2, <1>15, SizesAssumption DEF ProcOK, Files
  <2> QED
    BY <2>1
<1>17. OneDesc(p, 0, f)
  <2>1. FileOK(ftable[f])
    BY <1>1, <1>2 DEF Shapes
  <2>2. ftable'[f].ref = ftable[f].ref + One(n.ofile[0] = f) - One(proc[p].ofile[0] = f)
    <3>1. ftable[f].ref \in Int /\ One(proc[p].ofile[0] = f) \in Int
      BY <2>1, Ints DEF FileOK
    <3> QED
      BY <1>1, <1>9, <3>1
  <2>3. \A g \in Files \ {f} : n.ofile[0] # g /\ proc[p].ofile[0] # g
    BY <1>9, <1>16, Tables
  <2> QED
    BY <1>1, <1>8, <1>9, <1>11, <1>12, <2>1, <2>2, <2>3 DEF OneDesc
<1>18. Counts(fs, fs', Nothing) /\ Nothing \in [Inums -> Int]
  BY <1>1, SameOK, GoodCounts, Ints
<1>19. \A i \in Inums : Nothing[i] = Holds(proc'[p], i) - Holds(proc[p], i)
                                 + FileHolds(ftable'[f], i) - FileHolds(ftable[f], i)
  <2> TAKE i \in Inums
  <2>1. /\ Holds(proc'[p], i) = Holds(proc[p], i) /\ Holds(proc[p], i) \in Int /\ Nothing[i] = 0
        /\ FileHolds(ftable[f], i) \in Int /\ ftable' = ftable
    BY <1>1, <1>12, <1>14, HoldsInt, Ints DEF FileHolds
  <2> QED
    BY <2>1
<1> QED
  BY <1>13, <1>15, <1>17, <1>18, <1>19, DescStep

LEMMA sys_dupOK ==
  ASSUME RefsInv, ~fs.panic, NEW p \in Procs, sys_dup(p)
  PROVE  RefsInv'
<1> DEFINE f == ArgFile(p, Ins(p).fd)
           fd == Min(FreeFds(p))
           old == proc[p].reg[Ins(p).fd]
           e == [ftable[f] EXCEPT !.ref = @ + 1]
           pr == [proc[p] EXCEPT !.ofile[fd] = f]
<1>1. /\ At(p, "user") /\ UNCHANGED <<fs, pipes>> /\ proc[p].cwd \in Inums /\ proc[p].sc.shut = <<>>
      /\ ProcOK(proc[p]) /\ DOMAIN proc[p] = DOMAIN NoProc /\ proc[p].st = "live"
  BY ProcTable, InCall DEF sys_dup, User
<1>2. CASE Return(p, proc[p], -1) /\ UNCHANGED ftable
  BY <1>1, <1>2, KeptSame, FailStep
<1>3. CASE ~(f = 0 \/ FreeFds(p) = {})
  <2>1. ftable' = [ftable EXCEPT ![f] = e] /\ ReturnWith(p, pr, fd, UserMode)
    BY <1>3 DEF sys_dup, Return
  <2>2. f \in Files /\ old \in Fds /\ proc[p].ofile[old] = f
    BY <1>3, ArgFileIn
  <2>3. fd \in Fds /\ proc[p].ofile[fd] = 0
    <3>1. fd \in FreeFds(p)
      BY <1>3, Least, Tables DEF FreeFds
    <3> HIDE DEF fd
    <3> QED
      BY <3>1 DEF FreeFds
  <2> HIDE DEF f, fd, old
  <2>4. /\ FileOK(ftable[f]) /\ ftable[f].ref \in Nat \ {0}
        /\ ftable[f].type \in {"inode", "pipe"} /\ DOMAIN ftable = Files
    BY <2>2, OpenFile DEF RefsInv, Shapes
  <2>5. /\ DOMAIN pr = DOMAIN NoProc /\ DOMAIN pr.ofile = Fds /\ pr.ofile[fd] = f
        /\ \A g \in Fds \ {fd} : pr.ofile[g] = proc[p].ofile[g]
        /\ pr.st = "live" /\ pr.cwd = proc[p].cwd
    BY <1>1, <2>3 DEF ProcOK, NoProc
  <2>6. (\A g \in Fds : pr.ofile[g] \in Files \cup {0}) /\ pr.cwd \in Inums
    BY <1>1, <2>2, <2>5 DEF ProcOK
  <2>7. /\ DOMAIN e = DOMAIN NoFile /\ e.ref = ftable[f].ref + 1 /\ e.type = ftable[f].type
        /\ e.ip = ftable[f].ip /\ e.writable = ftable[f].writable
    BY <2>4 DEF FileOK, NoFile
  <2> HIDE DEF pr, e
  <2>8. FileOK(e)
    BY <2>4, <2>7 DEF FileOK
  <2>a. Leaving(UserMode) /\ UserMode.put = 0 /\ UserMode.shut = <<>>
    BY PuttingUser, UserFields
  <2>9. PICK n : /\ proc' = [proc EXCEPT ![p] = n] /\ ProcOK(n) /\ n.ofile = pr.ofile /\ n.sc = UserMode
                 /\ \A i \in Inums : Holds(n, i) = One(pr.cwd = i) + One(UserMode.put = i)
    BY <2>1, <2>5, <2>6, <2>a, Returned
  <2>10. proc'[p] = n /\ ftable'[f] = e /\ \A q \in Procs \ {p} : proc'[q] = proc[q]
    BY <2>1, <2>2, <2>4, <2>9, ProcTable
  <2>b. ShutsKept
    BY <1>1, <2>9, <2>10, <2>a DEF ShutsKept
  <2>11. PipesFit /\ Counts(fs, fs', Nothing)
    BY <1>1, <2>1, <2>2, <2>7, <2>b, OneFile, KeptSame
  <2>12. /\ e.ref = ftable[f].ref + One(n.ofile[fd] = f) - One(proc[p].ofile[fd] = f)
         /\ \A g \in Files \ {f} : n.ofile[fd] # g /\ proc[p].ofile[fd] # g
         /\ \A g \in Fds \ {fd} : n.ofile[g] = proc[p].ofile[g]
    BY <2>2, <2>3, <2>4, <2>5, <2>7, <2>9, Tables DEF One
  <2>13. OneDesc(p, fd, f)
    BY <2>1, <2>8, <2>9, <2>10, <2>12 DEF OneDesc
  <2>14. \A i \in Inums : Nothing[i] = Holds(proc'[p], i) - Holds(proc[p], i)
                                 + FileHolds(ftable'[f], i) - FileHolds(ftable[f], i)
    <3> TAKE i \in Inums
    <3>1. /\ Holds(proc[p], i) \in Int /\ One(proc[p].cwd = i) \in Int /\ FileHolds(e, i) \in Int
          /\ FileHolds(ftable[f], i) = FileHolds(e, i) /\ Nothing[i] = 0
      BY <2>7, HoldsInt, Ints DEF FileHolds
    <3>2. Nothing[i] = One(proc[p].cwd = i) - Holds(proc[p], i)
      BY <1>1, NoCall
    <3>3. Holds(n, i) = One(proc[p].cwd = i) + 0
      BY <2>5, <2>9, <2>a, Tables DEF One
    <3> QED
      BY <2>10, <3>1, <3>2, <3>3
  <2>15. Nothing \in [Inums -> Int]
    BY Ints
  <2> QED
    BY <2>2, <2>3, <2>11, <2>13, <2>14, <2>15, DescStep
<1> QED
  BY <1>2, <1>3 DEF sys_dup

-----------------------------------------------------------------------------
(* fork().                                                                 *)

\* What the child shares with p, as descriptors.
Shared(p, f) == {fd \in Fds : proc[p].ofile[fd] = f}

LEMMA SharedDescs ==
  ASSUME RefsInv, ~fs.panic, NEW p \in Procs, NEW q \in Procs, p # q, NEW f \in Files,
         \A fd \in Fds : proc[q].ofile[fd] = 0,
         \A fd \in Fds : proc'[q].ofile[fd] = proc[p].ofile[fd],
         \A r \in Procs \ {q} : \A fd \in Fds : proc'[r].ofile[fd] = proc[r].ofile[fd]
  PROVE  /\ Cardinality(Shared(p, f)) \in Nat
         /\ Cardinality(Descs(f))' = ftable[f].ref + Cardinality(Shared(p, f))
         /\ ftable[f].ref = 0 => Cardinality(Shared(p, f)) = 0
<1> DEFINE S == Descs(f)
           F == Shared(p, f)
           T == {q} \X F
<1>1. IsFiniteSet(S) /\ IsFiniteSet(F)
  BY Tables, FS_Subset, FS_Product DEF Descs, Shared
<1>2. Descs(f)' = S \cup T
  <2>1. \A r \in Procs, fd \in Fds : <<r, fd>> \in Descs(f)' <=> <<r, fd>> \in S \cup T
    <3> TAKE r \in Procs, fd \in Fds
    <3>1. <<r, fd>> \in Descs(f)' <=> proc'[r].ofile[fd] = f
      BY DEF Descs
    <3>2. <<r, fd>> \in S <=> proc[r].ofile[fd] = f
      BY DEF Descs
    <3>3. <<r, fd>> \in T <=> r = q /\ proc[p].ofile[fd] = f
      BY DEF Shared
    <3> QED
      BY <3>1, <3>2, <3>3, Tables
  <2>2. Descs(f)' \subseteq Procs \X Fds /\ S \cup T \subseteq Procs \X Fds
    BY DEF Descs, Shared
  <2> HIDE DEF S, T
  <2> QED
    BY <2>1, <2>2
<1>3. S \cap T = {}
  BY Tables DEF Descs, Shared
<1>4. F # {} => S # {}
  <2> SUFFICES ASSUME NEW fd \in F
               PROVE  <<p, fd>> \in S
    OBVIOUS
  <2> QED
    BY DEF Descs, Shared
<1>5. ftable[f].ref = Cardinality(S)
  BY DEF RefsInv, RefsExact
<1> HIDE DEF S, F
<1>6. Cardinality(F) \in Nat /\ Cardinality(S) \in Nat
  BY <1>1, FS_CardinalityType
<1>7. IsFiniteSet({q}) /\ Cardinality({q}) = 1
  BY FS_Singleton
<1>8. IsFiniteSet(T) /\ Cardinality(T) = Cardinality(F)
  BY <1>1, <1>6, <1>7, FS_Product
<1> HIDE DEF T
<1>9. Cardinality(S \cup T) = Cardinality(S) + Cardinality(F)
  <2>1. Cardinality(S \cup T) = Cardinality(S) + Cardinality(T) - Cardinality(S \cap T)
    BY <1>1, <1>8, FS_Union
  <2>2. Cardinality(S \cap T) = 0
    BY <1>3, FS_EmptySet
  <2> QED
    BY <1>6, <1>8, <2>1, <2>2
<1>10. Cardinality(S) = 0 => Cardinality(F) = 0
  BY <1>1, <1>4, FS_EmptySet
<1>11. Cardinality(Descs(f)') = Cardinality(S) + Cardinality(F)
  BY <1>2, <1>9
<1>12. Cardinality(Descs(f))' = ftable[f].ref + Cardinality(F)
  BY <1>5, <1>11
<1>13. ftable[f].ref = 0 => Cardinality(F) = 0
  BY <1>5, <1>10
<1> QED
  BY <1>6, <1>12, <1>13 DEF F

LEMMA ForkStep ==
  ASSUME RefsInv, ~fs.panic, NEW p \in Procs, NEW q \in Procs, At(p, "user"), proc[q].st = "unused",
         DOMAIN proc' = Procs, \A r \in Procs \ {q} : Alike(proc'[r], proc[r]),
         DOMAIN proc'[q] = DOMAIN NoProc, proc'[q].ofile = proc[p].ofile,
         SameCall(proc'[q], proc[p]),
         ftable' = [f \in Files |-> [ftable[f] EXCEPT !.ref = @ + Cardinality(Shared(p, f))]],
         fs' = idup(fs, proc[p].cwd), UNCHANGED pipes
  PROVE  RefsInv'
<1> SUFFICES ASSUME ~fs'.panic
             PROVE  RefsInv'
  BY DEF RefsInv
<1>1. Shapes /\ EndsOK /\ RefsExact
  BY DEF RefsInv
<1>2. /\ DOMAIN proc = Procs /\ \A r \in Procs : ProcOK(proc[r])
      /\ DOMAIN ftable = Files /\ \A f \in Files : FileOK(ftable[f])
  BY <1>1 DEF Shapes
<1>3. p # q /\ proc[p].cwd \in Inums /\ \A fd \in Fds : proc[q].ofile[fd] = 0
  BY <1>2 DEF At, ProcOK
<1>4. ProcOK(proc'[q])
  <2>1. CallOK(proc[p].sc, Ins(p)) /\ proc[p].sc.st = "user" /\ proc[p].st = "live"
    BY InCall
  <2>2. CallOK(proc'[q].sc, Program[proc'[q].prog][proc'[q].pc])
    BY <2>1 DEF CallOK, SameCall
  <2> QED
    BY <1>2, <1>3, <2>1, <2>2 DEF ProcOK, SameCall
<1>5. \A r \in Procs : ProcOK(proc'[r])
  BY <1>2, <1>4, AlikeOK
<1>6. Counts(fs, fs', Plus(proc[p].cwd)) /\ Plus(proc[p].cwd) \in [Inums -> Int]
  BY <1>3, idupOK, GoodCounts, Ints
<1>7. \A f \in Files : /\ Cardinality(Shared(p, f)) \in Nat
                       /\ Cardinality(Descs(f))' = ftable[f].ref + Cardinality(Shared(p, f))
                       /\ ftable[f].ref = 0 => Cardinality(Shared(p, f)) = 0
  <2>1. \A r \in Procs \ {q} : \A fd \in Fds : proc'[r].ofile[fd] = proc[r].ofile[fd]
    BY DEF Alike
  <2>2. \A fd \in Fds : proc'[q].ofile[fd] = proc[p].ofile[fd]
    OBVIOUS
  <2> QED
    BY <1>3, <2>1, <2>2, SharedDescs
<1>8. \A f \in Files :
        /\ DOMAIN ftable'[f] = DOMAIN NoFile
        /\ ftable'[f].ref = ftable[f].ref + Cardinality(Shared(p, f))
        /\ ftable'[f].type = ftable[f].type /\ ftable'[f].ip = ftable[f].ip
        /\ ftable'[f].writable = ftable[f].writable
  <2> TAKE f \in Files
  <2>1. ftable'[f] = [ftable[f] EXCEPT !.ref = @ + Cardinality(Shared(p, f))]
    OBVIOUS
  <2> QED
    BY <1>2, <2>1 DEF FileOK, NoFile
<1>9. \A f \in Files : FileOK(ftable'[f])
  BY <1>2, <1>7, <1>8 DEF FileOK
<1>10. EndsKept
  BY <1>1, <1>8 DEF EndsKept, Shapes
<1>a. ShutsKept
  <2>1. proc[p].sc.shut = <<>> /\ proc[q].sc.shut = <<>>
    BY <1>2, InCall, UserFields DEF ProcOK
  <2> QED
    BY <2>1 DEF ShutsKept, Alike, SameCall
<1>11. EndsOK' /\ \A y \in Pipes : pipes'[y].open = Sides(y)'
  BY <1>1, <1>10, <1>a, EndsStep
<1>12. Shapes'
  <2>1. FsOK(fs') /\ DOMAIN ftable' = Files
    BY <1>6 DEF Counts
  <2> QED
    BY <1>5, <1>9, <1>10, <2>1 DEF Shapes, EndsKept
<1>13. \A i \in Inums : fs'.ic[i].ref = Holders(i)'
  <2>1. PICK f : f \in Files
    BY SizesAssumption DEF Files
  <2>2. \A r \in Procs \ {q} : SameCall(proc'[r], proc[r])
    BY DEF Alike
  <2>3. \A g \in Files \ {f} : ftable'[g].type = ftable[g].type /\ ftable'[g].ip = ftable[g].ip
    BY <1>8
  <2>4. \A i \in Inums : /\ FileHolds(ftable'[f], i) = FileHolds(ftable[f], i)
                         /\ FileHolds(ftable[f], i) \in Int
    BY <1>8, <2>1, Ints DEF FileHolds
  <2>5. \A i \in Inums : Holds(proc[q], i) = 0
    BY <1>2, NotLive
  <2>6. \A i \in Inums : Holds(proc'[q], i) = One(i = proc[p].cwd)
    <3>1. \A i \in Inums : /\ Holds(proc[p], i) \in Int /\ One(proc[p].cwd = i) \in Int
                           /\ 0 = One(proc[p].cwd = i) - Holds(proc[p], i)
      BY NoCall, HoldsInt, Ints
    <3>2. \A i \in Inums : Holds(proc'[q], i) = Holds(proc[p], i)
      BY DEF Holds, SameCall
    <3> TAKE i \in Inums
    <3>3. One(proc[p].cwd = i) = One(i = proc[p].cwd)
      BY DEF One
    <3> DEFINE h == Holds(proc[p], i)  o == One(proc[p].cwd = i)
    <3>4. h \in Int /\ o \in Int /\ 0 = o - h
      BY <3>1
    <3>5. Holds(proc'[q], i) = h
      BY <3>2
    <3> HIDE DEF h
    <3>6. o = One(i = proc[p].cwd)
      BY <3>3
    <3> HIDE DEF o
    <3>7. h = o
      BY <3>4
    <3> QED
      BY <3>5, <3>6, <3>7
  <2>7. \A i \in Inums : Plus(proc[p].cwd)[i] = Holds(proc'[q], i) - Holds(proc[q], i)
                                 + FileHolds(ftable'[f], i) - FileHolds(ftable[f], i)
    <3>1. \A i \in Inums : /\ Plus(proc[p].cwd)[i] = One(i = proc[p].cwd)
                           /\ One(i = proc[p].cwd) \in Int
      BY Ints
    <3> QED
      BY <2>4, <2>5, <2>6, <3>1
  <2> QED
    BY <1>1, <1>6, <2>1, <2>2, <2>3, <2>7, InodesStep
<1>14. \A f \in Files : ftable'[f].ref = Cardinality(Descs(f))'
  BY <1>7, <1>8
<1> QED
  BY <1>11, <1>12, <1>13, <1>14 DEF RefsInv, RefsExact

LEMMA forkOK ==
  ASSUME RefsInv, ~fs.panic, NEW p \in Procs, fork(p)
  PROVE  RefsInv'
<1> DEFINE free == {q \in Procs : proc[q].st = "unused"}
           q == Min(free)
           vm == copyuvm(pages - 1, proc[p].vm, proc[p].sz).vm
           mine == {fd \in Fds : proc[p].ofile[fd] # 0}
           Uses(f) == Cardinality({fd \in mine : proc[p].ofile[fd] = f})
           r == Ins(p).dst
           Child(c) == [proc[p] EXCEPT !.parent = p, !.prog = c, !.pc = 1, !.killed = FALSE,
                                       !.reg[r] = 0, !.vm = vm]
           n == [proc[p] EXCEPT !.pc = @ + 1, !.reg[r] = q]
<1>1. /\ At(p, "user") /\ UNCHANGED pipes /\ proc[p].sc.st = "user"
      /\ ProcOK(proc[p]) /\ DOMAIN proc[p] = DOMAIN NoProc /\ proc[p].st = "live"
  BY ProcTable DEF fork, User, At
<1>2. CASE Return(p, proc[p], -1) /\ UNCHANGED <<fs, ftable>>
  BY <1>1, <1>2, KeptSame, FailStep
<1>3. CASE fs' = Panic(fs)
  <2>1. fs'.panic
    BY <1>3, GoodCounts DEF Panic, FsOK
  <2> QED
    BY <2>1 DEF RefsInv
<1>4. CASE /\ free # {} /\ \E c \in Ins(p).child : proc' = [proc EXCEPT ![p] = n, ![q] = Child(c)]
           /\ ftable' = [f \in Files |-> [ftable[f] EXCEPT !.ref = @ + Uses(f)]]
           /\ fs' = idup(fs, proc[p].cwd)
  <2>1. PICK c : proc' = [proc EXCEPT ![p] = n, ![q] = Child(c)]
    BY <1>4
  <2>2. q \in Procs /\ proc[q].st = "unused"
    <3>1. q \in free
      BY <1>4, Least, Tables
    <3> HIDE DEF q
    <3> QED
      BY <3>1
  <2> DEFINE m == Child(c)
  <2>a. proc' = [proc EXCEPT ![p] = n, ![q] = m]
    BY <2>1
  <2> HIDE DEF q, vm, r, free
  <2>3. DOMAIN n = DOMAIN NoProc /\ n.ofile = proc[p].ofile /\ SameCall(n, proc[p])
    BY <1>1 DEF NoProc, SameCall
  <2>4. DOMAIN m = DOMAIN NoProc /\ m.ofile = proc[p].ofile /\ SameCall(m, proc[p])
    BY <1>1 DEF NoProc, SameCall
  <2> HIDE DEF n, m, Child
  <2>5. q # p
    BY <1>1, <2>2
  <2>6. /\ DOMAIN proc' = Procs /\ proc'[p] = n /\ proc'[q] = m
        /\ \A s \in Procs \ {p, q} : proc'[s] = proc[s]
    BY <2>2, <2>5, <2>a, ProcTable
  <2>7. \A s \in Procs \ {q} : Alike(proc'[s], proc[s])
    BY <1>1, <2>3, <2>6, ProcTable DEF Alike
  <2>8. \A f \in Files : Uses(f) = Cardinality(Shared(p, f))
    <3> TAKE f \in Files
    <3>1. {fd \in mine : proc[p].ofile[fd] = f} = Shared(p, f)
      BY Tables DEF Shared
    <3> QED
      BY <3>1
  <2> HIDE DEF Uses
  <2>9. ftable' = [f \in Files |-> [ftable[f] EXCEPT !.ref = @ + Cardinality(Shared(p, f))]]
    BY <1>4, <2>8
  <2> QED
    BY <1>1, <1>4, <2>2, <2>4, <2>6, <2>7, <2>9, ForkStep
<1> QED
  BY <1>2, <1>3, <1>4 DEF fork

-----------------------------------------------------------------------------
(* pipe().                                                                 *)

\* The two lowest members of a set that has two.
LEMMA LeastTwo ==
  ASSUME NEW T, T \subseteq Nat, IsFiniteSet(T), ~(Cardinality(T) < 2)
  PROVE  Min(T) \in T /\ Min(T \ {Min(T)}) \in T \ {Min(T)}
<1>1. Cardinality(T) \in Nat /\ T # {}
  BY FS_CardinalityType, FS_EmptySet
<1>2. Min(T) \in T
  BY <1>1, Least
<1> DEFINE a == Min(T)
<1>3. a \in T
  BY <1>2
<1> HIDE DEF a
<1>4. Cardinality(T \ {a}) = Cardinality(T) - 1 /\ IsFiniteSet(T \ {a})
  BY <1>3, FS_RemoveElement
<1>5. T \ {a} # {}
  BY <1>1, <1>4, FS_EmptySet
<1>6. Min(T \ {a}) \in T \ {a}
  BY <1>5, Least
<1> QED
  BY <1>2, <1>6 DEF a

\* A pipe in use has a file or a process that is closing it: while a file is free,
\* so is a pipe.
LEMMA PipeLeft ==
  ASSUME RefsInv, ~fs.panic, NEW r \in Files, ftable[r].type = "none"
  PROVE  \E y \in Pipes : pipes[y].open = {}
<1> SUFFICES ASSUME \A y \in Pipes : pipes[y].open # {}
             PROVE  FALSE
  OBVIOUS
<1> DEFINE Owner(k, y) == \/ k \in Files /\ ftable[k].type = "pipe" /\ ftable[k].ip = y
                          \/ k - NFILE \in Procs /\ \E s : proc[k - NFILE].sc.shut = <<y, s>>
<1>a. NFILE \in Nat \ {0} /\ NPROC \in Nat \ {0}
  BY SizesAssumption
<1>1. \A y \in Pipes : pipes[y].open = Sides(y)
  BY DEF RefsInv, RefsExact
<1>2. ASSUME NEW y \in Pipes
      PROVE  \E k \in Pipes \ {r} : Owner(k, y)
  <2>1. (\E f : f \in Ends(y)) \/ (\E s : s \in Shuts(y))
    BY <1>1 DEF Sides
  <2>2. CASE \E f : f \in Ends(y)
    <3>1. PICK f \in Files : ftable[f].type = "pipe" /\ ftable[f].ip = y
      BY <2>2 DEF Ends
    <3>2. f \in Pipes \ {r}
      BY <1>a, <3>1 DEF Files, Pipes
    <3> QED
      BY <3>1, <3>2
  <2>3. CASE \E s : s \in Shuts(y)
    <3>1. PICK s \in {"r", "w"}, q \in Procs : proc[q].sc.shut = <<y, s>>
      BY <2>3 DEF Shuts
    <3> DEFINE k == NFILE + q
    <3>2. k \in Pipes \ {r} /\ k - NFILE = q
      BY <1>a DEF Files, Pipes, Procs
    <3> HIDE DEF k
    <3>3. Owner(k, y)
      BY <3>1, <3>2
    <3> QED
      BY <3>2, <3>3
  <2> QED
    BY <2>1, <2>2, <2>3
<1>3. \A k \in Pipes, y, z \in Pipes : Owner(k, y) /\ Owner(k, z) => y = z
  <2> SUFFICES ASSUME NEW k \in Pipes, NEW y \in Pipes, NEW z \in Pipes, Owner(k, y), Owner(k, z)
               PROVE  y = z
    OBVIOUS
  <2>1. k \in Files => k - NFILE \notin Procs
    BY <1>a DEF Files, Procs
  <2>2. \A s, t : <<y, s>> = <<z, t>> => y = z
    OBVIOUS
  <2> QED
    BY <2>1, <2>2
<1> HIDE DEF Owner
<1> DEFINE h == [y \in Pipes |-> CHOOSE k \in Pipes \ {r} : Owner(k, y)]
<1>4. \A y \in Pipes : h[y] \in Pipes \ {r} /\ Owner(h[y], y)
  BY <1>2
<1>5. h \in [Pipes -> Pipes \ {r}]
  BY <1>4
<1> HIDE DEF h
<1>6. /\ IsFiniteSet(Pipes) /\ IsFiniteSet(Pipes \ {r}) /\ Cardinality(Pipes) \in Nat
      /\ Cardinality(Pipes \ {r}) = Cardinality(Pipes) - 1
  <2>1. IsFiniteSet(Pipes) /\ r \in Pipes
    <3>1. 1 \in Int /\ NFILE + NPROC \in Int
      BY <1>a
    <3>2. IsFiniteSet(Pipes)
      BY <3>1, FS_Interval DEF Pipes
    <3>3. r \in Pipes
      BY <1>a DEF Pipes, Files
    <3> QED
      BY <3>2, <3>3
  <2> QED
    BY <2>1, FS_RemoveElement, FS_CardinalityType
<1>7. \E y, z \in Pipes : y # z /\ h[y] = h[z]
  BY <1>5, <1>6, FS_PigeonHole
<1> QED
  BY <1>3, <1>4, <1>7

\* The files and the processes after pipe(): two free files are the ends of x, p has
\* two more descriptors.
NewPipe(p, rf, wf, fd0, fd1, x) ==
  /\ rf \in Files /\ wf \in Files /\ rf # wf /\ ftable[rf].ref = 0 /\ ftable[wf].ref = 0
  /\ fd0 \in Fds /\ fd1 \in Fds /\ fd0 # fd1 /\ proc[p].ofile[fd0] = 0 /\ proc[p].ofile[fd1] = 0
  /\ x \in Pipes /\ pipes[x].open = {} /\ ShutsKept
  /\ DOMAIN ftable' = Files /\ \A f \in Files \ {rf, wf} : ftable'[f] = ftable[f]
  /\ \A f \in {rf, wf} : /\ FileOK(ftable'[f]) /\ ftable'[f].type = "pipe" /\ ftable'[f].ref = 1
                        /\ ftable'[f].ip = x
  /\ ~ftable'[rf].writable /\ ftable'[wf].writable
  /\ pipes' = [pipes EXCEPT ![x].open = {"r", "w"}]

LEMMA NewEnds ==
  ASSUME RefsInv, ~fs.panic, NEW p, NEW rf, NEW wf, NEW fd0, NEW fd1, NEW x,
         NewPipe(p, rf, wf, fd0, fd1, x)
  PROVE  PipesFit
<1> USE DEF NewPipe
<1>1. Shapes /\ EndsOK /\ RefsExact
  BY DEF RefsInv
<1>2. ftable[rf].type = "none" /\ ftable[wf].type = "none"
  BY <1>1 DEF Shapes, FileOK
<1>3. Sides(x) = {}
  BY <1>1 DEF RefsExact
<1>4. Ends(x) = {} /\ Shuts(x) = {}
  BY <1>3 DEF Sides
<1>5. \A f \in Files \ {rf, wf} : ftable'[f].type = "pipe" => ftable'[f].ip # x
  BY <1>4 DEF Ends
<1>6. EndsOK'
  <2>1. \A f, g \in Files : /\ ftable'[f].type = "pipe" /\ ftable'[g].type = "pipe"
                            /\ ftable'[f].ip = ftable'[g].ip /\ Side(ftable'[f]) = Side(ftable'[g])
                            => f = g
    BY <1>1, <1>5 DEF EndsOK, Side
  <2>2. \A f \in Files, q \in Procs :
          ftable'[f].type = "pipe" => proc'[q].sc.shut # <<ftable'[f].ip, Side(ftable'[f])>>
    <3> SUFFICES ASSUME NEW f \in Files, NEW q \in Procs, ftable'[f].type = "pipe",
                        proc[q].sc.shut = <<ftable'[f].ip, Side(ftable'[f])>>
                 PROVE  FALSE
      BY DEF ShutsKept
    <3>1. CASE f \in {rf, wf}
      <4>1. Side(ftable'[f]) \in {"r", "w"} /\ ftable'[f].ip = x
        BY <3>1 DEF Side
      <4> QED
        BY <1>4, <4>1 DEF Shuts
    <3>2. CASE f \notin {rf, wf}
      BY <1>1, <3>2 DEF EndsOK
    <3> QED
      BY <3>1, <3>2
  <2>3. /\ \A r, q \in Procs : proc'[r].sc.shut = proc'[q].sc.shut /\ proc'[r].sc.shut # <<>> => r = q
        /\ \A q \in Procs : proc'[q].sc.shut \in {<<>>} \cup (Pipes \X {"r", "w"})
    BY <1>1 DEF EndsOK, ShutsKept
  <2> QED
    BY <2>1, <2>2, <2>3 DEF EndsOK
<1>7. DOMAIN pipes' = Pipes /\ \A y \in Pipes : DOMAIN pipes'[y] = {"open", "data"}
  BY <1>1 DEF Shapes
<1>8. pipes'[x].open = {"r", "w"} /\ \A y \in Pipes \ {x} : pipes'[y] = pipes[y]
  BY <1>1 DEF Shapes
<1>9. ASSUME NEW y \in Pipes \ {x}
      PROVE  pipes'[y].open = Sides(y)'
  <2>1. Ends(y)' = Ends(y) /\ Shuts(y)' = Shuts(y)
    BY <1>2 DEF Ends, Shuts, ShutsKept
  <2>2. \A h \in Ends(y) : ftable'[h] = ftable[h]
    BY <1>2 DEF Ends
  <2>3. Sides(y)' = Sides(y)
    BY <2>1, <2>2 DEF Sides
  <2> QED
    BY <1>1, <1>8, <2>3 DEF RefsExact
<1>10. Sides(x)' = {"r", "w"}
  <2>1. Ends(x)' = {rf, wf}
    BY <1>5 DEF Ends
  <2>2. Shuts(x)' = {}
    BY <1>4 DEF Shuts, ShutsKept
  <2>3. Side(ftable'[rf]) = "r" /\ Side(ftable'[wf]) = "w"
    BY DEF Side
  <2> QED
    BY <2>1, <2>2, <2>3 DEF Sides
<1> QED
  BY <1>6, <1>7, <1>8, <1>9, <1>10 DEF PipesFit

LEMMA PipeStep ==
  ASSUME RefsInv, ~fs.panic, NEW p \in Procs, NEW rf, NEW wf, NEW fd0, NEW fd1, NEW x,
         NewPipe(p, rf, wf, fd0, fd1, x), proc' = [proc EXCEPT ![p] = proc'[p]], ProcOK(proc'[p]),
         proc'[p].ofile = [proc[p].ofile EXCEPT ![fd0] = rf, ![fd1] = wf],
         \A i \in Inums : Holds(proc'[p], i) = Holds(proc[p], i), UNCHANGED fs
  PROVE  RefsInv'
<1> DEFINE n == proc'[p]
<1>0. /\ proc' = [proc EXCEPT ![p] = n] /\ ProcOK(n) /\ proc'[p] = n
      /\ n.ofile = [proc[p].ofile EXCEPT ![fd0] = rf, ![fd1] = wf]
      /\ \A i \in Inums : Holds(n, i) = Holds(proc[p], i)
  OBVIOUS
<1> HIDE DEF n
<1>1. Shapes /\ EndsOK /\ RefsExact
  BY DEF RefsInv
<1>2. /\ DOMAIN proc = Procs /\ \A r \in Procs : ProcOK(proc[r])
      /\ DOMAIN ftable = Files /\ \A f \in Files : FileOK(ftable[f])
  BY <1>1 DEF Shapes
<1>3. proc'[p] = n /\ DOMAIN proc' = Procs /\ \A q \in Procs \ {p} : proc'[q] = proc[q]
  BY <1>0, <1>2
<1>4. /\ n.ofile[fd0] = rf /\ n.ofile[fd1] = wf
      /\ \A g \in Fds \ {fd0, fd1} : n.ofile[g] = proc[p].ofile[g]
  BY <1>0, <1>2 DEF NewPipe, ProcOK
<1>5. PipesFit
  BY NewEnds
<1>6. ftable[rf].type = "none" /\ ftable[wf].type = "none"
  BY <1>2 DEF NewPipe, FileOK
<1>7. Shapes'
  <2>1. \A f \in Files : FileOK(ftable'[f])
    BY <1>2 DEF NewPipe
  <2>2. \A q \in Procs : ProcOK(proc'[q])
    BY <1>0, <1>2, <1>3
  <2>3. FsOK(fs') /\ DOMAIN ftable' = Files
    BY <1>1 DEF Shapes, NewPipe
  <2> QED
    BY <1>3, <1>5, <2>1, <2>2, <2>3 DEF Shapes, PipesFit
<1>8. \A i \in Inums : fs'.ic[i].ref = Holders(i)'
  <2> TAKE i \in Inums
  <2>1. FilesOf(i)' = FilesOf(i)
    BY <1>6 DEF FilesOf, NewPipe
  <2>2. \A q \in Procs \ {p} : SameCall(proc'[q], proc[q])
    BY <1>3 DEF SameCall
  <2>3. Calls(i) \in Nat /\ Calls(i)' = Calls(i)
    <3>1. /\ Calls(i) \in Nat /\ Calls(i)' \in Nat
          /\ Calls(i)' = Calls(i) + Holds(proc'[p], i) - Holds(proc[p], i)
      BY <2>2, CallsStep
    <3>2. Holds(proc'[p], i) = Holds(proc[p], i) /\ Holds(proc[p], i) \in Int
      BY <1>0, <1>3, HoldsInt
    <3> QED
      BY <3>1, <3>2
  <2>4. Cardinality(FilesOf(i)) \in Nat
    BY Tables, FS_Subset, FS_CardinalityType DEF FilesOf
  <2>5. LET u == Cardinality(LiveIn(i))  v == Cardinality(CallsAt(i))  w == Cardinality(Keeping(i))
            y == Cardinality(PutsOf(i))
        IN  u \in Nat /\ v \in Nat /\ w \in Nat /\ y \in Nat
    BY Tables, FS_Subset, FS_CardinalityType DEF LiveIn, CallsAt, Keeping, PutsOf
  <2>6. LET u == Cardinality(LiveIn(i))'  v == Cardinality(CallsAt(i))'  w == Cardinality(Keeping(i))'
            y == Cardinality(PutsOf(i))'
        IN  u \in Nat /\ v \in Nat /\ w \in Nat /\ y \in Nat
    BY Tables, FS_Subset, FS_CardinalityType DEF LiveIn, CallsAt, Keeping, PutsOf
  <2>7. Holders(i) = Cardinality(FilesOf(i)) + Calls(i)
    BY <2>4, <2>5 DEF Holders, Calls
  <2>8. Holders(i)' = Cardinality(FilesOf(i)) + Calls(i)'
    BY <2>1, <2>4, <2>6 DEF Holders, Calls
  <2> QED
    BY <1>1, <2>3, <2>7, <2>8 DEF RefsExact
<1>9. \A f \in Files : ftable'[f].ref = Cardinality(Descs(f))'
  <2> TAKE f \in Files
  <2> DEFINE t == [q \in Procs |-> [ofile |-> IF q = p THEN [proc[p].ofile EXCEPT ![fd0] = rf]
                                              ELSE proc[q].ofile]]
             a == Cardinality(DescsIn(proc, f))
             b == Cardinality(DescsIn(t, f))
             c == Cardinality(DescsIn(proc', f))
  <2>0. fd0 \in Fds /\ fd1 \in Fds /\ fd0 # fd1 /\ rf # wf /\ proc[p].ofile[fd0] = 0 /\ proc[p].ofile[fd1] = 0
    BY DEF NewPipe
  <2>1. /\ \A q \in Procs \ {p} : t[q].ofile = proc[q].ofile
        /\ t[p].ofile[fd0] = rf /\ \A g \in Fds \ {fd0} : t[p].ofile[g] = proc[p].ofile[g]
    BY <1>2, <2>0 DEF ProcOK
  <2> HIDE DEF t
  <2>2. OtherDescs(proc, t, p, fd0) /\ OtherDescs(t, proc', p, fd1)
    <3>1. ASSUME NEW q \in Procs, NEW e \in Fds
          PROVE  /\ <<q, e>> # <<p, fd0>> => t[q].ofile[e] = proc[q].ofile[e]
                 /\ <<q, e>> # <<p, fd1>> => proc'[q].ofile[e] = t[q].ofile[e]
      <4>1. CASE q # p
        BY <1>3, <2>1, <4>1
      <4>2. CASE q = p
        BY <1>3, <1>4, <2>0, <2>1, <4>2
      <4> QED
        BY <4>1, <4>2
    <3> QED
      BY <3>1 DEF OtherDescs
  <2>3. /\ a \in Nat /\ b \in Nat
        /\ b = a + One(<<p, fd0>> \in DescsIn(t, f)) - One(<<p, fd0>> \in DescsIn(proc, f))
    BY <2>0, <2>2, DescsStep
  <2>4. /\ c \in Nat
        /\ c = b + One(<<p, fd1>> \in DescsIn(proc', f)) - One(<<p, fd1>> \in DescsIn(t, f))
    BY <2>0, <2>2, DescsStep
  <2>5. ftable[f].ref = a /\ Cardinality(Descs(f))' = c
    BY <1>1 DEF RefsExact, Descs, DescsIn
  <2> HIDE DEF a, b, c
  <2>6. /\ <<p, fd0>> \in DescsIn(t, f) <=> f = rf
        /\ <<p, fd1>> \in DescsIn(proc', f) <=> f = wf
        /\ <<p, fd0>> \notin DescsIn(proc, f) /\ <<p, fd1>> \notin DescsIn(t, f)
    BY <1>3, <1>4, <2>0, <2>1, Tables DEF DescsIn
  <2>7. c = a + One(f = rf) + One(f = wf)
    BY <2>3, <2>4, <2>6 DEF One
  <2>8. CASE f \in {rf, wf}
    BY <2>0, <2>5, <2>7, <2>8 DEF One, NewPipe
  <2>9. CASE f \notin {rf, wf}
    BY <2>3, <2>5, <2>7, <2>9 DEF One, NewPipe
  <2> QED
    BY <2>8, <2>9
<1> QED
  BY <1>5, <1>7, <1>8, <1>9 DEF RefsInv, RefsExact, PipesFit

LEMMA sys_pipeOK ==
  ASSUME RefsInv, ~fs.panic, NEW p \in Procs, sys_pipe(p)
  PROVE  RefsInv'
<1> DEFINE rf == Min(FreeFiles)
           wf == Min(FreeFiles \ {rf})
           fd0 == Min(FreeFds(p))
           fd1 == Min(FreeFds(p) \ {fd0})
           x == Min({y \in Pipes : pipes[y].open = {}})
           End(w) == [type |-> "pipe", ref |-> 1, readable |-> ~w, writable |-> w,
                      ip |-> x, off |-> 0]
           pr == [proc[p] EXCEPT !.ofile[fd0] = rf, !.ofile[fd1] = wf,
                                 !.reg["p0"] = fd0, !.reg["p1"] = fd1]
<1>1. /\ At(p, "user") /\ UNCHANGED fs
      /\ ProcOK(proc[p]) /\ DOMAIN proc[p] = DOMAIN NoProc /\ proc[p].st = "live"
      /\ proc[p].cwd \in Inums /\ proc[p].sc.shut = <<>>
  BY ProcTable, InCall DEF sys_pipe, User
<1>2. CASE Return(p, proc[p], -1) /\ UNCHANGED <<ftable, pipes>>
  BY <1>1, <1>2, KeptSame, FailStep
<1>3. CASE ~(Cardinality(FreeFiles) < 2 \/ pages = 0 \/ Cardinality(FreeFds(p)) < 2)
  <2>1. /\ ftable' = [ftable EXCEPT ![rf] = End(FALSE), ![wf] = End(TRUE)]
        /\ pipes' = [pipes EXCEPT ![x].open = {"r", "w"}]
        /\ ReturnWith(p, pr, 0, UserMode)
    BY <1>3 DEF sys_pipe, Return
  <2>2. rf \in FreeFiles /\ wf \in FreeFiles \ {rf}
    <3>1. FreeFiles \subseteq Nat /\ IsFiniteSet(FreeFiles)
      BY Tables, FS_Subset DEF FreeFiles
    <3> QED
      BY <1>3, <3>1, LeastTwo
  <2>3. fd0 \in FreeFds(p) /\ fd1 \in FreeFds(p) \ {fd0}
    <3>1. FreeFds(p) \subseteq Nat /\ IsFiniteSet(FreeFds(p))
      BY Tables, FS_Subset DEF FreeFds
    <3> QED
      BY <1>3, <3>1, LeastTwo
  <2> HIDE DEF rf, wf, fd0, fd1
  <2>4. x \in Pipes /\ pipes[x].open = {}
    <3> DEFINE S == {y \in Pipes : pipes[y].open = {}}
    <3>1. rf \in Files /\ ftable[rf].type = "none"
      BY <2>2 DEF FreeFiles, RefsInv, Shapes, FileOK
    <3>2. S # {} /\ S \subseteq Nat
      BY <3>1, PipeLeft, SizesAssumption DEF Pipes
    <3>3. x \in S
      BY <3>2, Least
    <3> HIDE DEF x
    <3> QED
      BY <3>3
  <2> HIDE DEF x
  <2>5. /\ rf \in Files /\ wf \in Files /\ rf # wf /\ ftable[rf].ref = 0 /\ ftable[wf].ref = 0
        /\ fd0 \in Fds /\ fd1 \in Fds /\ fd0 # fd1 /\ proc[p].ofile[fd0] = 0 /\ proc[p].ofile[fd1] = 0
    BY <2>2, <2>3 DEF FreeFiles, FreeFds
  <2>7. /\ DOMAIN pr = DOMAIN NoProc /\ pr.ofile = [proc[p].ofile EXCEPT ![fd0] = rf, ![fd1] = wf]
        /\ pr.st = "live" /\ pr.cwd = proc[p].cwd
    BY <1>1 DEF NoProc
  <2> HIDE DEF pr
  <2>8. DOMAIN pr.ofile = Fds /\ (\A g \in Fds : pr.ofile[g] \in Files \cup {0}) /\ pr.cwd \in Inums
    BY <1>1, <2>5, <2>7 DEF ProcOK
  <2>a. Leaving(UserMode) /\ UserMode.put = 0 /\ UserMode.shut = <<>>
    BY PuttingUser, UserFields
  <2>9. PICK n : /\ proc' = [proc EXCEPT ![p] = n] /\ ProcOK(n) /\ n.ofile = pr.ofile /\ n.sc = UserMode
                 /\ \A i \in Inums : Holds(n, i) = One(pr.cwd = i) + One(UserMode.put = i)
    BY <2>1, <2>7, <2>8, <2>a, Returned
  <2>b. ShutsKept
    <3>1. proc'[p] = n /\ \A q \in Procs \ {p} : proc'[q] = proc[q]
      BY <2>9, ProcTable
    <3> QED
      BY <1>1, <2>9, <2>a, <3>1 DEF ShutsKept
  <2>6. NewPipe(p, rf, wf, fd0, fd1, x)
    <3>1. DOMAIN ftable = Files
      BY DEF RefsInv, Shapes
    <3>2. /\ DOMAIN ftable' = Files /\ \A f \in Files \ {rf, wf} : ftable'[f] = ftable[f]
          /\ ftable'[rf] = End(FALSE) /\ ftable'[wf] = End(TRUE)
      BY <2>1, <2>5, <3>1
    <3>3. \A w \in BOOLEAN : /\ FileOK(End(w)) /\ End(w).type = "pipe" /\ End(w).ref = 1
                             /\ End(w).ip = x /\ End(w).writable = w
      BY <2>4 DEF FileOK, NoFile
    <3> HIDE DEF End
    <3> QED
      BY <2>1, <2>4, <2>5, <2>b, <3>2, <3>3 DEF NewPipe
  <2>10. \A i \in Inums : Holds(n, i) = Holds(proc[p], i)
    <3> TAKE i \in Inums
    <3>1. Holds(proc[p], i) \in Int /\ One(proc[p].cwd = i) \in Int /\ Nothing[i] = 0
      BY HoldsInt, Ints
    <3>2. Nothing[i] = One(proc[p].cwd = i) - Holds(proc[p], i)
      BY <1>1, NoCall
    <3>3. Holds(n, i) = One(proc[p].cwd = i) + 0
      BY <2>7, <2>9, <2>a, Tables DEF One
    <3> QED
      BY <3>1, <3>2, <3>3
  <2>11. n.ofile = [proc[p].ofile EXCEPT ![fd0] = rf, ![fd1] = wf]
    BY <2>7, <2>9
  <2>12. proc'[p] = n
    BY <2>9, ProcTable
  <2>13. /\ proc' = [proc EXCEPT ![p] = proc'[p]] /\ ProcOK(proc'[p])
         /\ proc'[p].ofile = [proc[p].ofile EXCEPT ![fd0] = rf, ![fd1] = wf]
         /\ \A i \in Inums : Holds(proc'[p], i) = Holds(proc[p], i)
    BY <2>9, <2>10, <2>11, <2>12
  <2> QED
    BY <1>1, <2>6, <2>13, PipeStep
<1> QED
  BY <1>2, <1>3 DEF sys_pipe

-----------------------------------------------------------------------------
(* The invariant.                                                          *)

LEMMA InitOK ==
  ASSUME Init
  PROVE  RefsInv
<1> DEFINE z == iinit(mkfs)
<1>1. /\ fs = iget(z, ROOTINO) /\ ftable = [f \in Files |-> NoFile]
      /\ pipes = [x \in Pipes |-> NoPipe]
  BY DEF Init
<1>2. /\ DOMAIN proc = Procs /\ \A q \in Procs \ {1} : proc[q] = NoProc
      /\ DOMAIN proc[1] = DOMAIN NoProc /\ proc[1].ofile = NoProc.ofile /\ proc[1].st = "live"
      /\ proc[1].cwd = ROOTINO /\ proc[1].sc = UserMode
  BY Tables DEF Init, NoProc
<1>3. /\ FsOK(z) /\ ~z.panic /\ \A i \in Inums : z.ic[i].ref = 0
  BY DEF FsOK, iinit, NotCached
<1> HIDE DEF z
<1>4. Counts(z, fs, Plus(ROOTINO))
  BY <1>1, <1>3, igetOK DEF Good
<1>5. Shapes
  <2>1. FsOK(fs)
    BY <1>4 DEF Counts
  <2>2. FileOK(NoFile) /\ DOMAIN NoPipe = {"open", "data"}
    BY DEF FileOK, NoFile, NoPipe
  <2>3. ProcOK(proc[1])
    <3>1. CallOK(proc[1].sc, Program[proc[1].prog][proc[1].pc])
      BY <1>2, UserCall
    <3> QED
      BY <1>2, <3>1, NoProcOK, UserFields, Tables DEF ProcOK
  <2>4. \A q \in Procs : ProcOK(proc[q])
    BY <1>2, <2>3, NoProcOK
  <2> QED
    BY <1>1, <1>2, <2>1, <2>2, <2>4 DEF Shapes
<1>6. /\ \A f \in Files : ftable[f].type = "none" /\ ftable[f].ref = 0
      /\ \A x \in Pipes : pipes[x].open = {}
  BY <1>1 DEF NoFile, NoPipe
<1>a. \A q \in Procs : proc[q].sc = UserMode
  BY <1>2, NoProcOK
<1>7. EndsOK
  BY <1>6, <1>a, UserFields DEF EndsOK
<1>8. \A f \in Files : ftable[f].ref = Cardinality(Descs(f))
  <2> TAKE f \in Files
  <2>1. \A q \in Procs, fd \in Fds : proc[q].ofile[fd] = 0
    BY <1>2, NoProcOK
  <2>2. Descs(f) = {}
    BY <2>1, Tables DEF Descs
  <2> QED
    BY <1>6, <2>2, FS_EmptySet
<1>9. \A x \in Pipes : pipes[x].open = Sides(x)
  <2> TAKE x \in Pipes
  <2>1. Ends(x) = {} /\ Shuts(x) = {}
    <3>1. \A s : <<x, s>> # <<>>
      OBVIOUS
    <3>2. \A q \in Procs : proc[q].sc.shut = <<>>
      BY <1>a, UserFields
    <3> QED
      BY <1>6, <3>1, <3>2 DEF Ends, Shuts
  <2> QED
    BY <1>6, <2>1 DEF Sides
<1>10. fs.panic \/ \A i \in Inums : fs.ic[i].ref = Holders(i)
  <2> SUFFICES ASSUME ~fs.panic, NEW i \in Inums
               PROVE  fs.ic[i].ref = Holders(i)
    OBVIOUS
  <2>1. fs.ic[i].ref = One(i = ROOTINO)
    BY <1>3, <1>4, Ints DEF Counts
  <2>2. FilesOf(i) = {}
    BY <1>6 DEF FilesOf
  <2>4. CallsAt(i) = {} /\ Keeping(i) = {} /\ PutsOf(i) = {}
    BY <1>a, UserFields, Tables DEF CallsAt, Keeping, PutsOf
  <2>5. \A q \in Procs \ {1} : proc[q].st # "live"
    BY <1>2, NoProcOK
  <2>6. LiveIn(i) = IF i = ROOTINO THEN {1} ELSE {}
    BY <1>2, <2>5, Tables DEF LiveIn
  <2>7. Cardinality(LiveIn(i)) = One(i = ROOTINO)
    BY <2>6, FS_EmptySet, FS_Singleton DEF One
  <2>8. /\ Cardinality(FilesOf(i)) = 0 /\ Cardinality(CallsAt(i)) = 0 /\ Cardinality(Keeping(i)) = 0
        /\ Cardinality(PutsOf(i)) = 0
    BY <2>2, <2>4, FS_EmptySet
  <2> QED
    BY <2>1, <2>7, <2>8, Ints DEF Holders
<1> QED
  BY <1>5, <1>7, <1>8, <1>9, <1>10 DEF RefsInv, RefsExact

LEMMA StepOK ==
  ASSUME RefsInv, ~fs.panic, NEW p \in Procs, Step(p)
  PROVE  RefsInv'
<1>1. CASE SysPath(p)
  BY <1>1, SysPathOK
<1>2. CASE namex(p)
  BY <1>2, namexOK
<1>3. CASE sys_open(p) \/ CreateExisting(p) \/ Created(p)
  BY <1>3, sys_openOK
<1>4. CASE create(p)
  BY <1>4, createOK
<1>5. CASE sys_chdir(p)
  BY <1>5, sys_chdirOK
<1>6. CASE exec(p)
  BY <1>6, execOK
<1>7. CASE LinkOld(p)
  BY <1>7, LinkOldOK
<1>8. CASE LinkExists(p)
  BY <1>8, LinkExistsOK
<1>9. CASE LinkNew(p)
  BY <1>9, LinkNewOK
<1>10. CASE Linked(p) \/ LinkBad(p) \/ UnlinkCount(p)
  BY <1>10, LinkEndOK
<1>11. CASE UnlinkDir(p)
  BY <1>11, UnlinkDirOK
<1>12. CASE UnlinkInode(p)
  BY <1>12, UnlinkInodeOK
<1>13. CASE sys_close(p)
  BY <1>13, sys_closeOK
<1>14. CASE sys_dup(p)
  BY <1>14, sys_dupOK
<1>15. CASE sys_pipe(p)
  BY <1>15, sys_pipeOK
<1>16. CASE sys_read(p)
  BY <1>16, sys_readOK
<1>17. CASE sys_write(p)
  BY <1>17, sys_writeOK
<1>18. CASE fork(p)
  BY <1>18, forkOK
<1>19. CASE StartExit(p)
  BY <1>19, StartExitOK
<1>20. CASE ExitClose(p)
  BY <1>20, ExitCloseOK
<1>21. CASE ExitZombie(p)
  BY <1>21, ExitZombieOK
<1>22. CASE wait(p)
  BY <1>22, waitOK
<1>23. CASE kill(p)
  BY <1>23, killOK
<1>24. CASE sbrk(p)
  BY <1>24, sbrkOK
<1>25. CASE Access(p)
  BY <1>25, AccessOK
<1>26. CASE Local(p)
  BY <1>26, LocalOK
<1>27. CASE UnlinkBad(p)
  BY <1>27, UnlinkBadOK
<1>28. CASE iput(p) \/ iputEnd(p)
  BY <1>28, iputOK
<1>29. CASE pipeclose(p)
  BY <1>29, pipecloseOK
<1>30. CASE ExitCwd(p)
  BY <1>30, ExitCwdOK
<1> QED
  BY <1>1, <1>2, <1>3, <1>4, <1>5, <1>6, <1>7, <1>8, <1>9, <1>10, <1>11, <1>12, <1>13,
     <1>14, <1>15, <1>16, <1>17, <1>18, <1>19, <1>20, <1>21, <1>22, <1>23, <1>24, <1>25,
     <1>26, <1>27, <1>28, <1>29, <1>30 DEF Step

LEMMA NextOK ==
  ASSUME RefsInv, [Next]_vars
  PROVE  RefsInv'
<1>1. CASE UNCHANGED vars
  <2>1. UNCHANGED <<fs, ftable, pipes, proc>>
    BY <1>1 DEF vars
  <2>2. CASE fs.panic
    BY <2>1, <2>2 DEF RefsInv
  <2>3. CASE ~fs.panic
    BY <2>1, <2>3, ProcTable, AlikeStep
  <2> QED
    BY <2>2, <2>3
<1>2. CASE ~fs.panic /\ \E p \in Procs : Step(p)
  BY <1>2, StepOK
<1> QED
  BY <1>1, <1>2 DEF Next

\* The files, processes and calls have their shapes, an end of a pipe is one file or is
\* being closed by one process, and the counts are exact, until a panic stops the system: for any sizes
\* of the tables, any image and any programs.
THEOREM RefsInvariance == Spec => []RefsInv
<1>1. Init => RefsInv
  BY InitOK
<1>2. RefsInv /\ [Next]_vars => RefsInv'
  BY NextOK
<1> QED
  BY <1>1, <1>2, PTL DEF Spec

\* iget(), idup() and iput(), filealloc(), filedup() and fileclose(), pipealloc() and
\* pipeclose() keep the counts exact, whichever calls of the processes interleave and
\* wherever a call fails: the count of a cached inode is the number of open files,
\* working directories and calls under way that refer to it or still have to put it,
\* the count of a file is the number of its descriptors, and an end of a pipe is open
\* exactly while a file is that end or a process is about to close it.
THEOREM CountsExact == Spec => [](NoPanic => RefsExact)
<1>1. RefsInv => (NoPanic => RefsExact)
  BY DEF RefsInv, NoPanic
<1> QED
  BY <1>1, RefsInvariance, PTL
=============================================================================
