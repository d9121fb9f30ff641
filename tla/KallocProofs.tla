---------------------------- MODULE KallocProofs ----------------------------
(***************************************************************************)
(* The page allocators for any number of pages and processors: what the    *)
(* steps of Kmem do to the list inside the pages, that the stack of the    *)
(* original kernel keeps the promise of PageAllocator, and that the        *)
(* best-fit search of the modified one implements that stack.              *)
(***************************************************************************)
EXTENDS KallocBestFit, KallocLifo, FiniteSetTheorems, WellFoundedInduction, TLAPS

\* Null is no page, the boot processor is one, no processor is NoCPU.
LEMMA KmemNulls ==
  /\ Null \notin Page /\ Page \subseteq Nat /\ Null \in Nat /\ Junk \in Nat
  /\ NoCPU \notin CPU /\ boot \in CPU
  BY KmemAssumption DEF Null, Page, NoCPU, CPU, boot, Junk

LEMMA FreeIs ==
  ASSUME KmemTypeOK
  PROVE  \A x : x \in Free <=>
           x \in Page /\ x < todo /\ x \notin used /\ \A c \in CPU : v[c] # x
  BY KmemNulls DEF Free, Returning, KmemTypeOK

LEMMA FreeIsNext ==
  ASSUME KmemTypeOK'
  PROVE  \A x : x \in Free' <=>
           x \in Page /\ x < todo' /\ x \notin used' /\ \A c \in CPU : v'[c] # x
  BY KmemNulls DEF Free, Returning, KmemTypeOK

\* Nothing is on the list before kinit1() frees the first page.
LEMMA KmemInvInit == KmemInit => KmemInv
<1> SUFFICES ASSUME KmemInit PROVE KmemInv
  OBVIOUS
<1>1. KmemTypeOK
  <2>1. use_lock \in BOOLEAN
    BY DEF KmemInit
  <2>2. todo \in 1 .. NPAGE + 1
    BY KmemAssumption DEF KmemInit
  <2> QED
    BY <2>1, <2>2, KmemNulls DEF KmemInit, KmemTypeOK
<1>2. LockInv /\ PageInv
  BY KmemNulls DEF KmemInit, LockInv, PageInv
<1>3. Free = {}
  BY <1>1, FreeIs DEF KmemInit, Page
<1>4. ListInv
  BY <1>3, KmemNulls DEF KmemInit, ListInv
<1> QED
  BY <1>1, <1>2, <1>4 DEF KmemInv

\* kfree() fills a page that its holder gave up; the list is not touched.
LEMMA CallStep ==
  ASSUME KmemInv, NEW c \in CPU, NEW x \in used, KfreeCall(c, x)
  PROVE  KmemInv' /\ Free' = Free
<1> USE KmemNulls DEF KmemInv, KfreeCall, KfreeJunk, MayCall, Goto
<1>1. KmemTypeOK'
  BY DEF KmemTypeOK
<1>2. LockInv' /\ PageInv'
  BY DEF KmemTypeOK, LockInv, PageInv
<1>3. Free' = Free
  BY <1>1, FreeIs, FreeIsNext DEF KmemTypeOK, PageInv
<1>4. ListInv'
  BY <1>3, FreeIs DEF KmemTypeOK, PageInv, ListInv
<1> QED
  BY <1>1, <1>2, <1>3, <1>4

\* The page in hand is linked to the head; it is not on the list yet.
LEMMA LinkStep ==
  ASSUME KmemInv, NEW c \in CPU, KfreeLink(c)
  PROVE  KmemInv' /\ Free' = Free
<1> USE KmemNulls DEF KmemInv, KfreeLink, Acquire, Goto
<1>1. KmemTypeOK'
  BY DEF KmemTypeOK, PageInv
<1>2. LockInv' /\ PageInv'
  BY DEF KmemTypeOK, LockInv, PageInv
<1>3. Free' = Free
  BY <1>1, FreeIs, FreeIsNext
<1>4. ListInv'
  BY <1>3, FreeIs DEF KmemTypeOK, PageInv, ListInv
<1> QED
  BY <1>1, <1>2, <1>3, <1>4

\* The page in hand becomes the head.
LEMMA PushStep ==
  ASSUME KmemInv, NEW c \in CPU, KfreePush(c)
  PROVE  /\ KmemInv'
         /\ v[c] \in Page \ (Free \cup used) /\ Free' = Free \cup {v[c]}
<1> USE KmemNulls DEF KmemInv, KfreePush, Release, Goto
<1>1. KmemTypeOK'
  BY DEF KmemTypeOK
<1>2. LockInv' /\ PageInv'
  BY DEF KmemTypeOK, LockInv, PageInv
<1>3. v[c] \in Page \ (Free \cup used)
  BY FreeIs DEF KmemTypeOK, PageInv
<1>4. Free' = Free \cup {v[c]}
  BY <1>1, FreeIs, FreeIsNext DEF KmemTypeOK, PageInv
<1>5. ASSUME NEW d \in CPU PROVE pc'[d] # "push"
  BY <1>5 DEF KmemTypeOK, LockInv
<1>6. ListInv'
  BY <1>3, <1>4, <1>5 DEF KmemTypeOK, ListInv
<1> QED
  BY <1>1, <1>2, <1>3, <1>4, <1>6

\* kalloc() takes the lock and leaves the list alone.
LEMMA EnterStep ==
  ASSUME KmemInv, NEW c \in CPU, KallocEnter(c)
  PROVE  KmemInv' /\ Free' = Free
<1> USE KmemNulls DEF KmemInv, KallocEnter, MayCall, Acquire, Goto
<1>1. KmemTypeOK'
  BY DEF KmemTypeOK
<1>2. LockInv' /\ PageInv'
  BY DEF KmemTypeOK, LockInv, PageInv
<1>3. Free' = Free
  BY <1>1, FreeIs, FreeIsNext
<1>4. ListInv'
  BY <1>3 DEF KmemTypeOK, ListInv
<1> QED
  BY <1>1, <1>2, <1>3, <1>4

\* kalloc() returns the head, or null if there is none.
LEMMA PopStep ==
  ASSUME KmemInv, NEW c \in CPU, pc[c] = "kalloc",
         freelist' = IF freelist = Null THEN freelist ELSE next[freelist],
         UNCHANGED next, KallocReturn(c, freelist)
  PROVE  /\ KmemInv'
         /\ freelist = Null => Free' = Free /\ used' = used
         /\ freelist # Null => /\ freelist \in Free
                               /\ Free' = Free \ {freelist} /\ used' = used \cup {freelist}
<1> USE KmemNulls DEF KmemInv, KallocReturn, Release, Goto
<1>1. KmemTypeOK'
  BY FreeIs DEF KmemTypeOK, ListInv
<1>2. LockInv'
  BY DEF KmemTypeOK, LockInv
<1>3. PageInv'
  BY FreeIs DEF KmemTypeOK, PageInv, ListInv
<1>4. CASE freelist = Null
  <2>1. Free' = Free /\ used' = used
    BY <1>1, <1>4, FreeIs, FreeIsNext
  <2>2. ListInv'
    BY <1>4, <2>1 DEF KmemTypeOK, ListInv
  <2> QED
    BY <1>1, <1>2, <1>3, <1>4, <2>1, <2>2
<1>5. CASE freelist # Null
  <2>1. freelist \in Free /\ used' = used \cup {freelist}
    BY <1>5 DEF ListInv
  <2>2. Free' = Free \ {freelist}
    BY <1>1, <2>1, FreeIs, FreeIsNext
  <2>3. ASSUME NEW d \in CPU PROVE pc'[d] # "push"
    BY <2>3 DEF KmemTypeOK, LockInv
  <2>4. ListInv'
    BY <1>5, <2>1, <2>2, <2>3 DEF KmemTypeOK, ListInv
  <2> QED
    BY <1>1, <1>2, <1>3, <1>5, <2>1, <2>2, <2>4
<1> QED
  BY <1>4, <1>5

\* freerange() hands a page to kfree() for the first time.
LEMMA FreerangeSteps ==
  ASSUME KmemInv, Freerange
  PROVE  KmemInv' /\ Free' = Free /\ todo \in Page \ Free
<1> USE KmemNulls DEF KmemInv, Freerange, KfreeJunk, Goto
<1>1. todo \in Page /\ todo \notin Free
  BY KmemAssumption, FreeIs DEF KmemTypeOK, Page, Last
<1>2. KmemTypeOK'
  BY <1>1, KmemAssumption DEF KmemTypeOK, Page
<1>3. LockInv'
  BY DEF KmemTypeOK, LockInv
<1>4. PageInv'
  BY <1>1 DEF KmemTypeOK, LockInv, PageInv
<1>5. Free' = Free
  <2>1. ASSUME NEW x \in Page PROVE x < todo' <=> x < todo \/ x = todo
    BY <2>1 DEF KmemTypeOK, Page
  <2>2. v' = [v EXCEPT ![boot] = todo] /\ used' = used
    OBVIOUS
  <2>3. ASSUME NEW x \in Page
        PROVE (\A c \in CPU : v'[c] # x) <=> (x # todo /\ \A c \in CPU : v[c] # x)
    BY <2>2, <2>3 DEF KmemTypeOK, PageInv
  <2>4. ASSUME NEW x PROVE x \in Free' <=> x \in Free
    BY <1>1, <1>2, <2>1, <2>2, <2>3, <2>4, FreeIs, FreeIsNext
  <2> QED
    BY <2>4
<1>6. ListInv'
  BY <1>1, <1>5 DEF KmemTypeOK, LockInv, PageInv, ListInv
<1> QED
  BY <1>1, <1>2, <1>3, <1>4, <1>5, <1>6

\* main() turns the lock on while nobody is in the allocator.
LEMMA MainStep ==
  ASSUME KmemInv, MainGoesOn
  PROVE  KmemInv' /\ Free' = Free
<1> USE KmemNulls DEF KmemInv, MainGoesOn, After
<1>1. KmemTypeOK'
  BY DEF KmemTypeOK
<1>2. LockInv'
  <2>1. phase' = "up" <=> phase = "kinit2"
    BY DEF KmemTypeOK
  <2>2. use_lock' <=> phase' = "up"
    BY <2>1
  <2>3. phase # "up" /\ \A c \in CPU : pc'[c] = "idle"
    BY DEF LockInv
  <2> QED
    BY <2>2, <2>3 DEF LockInv
<1>3. PageInv'
  BY DEF PageInv
<1>4. Free' = Free
  BY <1>1, FreeIs, FreeIsNext
<1>5. ListInv'
  BY <1>4 DEF ListInv
<1> QED
  BY <1>1, <1>2, <1>3, <1>4, <1>5

\* What holders write on their pages is not on the list.
LEMMA ScribbleStep ==
  ASSUME KmemInv, NEW x \in Page, Scribble(x)
  PROVE  KmemInv' /\ Free' = Free
<1> USE KmemNulls DEF KmemInv, Scribble
<1>1. KmemTypeOK'
  BY KmemAssumption DEF KmemTypeOK
<1>2. LockInv' /\ PageInv'
  BY DEF LockInv, PageInv
<1>3. Free' = Free
  BY <1>1, FreeIs, FreeIsNext
<1>4. ListInv'
  BY <1>3, FreeIs DEF KmemTypeOK, PageInv, ListInv
<1> QED
  BY <1>1, <1>2, <1>3, <1>4

\* A step that leaves these variables alone.
LEMMA StutterStep ==
  ASSUME KmemInv, UNCHANGED kmemVars
  PROVE  KmemInv' /\ Free' = Free
  BY DEF kmemVars, KmemInv, KmemTypeOK, LockInv, PageInv, ListInv, Free, Returning

-----------------------------------------------------------------------------
\* The free pages are one list, which ends

\* A page that is linked to the head and becomes the head.
LEMMA PushList ==
  ASSUME NEW F, NEW h, NEW link, NEW k \in Nat, NEW l, IsList(F, h, link, k, l),
         NEW x, x \notin F, link[x] = h
  PROVE  \E m : IsList(F \cup {x}, x, link, k + 1, m)
<1> DEFINE m == [i \in 1 .. k + 1 |-> IF i = 1 THEN x ELSE l[i - 1]]
<1>1. /\ l \in [1 .. k -> F] /\ \A y \in F : \E i \in 1 .. k : l[i] = y
      /\ \A i, j \in 1 .. k : l[i] = l[j] => i = j
      /\ h = IF k = 0 THEN Null ELSE l[1]
      /\ \A i \in 1 .. k : link[l[i]] = IF i = k THEN Null ELSE l[i + 1]
  BY DEF IsList
<1>2. /\ \A i \in 1 .. k : i + 1 \in 1 .. k + 1 /\ i + 1 # 1 /\ (i + 1) - 1 = i
      /\ \A i \in 1 .. k + 1 : i # 1 => i - 1 \in 1 .. k
      /\ 1 \in 1 .. k + 1
  OBVIOUS
<1>3. m[1] = x /\ \A i \in 1 .. k + 1 : i # 1 => m[i] = l[i - 1] /\ m[i] \in F
  BY <1>1, <1>2
<1>4. \A i \in 1 .. k : m[i + 1] = l[i]
  BY <1>2
<1>5. m \in [1 .. k + 1 -> F \cup {x}]
  BY <1>3
<1> HIDE DEF m
<1>6. ASSUME NEW y \in F \cup {x}
      PROVE  \E i \in 1 .. k + 1 : m[i] = y
  <2>1. CASE y = x
    BY <1>2, <1>3, <2>1
  <2>2. CASE y \in F
    <3>1. PICK i \in 1 .. k : l[i] = y
      BY <1>1, <2>2
    <3>2. i + 1 \in 1 .. k + 1 /\ m[i + 1] = y
      BY <1>2, <1>4, <3>1
    <3> QED
      BY <3>2
  <2> QED
    BY <2>1, <2>2
<1>7. ASSUME NEW i \in 1 .. k + 1, NEW j \in 1 .. k + 1, m[i] = m[j]
      PROVE  i = j
  <2>1. i = 1 <=> j = 1
    BY <1>3, <1>7
  <2>2. i # 1 /\ j # 1 => i - 1 = j - 1
    BY <1>1, <1>2, <1>3, <1>7
  <2> QED
    BY <2>1, <2>2
<1>8. ASSUME NEW i \in 1 .. k + 1
      PROVE  link[m[i]] = IF i = k + 1 THEN Null ELSE m[i + 1]
  <2>1. CASE i = 1
    <3>1. k # 0 => m[1 + 1] = l[1]
      BY <1>4
    <3> QED
      BY <1>1, <1>3, <2>1, <3>1
  <2>2. CASE i # 1
    <3>1. i - 1 \in 1 .. k /\ (i - 1 = k <=> i = k + 1) /\ (i - 1) + 1 = i
      BY <2>2
    <3>2. link[m[i]] = IF i = k + 1 THEN Null ELSE l[i]
      <4>1. m[i] = l[i - 1] /\ link[l[i - 1]] = IF i - 1 = k THEN Null ELSE l[(i - 1) + 1]
        BY <1>1, <1>3, <2>2, <3>1
      <4> QED
        BY <3>1, <4>1
    <3>3. i # k + 1 => m[i + 1] = l[i]
      <4>1. i # k + 1 => i \in 1 .. k
        OBVIOUS
      <4> QED
        BY <1>4, <4>1
    <3> QED
      BY <3>2, <3>3
  <2> QED
    BY <2>1, <2>2
<1>9. k + 1 # 0
  OBVIOUS
<1>10. IsList(F \cup {x}, x, link, k + 1, m)
  BY <1>3, <1>5, <1>6, <1>7, <1>8, <1>9 DEF IsList
<1> QED
  BY <1>10

\* Taking the head.
LEMMA PopList ==
  ASSUME NEW F, NEW h, NEW link, NEW k \in Nat, NEW l, IsList(F, h, link, k, l), h # Null
  PROVE  k - 1 \in Nat /\ \E m : IsList(F \ {h}, link[h], link, k - 1, m)
<1> DEFINE m == [i \in 1 .. k - 1 |-> l[i + 1]]
<1>1. /\ l \in [1 .. k -> F] /\ \A y \in F : \E i \in 1 .. k : l[i] = y
      /\ \A i, j \in 1 .. k : l[i] = l[j] => i = j
      /\ h = IF k = 0 THEN Null ELSE l[1]
      /\ \A i \in 1 .. k : link[l[i]] = IF i = k THEN Null ELSE l[i + 1]
  BY DEF IsList
<1>2. k # 0 /\ k - 1 \in Nat /\ h = l[1] /\ 1 \in 1 .. k
  BY <1>1
<1>3. /\ \A i \in 1 .. k - 1 : i + 1 \in 1 .. k /\ i + 1 # 1 /\ i \in 1 .. k
      /\ \A i \in 1 .. k : i # 1 => i - 1 \in 1 .. k - 1 /\ (i - 1) + 1 = i
  BY <1>2
<1>4. \A i \in 1 .. k - 1 : m[i] = l[i + 1] /\ m[i] \in F \ {h}
  BY <1>1, <1>2, <1>3
<1>5. m \in [1 .. k - 1 -> F \ {h}]
  BY <1>4
<1> HIDE DEF m
<1>6. ASSUME NEW y \in F \ {h}
      PROVE  \E i \in 1 .. k - 1 : m[i] = y
  <2>1. PICK i \in 1 .. k : l[i] = y
    BY <1>1
  <2>2. i # 1
    BY <1>2, <2>1
  <2>3. i - 1 \in 1 .. k - 1 /\ m[i - 1] = y
    BY <1>3, <1>4, <2>1, <2>2
  <2> QED
    BY <2>3
<1>7. ASSUME NEW i \in 1 .. k - 1, NEW j \in 1 .. k - 1, m[i] = m[j]
      PROVE  i = j
  <2>1. i + 1 = j + 1
    BY <1>1, <1>3, <1>4, <1>7
  <2> QED
    BY <2>1
<1>8. link[h] = IF k - 1 = 0 THEN Null ELSE m[1]
  <2>1. k = 1 <=> k - 1 = 0
    OBVIOUS
  <2>2. k # 1 => 1 \in 1 .. k - 1
    BY <1>2
  <2> QED
    BY <1>1, <1>2, <1>4, <2>1, <2>2
<1>9. ASSUME NEW i \in 1 .. k - 1
      PROVE  link[m[i]] = IF i = k - 1 THEN Null ELSE m[i + 1]
  <2>1. i + 1 \in 1 .. k /\ (i + 1 = k <=> i = k - 1) /\ (i # k - 1 => i + 1 \in 1 .. k - 1)
    OBVIOUS
  <2> QED
    BY <1>1, <1>4, <2>1
<1>10. IsList(F \ {h}, link[h], link, k - 1, m)
  BY <1>5, <1>6, <1>7, <1>8, <1>9 DEF IsList
<1> QED
  BY <1>2, <1>10

\* Links elsewhere may change.
LEMMA SameList ==
  ASSUME NEW F, NEW h, NEW link, NEW k, NEW l, IsList(F, h, link, k, l),
         NEW new, \A x \in F : new[x] = link[x]
  PROVE  IsList(F, h, new, k, l)
<1>1. l \in [1 .. k -> F]
  BY DEF IsList
<1> QED
  BY <1>1 DEF IsList

\* A list of pages is no longer than there are pages.
LEMMA ListBound ==
  ASSUME NEW F, F \subseteq Page, NEW h, NEW link, NEW k \in Nat, NEW l, IsList(F, h, link, k, l)
  PROVE  k \in 0 .. NPAGE /\ l \in [1 .. k -> Page]
<1>1. l \in [1 .. k -> Page] /\ \A i, j \in 1 .. k : l[i] = l[j] => i = j
  BY DEF IsList
<1>2. /\ IsFiniteSet(Page) /\ Cardinality(Page) = NPAGE
      /\ IsFiniteSet(1 .. k) /\ Cardinality(1 .. k) = k
  <2>1. ASSUME NEW n \in Nat
        PROVE  IsFiniteSet(1 .. n) /\ Cardinality(1 .. n) = n
    <3>1. 1 \in Int /\ n \in Int
      OBVIOUS
    <3>2. IsFiniteSet(1 .. n) /\ Cardinality(1 .. n) = IF 1 > n THEN 0 ELSE n - 1 + 1
      BY <3>1, FS_Interval
    <3> QED
      BY <3>2
  <2> QED
    BY <2>1, KmemAssumption DEF Page
<1>3. ASSUME k > NPAGE
      PROVE  FALSE
  <2>1. \E i, j \in 1 .. k : i # j /\ l[i] = l[j]
    BY <1>1, <1>2, <1>3, FS_PigeonHole, KmemAssumption
  <2> QED
    BY <1>1, <2>1
<1> QED
  BY <1>1, <1>3, KmemAssumption

LEMMA ListThere ==
  ASSUME NEW F, F \subseteq Page, NEW h, NEW link, NEW k \in Nat, NEW l, IsList(F, h, link, k, l)
  PROVE  \E n \in 0 .. NPAGE : \E m \in [1 .. n -> Page] : IsList(F, h, link, n, m)
  BY ListBound

\* A step that leaves the list alone.
LEMMA ListStays ==
  ASSUME OneList, Free' = Free, freelist' = freelist, \A x \in Free : next'[x] = next[x]
  PROVE  OneList'
<1>1. PICK k \in 0 .. NPAGE : \E l \in [1 .. k -> Page] : IsList(Free, freelist, next, k, l)
  BY DEF OneList
<1>2. PICK l \in [1 .. k -> Page] : IsList(Free, freelist, next, k, l)
  BY <1>1
<1>3. IsList(Free', freelist', next', k, l)
  BY <1>2, SameList
<1> QED
  BY <1>3 DEF OneList

\* kfree() makes the page in hand the head.
LEMMA ListPush ==
  ASSUME KmemInv, OneList, NEW c \in CPU, KfreePush(c)
  PROVE  OneList'
<1>1. PICK k \in 0 .. NPAGE : \E l \in [1 .. k -> Page] : IsList(Free, freelist, next, k, l)
  BY DEF OneList
<1>2. PICK l \in [1 .. k -> Page] : IsList(Free, freelist, next, k, l)
  BY <1>1
<1>3. PICK x : x = v[c]
  OBVIOUS
<1>4. x \in Page \ Free /\ Free' = Free \cup {x}
  BY <1>3, PushStep
<1>5. next[x] = freelist /\ freelist' = x /\ next' = next /\ k \in Nat
  BY <1>3 DEF KmemInv, ListInv, KfreePush
<1>6. PICK m : IsList(Free \cup {x}, x, next, k + 1, m)
  BY <1>2, <1>4, <1>5, PushList
<1>7. IsList(Free', freelist', next', k + 1, m) /\ Free' \subseteq Page /\ k + 1 \in Nat
  <2>1. Free \subseteq Page
    BY DEF Free
  <2> QED
    BY <1>4, <1>5, <1>6, <2>1
<1>8. \E n \in 0 .. NPAGE : \E y \in [1 .. n -> Page] : IsList(Free', freelist', next', n, y)
  BY <1>7, ListThere
<1> QED
  BY <1>8 DEF OneList

\* kalloc() takes the head.
LEMMA ListPop ==
  ASSUME KmemInv, OneList, UNCHANGED next, Free' = Free \ {freelist}, freelist \in Free,
         freelist' = next[freelist]
  PROVE  OneList'
<1>1. PICK k \in 0 .. NPAGE : \E l \in [1 .. k -> Page] : IsList(Free, freelist, next, k, l)
  BY DEF OneList
<1>2. PICK l \in [1 .. k -> Page] : IsList(Free, freelist, next, k, l)
  BY <1>1
<1>3. PICK F, h, n : F = Free /\ h = freelist /\ n = next
  OBVIOUS
<1>4. h # Null /\ k \in Nat /\ F \subseteq Page
  BY <1>3, KmemNulls DEF Free
<1>5. k - 1 \in Nat /\ \E m : IsList(F \ {h}, n[h], n, k - 1, m)
  BY <1>2, <1>3, <1>4, PopList
<1>6. PICK m : IsList(F \ {h}, n[h], n, k - 1, m)
  BY <1>5
<1>7. IsList(Free', freelist', next', k - 1, m) /\ Free' \subseteq Page
  BY <1>3, <1>4, <1>6
<1>8. \E i \in 0 .. NPAGE : \E y \in [1 .. i -> Page] : IsList(Free', freelist', next', i, y)
  BY <1>5, <1>7, ListThere
<1> QED
  BY <1>8 DEF OneList

\* Numbers are well ordered.
LEMMA Least ==
  ASSUME NEW T, T \subseteq Nat, T # {}
  PROVE  \E x \in T : \A y \in T : x <= y
<1> DEFINE R == OpToRel(<, Nat)
<1>1. PICK x \in T : \A y \in T : <<y, x>> \notin R
  <2>1. IsWellFoundedOn(R, Nat)
    BY NatLessThanWellFounded
  <2> HIDE DEF R
  <2> QED
    BY <2>1, WFMin
<1>2. ASSUME NEW y \in T
      PROVE  x <= y
  <2>1. <<y, x>> \notin R /\ x \in Nat /\ y \in Nat
    BY <1>1
  <2>2. ~(y < x) /\ x \in Nat /\ y \in Nat
    BY <2>1 DEF OpToRel
  <2> HIDE DEF R
  <2> QED
    BY <2>2
<1> QED
  BY <1>2

\* f walks along the links from h.
Walk(f, h, link) ==
  f = [n \in 0 .. NPAGE |-> IF n = 0 THEN h
                            ELSE IF f[n - 1] \in Page THEN link[f[n - 1]] ELSE f[n - 1]]

LEMMA WalkIs ==
  ASSUME NEW f, NEW h, NEW link, Walk(f, h, link)
  PROVE  /\ f = [n \in 0 .. NPAGE |-> f[n]]
         /\ \A n \in 0 .. NPAGE :
              f[n] = IF n = 0 THEN h ELSE IF f[n - 1] \in Page THEN link[f[n - 1]] ELSE f[n - 1]
<1>1. DOMAIN f = 0 .. NPAGE
  BY Zenon DEF Walk
<1>2. \A n \in 0 .. NPAGE :
        f[n] = IF n = 0 THEN h ELSE IF f[n - 1] \in Page THEN link[f[n - 1]] ELSE f[n - 1]
  BY Zenon DEF Walk
<1>3. f = [n \in DOMAIN f |-> f[n]]
  BY Zenon DEF Walk
<1> QED
  BY <1>1, <1>2, <1>3

\* There is one walk.
LEMMA OneWalk ==
  ASSUME NEW f, NEW g, NEW h, NEW link, Walk(f, h, link), Walk(g, h, link)
  PROVE  f = g
<1> DEFINE D == {n \in 0 .. NPAGE : f[n] # g[n]}
<1>1. D = {}
  <2> SUFFICES ASSUME D # {} PROVE FALSE
    OBVIOUS
  <2>1. PICK n \in D : \A m \in D : n <= m
    <3>1. D \subseteq Nat
      BY KmemAssumption
    <3> HIDE DEF D
    <3> QED
      BY <3>1, Least
  <2>2. n \in 0 .. NPAGE /\ f[n] # g[n]
    BY <2>1
  <2>3. n # 0 /\ f[n - 1] # g[n - 1]
    BY <2>2, WalkIs
  <2>4. n - 1 \in 0 .. NPAGE /\ ~(n <= n - 1)
    BY <2>2, <2>3, KmemAssumption
  <2> QED
    BY <2>1, <2>3, <2>4
<1>2. \A n \in 0 .. NPAGE : f[n] = g[n]
  BY <1>1
<1>3. f = [n \in 0 .. NPAGE |-> f[n]] /\ g = [n \in 0 .. NPAGE |-> g[n]]
  BY WalkIs
<1> QED
  BY <1>2, <1>3

\* The walk along a list meets its pages in order, and then stays at null.
LEMMA ListWalk ==
  ASSUME NEW F, F \subseteq Page, NEW h, NEW link, NEW k \in 0 .. NPAGE, NEW l,
         IsList(F, h, link, k, l)
  PROVE  Walk([n \in 0 .. NPAGE |-> IF n < k THEN l[n + 1] ELSE Null], h, link)
<1> DEFINE f == [n \in 0 .. NPAGE |-> IF n < k THEN l[n + 1] ELSE Null]
           g == [n \in 0 .. NPAGE |-> IF n = 0 THEN h
                    ELSE IF f[n - 1] \in Page THEN link[f[n - 1]] ELSE f[n - 1]]
<1>1. /\ l \in [1 .. k -> F] /\ h = IF k = 0 THEN Null ELSE l[1]
      /\ \A i \in 1 .. k : link[l[i]] = IF i = k THEN Null ELSE l[i + 1]
  BY DEF IsList
<1>2. NPAGE \in Nat /\ k \in Nat /\ k <= NPAGE /\ Null \notin Page
  BY KmemAssumption, KmemNulls
<1>3. \A n \in 0 .. NPAGE : f[n] = IF n < k THEN l[n + 1] ELSE Null
  OBVIOUS
<1>4. \A n \in 0 .. NPAGE : g[n] = IF n = 0 THEN h
                    ELSE IF f[n - 1] \in Page THEN link[f[n - 1]] ELSE f[n - 1]
  OBVIOUS
<1>5. f = [n \in 0 .. NPAGE |-> f[n]] /\ g = [n \in 0 .. NPAGE |-> g[n]]
  OBVIOUS
<1>6. Walk(f, h, link) <=> f = g
  BY DEF Walk
<1> HIDE DEF f, g
<1>7. ASSUME NEW n \in 0 .. NPAGE
      PROVE  f[n] = g[n]
  <2>1. CASE n = 0
    <3>1. n < k <=> k # 0
      BY <1>2, <2>1
    <3> QED
      BY <1>1, <1>3, <1>4, <2>1, <3>1
  <2>2. CASE n # 0 /\ n - 1 < k
    <3>1. n - 1 \in 0 .. NPAGE /\ (n - 1) + 1 = n /\ n \in 1 .. k /\ (n < k <=> n # k)
      BY <1>2, <2>2
    <3>2. f[n - 1] = l[n] /\ l[n] \in Page
      BY <1>1, <1>3, <2>2, <3>1
    <3>3. g[n] = link[l[n]]
      BY <1>4, <2>2, <3>2
    <3> QED
      BY <1>1, <1>3, <3>1, <3>3
  <2>3. CASE n # 0 /\ ~(n - 1 < k)
    <3>1. n - 1 \in 0 .. NPAGE /\ ~(n < k)
      BY <1>2, <2>3
    <3>2. f[n - 1] = Null /\ f[n] = Null
      BY <1>3, <2>3, <3>1
    <3> QED
      BY <1>2, <1>4, <2>3, <3>2
  <2> QED
    BY <2>1, <2>2, <2>3
<1>8. f = g
  BY <1>5, <1>7
<1> QED
  BY <1>6, <1>8 DEF f

\* The list, followed from the head, is exactly the free pages.
LEMMA ListExact ==
  ASSUME OneList
  PROVE  FreeListExact
<1>1. PICK k \in 0 .. NPAGE : \E l \in [1 .. k -> Page] : IsList(Free, freelist, next, k, l)
  BY DEF OneList
<1>2. PICK l \in [1 .. k -> Page] : IsList(Free, freelist, next, k, l)
  BY <1>1
<1>3. PICK w : w = [n \in 0 .. NPAGE |-> IF n < k THEN l[n + 1] ELSE Null]
  OBVIOUS
<1>4. Walk(w, freelist, next)
  <2>1. Free \subseteq Page
    BY DEF Free
  <2> QED
    BY <1>2, <1>3, <2>1, ListWalk
<1>5. Walk(Chain, freelist, next)
  <2>1. Chain = CHOOSE f : Walk(f, freelist, next)
    BY Zenon DEF Chain, Walk
  <2>2. Walk(CHOOSE f : Walk(f, freelist, next), freelist, next)
    BY <1>4, Zenon
  <2> QED
    BY <2>1, <2>2, Zenon
<1>6. Chain = w
  BY <1>4, <1>5, OneWalk
<1>7. \A n \in 0 .. NPAGE : w[n] = IF n < k THEN l[n + 1] ELSE Null
  BY <1>3
<1>8. NPAGE \in 0 .. NPAGE /\ ~(NPAGE < k) /\ k \in Nat /\ NPAGE \in Nat
  BY KmemAssumption
<1>9. w[NPAGE] = Null
  BY <1>7, <1>8
<1>10. /\ l \in [1 .. k -> Free] /\ (\A x \in Free : \E i \in 1 .. k : l[i] = x)
       /\ Null \notin Free
  BY <1>2, KmemNulls DEF IsList, Free
<1>11. ASSUME NEW n \in 0 .. NPAGE, w[n] # Null
       PROVE  w[n] \in Free
  <2>1. n < k /\ n + 1 \in 1 .. k
    BY <1>7, <1>8, <1>11
  <2> QED
    BY <1>7, <1>10, <2>1
<1>12. ASSUME NEW x \in Free
       PROVE  \E n \in 0 .. NPAGE : w[n] = x
  <2>1. PICK i \in 1 .. k : l[i] = x
    BY <1>10
  <2>2. i - 1 \in 0 .. NPAGE /\ i - 1 < k /\ (i - 1) + 1 = i
    BY <1>8
  <2>3. w[i - 1] = x
    BY <1>7, <2>1, <2>2
  <2> QED
    BY <2>2, <2>3
<1>13. {w[n] : n \in 0 .. NPAGE} \ {Null} = Free
  BY <1>10, <1>11, <1>12
<1> QED
  BY <1>6, <1>9, <1>13 DEF FreeListExact

\* What main(), kfree() and the holders of pages do to the list.
LEMMA ListInit == KmemInit => OneList
<1> SUFFICES ASSUME KmemInit PROVE OneList
  OBVIOUS
<1>1. Free = {}
  BY KmemInvInit, FreeIs DEF KmemInv, KmemInit, Page
<1>2. PICK l : l = [i \in 1 .. 0 |-> Null]
  OBVIOUS
<1>3. l \in [1 .. 0 -> Page] /\ l \in [1 .. 0 -> {}] /\ freelist = Null /\ 0 \in 0 .. NPAGE
  BY <1>2, KmemAssumption DEF KmemInit
<1>4. IsList({}, freelist, next, 0, l)
  BY <1>3 DEF IsList
<1> QED
  BY <1>1, <1>3, <1>4 DEF OneList

LEMMA ListCall ==
  ASSUME KmemInv, OneList, NEW c \in CPU, NEW x \in used, KfreeCall(c, x)
  PROVE  OneList'
<1>1. x \notin Free /\ Free' = Free
  BY CallStep DEF Free
<1>2. next \in [Page -> Nat]
  BY DEF KmemInv, KmemTypeOK
<1> QED
  BY <1>1, <1>2, ListStays DEF KfreeCall, KfreeJunk, Free

LEMMA ListLink ==
  ASSUME KmemInv, OneList, NEW c \in CPU, KfreeLink(c)
  PROVE  OneList'
<1>1. v[c] \notin Free /\ Free' = Free
  BY LinkStep, FreeIs DEF KmemInv
<1>2. next \in [Page -> Nat]
  BY DEF KmemInv, KmemTypeOK
<1> QED
  BY <1>1, <1>2, ListStays DEF KfreeLink, Free

LEMMA ListEnter ==
  ASSUME KmemInv, OneList, NEW c \in CPU, KallocEnter(c)
  PROVE  OneList'
  BY EnterStep, ListStays DEF KallocEnter

LEMMA ListReturn ==
  ASSUME KmemInv, OneList, NEW c \in CPU, pc[c] = "kalloc",
         freelist' = IF freelist = Null THEN freelist ELSE next[freelist],
         UNCHANGED next, KallocReturn(c, freelist)
  PROVE  OneList'
<1>1. CASE freelist = Null
  BY <1>1, PopStep, ListStays
<1>2. CASE freelist # Null
  BY <1>2, PopStep, ListPop
<1> QED
  BY <1>1, <1>2

LEMMA ListFreerange ==
  ASSUME KmemInv, OneList, Freerange
  PROVE  OneList'
<1>1. todo \notin Free /\ Free' = Free
  BY FreerangeSteps
<1>2. next \in [Page -> Nat]
  BY DEF KmemInv, KmemTypeOK
<1> QED
  BY <1>1, <1>2, ListStays DEF Freerange, KfreeJunk, Free

LEMMA ListMain ==
  ASSUME KmemInv, OneList, MainGoesOn
  PROVE  OneList'
  BY MainStep, ListStays DEF MainGoesOn

LEMMA ListScribble ==
  ASSUME KmemInv, OneList, NEW x \in Page, Scribble(x)
  PROVE  OneList'
<1>1. x \notin Free /\ Free' = Free
  BY ScribbleStep DEF Free, Scribble
<1>2. next \in [Page -> Nat]
  BY DEF KmemInv, KmemTypeOK
<1> QED
  BY <1>1, <1>2, ListStays DEF Scribble, Free

LEMMA ListStutter ==
  ASSUME KmemInv, OneList, UNCHANGED kmemVars
  PROVE  OneList'
<1>1. Free' = Free
  BY StutterStep
<1> QED
  BY <1>1, ListStays DEF kmemVars

-----------------------------------------------------------------------------
(* The original allocator.                                                 *)

\* One step keeps the invariant and is a step of PageAllocator, or none.
LEMMA LifoStep ==
  ASSUME LifoInv, [LifoNext]_lifoVars
  PROVE  LifoInv' /\ [LifoPromise!Next]_<<Free, used, ret>>
<1> USE DEF LifoInv, LifoPromise!Next, LifoPromise!Grant, LifoPromise!GiveUp, LifoPromise!Insert, LifoPromise!NoPage
<1>1. ASSUME NEW c \in CPU, KallocHead(c)
      PROVE LifoInv' /\ [LifoPromise!Next]_<<Free, used, ret>>
  <2>1. KmemInv' /\ Free' = Free
    BY <1>1, EnterStep DEF KallocHead
  <2> QED
    BY <1>1, <2>1 DEF KallocHead, KallocEnter, Goto, KmemInv, KmemTypeOK
<1>2. ASSUME NEW c \in CPU, KallocPop(c)
      PROVE LifoInv' /\ [LifoPromise!Next]_<<Free, used, ret>>
  <2>1. head[c] = freelist
    BY <1>2 DEF KallocPop
  <2>2. /\ KmemInv'
        /\ freelist = Null => Free' = Free /\ used' = used
        /\ freelist # Null => /\ freelist \in Free /\ Free' = Free \ {freelist}
                              /\ used' = used \cup {freelist}
    BY <1>2, <2>1, PopStep DEF KallocPop
  <2>3. \A d \in CPU : pc'[d] # "kalloc"
    BY <1>2 DEF KallocPop, KallocReturn, Goto, KmemInv, KmemTypeOK, LockInv
  <2>4. freelist # Null => freelist \in Page
    BY DEF KmemInv, KmemTypeOK
  <2> QED
    BY <1>2, <2>2, <2>3, <2>4, KmemNulls DEF KallocPop, KallocReturn, KmemInv, KmemTypeOK
<1>3. ASSUME NEW c \in CPU, NEW x \in used, KfreeCall(c, x), UNCHANGED head
      PROVE LifoInv' /\ [LifoPromise!Next]_<<Free, used, ret>>
  <2>1. KmemInv' /\ Free' = Free
    BY <1>3, CallStep
  <2>2. x \in Page /\ used' = used \ {x}
    BY <1>3 DEF KfreeCall, KmemInv, KmemTypeOK
  <2> QED
    BY <1>3, <2>1, <2>2 DEF KfreeCall, KfreeJunk, Goto, KmemInv, KmemTypeOK
<1>4. ASSUME NEW c \in CPU, KfreeLink(c), UNCHANGED head
      PROVE LifoInv' /\ UNCHANGED <<Free, used, ret>>
  <2>1. KmemInv' /\ Free' = Free
    BY <1>4, LinkStep
  <2> QED
    BY <1>4, <2>1 DEF KfreeLink, Goto, KmemInv, KmemTypeOK
<1>5. ASSUME NEW c \in CPU, KfreePush(c), UNCHANGED head
      PROVE LifoInv' /\ [LifoPromise!Next]_<<Free, used, ret>>
  <2>1. /\ KmemInv'
        /\ v[c] \in Page \ (Free \cup used) /\ Free' = Free \cup {v[c]}
    BY <1>5, PushStep
  <2>2. \A d \in CPU : pc'[d] # "kalloc"
    BY <1>5, KmemNulls DEF KfreePush, Goto, KmemInv, KmemTypeOK, LockInv
  <2> QED
    BY <1>5, <2>1, <2>2 DEF KfreePush
<1>6. ASSUME Freerange, UNCHANGED head PROVE LifoInv' /\ UNCHANGED <<Free, used, ret>>
  <2>1. KmemInv' /\ Free' = Free
    BY <1>6, FreerangeSteps
  <2> QED
    BY <1>6, <2>1, KmemNulls DEF Freerange, KfreeJunk, Goto, KmemInv, KmemTypeOK
<1>7. ASSUME MainGoesOn, UNCHANGED head PROVE LifoInv' /\ UNCHANGED <<Free, used, ret>>
  <2>1. KmemInv' /\ Free' = Free
    BY <1>7, MainStep
  <2> QED
    BY <1>7, <2>1 DEF MainGoesOn
<1>8. ASSUME NEW x \in Page, Scribble(x), UNCHANGED head
      PROVE LifoInv' /\ UNCHANGED <<Free, used, ret>>
  <2>1. KmemInv' /\ Free' = Free
    BY <1>8, ScribbleStep
  <2> QED
    BY <1>8, <2>1 DEF Scribble
<1>9. CASE UNCHANGED lifoVars
  <2>1. KmemInv' /\ Free' = Free
    BY <1>9, StutterStep DEF lifoVars
  <2> QED
    BY <1>9, <2>1 DEF lifoVars, kmemVars
<1> QED
  BY <1>1, <1>2, <1>3, <1>4, <1>5, <1>6, <1>7, <1>8, <1>9 DEF LifoNext, LifoKfree

\* The list inside the pages stays sound while its head is being taken.
THEOREM LifoInvariance == LifoSpec => []LifoInv
<1>1. LifoInit => LifoInv
  BY KmemInvInit, KmemNulls DEF LifoInit, LifoInv, KmemInit
<1>2. LifoInv /\ [LifoNext]_lifoVars => LifoInv'
  BY LifoStep
<1> QED
  BY <1>1, <1>2, PTL DEF LifoSpec

\* kalloc() and kfree() of the original kernel grant a page to one caller at a
\* time, also before kinit2() turns the lock on.
THEOREM LifoKeepsPromise == LifoSpec => LifoPromised
<1>1. LifoInit => LifoPromise!Init
  <2>1. SUFFICES ASSUME LifoInit PROVE LifoPromise!Init
    OBVIOUS
  <2>2. KmemTypeOK
    BY <2>1, KmemInvInit DEF LifoInit, KmemInv
  <2>3. Free = {}
    BY <2>1, <2>2, FreeIs DEF LifoInit, KmemInit, Page
  <2> QED
    BY <2>1, <2>3 DEF LifoInit, KmemInit, LifoPromise!Init
<1>2. LifoInv /\ [LifoNext]_lifoVars => [LifoPromise!Next]_<<Free, used, ret>>
  BY LifoStep
<1> QED
  BY <1>1, <1>2, LifoInvariance, PTL DEF LifoSpec, LifoPromised, LifoPromise!Spec

LEMMA LifoList ==
  ASSUME LifoInv, OneList, [LifoNext]_lifoVars
  PROVE  OneList'
<1> USE DEF LifoInv
<1>1. ASSUME NEW c \in CPU, KallocHead(c) \/ KallocPop(c) PROVE OneList'
  BY <1>1, ListEnter, ListReturn DEF KallocHead, KallocPop
<1>2. ASSUME NEW c \in CPU, LifoKfree(c) PROVE OneList'
  BY <1>2, ListCall, ListLink, ListPush DEF LifoKfree
<1>3. CASE Freerange \/ MainGoesOn \/ \E x \in Page : Scribble(x)
  BY <1>3, ListFreerange, ListMain, ListScribble
<1>4. CASE UNCHANGED lifoVars
  BY <1>4, ListStutter DEF lifoVars
<1> QED
  BY <1>1, <1>2, <1>3, <1>4 DEF LifoNext

\* The list of the original kalloc.c holds exactly the pages nobody has: its links
\* form one list that ends, for any number of pages and processors.
THEOREM LifoListExact == LifoSpec => []FreeListExact
<1>1. LifoInit => OneList
  BY ListInit DEF LifoInit
<1>2. LifoInv /\ OneList /\ [LifoNext]_lifoVars => OneList'
  BY LifoList
<1>3. OneList => FreeListExact
  BY ListExact
<1> QED
  BY <1>1, <1>2, <1>3, LifoInvariance, PTL DEF LifoSpec

-----------------------------------------------------------------------------
(* The modified allocator: the best-fit search over blocks of one page      *)
(* takes the head of the list.                                             *)

\* What head is in Lifo.
LifoR == [c \in CPU |-> IF pc[c] = "kalloc" THEN freelist ELSE Null]

\* What a step of the list does to the search of another processor: nothing.
LEMMA OneInside ==
  ASSUME KmemInv, NEW c \in CPU, NEW d \in CPU, c # d, pc[c] \in {"push", "kalloc"}
  PROVE  pc[d] \notin {"push", "kalloc"}
  BY KmemNulls DEF KmemInv, KmemTypeOK, LockInv

LEMMA StartStep ==
  ASSUME BestFitInv, NEW c \in CPU, KallocStart(c)
  PROVE  BestFitInv' /\ Lifo!KallocHead(c)
<1> USE KmemNulls DEF BestFitInv, KallocStart, KallocEnter, Goto, MayCall
<1>1. KmemInv' /\ Free' = Free
  BY EnterStep
<1>2. SearchInv'
  BY <1>1 DEF SearchInv, KmemInv, KmemTypeOK, ListInv
<1>3. LifoR' = [LifoR EXCEPT ![c] = freelist]
  BY DEF LifoR, KmemInv, KmemTypeOK
<1> QED
  BY <1>1, <1>2, <1>3 DEF LifoR, Lifo!KallocHead, Lifo!KallocEnter, Lifo!MayCall, Acquire,
       Lifo!Acquire, Lifo!Goto, Lifo!boot, boot, Lifo!NoCPU, NoCPU, Lifo!Null, Null

LEMMA SearchStep ==
  ASSUME BestFitInv, NEW c \in CPU, Search(c)
  PROVE  BestFitInv' /\ UNCHANGED <<kmemVars, LifoR>>
<1> USE KmemNulls DEF BestFitInv, Search
<1>1. KmemInv' /\ Free' = Free
  BY StutterStep
<1>2. r[c] \in Free /\ r[c] \in Page /\ size[r[c]] = PGSIZE
  BY DEF SearchInv
<1>3. next[r[c]] \in Free \cup {Null} /\ (best[c] = Null => Fits(c)) /\ PGSIZE \in Nat
  BY <1>2 DEF KmemInv, ListInv, Fits, PGSIZE
<1>4. best[c] # Null => ~Fits(c)
  BY <1>2 DEF SearchInv, Fits, KmemInv, ListInv, PGSIZE
<1>5. Free \subseteq Page
  BY DEF Free
<1>6. SearchInv'
  BY <1>1, <1>2, <1>3, <1>4, <1>5 DEF SearchInv, kmemVars, KmemInv, KmemTypeOK
<1> QED
  BY <1>1, <1>6 DEF LifoR, kmemVars

LEMMA TakeStep ==
  ASSUME BestFitInv, NEW c \in CPU, Take(c)
  PROVE  BestFitInv' /\ Lifo!KallocPop(c)
<1> USE KmemNulls DEF BestFitInv, Take, Forget
<1>1. best[c] = freelist /\ best_prev[c] = Null
  BY DEF SearchInv
<1>2. /\ freelist' = IF freelist = Null THEN freelist ELSE next[freelist]
      /\ UNCHANGED next /\ KallocReturn(c, freelist)
  BY <1>1
<1>3. /\ KmemInv'
      /\ Free' \subseteq Free
  BY <1>2, PopStep
<1>4. \A d \in CPU : pc'[d] \notin {"kalloc", "push"}
  BY OneInside DEF KallocReturn, Goto, KmemInv, KmemTypeOK
<1>5. SearchInv'
  BY <1>3, <1>4, OneInside DEF SearchInv, KallocReturn, Goto, KmemInv, KmemTypeOK
<1>6. LifoR[c] = freelist /\ LifoR' = [LifoR EXCEPT ![c] = Null]
  BY <1>4, OneInside DEF LifoR, KmemInv, KmemTypeOK
<1> QED
  BY <1>2, <1>3, <1>5, <1>6 DEF LifoR, Lifo!KallocPop, Lifo!KallocReturn, KallocReturn,
       Lifo!Release, Release, Lifo!Goto, Goto, Lifo!Null, Null, Lifo!NoCPU, NoCPU

\* kfree() and the boot do to the links what the original does; the search of
\* another processor is not under way, or does not see it.
LEMMA KfreeStep ==
  ASSUME BestFitInv, NEW c \in CPU, Kfree(c), UNCHANGED locals
  PROVE  BestFitInv' /\ Lifo!LifoKfree(c) /\ UNCHANGED LifoR
<1> USE KmemNulls DEF BestFitInv, locals
<1>1. ASSUME NEW x \in used, Junked(c, x)
      PROVE BestFitInv' /\ Lifo!KfreeCall(c, x) /\ UNCHANGED LifoR
  <2> USE <1>1 DEF Junked, KfreeCall, KfreeJunk, MayCall, Goto
  <2>1. KmemInv' /\ Free' = Free
    BY CallStep
  <2>2. x \in Page /\ x \notin Free /\ v[c] = Null /\ JunkSize \in Nat
    BY FreeIs DEF KmemInv, KmemTypeOK, PageInv, JunkSize
  <2>3. \A d \in CPU : v[d] # Null => v[d] # x
    BY DEF KmemInv, PageInv
  <2>4. SearchInv'
    BY <2>1, <2>2, <2>3 DEF SearchInv, KmemInv, KmemTypeOK, PageInv
  <2>5. LifoR' = LifoR
    BY DEF LifoR, KmemInv, KmemTypeOK
  <2> QED
    BY <2>1, <2>4, <2>5 DEF Lifo!KfreeCall, Lifo!KfreeJunk, Lifo!MayCall, Lifo!Goto,
         Lifo!boot, boot, Lifo!Junk, Junk
<1>2. ASSUME Linked(c) PROVE BestFitInv' /\ Lifo!KfreeLink(c) /\ UNCHANGED LifoR
  <2> USE <1>2 DEF Linked, KfreeLink, Goto
  <2>1. KmemInv' /\ Free' = Free
    BY LinkStep
  <2>2. v[c] \in Page /\ v[c] \notin Free /\ PGSIZE \in Nat
    BY FreeIs DEF KmemInv, KmemTypeOK, PageInv, PGSIZE
  <2>3. SearchInv'
    BY <2>1, <2>2 DEF SearchInv, KmemInv, KmemTypeOK, PageInv
  <2>4. LifoR' = LifoR
    BY DEF LifoR, KmemInv, KmemTypeOK
  <2> QED
    BY <2>1, <2>3, <2>4 DEF Lifo!KfreeLink, Lifo!Acquire, Acquire, Lifo!Goto,
         Lifo!NoCPU, NoCPU
<1>3. ASSUME Pushed(c) PROVE BestFitInv' /\ Lifo!KfreePush(c) /\ UNCHANGED LifoR
  <2> USE <1>3 DEF Pushed, KfreePush, Goto
  <2>1. KmemInv' /\ v[c] \in Page /\ Free' = Free \cup {v[c]}
    BY PushStep
  <2>2. \A d \in CPU : pc'[d] # "kalloc" /\ pc'[d] # "push"
    BY OneInside DEF KmemInv, KmemTypeOK
  <2>3. SearchInv'
    BY <2>1, <2>2, OneInside DEF SearchInv, KmemInv, KmemTypeOK, PageInv
  <2>4. LifoR' = LifoR
    BY <2>2, OneInside DEF LifoR, KmemInv, KmemTypeOK
  <2> QED
    BY <2>1, <2>3, <2>4 DEF Lifo!KfreePush, Lifo!Release, Release, Lifo!Goto,
         Lifo!Null, Null, Lifo!NoCPU, NoCPU
<1> QED
  BY <1>1, <1>2, <1>3 DEF Kfree, Lifo!LifoKfree

LEMMA FreerangeStepOK ==
  ASSUME BestFitInv, FreerangeStep, UNCHANGED locals
  PROVE  BestFitInv' /\ Lifo!Freerange /\ UNCHANGED LifoR
<1> USE KmemNulls DEF BestFitInv, locals, FreerangeStep, Freerange, KfreeJunk, Goto
<1>1. KmemInv' /\ Free' = Free /\ todo \in Page \ Free
  BY FreerangeSteps
<1>2. \A d \in CPU : v[d] # Null => v[d] # todo
  BY DEF KmemInv, KmemTypeOK, PageInv, Page
<1>3. SearchInv'
  BY <1>1, <1>2 DEF SearchInv, KmemInv, KmemTypeOK, PageInv, JunkSize
<1>4. LifoR' = LifoR
  BY DEF LifoR, KmemInv, KmemTypeOK
<1> QED
  BY <1>1, <1>3, <1>4 DEF Lifo!Freerange, Lifo!KfreeJunk, Lifo!Goto, Lifo!boot, boot,
       Lifo!Junk, Junk, Lifo!Last, Last

LEMMA MainStepOK ==
  ASSUME BestFitInv, MainGoesOn, UNCHANGED <<size, locals>>
  PROVE  BestFitInv' /\ Lifo!MainGoesOn /\ UNCHANGED LifoR
<1> USE DEF BestFitInv, locals, MainGoesOn
<1>1. KmemInv' /\ Free' = Free
  BY MainStep
<1>2. SearchInv' /\ LifoR' = LifoR
  BY <1>1 DEF SearchInv, LifoR
<1> QED
  BY <1>1, <1>2 DEF Lifo!MainGoesOn, Lifo!boot, boot, Lifo!Last, Last, Lifo!After, After

LEMMA ScribbledOK ==
  ASSUME BestFitInv, NEW x \in Page, Scribbled(x), UNCHANGED locals
  PROVE  BestFitInv' /\ Lifo!Scribble(x) /\ UNCHANGED LifoR
<1> USE DEF BestFitInv, locals, Scribbled, Scribble
<1>1. KmemInv' /\ Free' = Free
  BY ScribbleStep
<1>2. x \notin Free /\ \A d \in CPU : v[d] # x
  BY FreeIs, KmemNulls DEF KmemInv, KmemTypeOK, PageInv
<1>3. SearchInv' /\ LifoR' = LifoR
  BY <1>1, <1>2, KmemAssumption DEF SearchInv, LifoR, KmemInv, KmemTypeOK, PageInv
<1> QED
  BY <1>1, <1>3 DEF Lifo!Scribble

LEMMA BestFitStep ==
  ASSUME BestFitInv, [Next]_vars
  PROVE  BestFitInv' /\ [Lifo!LifoNext]_Lifo!lifoVars
<1>1. CASE \E c \in CPU : Kalloc(c)
  BY <1>1, StartStep, SearchStep, TakeStep
  DEF Kalloc, Lifo!LifoNext, Lifo!lifoVars, Lifo!kmemVars, kmemVars, LifoR, Lifo!CPU, CPU
<1>2. CASE (\E c \in CPU : Kfree(c)) /\ UNCHANGED locals
  BY <1>2, KfreeStep DEF Lifo!LifoNext, LifoR, Lifo!CPU, CPU
<1>3. CASE FreerangeStep /\ UNCHANGED locals
  BY <1>3, FreerangeStepOK DEF Lifo!LifoNext, LifoR
<1>4. CASE MainGoesOn /\ UNCHANGED <<size, locals>>
  BY <1>4, MainStepOK DEF Lifo!LifoNext, LifoR
<1>5. CASE (\E x \in Page : Scribbled(x)) /\ UNCHANGED locals
  BY <1>5, ScribbledOK DEF Lifo!LifoNext, Lifo!Page, Page, LifoR
<1>6. CASE UNCHANGED vars
  <2>1. KmemInv' /\ Free' = Free
    BY <1>6, StutterStep DEF vars, BestFitInv
  <2>2. SearchInv'
    BY <1>6, <2>1 DEF vars, kmemVars, locals, BestFitInv, SearchInv
  <2> QED
    BY <1>6, <2>1, <2>2
    DEF vars, kmemVars, locals, BestFitInv, Lifo!lifoVars, Lifo!kmemVars
<1> QED
  BY <1>1, <1>2, <1>3, <1>4, <1>5, <1>6 DEF Next

\* The search holds nothing or the head of the list, whatever other processors
\* and the holders of pages do.
THEOREM BestFitInvariance == Spec => []BestFitInv
<1>1. Init => BestFitInv
  <2> SUFFICES ASSUME Init PROVE BestFitInv
    OBVIOUS
  <2>1. KmemInv
    BY KmemInvInit DEF Init
  <2>2. Free = {}
    BY <2>1, FreeIs DEF Init, KmemInit, KmemInv, Page
  <2> QED
    BY <2>1, <2>2, KmemNulls DEF Init, BestFitInv, SearchInv, KmemInit, JunkSize
<1>2. BestFitInv /\ [Next]_vars => BestFitInv'
  BY BestFitStep
<1> QED
  BY <1>1, <1>2, PTL DEF Spec

\* The modified kalloc() and kfree() implement the original ones: over blocks
\* that all have one page, the best fit is the head of the list.
THEOREM BestFitIsLifo == Spec => SameAsOriginal
<1>1. Init => Lifo!LifoInit
  BY DEF Init, KmemInit, Lifo!LifoInit, Lifo!KmemInit, Lifo!Null, Null, Lifo!NoCPU, NoCPU,
       Lifo!CPU, CPU, Lifo!Page, Page, Lifo!Junk, Junk
<1>2. BestFitInv /\ [Next]_vars => [Lifo!LifoNext]_Lifo!lifoVars
  BY BestFitStep
<1> QED
  BY <1>1, <1>2, BestFitInvariance, PTL DEF Spec, SameAsOriginal, Lifo!LifoSpec

\* The grants and returns of pages, step by step.
LEMMA PromiseStep ==
  ASSUME BestFitInv, [Next]_vars
  PROVE  [Promise!Next]_<<Free, used, ret>>
<1> USE DEF BestFitInv
<1>1. ASSUME NEW c \in CPU, KallocStart(c) PROVE [Promise!Next]_<<Free, used, ret>>
  BY <1>1, EnterStep DEF KallocStart, KallocEnter, Promise!Next, Promise!NoPage
<1>2. ASSUME NEW c \in CPU, Search(c) PROVE UNCHANGED <<Free, used, ret>>
  BY <1>2, StutterStep DEF Search, kmemVars
<1>3. ASSUME NEW c \in CPU, Take(c) PROVE [Promise!Next]_<<Free, used, ret>>
  <2>1. best[c] = freelist /\ best_prev[c] = Null
    BY <1>3 DEF Take, SearchInv
  <2>2. /\ freelist' = IF freelist = Null THEN freelist ELSE next[freelist]
        /\ UNCHANGED next /\ KallocReturn(c, freelist)
    BY <1>3, <2>1 DEF Take
  <2>3. /\ freelist = Null => Free' = Free /\ used' = used
        /\ freelist # Null => /\ freelist \in Free /\ Free' = Free \ {freelist}
                              /\ used' = used \cup {freelist}
    BY <1>3, <2>2, PopStep DEF Take
  <2> QED
    BY <2>2, <2>3 DEF Promise!Next, Promise!Grant, Promise!NoPage, Free, KallocReturn
<1>4. ASSUME NEW c \in CPU, NEW x \in used, Junked(c, x)
      PROVE [Promise!Next]_<<Free, used, ret>>
  <2>1. Free' = Free /\ used' = used \ {x} /\ x \in Page /\ ret' = ret
    BY <1>4, CallStep DEF Junked, KfreeCall, KmemInv, KmemTypeOK
  <2> QED
    BY <2>1 DEF Promise!Next, Promise!GiveUp
<1>5. ASSUME NEW c \in CPU, Linked(c) PROVE UNCHANGED <<Free, used, ret>>
  BY <1>5, LinkStep DEF Linked, KfreeLink
<1>6. ASSUME NEW c \in CPU, Pushed(c) PROVE [Promise!Next]_<<Free, used, ret>>
  <2>1. /\ v[c] \in Page \ (Free \cup used) /\ Free' = Free \cup {v[c]}
        /\ used' = used /\ ret' = ret
    BY <1>6, PushStep DEF Pushed, KfreePush
  <2> QED
    BY <2>1 DEF Promise!Next, Promise!Insert
<1>7. ASSUME FreerangeStep \/ MainGoesOn PROVE UNCHANGED <<Free, used, ret>>
  BY <1>7, FreerangeSteps, MainStep DEF FreerangeStep, Freerange, MainGoesOn
<1>8. ASSUME NEW x \in Page, Scribbled(x) PROVE UNCHANGED <<Free, used, ret>>
  BY <1>8, ScribbleStep DEF Scribbled, Scribble
<1>9. CASE UNCHANGED vars
  BY <1>9, StutterStep DEF vars, kmemVars
<1> QED
  BY <1>1, <1>2, <1>3, <1>4, <1>5, <1>6, <1>7, <1>8, <1>9 DEF Next, Kalloc, Kfree

\* The modified kalloc() and kfree() grant a page to one caller at a time, also
\* before kinit2() turns the lock on.
THEOREM BestFitKeepsPromise == Spec => Promised
<1>1. Init => Promise!Init
  <2>1. SUFFICES ASSUME Init PROVE Promise!Init
    OBVIOUS
  <2>2. KmemTypeOK
    BY <2>1, KmemInvInit DEF Init, KmemInv
  <2>3. Free = {}
    BY <2>1, <2>2, FreeIs DEF Init, KmemInit, Page
  <2> QED
    BY <2>1, <2>3 DEF Init, KmemInit, Promise!Init
<1>2. BestFitInv /\ [Next]_vars => [Promise!Next]_<<Free, used, ret>>
  BY PromiseStep
<1> QED
  BY <1>1, <1>2, BestFitInvariance, PTL DEF Spec, Promised, Promise!Spec

LEMMA BestFitList ==
  ASSUME BestFitInv, OneList, [Next]_vars
  PROVE  OneList'
<1> USE DEF BestFitInv
<1>1. ASSUME NEW c \in CPU, KallocStart(c) PROVE OneList'
  BY <1>1, ListEnter DEF KallocStart
<1>2. ASSUME NEW c \in CPU, Search(c) PROVE OneList'
  BY <1>2, ListStutter DEF Search
<1>3. ASSUME NEW c \in CPU, Take(c) PROVE OneList'
  <2>1. best[c] = freelist /\ best_prev[c] = Null
    BY <1>3, KmemNulls DEF SearchInv, Take
  <2>2. /\ pc[c] = "kalloc" /\ UNCHANGED next /\ KallocReturn(c, freelist)
        /\ freelist' = IF freelist = Null THEN freelist ELSE next[freelist]
    BY <1>3, <2>1 DEF Take
  <2> QED
    BY <2>2, ListReturn
<1>4. ASSUME NEW c \in CPU, Kfree(c) PROVE OneList'
  BY <1>4, ListCall, ListLink, ListPush DEF Kfree, Junked, Linked, Pushed
<1>5. CASE FreerangeStep \/ MainGoesOn \/ \E x \in Page : Scribbled(x)
  BY <1>5, ListFreerange, ListMain, ListScribble DEF FreerangeStep, Scribbled
<1>6. CASE UNCHANGED vars
  BY <1>6, ListStutter DEF vars
<1> QED
  BY <1>1, <1>2, <1>3, <1>4, <1>5, <1>6 DEF Next, Kalloc

\* The free list of the modified kalloc.c, kept inside the pages, holds exactly the
\* pages nobody has and ends, for any number of pages and processors: no page leaks, and
\* the search of kalloc() meets every free page and stops.
THEOREM BestFitListExact == Spec => []FreeListExact
<1>1. Init => OneList
  BY ListInit DEF Init
<1>2. BestFitInv /\ OneList /\ [Next]_vars => OneList'
  BY BestFitList
<1>3. OneList => FreeListExact
  BY ListExact
<1> QED
  BY <1>1, <1>2, <1>3, BestFitInvariance, PTL DEF Spec
=============================================================================
