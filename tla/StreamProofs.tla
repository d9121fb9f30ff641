---------------------------- MODULE StreamProofs ----------------------------
(***************************************************************************)
(* The pipes, for any number of processes, files and pages, and the        *)
(* console, for any number of readers: any size of the ring, with counters *)
(* that wrap at a multiple of it.                                          *)
(***************************************************************************)
EXTENDS Pipe, Console, FiniteSetTheorems, SequenceTheorems, WellFoundedInduction, TLAPS

\* Division with remainder.
LEMMA Division ==
  ASSUME NEW a \in Int, NEW m \in Nat \ {0}
  PROVE  /\ a % m \in 0..(m - 1) /\ a \div m \in Int
         /\ a = (a \div m) * m + (a % m)
  OBVIOUS

\* A multiple of m that is smaller than m, either way, is 0.
LEMMA SmallMultiple ==
  ASSUME NEW k \in Int, NEW m \in Nat \ {0}, -m < k * m, k * m < m
  PROVE  k = 0
  <1>1. k >= 1 => k * m >= m
    OBVIOUS
  <1>2. k <= -1 => k * m <= -m
    OBVIOUS
  <1> QED
    BY <1>1, <1>2

\* There is only one remainder.
LEMMA Remainder ==
  ASSUME NEW a \in Int, NEW m \in Nat \ {0}, NEW q \in Int, NEW r \in 0..(m - 1),
         a = q * m + r
  PROVE  a % m = r
  <1> DEFINE k == (a \div m) - q
  <1>1. a % m \in 0..(m - 1) /\ a \div m \in Int /\ a = (a \div m) * m + (a % m)
    BY Division
  <1>2. k \in Int /\ k * m = r - (a % m)
    BY <1>1
  <1> HIDE DEF k
  <1>3. -m < k * m /\ k * m < m
    BY <1>1, <1>2
  <1>4. k = 0
    BY <1>2, <1>3, SmallMultiple
  <1>5. k * m = 0
    BY <1>4
  <1> QED
    BY <1>1, <1>2, <1>5

\* Numbers less than m apart have different remainders.
LEMMA Distinct ==
  ASSUME NEW a \in Int, NEW b \in Int, NEW m \in Nat \ {0},
         -m < a - b, a - b < m, a % m = b % m
  PROVE  a = b
  <1> DEFINE k == (a \div m) - (b \div m)
  <1>1. a % m \in 0..(m - 1) /\ a \div m \in Int /\ a = (a \div m) * m + (a % m)
    BY Division
  <1>2. b % m \in 0..(m - 1) /\ b \div m \in Int /\ b = (b \div m) * m + (b % m)
    BY Division
  <1>3. k \in Int /\ k * m = a - b
    BY <1>1, <1>2
  <1> HIDE DEF k
  <1>4. k = 0
    BY <1>3, SmallMultiple
  <1>5. k * m = 0
    BY <1>4
  <1> QED
    BY <1>3, <1>5

\* Adding to the remainder is adding to the number.
LEMMA AddRemainder ==
  ASSUME NEW a \in Int, NEW x \in Int, NEW m \in Nat \ {0}
  PROVE  ((a % m) + x) % m = (a + x) % m
  <1> DEFINE b == a % m
             e == a \div m
             r == (a + x) % m
             d == (a + x) \div m
  <1>1. b \in Int /\ e \in Int /\ a = e * m + b
    BY Division
  <1>2. r \in 0..(m - 1) /\ d \in Int /\ a + x = d * m + r
    BY Division
  <1> HIDE DEF b, r, d, e
  <1>3. b + x = (d - e) * m + r /\ d - e \in Int /\ b + x \in Int
    BY <1>1, <1>2
  <1>4. (b + x) % m = r
    BY <1>2, <1>3, Remainder
  <1> QED
    BY <1>4 DEF b, r

\* The difference of the remainders has the remainder of the difference.
LEMMA SubRemainder ==
  ASSUME NEW a \in Int, NEW c \in Int, NEW m \in Nat \ {0}
  PROVE  ((a % m) - (c % m)) % m = (a - c) % m
  <1> DEFINE b == a % m
             e == a \div m
             f == c % m
             h == c \div m
             r == (a - c) % m
             d == (a - c) \div m
  <1>1. b \in Int /\ e \in Int /\ a = e * m + b
    BY Division
  <1>2. f \in Int /\ h \in Int /\ c = h * m + f
    BY Division
  <1>3. r \in 0..(m - 1) /\ d \in Int /\ a - c = d * m + r
    BY Division
  <1> HIDE DEF b, e, f, h, r, d
  <1>4. b - f = (d - e + h) * m + r /\ d - e + h \in Int /\ b - f \in Int
    BY <1>1, <1>2, <1>3
  <1>5. (b - f) % m = r
    BY <1>3, <1>4, Remainder
  <1> QED
    BY <1>5 DEF b, f, r

\* A number below m is its own remainder.
LEMMA SmallRemainder ==
  ASSUME NEW m \in Nat \ {0}, NEW a \in 0..(m - 1)
  PROVE  a % m = a
  <1>1. a = 0 * m + a /\ 0 \in Int /\ a \in Int
    OBVIOUS
  <1> QED
    BY <1>1, Remainder

\* The remainder by m of the remainder by a multiple of m.
LEMMA RemainderTwice ==
  ASSUME NEW a \in Int, NEW m \in Nat \ {0}, NEW c \in Nat \ {0}, c % m = 0
  PROVE  (a % c) % m = a % m
  <1> DEFINE k == c \div m
             e == a \div c
             b == a % c
             d == b \div m
             r == b % m
  <1>1. k \in Int /\ c = k * m
    BY Division
  <1>2. b \in Int /\ e \in Int /\ a = e * c + b
    BY Division
  <1>3. r \in 0..(m - 1) /\ d \in Int /\ b = d * m + r
    BY <1>2, Division
  <1> HIDE DEF k, e, b, d, r
  <1>4. e * c = (e * k) * m
    BY <1>1, <1>2
  <1>5. e * k \in Int
    BY <1>1, <1>2
  <1>6. a = (e * k + d) * m + r
    BY <1>1, <1>2, <1>3, <1>4, <1>5
  <1>7. a % m = r
    BY <1>3, <1>5, <1>6, Remainder
  <1> QED
    BY <1>7 DEF r, b

\* a and b behind the same counter are b - a apart.
LEMMA Apart ==
  ASSUME NEW m \in Nat \ {0}, NEW r \in Int, NEW a \in Int, NEW b \in Int,
         b - a \in 0..(m - 1)
  PROVE  (((r + b) % m) - ((r + a) % m)) % m = b - a
  <1> DEFINE x == r + b
             y == r + a
  <1>1. x \in Int /\ y \in Int /\ x - y = b - a
    OBVIOUS
  <1> HIDE DEF x, y
  <1>2. ((x % m) - (y % m)) % m = b - a
    BY <1>1, SubRemainder, SmallRemainder
  <1> QED
    BY <1>2 DEF x, y

-----------------------------------------------------------------------------
(* The ring of a pipe.                                                     *)

\* The constants are as pipe.c has them.
LEMMA Sizes == /\ PIPESIZE \in Nat \ {0} /\ COUNT \in Nat \ {0}
               /\ PIPESIZE < COUNT /\ COUNT % PIPESIZE = 0
  BY PipeAssumption

\* The cell of the counter x.
LEMMA Cell ==
  ASSUME NEW x \in Int
  PROVE  (x % COUNT) % PIPESIZE = x % PIPESIZE /\ x % PIPESIZE \in 0..(PIPESIZE - 1)
  BY Sizes, RemainderTwice, Division

\* The cell k after that of the counter a.
LEMMA CellAfter ==
  ASSUME NEW a \in Int, NEW k \in Int
  PROVE  ((a % COUNT) + k) % PIPESIZE = (a + k) % PIPESIZE
  <1> DEFINE y == (a % COUNT) + k
             z == a + k
  <1>1. y \in Int /\ z \in Int
    BY Division, Sizes
  <1>2. y % COUNT = z % COUNT
    BY AddRemainder, Sizes
  <1> HIDE DEF y, z
  <1>3. y % PIPESIZE = z % PIPESIZE
    BY <1>1, <1>2, Cell
  <1> QED
    BY <1>3 DEF y, z

\* The number of bytes in the pipe b, and the bytes.
Distance(b) == (b.nwrite - b.nread) % COUNT
Content(b) == Oldest(b, Distance(b))

\* The two counters are that far apart.
LEMMA Counters ==
  ASSUME NEW b \in Pipes
  PROVE  /\ b.nread \in 0..(COUNT - 1) /\ b.nwrite \in 0..(COUNT - 1)
         /\ Distance(b) \in 0..(COUNT - 1)
         /\ (b.nread + Distance(b)) % COUNT = b.nwrite
         /\ Distance(b) = 0 <=> b.nread = b.nwrite
  <1> DEFINE r == b.nread
             w == b.nwrite
             u == Distance(b)
  <1>1. r \in 0..(COUNT - 1) /\ w \in 0..(COUNT - 1)
    BY DEF Pipes
  <1>2. u = (w - r) % COUNT
    BY DEF Distance
  <1> HIDE DEF r, w, u
  <1>3. w - r \in Int /\ r \in Int /\ w \in Int /\ (w - r) + r = w
    BY <1>1, Sizes
  <1>4. u \in 0..(COUNT - 1)
    BY <1>2, <1>3, Division, Sizes
  <1>5. (u + r) % COUNT = w % COUNT
    <2>1. (((w - r) % COUNT) + r) % COUNT = ((w - r) + r) % COUNT
      BY <1>3, AddRemainder, Sizes
    <2> QED
      BY <1>2, <1>3, <2>1
  <1>6. w % COUNT = w /\ r % COUNT = r
    BY <1>1, SmallRemainder, Sizes
  <1>7. (r + u) % COUNT = w
    <2>1. r + u = u + r
      BY <1>3, <1>4
    <2> QED
      BY <1>5, <1>6, <2>1
  <1>8. u = 0 => r = w
    BY <1>3, <1>6, <1>7
  <1>9. r = w => u = 0
    <2>1. 0 % COUNT = 0
      BY SmallRemainder, Sizes
    <2> QED
      BY <1>2, <1>3, <2>1
  <1> QED
    BY <1>1, <1>4, <1>7, <1>8, <1>9 DEF r, w, u

\* How the distance changes when n bytes are read.
LEMMA Nearer ==
  ASSUME NEW b \in Pipes, NEW n \in 0..Distance(b)
  PROVE  (b.nwrite - ((b.nread + n) % COUNT)) % COUNT = Distance(b) - n
  <1> DEFINE r == b.nread
             w == b.nwrite
             u == Distance(b)
  <1>1. /\ r \in 0..(COUNT - 1) /\ w \in 0..(COUNT - 1) /\ u \in 0..(COUNT - 1)
        /\ (r + u) % COUNT = w
    BY Counters
  <1>2. n \in 0..u
    OBVIOUS
  <1> HIDE DEF r, w, u
  <1>3. /\ r + u \in Int /\ r + n \in Int /\ (r + u) - (r + n) = u - n
        /\ u - n \in 0..(COUNT - 1)
    BY <1>1, <1>2, Sizes
  <1>4. (w - ((r + n) % COUNT)) % COUNT = ((r + u) - (r + n)) % COUNT
    BY <1>1, <1>3, SubRemainder, Sizes
  <1>5. (u - n) % COUNT = u - n
    BY <1>3, SmallRemainder, Sizes
  <1> QED
    BY <1>3, <1>4, <1>5 DEF r, w, u

\* How it changes when n bytes are written.
LEMMA Farther ==
  ASSUME NEW b \in Pipes, Distance(b) <= PIPESIZE,
         NEW n \in 0..(PIPESIZE - Distance(b))
  PROVE  (((b.nwrite + n) % COUNT) - b.nread) % COUNT = Distance(b) + n
  <1> DEFINE r == b.nread
             w == b.nwrite
             u == Distance(b)
  <1>1. /\ r \in 0..(COUNT - 1) /\ w \in 0..(COUNT - 1) /\ u \in 0..(COUNT - 1)
        /\ (r + u) % COUNT = w
    BY Counters
  <1>2. n \in 0..(PIPESIZE - u) /\ u <= PIPESIZE
    OBVIOUS
  <1> HIDE DEF r, w, u
  <1>3. /\ r + u \in Int /\ n \in Int /\ r \in Int /\ w \in Int
        /\ (r + u) + n \in Int /\ ((r + u) + n) - r = u + n
        /\ u + n \in 0..(COUNT - 1)
    BY <1>1, <1>2, Sizes
  <1>4. (w + n) % COUNT = ((r + u) + n) % COUNT
    BY <1>1, <1>3, AddRemainder, Sizes
  <1>5. r % COUNT = r
    BY <1>1, SmallRemainder, Sizes
  <1>6. ((((r + u) + n) % COUNT) - (r % COUNT)) % COUNT = (((r + u) + n) - r) % COUNT
    BY <1>3, SubRemainder, Sizes
  <1>7. (u + n) % COUNT = u + n
    BY <1>3, SmallRemainder, Sizes
  <1> QED
    BY <1>3, <1>4, <1>5, <1>6, <1>7 DEF r, w, u

\* The bytes that fit.
LEMMA RoomIs ==
  ASSUME NEW g \in Page, pipe[g] \in Pipes, Used(g) <= PIPESIZE
  PROVE  Room(g) = PIPESIZE - Used(g)
  <1> DEFINE r == pipe[g].nread
             w == pipe[g].nwrite
             u == Used(g)
             k == PIPESIZE - u
  <1>1. /\ r \in 0..(COUNT - 1) /\ w \in 0..(COUNT - 1) /\ u \in 0..(COUNT - 1)
        /\ (r + u) % COUNT = w /\ u <= PIPESIZE
    BY Counters DEF Used, Distance
  <1>2. Room(g) = CHOOSE j \in 0..(COUNT - 1) : (w + j) % COUNT = (r + PIPESIZE) % COUNT
    BY DEF Room
  <1> HIDE DEF r, w, u
  <1>3. /\ k \in 0..(COUNT - 1) /\ r + u \in Int /\ (r + u) + k = r + PIPESIZE
        /\ k \in Int /\ w \in Int
    BY <1>1, Sizes
  <1> HIDE DEF k
  <1>4. (w + k) % COUNT = (r + PIPESIZE) % COUNT
    <2>1. (((r + u) % COUNT) + k) % COUNT = ((r + u) + k) % COUNT
      BY <1>3, AddRemainder, Sizes
    <2> QED
      BY <1>1, <1>3, <2>1
  <1>5. ASSUME NEW j \in 0..(COUNT - 1), (w + j) % COUNT = (r + PIPESIZE) % COUNT
        PROVE  j = k
    <2>1. /\ w + j \in Int /\ w + k \in Int
          /\ -COUNT < (w + j) - (w + k) /\ (w + j) - (w + k) < COUNT
      BY <1>3, Sizes
    <2>2. w + j = w + k
      BY <1>4, <1>5, <2>1, Distinct, Sizes
    <2> QED
      BY <1>3, <2>2
  <1>6. Room(g) = k
    BY <1>2, <1>3, <1>4, <1>5
  <1> QED
    BY <1>6 DEF k, u

\* The bytes of a pipe as a sequence.
LEMMA ContentIs ==
  ASSUME NEW b \in Pipes
  PROVE  /\ Content(b) \in Seq(Byte \cup {"junk"}) /\ Len(Content(b)) = Distance(b)
         /\ \A i \in 1..Distance(b) : Content(b)[i] = b.data[(b.nread + i - 1) % PIPESIZE]
  <1> DEFINE r == b.nread
             u == Distance(b)
             Q == Content(b)
             D == b.data
  <1>1. r \in 0..(COUNT - 1) /\ u \in 0..(COUNT - 1)
    BY Counters
  <1>2. Q = [i \in 1..u |-> D[((r + i - 1) % COUNT) % PIPESIZE]]
    BY DEF Content, Oldest
  <1>3. D \in [0..(PIPESIZE - 1) -> Byte \cup {"junk"}]
    BY DEF Pipes
  <1> HIDE DEF r, u, Q, D
  <1>4. ASSUME NEW i \in 1..u
        PROVE  /\ ((r + i - 1) % COUNT) % PIPESIZE = (r + i - 1) % PIPESIZE
               /\ D[((r + i - 1) % COUNT) % PIPESIZE] \in Byte \cup {"junk"}
    <2>1. r + i - 1 \in Int
      BY <1>1
    <2>2. /\ ((r + i - 1) % COUNT) % PIPESIZE = (r + i - 1) % PIPESIZE
          /\ (r + i - 1) % PIPESIZE \in 0..(PIPESIZE - 1)
      BY <2>1, Cell
    <2> QED
      BY <2>2, <1>3
  <1>5. \A i \in 1..u : Q[i] = D[(r + i - 1) % PIPESIZE]
    BY <1>2, <1>4
  <1>6. Q \in [1..u -> Byte \cup {"junk"}] /\ u \in Nat
    <2> DEFINE e(i) == D[((r + i - 1) % COUNT) % PIPESIZE]
    <2>1. \A i \in 1..u : e(i) \in Byte \cup {"junk"}
      BY <1>4
    <2>2. Q = [i \in 1..u |-> e(i)]
      BY <1>2
    <2>3. u \in Nat
      BY <1>1
    <2> HIDE DEF e
    <2> QED
      BY <2>1, <2>2, <2>3
  <1>7. Q \in Seq(Byte \cup {"junk"}) /\ Len(Q) = u
    BY <1>6
  <1> QED
    BY <1>5, <1>7 DEF r, u, Q, D

\* A pipe without bytes.
LEMMA EmptyContent ==
  ASSUME NEW b \in Pipes
  PROVE  /\ b.nread = b.nwrite => Distance(b) = 0
         /\ Distance(b) = 0 => Content(b) = <<>> /\ Content(b) \in Seq(Byte)
         /\ Content(b) = <<>> => Distance(b) = 0
  <1>1. Content(b) \in Seq(Byte \cup {"junk"}) /\ Len(Content(b)) = Distance(b)
    BY ContentIs
  <1>2. Distance(b) = 0 => Content(b) = <<>>
    BY <1>1, EmptySeq
  <1>3. Content(b) = <<>> => Distance(b) = 0
    BY <1>1, EmptySeq
  <1> QED
    BY <1>2, <1>3, Counters, EmptySeq

\* What piperead() does to the bytes: the first n are gone.
LEMMA ReadContent ==
  ASSUME NEW b \in Pipes, NEW c \in Pipes, NEW n \in 0..Distance(b),
         Distance(b) <= PIPESIZE, Content(b) \in Seq(Byte),
         c.nread = (b.nread + n) % COUNT, c.nwrite = b.nwrite,
         c.data = Rest(b, n)
  PROVE  /\ Distance(c) = Distance(b) - n
         /\ Content(c) = SubSeq(Content(b), n + 1, Distance(b))
         /\ Oldest(b, n) = SubSeq(Content(b), 1, n)
         /\ Content(c) \in Seq(Byte) /\ SubSeq(Content(b), 1, n) \in Seq(Byte)
         /\ Len(SubSeq(Content(b), 1, n)) = n
  <1> DEFINE r == b.nread
             u == Distance(b)
             Q == Content(b)
             P == Content(c)
             R == SubSeq(Q, n + 1, u)
             D == b.data
             E == c.data
  <1>1. r \in 0..(COUNT - 1) /\ u \in 0..(COUNT - 1) /\ n \in 0..u /\ u <= PIPESIZE
    BY Counters
  <1>2. D \in [0..(PIPESIZE - 1) -> Byte \cup {"junk"}]
    BY DEF Pipes
  <1>3. Len(Q) = u /\ Q \in Seq(Byte) /\ \A i \in 1..u : Q[i] = D[(r + i - 1) % PIPESIZE]
    BY ContentIs
  <1>4. Distance(c) = u - n
    BY Nearer DEF Distance
  <1>5. \A x \in Int : /\ (x % COUNT) % PIPESIZE = x % PIPESIZE
                       /\ x % PIPESIZE \in 0..(PIPESIZE - 1)
    BY Cell
  <1>6. E = [d \in DOMAIN D |-> IF \E i \in 1..n : ((r + i - 1) % COUNT) % PIPESIZE = d
                                THEN "junk" ELSE D[d]]
    BY DEF Rest
  <1>7. /\ Len(P) = u - n /\ P \in Seq(Byte \cup {"junk"})
        /\ \A i \in 1..(u - n) : P[i] = E[(((r + n) % COUNT) + i - 1) % PIPESIZE]
    <2>1. /\ P \in Seq(Byte \cup {"junk"}) /\ Len(P) = Distance(c)
          /\ \A i \in 1..Distance(c) : P[i] = E[(c.nread + i - 1) % PIPESIZE]
      BY ContentIs
    <2> QED
      BY <2>1, <1>4
  <1>8. /\ R \in Seq(Byte) /\ Len(R) = u - n
        /\ \A i \in 1..(u - n) : R[i] = Q[n + i]
    <2>1. \A i \in (n + 1)..u : Q[i] \in Byte
      BY <1>1, <1>3, ElementOfSeq
    <2> HIDE DEF Q, u
    <2> QED
      BY <2>1, <1>1, SubSeqProperties
  <1> HIDE DEF r, u, Q, P, D, E, R
  <1>9. ASSUME NEW i \in 1..(u - n)
        PROVE  P[i] = R[i]
    <2> DEFINE x == r + n + i - 1
    <2>1. x \in Int /\ (r + n) \in Int /\ i - 1 \in Int /\ (r + n) + (i - 1) = x
      BY <1>1
    <2>2. (((r + n) % COUNT) + i - 1) % PIPESIZE = x % PIPESIZE
      <3> DEFINE a == r + n
                 k == i - 1
      <3>1. a \in Int /\ k \in Int /\ a + k = x
        BY <2>1
      <3> HIDE DEF a, x
      <3>2. a % COUNT \in Int
        BY <3>1, Division, Sizes
      <3>3. (a % COUNT) + i - 1 = (a % COUNT) + k
        BY <3>2
      <3> HIDE DEF k
      <3>4. ((a % COUNT) + k) % PIPESIZE = x % PIPESIZE
        BY <3>1, CellAfter
      <3>5. ((a % COUNT) + i - 1) % PIPESIZE = x % PIPESIZE
        BY <3>3, <3>4
      <3> QED
        BY <3>5 DEF a
    <2>3. ASSUME NEW j \in 1..n, ((r + j - 1) % COUNT) % PIPESIZE = x % PIPESIZE
          PROVE  FALSE
      <3> DEFINE y == r + j - 1
      <3>1. y \in Int /\ -PIPESIZE < x - y /\ x - y < PIPESIZE /\ x # y
        BY <1>1, Sizes
      <3>2. y % PIPESIZE = x % PIPESIZE
        BY <2>3, <3>1, <1>5
      <3> HIDE DEF x, y
      <3>3. x = y
        BY <2>1, <3>1, <3>2, Distinct, Sizes
      <3> QED
        BY <3>1, <3>3
    <2>4. x % PIPESIZE \in DOMAIN D
      BY <1>2, <1>5, <2>1
    <2> HIDE DEF x
    <2>5. E[x % PIPESIZE] = D[x % PIPESIZE]
      BY <1>6, <2>3, <2>4
    <2>6. n + i \in 1..u /\ r + (n + i) - 1 = x
      BY <1>1 DEF x
    <2>7. Q[n + i] = D[x % PIPESIZE]
      BY <1>3, <2>6
    <2> QED
      BY <1>7, <1>8, <2>2, <2>5, <2>7
  <1>10. P = R
    <2>1. R \in Seq(Byte \cup {"junk"})
      BY <1>8, SeqMonotonic
    <2> QED
      BY <2>1, <1>7, <1>8, <1>9, SeqEqual
  <1>11. /\ SubSeq(Q, 1, n) \in Seq(Byte) /\ Len(SubSeq(Q, 1, n)) = n
         /\ \A i \in 1..n : SubSeq(Q, 1, n)[i] = Q[i]
    <2>1. \A i \in 1..n : Q[i] \in Byte
      BY <1>1, <1>3, ElementOfSeq
    <2> QED
      BY <2>1, <1>1, SubSeqProperties
  <1>12. [i \in 1..n |-> D[((r + i - 1) % COUNT) % PIPESIZE]] = SubSeq(Q, 1, n)
    <2> DEFINE S == SubSeq(Q, 1, n)
               F == [i \in 1..n |-> D[((r + i - 1) % COUNT) % PIPESIZE]]
    <2>1. S \in [1..n -> Byte]
      BY <1>11, LenProperties
    <2>2. ASSUME NEW i \in 1..n PROVE D[((r + i - 1) % COUNT) % PIPESIZE] = S[i]
      <3>1. r + i - 1 \in Int /\ i \in 1..u
        BY <1>1
      <3> QED
        BY <3>1, <1>3, <1>5, <1>11
    <2>3. \A i \in 1..n : F[i] = S[i]
      BY <2>2
    <2>4. F \in [1..n -> Byte]
      BY <2>1, <2>2
    <2> HIDE DEF S, F
    <2>5. F = S
      BY <2>1, <2>3, <2>4
    <2> QED
      BY <2>5 DEF F, S
  <1> QED
    BY <1>4, <1>8, <1>10, <1>11, <1>12 DEF r, u, Q, P, D, R, Oldest

\* What pipewrite() does to them: the first n of bs come behind.
LEMMA WriteContent ==
  ASSUME NEW b \in Pipes, NEW c \in Pipes, Distance(b) <= PIPESIZE, Content(b) \in Seq(Byte),
         NEW bs \in Seq(Byte), NEW n \in 0..(PIPESIZE - Distance(b)), n <= Len(bs),
         c.nread = b.nread, c.nwrite = (b.nwrite + n) % COUNT,
         c.data = Filled(b, bs, n)
  PROVE  /\ Distance(c) = Distance(b) + n /\ Distance(c) <= PIPESIZE
         /\ SubSeq(bs, 1, n) \in Seq(Byte) /\ Len(SubSeq(bs, 1, n)) = n
         /\ Content(c) = Content(b) \o SubSeq(bs, 1, n)
         /\ Content(c) \in Seq(Byte)
  <1> DEFINE r == b.nread
             w == b.nwrite
             u == Distance(b)
             Q == Content(b)
             P == Content(c)
             S == SubSeq(bs, 1, n)
             D == b.data
             E == c.data
             At(i) == ((w + i - 1) % COUNT) % PIPESIZE
  <1>1. /\ r \in 0..(COUNT - 1) /\ w \in 0..(COUNT - 1) /\ u \in 0..(COUNT - 1)
        /\ n \in 0..(PIPESIZE - u) /\ u <= PIPESIZE /\ (r + u) % COUNT = w
    BY Counters
  <1>2. D \in [0..(PIPESIZE - 1) -> Byte \cup {"junk"}]
    BY DEF Pipes
  <1>3. Len(Q) = u /\ Q \in Seq(Byte) /\ \A i \in 1..u : Q[i] = D[(r + i - 1) % PIPESIZE]
    BY ContentIs
  <1>4. Distance(c) = u + n
    BY Farther DEF Distance
  <1>5. /\ P \in Seq(Byte \cup {"junk"}) /\ Len(P) = u + n
        /\ \A i \in 1..(u + n) : P[i] = E[(r + i - 1) % PIPESIZE]
    <2>1. /\ P \in Seq(Byte \cup {"junk"}) /\ Len(P) = Distance(c)
          /\ \A i \in 1..Distance(c) : P[i] = E[(c.nread + i - 1) % PIPESIZE]
      BY ContentIs
    <2> QED
      BY <2>1, <1>4
  <1>6. E = [d \in DOMAIN D |-> IF \E i \in 1..n : At(i) = d
                                THEN bs[CHOOSE i \in 1..n : At(i) = d] ELSE D[d]]
    BY DEF Filled
  <1>7. S \in Seq(Byte) /\ Len(S) = n /\ \A i \in 1..n : S[i] = bs[i]
    <2>1. \A i \in 1..n : bs[i] \in Byte
      BY <1>1, ElementOfSeq
    <2> QED
      BY <2>1, <1>1, SubSeqProperties
  <1> HIDE DEF r, w, u, Q, P, S, D, E
  <1>8. ASSUME NEW i \in 1..n
        PROVE  At(i) = (r + u + i - 1) % PIPESIZE
    <2> DEFINE a == r + u
               k == i - 1
    <2>1. a \in Int /\ k \in Int /\ w \in Int /\ r + u + i - 1 = a + k /\ w + i - 1 = w + k
      BY <1>1
    <2>2. w = a % COUNT
      BY <1>1
    <2> HIDE DEF a, k
    <2>3. ((w + k) % COUNT) % PIPESIZE = (w + k) % PIPESIZE
      BY <2>1, Cell
    <2>4. (w + k) % PIPESIZE = (a + k) % PIPESIZE
      BY <2>1, <2>2, CellAfter
    <2> QED
      BY <2>1, <2>3, <2>4
  <1> HIDE DEF At
  <1>9. ASSUME NEW i \in 1..n, NEW j \in 1..(u + n), At(i) = (r + j - 1) % PIPESIZE
        PROVE  j = u + i
    <2> DEFINE x == r + u + i - 1
               y == r + j - 1
    <2>1. /\ x \in Int /\ y \in Int /\ -PIPESIZE < x - y /\ x - y < PIPESIZE
          /\ (x = y => j = u + i)
      BY <1>1, Sizes
    <2>2. x % PIPESIZE = y % PIPESIZE
      BY <1>8, <1>9
    <2> HIDE DEF x, y
    <2>3. x = y
      BY <2>1, <2>2, Distinct, Sizes
    <2> QED
      BY <2>1, <2>3
  <1>10. ASSUME NEW j \in 1..(u + n)
         PROVE  P[j] = IF j <= u THEN Q[j] ELSE S[j - u]
    <2> DEFINE d == (r + j - 1) % PIPESIZE
    <2>1. P[j] = E[d]
      BY <1>5
    <2>2. d \in DOMAIN D
      <3>1. r + j - 1 \in Int
        BY <1>1
      <3> QED
        BY <3>1, <1>2, Cell
    <2>3. CASE j <= u
      <3>1. ASSUME NEW i \in 1..n, At(i) = d PROVE FALSE
        <4>1. j = u + i
          BY <1>9, <3>1
        <4> QED
          BY <1>1, <2>3, <4>1
      <3>2. E[d] = D[d]
        BY <1>6, <2>2, <3>1
      <3>3. Q[j] = D[d]
        BY <1>1, <1>3, <2>3
      <3> QED
        BY <2>1, <2>3, <3>2, <3>3
    <2>4. CASE ~(j <= u)
      <3> DEFINE i == j - u
      <3>1. i \in 1..n /\ r + u + i - 1 = r + j - 1 /\ j = u + i
        BY <1>1, <2>4
      <3>2. At(i) = d
        BY <1>8, <3>1
      <3>3. \A k \in 1..n : At(k) = d => k = i
        <4> SUFFICES ASSUME NEW k \in 1..n, At(k) = d PROVE k = i
          OBVIOUS
        <4>1. j = u + k
          BY <1>9
        <4> QED
          BY <1>1, <4>1
      <3> HIDE DEF i, d
      <3>4. (CHOOSE k \in 1..n : At(k) = d) = i
        BY <3>1, <3>2, <3>3
      <3>5. E[d] = bs[i]
        BY <1>6, <2>2, <3>1, <3>2, <3>4
      <3>6. S[i] = bs[i]
        BY <1>7, <3>1
      <3> QED
        BY <2>1, <2>4, <3>5, <3>6 DEF i
    <2> QED
      BY <2>3, <2>4
  <1>11. /\ Q \o S \in Seq(Byte) /\ Len(Q \o S) = u + n
         /\ \A j \in 1..(u + n) : (Q \o S)[j] = IF j <= u THEN Q[j] ELSE S[j - u]
    <2> DEFINE C == Q \o S
    <2>1. /\ C \in Seq(Byte) /\ Len(C) = Len(Q) + Len(S)
          /\ \A j \in 1..(Len(Q) + Len(S)) :
               C[j] = IF j <= Len(Q) THEN Q[j] ELSE S[j - Len(Q)]
      <3>1. Q \in Seq(Byte) /\ S \in Seq(Byte)
        BY <1>3, <1>7
      <3> QED
        BY ONLY <3>1, ConcatProperties
    <2> HIDE DEF C
    <2>2. /\ C \in Seq(Byte) /\ Len(C) = u + n
          /\ \A j \in 1..(u + n) : C[j] = IF j <= u THEN Q[j] ELSE S[j - u]
      BY <1>3, <1>7, <2>1
    <2> QED
      BY <2>2 DEF C
  <1>12. P = Q \o S
    <2> DEFINE C == Q \o S
    <2>1. /\ C \in Seq(Byte \cup {"junk"}) /\ Len(C) = u + n
          /\ \A j \in 1..(u + n) : C[j] = IF j <= u THEN Q[j] ELSE S[j - u]
      BY <1>11, SeqMonotonic
    <2> HIDE DEF C
    <2>2. \A j \in 1..(u + n) : P[j] = C[j]
      BY <2>1, <1>10
    <2>3. P = C
      BY <1>5, <2>1, <2>2, SeqEqual
    <2> QED
      BY <2>3 DEF C
  <1>13. u + n <= PIPESIZE
    BY <1>1, Sizes
  <1> QED
    BY <1>4, <1>7, <1>11, <1>12, <1>13 DEF u, Q, P, S

-----------------------------------------------------------------------------
(* Facts about the invariant.                                              *)

\* A page that is free is no pipe.
LEMMA Unlike == NoPipe \notin Pipes /\ NoPipe.readopen = FALSE /\ NoPipe.writeopen = FALSE
  <1>1. 0 \in 0..(PIPESIZE - 1)
    BY Sizes
  <1>2. ASSUME NoPipe \in Pipes PROVE FALSE
    <2>1. NoPipe.data \in [0..(PIPESIZE - 1) -> Byte \cup {"junk"}]
      BY <1>2 DEF Pipes
    <2>2. NoPipe.data = <<>>
      BY DEF NoPipe
    <2>3. 0 \in DOMAIN <<>>
      BY <1>1, <2>1, <2>2
    <2>4. DOMAIN <<>> = {}
      BY EmptySeq
    <2> QED
      BY <2>3, <2>4
  <1> QED
    BY <1>2 DEF NoPipe

\* A process at a pipe: the page is in use, and the end that it has is open.
LEMMA AtPipe ==
  ASSUME PipeInv, NEW p \in Proc, th[p].pipe # "none"
  PROVE  /\ th[p].pipe \in Page /\ pipe[th[p].pipe] \in Pipes
         /\ th[p].pc \in Reading => pipe[th[p].pipe].readopen
         /\ th[p].pc \in Writing => pipe[th[p].pipe].writeopen
         /\ th[p].pc = "close" => /\ th[p].writable => pipe[th[p].pipe].writeopen
                                  /\ ~th[p].writable => pipe[th[p].pipe].readopen
         /\ th[p].pc \in Reading \cup Writing \cup {"close", "kfree"}
  <1> DEFINE g == th[p].pipe
  <1>1. th[p] \in Threads /\ g \in Page /\ pipe[g] \in {NoPipe} \cup Pipes
    BY DEF PipeInv, PipeTypeOK, Threads
  <1>2. Holds(p) /\ Frees(p) /\ EndOK(g, FALSE, pipe[g].readopen) /\ EndOK(g, TRUE, pipe[g].writeopen)
    BY <1>1 DEF PipeInv, EndsOK
  <1>3. ofile[p] \subseteq Files
    BY DEF PipeInv, PipeTypeOK
  <1>4. th[p].pc \in Reading => pipe[g].readopen
    BY <1>1, <1>2, <1>3 DEF Holds, EndOK
  <1>5. th[p].pc \in Writing => pipe[g].writeopen
    BY <1>1, <1>2, <1>3 DEF Holds, EndOK
  <1>6. th[p].pc = "close" => /\ th[p].writable => pipe[g].writeopen
                              /\ ~th[p].writable => pipe[g].readopen
    <2>1. th[p].writable = TRUE \/ th[p].writable = FALSE
      BY <1>1 DEF Threads
    <2> QED
      BY <1>2, <2>1 DEF EndOK, Closes
  <1>7. th[p].pc \in Reading \cup Writing \cup {"close", "kfree"}
    BY <1>1, <1>2 DEF Threads, Holds, Reading, Writing
  <1>8. pipe[g] # NoPipe
    <2>1. th[p].pc = "kfree" => pipe[g] # NoPipe
      BY <1>2 DEF Frees
    <2> QED
      BY <1>1, <1>4, <1>5, <1>6, <1>7, <2>1, Unlike DEF Threads
  <1> QED
    BY <1>1, <1>4, <1>5, <1>6, <1>7, <1>8

-----------------------------------------------------------------------------
(* What a step leaves alone.                                               *)

\* The process p goes on as it was, or is woken up.
Wakes(p) == \/ th'[p] = th[p]
            \/ th[p].pc = "readwait" /\ th'[p] = [th[p] EXCEPT !.pc = "read"]
            \/ th[p].pc = "writewait" /\ th'[p] = [th[p] EXCEPT !.pc = "write"]

\* What a process that at most wakes up is like after that.
LEMMA Woken ==
  ASSUME NEW p \in Proc, th[p] \in Threads, Wakes(p)
  PROVE  /\ th'[p] \in Threads
         /\ th'[p].pipe = th[p].pipe /\ th'[p].todo = th[p].todo
         /\ th'[p].writable = th[p].writable
         /\ th'[p].pc \in Reading <=> th[p].pc \in Reading
         /\ th'[p].pc \in Writing <=> th[p].pc \in Writing
         /\ \A x \in {"user", "ret", "close", "kfree", "rsleep", "wsleep"} :
              th'[p].pc = x <=> th[p].pc = x
         /\ th'[p].pc = "readwait" => th[p].pc = "readwait"
         /\ th'[p].pc = "writewait" => th[p].pc = "writewait"
         /\ th'[p].pc \in {"user", "ret", "close", "kfree", "rsleep", "wsleep"} =>
              th'[p] = th[p]
  <1>1. CASE th'[p] = th[p]
    BY <1>1
  <1>2. CASE th[p].pc = "readwait" /\ th'[p] = [th[p] EXCEPT !.pc = "read"]
    BY <1>2 DEF Threads, Reading, Writing
  <1>3. CASE th[p].pc = "writewait" /\ th'[p] = [th[p] EXCEPT !.pc = "write"]
    BY <1>3 DEF Threads, Reading, Writing
  <1> QED
    BY <1>1, <1>2, <1>3 DEF Wakes

\* What wakeup() does.
LEMMA Wakeups ==
  ASSUME NEW t \in [Proc -> Threads], NEW g \in Page, NEW c \in {"read", "write"}, NEW p \in Proc,
         th' = Wakeup(t, g, c), t[p] = th[p]
  PROVE  /\ Wakes(p)
         /\ th[p].pipe # g => th'[p] = th[p]
         /\ th[p].pipe = g /\ th[p].pc = "readwait" /\ c = "read" => th'[p].pc = "read"
         /\ th[p].pipe = g /\ th[p].pc = "writewait" /\ c = "write" => th'[p].pc = "write"
  <1>1. th'[p] = IF t[p].pipe = g /\ t[p].pc = IF c = "read" THEN "readwait" ELSE "writewait"
                 THEN [t[p] EXCEPT !.pc = c] ELSE t[p]
    BY DEF Wakeup
  <1>2. t[p] \in Threads
    OBVIOUS
  <1> QED
    BY <1>1, <1>2 DEF Wakes, Threads

\* wakeup() leaves alone who does not sleep.
LEMMA Unwoken ==
  ASSUME NEW t \in [Proc -> Threads], NEW g \in Page, NEW c \in {"read", "write"}, NEW p \in Proc,
         th' = Wakeup(t, g, c), t[p].pc \notin {"readwait", "writewait"}
  PROVE  th'[p] = t[p]
  BY DEF Wakeup

LEMMA HoldsKeep ==
  ASSUME NEW p \in Proc, th[p] \in Threads, Holds(p), Wakes(p), ofile'[p] = ofile[p],
         \A f \in ofile[p] : file'[f].pipe = file[f].pipe /\ file'[f].writable = file[f].writable
  PROVE  Holds(p)'
  <1>1. /\ th'[p].pipe = th[p].pipe /\ th'[p].todo = th[p].todo
        /\ th'[p].pc \in Reading <=> th[p].pc \in Reading
        /\ th'[p].pc \in Writing <=> th[p].pc \in Writing
        /\ th'[p].pc \in {"user", "ret"} <=> th[p].pc \in {"user", "ret"}
        /\ th'[p].pc = "user" => th[p].pc = "user" /\ th'[p] = th[p]
    BY Woken
  <1>2. \A f \in ofile[p], w \in BOOLEAN :
          Stands(f, th[p].pipe, w) => Stands(f, th[p].pipe, w)'
    BY <1>1 DEF Stands
  <1>3. (th[p].pc \in Reading => \E f \in ofile[p] : Stands(f, th[p].pipe, FALSE))'
    BY <1>1, <1>2 DEF Holds
  <1>4. (th[p].pc \in Writing => \E f \in ofile[p] : Stands(f, th[p].pipe, TRUE))'
    BY <1>1, <1>2 DEF Holds
  <1> QED
    BY <1>1, <1>3, <1>4 DEF Holds

LEMMA FreesKeep ==
  ASSUME NEW p \in Proc, Frees(p),
         th'[p].pc = "kfree" => th'[p] = th[p] /\ pipe'[th[p].pipe] = pipe[th[p].pipe],
         \A q \in Proc \ {p} : th'[q].pc = "kfree" => th'[q] = th[q]
  PROVE  Frees(p)'
  BY DEF Frees

LEMMA WaitsKeep ==
  ASSUME NEW p \in Proc, th[p] \in Threads, Waits(p), Wakes(p),
         th[p].pc \notin {"user", "ret"} => pipe'[th[p].pipe] = pipe[th[p].pipe]
  PROVE  Waits(p)'
  <1>1. /\ th'[p].pipe = th[p].pipe
        /\ \A x \in {"rsleep", "wsleep"} : th'[p].pc = x <=> th[p].pc = x
        /\ th'[p].pc = "readwait" => th[p].pc = "readwait"
        /\ th'[p].pc = "writewait" => th[p].pc = "writewait"
    BY Woken
  <1> QED
    BY <1>1 DEF Waits, Used

LEMMA RingKeeps ==
  ASSUME NEW g \in Page, RingOK(g), pipe'[g] = pipe[g],
         \A p \in Proc : th[p].pc = "kfree" /\ th[p].pipe = g
                            => th'[p].pc = "kfree" /\ th'[p].pipe = g
  PROVE  RingOK(g)'
  <1>1. Used(g)' = Used(g) /\ Queue(g)' = Queue(g)
    BY DEF Used, Queue, Oldest
  <1> QED
    BY <1>1 DEF RingOK

LEMMA FilesKeep ==
  ASSUME FilesOK, UNCHANGED <<file, ofile>>
  PROVE  FilesOK'
  BY DEF FilesOK, Openers

LEMMA EndsKeep ==
  ASSUME EndsOK, UNCHANGED file,
         \A p \in Proc : (th'[p].pc = "close" \/ th[p].pc = "close") => th'[p] = th[p],
         \A g \in Page : /\ pipe'[g].readopen = pipe[g].readopen
                         /\ pipe'[g].writeopen = pipe[g].writeopen
  PROVE  EndsOK'
  <1> SUFFICES ASSUME NEW g \in Page
               PROVE  (EndOK(g, FALSE, pipe[g].readopen) /\ EndOK(g, TRUE, pipe[g].writeopen))'
    BY DEF EndsOK
  <1>1. \A f, w : Stands(f, g, w)' <=> Stands(f, g, w)
    BY DEF Stands
  <1>2. \A p \in Proc : \A w : Closes(p, g, w)' <=> Closes(p, g, w)
    BY DEF Closes
  <1>3. EndOK(g, FALSE, pipe[g].readopen) /\ EndOK(g, TRUE, pipe[g].writeopen)
    BY DEF EndsOK
  <1>4. EndOK(g, FALSE, pipe[g].readopen)'
    BY <1>1, <1>2, <1>3 DEF EndOK
  <1>5. EndOK(g, TRUE, pipe[g].writeopen)'
    BY <1>1, <1>2, <1>3 DEF EndOK
  <1> QED
    BY <1>4, <1>5

\* Steps inside one call of p, in which neither a file nor a pipe changes.
LEMMA Calm ==
  ASSUME PipeInv, NEW p \in Proc, NEW t \in Threads, th' = [th EXCEPT ![p] = t],
         t.pc \notin {"close", "kfree"}, th[p].pc \notin {"close", "kfree"},
         UNCHANGED <<file, ofile, pipe>>, killed' \in SUBSET Proc, (Holds(p) /\ Waits(p))'
  PROVE  PipeInv'
  <1>1. PipeTypeOK /\ FilesOK /\ EndsOK
    BY DEF PipeInv
  <1>2. th \in [Proc -> Threads] /\ th'[p] = t /\ \A q \in Proc \ {p} : th'[q] = th[q]
    BY <1>1 DEF PipeTypeOK
  <1>3. PipeTypeOK'
    BY <1>1, <1>2 DEF PipeTypeOK
  <1>4. FilesOK'
    BY <1>1, FilesKeep
  <1>5. EndsOK'
    BY <1>1, <1>2, EndsKeep
  <1>6. ASSUME NEW q \in Proc PROVE (Holds(q) /\ Waits(q) /\ Frees(q))'
    <2>1. Holds(q) /\ Waits(q) /\ Frees(q)
      BY DEF PipeInv
    <2>2. Frees(q)'
      BY <1>2, <2>1, FreesKeep
    <2>3. q # p => Holds(q)' /\ Waits(q)'
      BY <1>2, <2>1, HoldsKeep, WaitsKeep DEF Wakes
    <2> QED
      BY <2>2, <2>3
  <1>7. ASSUME NEW g \in Page PROVE RingOK(g)'
    <2>1. RingOK(g)
      BY DEF PipeInv
    <2> QED
      BY <1>2, <2>1, RingKeeps
  <1> QED
    BY <1>3, <1>4, <1>5, <1>6, <1>7 DEF PipeInv

-----------------------------------------------------------------------------
(* Every step keeps the invariant.                                         *)

LEMMA InitPipe ==
  ASSUME PipeInit
  PROVE  PipeInv
  <1>1. /\ NoFile \in [ref : Nat, writable : BOOLEAN, pipe : Page \cup {"none"}]
        /\ NoFile.pipe = "none" /\ NoFile.ref = 0
    BY DEF NoFile
  <1>2. /\ User \in Threads /\ User.pc = "user" /\ User.pipe = "none"
    <2>1. <<>> \in Seq(Byte \cup {"junk", "room"})
      BY EmptySeq
    <2> QED
      BY <2>1 DEF User, Threads
  <1>3. PipeTypeOK
    BY <1>1, <1>2 DEF PipeTypeOK, PipeInit
  <1>4. FilesOK
    <2> SUFFICES ASSUME NEW f \in Files
                 PROVE  file[f] = NoFile /\ Cardinality(Openers(f)) = 0
      BY <1>1 DEF FilesOK
    <2>1. Openers(f) = {}
      BY DEF PipeInit, Openers
    <2> QED
      BY <2>1, FS_EmptySet DEF PipeInit
  <1>5. EndsOK
    <2> SUFFICES ASSUME NEW g \in Page
                 PROVE  EndOK(g, FALSE, pipe[g].readopen) /\ EndOK(g, TRUE, pipe[g].writeopen)
      BY DEF EndsOK
    <2>1. pipe[g].readopen = FALSE /\ pipe[g].writeopen = FALSE
      BY Unlike DEF PipeInit
    <2>2. \A f \in Files : \A w : ~Stands(f, g, w)
      BY <1>1, PipeAssumption DEF PipeInit, Stands
    <2>3. \A p \in Proc : \A w : ~Closes(p, g, w)
      BY <1>2 DEF PipeInit, Closes
    <2>4. EndOK(g, FALSE, pipe[g].readopen)
      BY <2>1, <2>2, <2>3 DEF EndOK
    <2>5. EndOK(g, TRUE, pipe[g].writeopen)
      BY <2>1, <2>2, <2>3 DEF EndOK
    <2> QED
      BY <2>4, <2>5
  <1>6. ASSUME NEW p \in Proc PROVE Holds(p) /\ Frees(p) /\ Waits(p)
    BY <1>2 DEF PipeInit, Holds, Frees, Waits, Reading, Writing
  <1>7. ASSUME NEW g \in Page PROVE RingOK(g)
    BY DEF PipeInit, RingOK
  <1> QED
    BY <1>3, <1>4, <1>5, <1>6, <1>7 DEF PipeInv

\* A process in a program.
LEMMA AtUser == /\ User \in Threads /\ User.pc = "user" /\ User.pipe = "none"
                /\ User.todo = <<>>
  <1>1. <<>> \in Seq(Byte \cup {"junk", "room"})
    BY EmptySeq
  <1> QED
    BY <1>1 DEF User, Threads

\* p becomes a process in a program.
LEMMA BackToUser ==
  ASSUME NEW p \in Proc, th'[p] = User
  PROVE  (Holds(p) /\ Waits(p) /\ Frees(p))'
  BY AtUser DEF Holds, Waits, Frees, Reading, Writing

LEMMA KeepsPipeRead ==
  ASSUME PipeInv, NEW p \in Proc, NEW f \in Files, NEW n \in IoSize, PipeRead(p, f, n)
  PROVE  PipeInv'
  <1> DEFINE todo == [i \in 1..n |-> "room"]
             t == [pc |-> "read", pipe |-> file[f].pipe, writable |-> FALSE, todo |-> todo]
  <1>1. n \in Nat \ {0}
    BY PipeAssumption
  <1>2. todo \in Seq({"room"}) /\ Len(todo) = n
    BY <1>1
  <1>3. todo \in Seq(Byte \cup {"junk", "room"}) /\ todo # <<>>
    BY <1>1, <1>2, SeqMonotonic, EmptySeq
  <1>4. file[f].pipe \in Page /\ file[f].writable = FALSE /\ f \in ofile[p] /\ th \in [Proc -> Threads]
    BY DEF PipeInv, PipeTypeOK, PipeRead
  <1> HIDE DEF todo
  <1>5. t \in Threads /\ t.pc = "read"
    BY <1>3, <1>4 DEF Threads
  <1>6. th' = [th EXCEPT ![p] = t] /\ th'[p] = t
    BY <1>4 DEF PipeRead, todo
  <1>7. UNCHANGED <<file, ofile, pipe, killed>> /\ th[p].pc = "user" /\ killed \in SUBSET Proc
    BY AtUser DEF PipeRead, PipeInv, PipeTypeOK
  <1>8. Holds(p)'
    <2>1. Stands(f, th[p].pipe, FALSE)'
      BY <1>4, <1>6, <1>7 DEF Stands
    <2> QED
      BY <1>3, <1>4, <1>6, <1>7, <2>1, PipeAssumption DEF Holds, Reading, Writing
  <1>9. Waits(p)'
    BY <1>6 DEF Waits
  <1> HIDE DEF t
  <1> QED
    BY <1>5, <1>6, <1>7, <1>8, <1>9, Calm

LEMMA KeepsPipeWrite ==
  ASSUME PipeInv, NEW p \in Proc, NEW f \in Files, NEW bs \in Message, PipeWrite(p, f, bs)
  PROVE  PipeInv'
  <1> DEFINE t == [pc |-> "write", pipe |-> file[f].pipe, writable |-> TRUE, todo |-> bs]
  <1>1. bs \in Seq(Byte)
    BY PipeAssumption
  <1>3. bs \in Seq(Byte \cup {"junk", "room"})
    BY <1>1, SeqMonotonic
  <1>4. file[f].pipe \in Page /\ file[f].writable = TRUE /\ f \in ofile[p] /\ th \in [Proc -> Threads]
    BY DEF PipeInv, PipeTypeOK, PipeWrite
  <1>5. t \in Threads /\ t.pc = "write"
    BY <1>3, <1>4 DEF Threads
  <1>6. th' = [th EXCEPT ![p] = t] /\ th'[p] = t
    BY <1>4 DEF PipeWrite
  <1>7. UNCHANGED <<file, ofile, pipe, killed>> /\ th[p].pc = "user" /\ killed \in SUBSET Proc
    BY AtUser DEF PipeWrite, PipeInv, PipeTypeOK
  <1>8. Holds(p)'
    <2>1. Stands(f, th[p].pipe, TRUE)'
      BY <1>4, <1>6, <1>7 DEF Stands
    <2> QED
      BY <1>1, <1>4, <1>6, <1>7, <2>1, PipeAssumption DEF Holds, Reading, Writing
  <1>9. Waits(p)'
    BY <1>6 DEF Waits
  <1> HIDE DEF t
  <1> QED
    BY <1>5, <1>6, <1>7, <1>8, <1>9, Calm

LEMMA KeepsReturn ==
  ASSUME PipeInv, NEW p \in Proc, PipeReturn(p)
  PROVE  PipeInv'
  <1>1. th' = [th EXCEPT ![p] = User] /\ th'[p] = User /\ th[p].pc = "ret"
        /\ UNCHANGED <<file, ofile, pipe, killed>> /\ killed \in SUBSET Proc
    BY DEF PipeReturn, PipeInv, PipeTypeOK
  <1> QED
    BY <1>1, AtUser, BackToUser, Calm

LEMMA KeepsSleep ==
  ASSUME PipeInv, NEW p \in Proc, PipeSleep(p)
  PROVE  PipeInv'
  <1> DEFINE x == IF th[p].pc = "rsleep" THEN "readwait" ELSE "writewait"
             t == [th[p] EXCEPT !.pc = x]
  <1>1. th[p] \in Threads /\ Holds(p) /\ Waits(p) /\ killed \in SUBSET Proc
    BY DEF PipeInv, PipeTypeOK
  <1>2. /\ th' = [th EXCEPT ![p] = t] /\ th'[p] = t /\ th[p].pc \in {"rsleep", "wsleep"}
        /\ UNCHANGED <<file, ofile, pipe, killed>>
    BY DEF PipeSleep, PipeInv, PipeTypeOK
  <1>3. t \in Threads /\ t.pc = x /\ t.pipe = th[p].pipe /\ t.todo = th[p].todo
    BY <1>1 DEF Threads
  <1>7. x \in {"readwait", "writewait"}
    OBVIOUS
  <1> HIDE DEF t
  <1>4. Holds(p)'
    BY <1>1, <1>2, <1>3 DEF Holds, Reading, Writing, Stands
  <1>5. Waits(p)'
    BY <1>1, <1>2, <1>3 DEF Waits, Used
  <1>6. t.pc \notin {"close", "kfree"} /\ th[p].pc \notin {"close", "kfree"}
    BY <1>2, <1>3, <1>7
  <1> HIDE DEF x
  <1> QED
    BY <1>1, <1>2, <1>3, <1>4, <1>5, <1>6, Calm

LEMMA KeepsWaking ==
  ASSUME PipeInv, DOMAIN th' = Proc, th' = [q \in Proc |-> th'[q]], \A q \in Proc : Wakes(q),
         UNCHANGED <<file, ofile, pipe>>, killed' \in SUBSET Proc
  PROVE  PipeInv'
  <1>1. PipeTypeOK /\ FilesOK /\ EndsOK
    BY DEF PipeInv
  <1>2. ASSUME NEW q \in Proc
        PROVE  /\ th[q] \in Threads /\ th'[q] \in Threads
               /\ th'[q].pipe = th[q].pipe
               /\ \A x \in {"close", "kfree"} : th'[q].pc = x <=> th[q].pc = x
               /\ th'[q].pc \in {"close", "kfree"} => th'[q] = th[q]
    <2>1. th[q] \in Threads /\ Wakes(q)
      BY <1>1 DEF PipeTypeOK
    <2> QED
      BY <2>1, Woken
  <1>3. PipeTypeOK'
    BY <1>1, <1>2 DEF PipeTypeOK
  <1>4. FilesOK'
    BY <1>1, FilesKeep
  <1>5. EndsOK'
    BY <1>1, <1>2, EndsKeep
  <1>6. ASSUME NEW q \in Proc PROVE (Holds(q) /\ Waits(q) /\ Frees(q))'
    <2>1. Holds(q) /\ Waits(q) /\ Frees(q)
      BY DEF PipeInv
    <2>2. Frees(q)'
      BY <1>2, <2>1, FreesKeep
    <2>3. Holds(q)' /\ Waits(q)'
      BY <1>2, <2>1, HoldsKeep, WaitsKeep
    <2> QED
      BY <2>2, <2>3
  <1>7. ASSUME NEW g \in Page PROVE RingOK(g)'
    <2>1. RingOK(g)
      BY DEF PipeInv
    <2> QED
      BY <1>2, <2>1, RingKeeps
  <1> QED
    BY <1>3, <1>4, <1>5, <1>6, <1>7 DEF PipeInv

LEMMA KeepsKill ==
  ASSUME PipeInv, NEW p \in Proc, PipeKill(p)
  PROVE  PipeInv'
  <1>1. th \in [Proc -> Threads] /\ killed' \in SUBSET Proc /\ UNCHANGED <<file, ofile, pipe>>
    BY DEF PipeInv, PipeTypeOK, PipeKill
  <1>2. th' = [th EXCEPT ![p].pc = CASE @ = "readwait" -> "read"
                                     [] @ = "writewait" -> "write"
                                     [] OTHER -> @]
    BY DEF PipeKill
  <1>3. DOMAIN th' = Proc /\ th' = [q \in Proc |-> th'[q]]
    BY <1>1, <1>2
  <1>4. ASSUME NEW q \in Proc PROVE Wakes(q)
    <2>1. q # p => th'[q] = th[q]
      BY <1>1, <1>2
    <2>2. th'[p] = [th[p] EXCEPT !.pc = CASE @ = "readwait" -> "read"
                                          [] @ = "writewait" -> "write"
                                          [] OTHER -> @]
      BY <1>1, <1>2
    <2>3. th[p].pc \notin {"readwait", "writewait"} => th'[p] = th[p]
      BY <1>1, <2>2 DEF Threads
    <2>4. th[p].pc = "readwait" => th'[p] = [th[p] EXCEPT !.pc = "read"]
      BY <2>2
    <2>5. th[p].pc = "writewait" => th'[p] = [th[p] EXCEPT !.pc = "write"]
      BY <2>2
    <2> QED
      BY <2>1, <2>3, <2>4, <2>5 DEF Wakes
  <1> QED
    BY <1>1, <1>3, <1>4, KeepsWaking

\* Who has a file open, counted.
LEMMA Counting ==
  ASSUME NEW S \in SUBSET Proc
  PROVE  /\ Cardinality(S) \in Nat /\ (Cardinality(S) = 0 <=> S = {})
         /\ \A p \in Proc : /\ p \notin S => Cardinality(S \cup {p}) = Cardinality(S) + 1
                            /\ p \in S => Cardinality(S \ {p}) = Cardinality(S) - 1
  <1>1. IsFiniteSet(S)
    BY PipeAssumption, FS_Subset
  <1> QED
    BY <1>1, FS_EmptySet, FS_CardinalityType, FS_AddElement, FS_RemoveElement

\* A file without references.
LEMMA Unopened ==
  ASSUME PipeInv, NEW f \in Files, file[f].ref = 0
  PROVE  file[f] = NoFile /\ file[f].pipe = "none" /\ \A p \in Proc : f \notin ofile[p]
  <1>1. Cardinality(Openers(f)) = 0 /\ file[f] = NoFile
    BY DEF PipeInv, FilesOK
  <1>2. Openers(f) \in SUBSET Proc
    BY DEF Openers
  <1>3. Openers(f) = {}
    BY <1>1, <1>2, Counting
  <1> QED
    BY <1>1, <1>3 DEF NoFile, Openers

\* A process that gets the file f, one that loses it, and one for which nothing changes.
LEMMA GetsFile ==
  ASSUME NEW p \in Proc, \A q \in Proc \ {p} : ofile'[q] = ofile[q],
         NEW f, f \notin ofile[p], f \in ofile'[p]
  PROVE  Cardinality(Openers(f)') = Cardinality(Openers(f)) + 1
  <1>1. Openers(f)' = Openers(f) \cup {p} /\ p \notin Openers(f) /\ Openers(f) \in SUBSET Proc
    BY DEF Openers
  <1> QED
    BY <1>1, Counting

LEMMA LosesFile ==
  ASSUME NEW p \in Proc, \A q \in Proc \ {p} : ofile'[q] = ofile[q],
         NEW f, f \in ofile[p], f \notin ofile'[p]
  PROVE  Cardinality(Openers(f)') = Cardinality(Openers(f)) - 1
  <1>1. Openers(f)' = Openers(f) \ {p} /\ p \in Openers(f) /\ Openers(f) \in SUBSET Proc
    BY DEF Openers
  <1> QED
    BY <1>1, Counting

LEMMA SameFile ==
  ASSUME NEW p \in Proc, \A q \in Proc \ {p} : ofile'[q] = ofile[q],
         NEW f, f \in ofile[p] <=> f \in ofile'[p]
  PROVE  Cardinality(Openers(f)') = Cardinality(Openers(f))
  <1>1. Openers(f)' = Openers(f)
    BY DEF Openers
  <1> QED
    BY <1>1

\* The ends when only references are counted.
LEMMA EndsSame ==
  ASSUME EndsOK, UNCHANGED <<pipe, th>>,
         \A e \in Files : file'[e].pipe = file[e].pipe /\ file'[e].writable = file[e].writable
  PROVE  EndsOK'
  <1> SUFFICES ASSUME NEW g \in Page
               PROVE  (EndOK(g, FALSE, pipe[g].readopen) /\ EndOK(g, TRUE, pipe[g].writeopen))'
    BY DEF EndsOK
  <1>1. \A e \in Files : \A w : Stands(e, g, w)' <=> Stands(e, g, w)
    BY DEF Stands
  <1>2. \A q \in Proc : \A w : Closes(q, g, w)' <=> Closes(q, g, w)
    BY DEF Closes
  <1>3. EndOK(g, FALSE, pipe[g].readopen) /\ EndOK(g, TRUE, pipe[g].writeopen)
    BY DEF EndsOK
  <1>4. EndOK(g, FALSE, pipe[g].readopen)'
    BY <1>1, <1>2, <1>3 DEF EndOK
  <1>5. EndOK(g, TRUE, pipe[g].writeopen)'
    BY <1>1, <1>2, <1>3 DEF EndOK
  <1> QED
    BY <1>4, <1>5

\* The processes when they only get more files.
LEMMA ThreadsSame ==
  ASSUME PipeInv, UNCHANGED <<pipe, th>>, NEW q \in Proc, ofile[q] \subseteq ofile'[q],
         \A e \in Files : file'[e].pipe = file[e].pipe /\ file'[e].writable = file[e].writable
  PROVE  (Holds(q) /\ Frees(q) /\ Waits(q))'
  <1>1. Holds(q) /\ Waits(q) /\ Frees(q) /\ th[q] \in Threads /\ ofile[q] \subseteq Files
    BY DEF PipeInv, PipeTypeOK
  <1>2. Frees(q)' /\ Waits(q)'
    BY <1>1, FreesKeep, WaitsKeep DEF Wakes
  <1>3. \A e \in ofile[q] : \A w : Stands(e, th[q].pipe, w) => Stands(e, th[q].pipe, w)'
    BY <1>1 DEF Stands
  <1>4. Holds(q)'
    BY <1>1, <1>3 DEF Holds
  <1> QED
    BY <1>2, <1>4

\* The bytes when neither pipes nor processes change.
LEMMA RingsSame ==
  ASSUME PipeInv, UNCHANGED <<pipe, th>>, NEW g \in Page
  PROVE  RingOK(g)'
  <1>1. RingOK(g)
    BY DEF PipeInv
  <1> QED
    BY <1>1, RingKeeps

LEMMA KeepsFilealloc ==
  ASSUME PipeInv, NEW p \in Proc, filealloc(p)
  PROVE  PipeInv'
  <1>1. PipeTypeOK /\ FilesOK /\ EndsOK
    BY DEF PipeInv
  <1>2. PICK f \in Files : /\ file[f].ref = 0
                           /\ file' = [file EXCEPT ![f].ref = 1]
                           /\ ofile' = [ofile EXCEPT ![p] = @ \cup {f}]
    <2>1. PICK f \in Files : /\ \A e \in 1..f : (file[e].ref = 0) = (e = f)
                             /\ file' = [file EXCEPT ![f].ref = 1]
                             /\ ofile' = [ofile EXCEPT ![p] = @ \cup {f}]
      BY DEF filealloc
    <2>2. f \in 1..f
      BY PipeAssumption DEF Files
    <2> QED
      BY <2>1, <2>2
  <1>3. UNCHANGED <<pipe, th, killed>>
    BY DEF filealloc
  <1>4. /\ \A e \in Files : file'[e].pipe = file[e].pipe /\ file'[e].writable = file[e].writable
        /\ \A e \in Files \ {f} : file'[e] = file[e]
        /\ file'[f].ref = 1 /\ file'[f].pipe = "none"
    BY <1>1, <1>2, Unopened DEF PipeTypeOK
  <1>5. \A q \in Proc : f \notin ofile[q]
    BY <1>2, Unopened
  <1>6. PipeTypeOK'
    BY <1>1, <1>2, <1>3 DEF PipeTypeOK
  <1>7. FilesOK'
    <2> SUFFICES ASSUME NEW e \in Files
                 PROVE  /\ file'[e].ref = Cardinality(Openers(e)')
                        /\ file'[e].ref = 0 => file'[e] = NoFile
      BY DEF FilesOK
    <2>1. ofile'[p] = ofile[p] \cup {f} /\ \A q \in Proc \ {p} : ofile'[q] = ofile[q]
      BY <1>1, <1>2 DEF PipeTypeOK
    <2>2. CASE e = f
      <3>1. Cardinality(Openers(f)) = 0
        BY <1>1, <1>2 DEF FilesOK
      <3>2. Cardinality(Openers(f)') = Cardinality(Openers(f)) + 1
        BY <1>1, <1>5, <2>1, GetsFile
      <3> QED
        BY <1>4, <2>2, <3>1, <3>2
    <2>3. CASE e # f
      <3>1. Cardinality(Openers(e)') = Cardinality(Openers(e))
        BY <1>1, <2>1, <2>3, SameFile
      <3> QED
        BY <1>1, <1>4, <2>3, <3>1 DEF FilesOK
    <2> QED
      BY <2>2, <2>3
  <1>8. EndsOK'
    BY <1>1, <1>3, <1>4, EndsSame
  <1>9. ASSUME NEW q \in Proc PROVE (Holds(q) /\ Frees(q) /\ Waits(q))'
    <2>1. ofile[q] \subseteq ofile'[q]
      BY <1>1, <1>2 DEF PipeTypeOK
    <2> QED
      BY <1>3, <1>4, <2>1, ThreadsSame
  <1>10. ASSUME NEW g \in Page PROVE RingOK(g)'
    BY <1>3, RingsSame
  <1> QED
    BY <1>6, <1>7, <1>8, <1>9, <1>10 DEF PipeInv

LEMMA KeepsFork ==
  ASSUME PipeInv, NEW p \in Proc, NEW c \in Proc, fork(p, c)
  PROVE  PipeInv'
  <1>1. PipeTypeOK /\ FilesOK /\ EndsOK
    BY DEF PipeInv
  <1>2. /\ ofile'[c] = ofile[p] /\ ofile[c] = {} /\ ofile[p] \subseteq Files
        /\ \A q \in Proc \ {c} : ofile'[q] = ofile[q]
        /\ UNCHANGED <<pipe, th>> /\ killed' = killed \ {c}
    BY <1>1 DEF fork, PipeTypeOK
  <1>3. ASSUME NEW e \in Files
        PROVE  /\ file[e] \in [ref : Nat, writable : BOOLEAN, pipe : Page \cup {"none"}]
               /\ file'[e] \in [ref : Nat, writable : BOOLEAN, pipe : Page \cup {"none"}]
               /\ file'[e].pipe = file[e].pipe /\ file'[e].writable = file[e].writable
               /\ e \in ofile[p] => file'[e].ref = file[e].ref + 1
               /\ e \notin ofile[p] => file'[e] = file[e]
    <2>1. file[e] \in [ref : Nat, writable : BOOLEAN, pipe : Page \cup {"none"}]
      BY <1>1 DEF PipeTypeOK
    <2>2. file'[e] = IF e \in ofile[p] THEN [file[e] EXCEPT !.ref = @ + 1] ELSE file[e]
      BY DEF fork
    <2> QED
      BY <2>1, <2>2
  <1>4. PipeTypeOK'
    <2>1. file' = [f \in Files |-> file'[f]]
      BY DEF fork
    <2>2. file' \in [Files -> [ref : Nat, writable : BOOLEAN, pipe : Page \cup {"none"}]]
      BY <1>3, <2>1
    <2>3. ofile' \in [Proc -> SUBSET Files]
      BY <1>1, <1>2 DEF PipeTypeOK, fork
    <2> QED
      BY <1>1, <1>2, <2>2, <2>3 DEF PipeTypeOK
  <1>5. FilesOK'
    <2> SUFFICES ASSUME NEW e \in Files
                 PROVE  /\ file'[e].ref = Cardinality(Openers(e)')
                        /\ file'[e].ref = 0 => file'[e] = NoFile
      BY DEF FilesOK
    <2>1. file[e].ref = Cardinality(Openers(e)) /\ (file[e].ref = 0 => file[e] = NoFile)
      BY <1>1 DEF FilesOK
    <2>2. CASE e \in ofile[p]
      <3>1. Cardinality(Openers(e)') = Cardinality(Openers(e)) + 1
        BY <1>2, <2>2, GetsFile
      <3> QED
        BY <1>3, <2>1, <2>2, <3>1
    <2>3. CASE e \notin ofile[p]
      <3>1. Cardinality(Openers(e)') = Cardinality(Openers(e))
        BY <1>2, <2>3, SameFile
      <3> QED
        BY <1>3, <2>1, <2>3, <3>1
    <2> QED
      BY <2>2, <2>3
  <1>6. EndsOK'
    BY <1>1, <1>2, <1>3, EndsSame
  <1>7. ASSUME NEW q \in Proc PROVE (Holds(q) /\ Frees(q) /\ Waits(q))'
    <2>1. ofile[q] \subseteq ofile'[q]
      BY <1>2
    <2> QED
      BY <1>2, <1>3, <2>1, ThreadsSame
  <1>8. ASSUME NEW g \in Page PROVE RingOK(g)'
    BY <1>2, RingsSame
  <1> QED
    BY <1>4, <1>5, <1>6, <1>7, <1>8 DEF PipeInv

\* Nobody is at a page that is free.
LEMMA Deserted ==
  ASSUME PipeInv, NEW g \in Page, pipe[g] = NoPipe
  PROVE  /\ \A q \in Proc : th[q].pipe # g
         /\ \A f \in Files : file[f].pipe # g
  <1>1. \A q \in Proc : th[q].pipe # g
    BY AtPipe, Unlike, PipeAssumption
  <1>2. ASSUME NEW f \in Files PROVE file[f].pipe # g
    <2>1. file[f].writable \in BOOLEAN
      BY DEF PipeInv, PipeTypeOK
    <2>2. ~Stands(f, g, FALSE) /\ ~Stands(f, g, TRUE)
      BY Unlike DEF PipeInv, EndsOK, EndOK
    <2>3. file[f].writable = TRUE \/ file[f].writable = FALSE
      BY <2>1
    <2> QED
      BY <2>2, <2>3 DEF Stands
  <1> QED
    BY <1>1, <1>2

LEMMA KeepsPipealloc ==
  ASSUME PipeInv, NEW p \in Proc, pipealloc(p)
  PROVE  PipeInv'
  <1> DEFINE b == [data |-> [i \in 0..(PIPESIZE - 1) |-> "junk"], nread |-> 0, nwrite |-> 0,
                   readopen |-> TRUE, writeopen |-> TRUE]
  <1>1. PipeTypeOK /\ FilesOK /\ EndsOK
    BY DEF PipeInv
  <1>2. PICK f0 \in Files, f1 \in Files, g \in Page :
          /\ file[f0].ref = 0 /\ file[f1].ref = 0 /\ f0 < f1 /\ pipe[g] = NoPipe
          /\ file' = [file EXCEPT ![f0] = [ref |-> 1, writable |-> FALSE, pipe |-> g],
                                  ![f1] = [ref |-> 1, writable |-> TRUE, pipe |-> g]]
          /\ pipe' = [pipe EXCEPT ![g] = b]
          /\ ofile' = [ofile EXCEPT ![p] = @ \cup {f0, f1}]
    BY Zenon DEF pipealloc
  <1>3. UNCHANGED <<th, killed>> /\ f0 # f1
    BY <1>2, PipeAssumption DEF pipealloc, Files
  <1>4. b \in Pipes /\ b.nread = b.nwrite /\ b.readopen = TRUE /\ b.writeopen = TRUE
    BY Sizes DEF Pipes
  <1> HIDE DEF b
  <1>5. /\ pipe'[g] = b /\ \A h \in Page \ {g} : pipe'[h] = pipe[h]
        /\ ofile'[p] = ofile[p] \cup {f0, f1} /\ \A q \in Proc \ {p} : ofile'[q] = ofile[q]
        /\ \A e \in Files \ {f0, f1} : file'[e] = file[e]
        /\ file'[f0].ref = 1 /\ file'[f0].writable = FALSE /\ file'[f0].pipe = g
        /\ file'[f1].ref = 1 /\ file'[f1].writable = TRUE /\ file'[f1].pipe = g
    BY <1>1, <1>2, <1>3 DEF PipeTypeOK
  <1>6. /\ \A q \in Proc : f0 \notin ofile[q] /\ f1 \notin ofile[q]
        /\ file[f0].pipe = "none" /\ file[f1].pipe = "none"
    BY <1>2, Unopened
  <1>7. \A q \in Proc : th[q].pipe # g
    BY <1>2, Deserted
  <1>8. \A f \in Files : file[f].pipe # g
    BY <1>2, Deserted
  <1>9. PipeTypeOK'
    BY <1>1, <1>2, <1>3, <1>4 DEF PipeTypeOK
  <1>10. FilesOK'
    <2> SUFFICES ASSUME NEW e \in Files
                 PROVE  /\ file'[e].ref = Cardinality(Openers(e)')
                        /\ file'[e].ref = 0 => file'[e] = NoFile
      BY DEF FilesOK
    <2>1. file[e].ref = Cardinality(Openers(e)) /\ (file[e].ref = 0 => file[e] = NoFile)
      BY <1>1 DEF FilesOK
    <2>2. CASE e \in {f0, f1}
      <3>1. Cardinality(Openers(e)') = Cardinality(Openers(e)) + 1
        BY <1>5, <1>6, <2>2, GetsFile
      <3>2. file[e].ref = 0 /\ file'[e].ref = 1
        BY <1>2, <1>5, <2>2
      <3> QED
        BY <2>1, <3>1, <3>2
    <2>3. CASE e \notin {f0, f1}
      <3>1. Cardinality(Openers(e)') = Cardinality(Openers(e))
        BY <1>5, <2>3, SameFile
      <3> QED
        BY <1>5, <2>1, <2>3, <3>1
    <2> QED
      BY <2>2, <2>3
  <1>11. EndsOK'
    <2> SUFFICES ASSUME NEW h \in Page
                 PROVE  (EndOK(h, FALSE, pipe[h].readopen) /\ EndOK(h, TRUE, pipe[h].writeopen))'
      BY DEF EndsOK
    <2>1. \A q \in Proc : \A w : Closes(q, h, w)' <=> Closes(q, h, w)
      BY <1>3 DEF Closes
    <2>2. CASE h # g
      <3>1. \A e \in Files : \A w : Stands(e, h, w)' <=> Stands(e, h, w)
        BY <1>5, <1>6, <2>2, PipeAssumption DEF Stands
      <3>2. EndOK(h, FALSE, pipe[h].readopen) /\ EndOK(h, TRUE, pipe[h].writeopen)
        BY <1>1 DEF EndsOK
      <3>3. pipe'[h] = pipe[h]
        BY <1>5, <2>2
      <3>4. EndOK(h, FALSE, pipe[h].readopen)'
        BY <2>1, <3>1, <3>2, <3>3 DEF EndOK
      <3>5. EndOK(h, TRUE, pipe[h].writeopen)'
        BY <2>1, <3>1, <3>2, <3>3 DEF EndOK
      <3> QED
        BY <3>4, <3>5
    <2>3. CASE h = g
      <3>1. \A e \in Files : Stands(e, g, FALSE)' <=> e = f0
        BY <1>3, <1>5, <1>8 DEF Stands
      <3>2. \A e \in Files : Stands(e, g, TRUE)' <=> e = f1
        BY <1>3, <1>5, <1>8 DEF Stands
      <3>3. \A q \in Proc : \A w : ~Closes(q, g, w)'
        BY <1>3, <1>7 DEF Closes
      <3>4. EndOK(g, FALSE, pipe[g].readopen)'
        BY <1>4, <1>5, <3>1, <3>3 DEF EndOK
      <3>5. EndOK(g, TRUE, pipe[g].writeopen)'
        BY <1>4, <1>5, <3>2, <3>3 DEF EndOK
      <3> QED
        BY <2>3, <3>4, <3>5
    <2> QED
      BY <2>2, <2>3
  <1>12. ASSUME NEW q \in Proc PROVE (Holds(q) /\ Frees(q) /\ Waits(q))'
    <2>1. Holds(q) /\ Waits(q) /\ Frees(q) /\ th[q] \in Threads /\ ofile[q] \subseteq Files
      BY <1>1 DEF PipeInv, PipeTypeOK
    <2>2. th[q].pc \notin {"user", "ret"} => pipe'[th[q].pipe] = pipe[th[q].pipe]
      BY <1>5, <1>7, <2>1 DEF Holds, Threads
    <2>3. Frees(q)' /\ Waits(q)'
      BY <1>3, <2>1, <2>2, FreesKeep, WaitsKeep DEF Wakes
    <2>4. ofile[q] \subseteq ofile'[q]
      BY <1>5
    <2>5. \A e \in ofile[q] : \A w : Stands(e, th[q].pipe, w) => Stands(e, th[q].pipe, w)'
      BY <1>3, <1>5, <1>6, <2>1 DEF Stands
    <2>6. Holds(q)'
      BY <1>3, <2>1, <2>4, <2>5 DEF Holds
    <2> QED
      BY <2>3, <2>6
  <1>13. ASSUME NEW h \in Page PROVE RingOK(h)'
    <2>1. CASE h # g
      <3>1. RingOK(h)
        BY DEF PipeInv
      <3> QED
        BY <1>3, <1>5, <2>1, <3>1, RingKeeps
    <2>2. CASE h = g
      <3>1. Distance(b) = 0 /\ Content(b) \in Seq(Byte)
        BY <1>4, EmptyContent
      <3>2. Used(g)' = Distance(b) /\ Queue(g)' = Content(b)
        BY <1>5 DEF Used, Queue, Distance, Content
      <3> QED
        BY <1>4, <1>5, <2>2, <3>1, <3>2, Sizes DEF RingOK
    <2> QED
      BY <2>1, <2>2
  <1> QED
    BY <1>9, <1>10, <1>11, <1>12, <1>13 DEF PipeInv

LEMMA KeepsFileclose ==
  ASSUME PipeInv, NEW p \in Proc, NEW f \in Files, fileclose(p, f)
  PROVE  PipeInv'
  <1> DEFINE g == file[f].pipe
             w == file[f].writable
             t == [pc |-> "close", pipe |-> g, writable |-> w, todo |-> <<>>]
             Slot == [ref : Nat, writable : BOOLEAN, pipe : Page \cup {"none"}]
  <1>1. PipeTypeOK /\ FilesOK /\ EndsOK
    BY DEF PipeInv
  <1>2. /\ ofile'[p] = ofile[p] \ {f} /\ f \in ofile[p] /\ th[p] = User
        /\ \A q \in Proc \ {p} : ofile'[q] = ofile[q]
        /\ \A e \in Files \ {f} : file'[e] = file[e]
        /\ file'[f] = IF file[f].ref > 1 THEN [file[f] EXCEPT !.ref = @ - 1] ELSE NoFile
        /\ UNCHANGED <<pipe, killed>>
        /\ ofile' \in [Proc -> SUBSET Files]
    <2> DEFINE s == IF file[f].ref > 1 THEN [file[f] EXCEPT !.ref = @ - 1] ELSE NoFile
    <2>1. file' = [file EXCEPT ![f] = s]
      BY DEF fileclose
    <2>4. file \in [Files -> Slot]
      BY <1>1 DEF PipeTypeOK
    <2> HIDE DEF s, Slot
    <2>2. file'[f] = s /\ \A e \in Files \ {f} : file'[e] = file[e]
      BY <2>1, <2>4
    <2>3. /\ ofile'[p] = ofile[p] \ {f} /\ f \in ofile[p] /\ th[p] = User
          /\ \A q \in Proc \ {p} : ofile'[q] = ofile[q]
          /\ UNCHANGED <<pipe, killed>>
          /\ ofile' \in [Proc -> SUBSET Files]
      BY <1>1 DEF fileclose, PipeTypeOK
    <2> QED
      BY <2>2, <2>3 DEF s
  <1>3. file[f] \in Slot /\ file[f].ref \in Nat
    BY <1>1 DEF PipeTypeOK
  <1>4. Cardinality(Openers(f)') = file[f].ref - 1 /\ Cardinality(Openers(f)') \in Nat
    <2>1. Cardinality(Openers(f)') = Cardinality(Openers(f)) - 1
      BY <1>2, LosesFile
    <2>2. Openers(f)' \in SUBSET Proc
      BY DEF Openers
    <2> QED
      BY <1>1, <2>1, <2>2, Counting DEF FilesOK
  <1>5. NoFile \in Slot /\ NoFile.ref = 0 /\ NoFile.pipe = "none"
    BY DEF NoFile
  <1>6. /\ file'[f] \in Slot /\ file'[f].ref = file[f].ref - 1
        /\ file'[f].ref = 0 => file'[f] = NoFile
        /\ file[f].ref > 1 => file'[f].pipe = g /\ file'[f].writable = w
    <2>1. CASE file[f].ref > 1
      BY <1>2, <1>3, <2>1
    <2>2. CASE ~(file[f].ref > 1)
      BY <1>2, <1>3, <1>4, <1>5, <2>2
    <2> QED
      BY <2>1, <2>2
  <1>7. FilesOK'
    <2> SUFFICES ASSUME NEW e \in Files
                 PROVE  /\ file'[e].ref = Cardinality(Openers(e)')
                        /\ file'[e].ref = 0 => file'[e] = NoFile
      BY DEF FilesOK
    <2>1. file[e].ref = Cardinality(Openers(e)) /\ (file[e].ref = 0 => file[e] = NoFile)
      BY <1>1 DEF FilesOK
    <2>2. CASE e = f
      BY <1>4, <1>6, <2>2
    <2>3. CASE e # f
      <3>1. Cardinality(Openers(e)') = Cardinality(Openers(e))
        BY <1>2, <2>3, SameFile
      <3> QED
        BY <1>2, <2>1, <2>3, <3>1
    <2> QED
      BY <2>2, <2>3
  <1>8. file' \in [Files -> Slot]
    <2>1. file' = [file EXCEPT ![f] = file'[f]]
      BY <1>1 DEF fileclose, PipeTypeOK
    <2> QED
      BY <1>1, <1>6, <2>1 DEF PipeTypeOK
  <1> HIDE DEF Slot
  <1>9. CASE file[f].ref > 1
    <2>1. UNCHANGED th
      BY <1>9 DEF fileclose
    <2>2. \A e \in Files : file'[e].pipe = file[e].pipe /\ file'[e].writable = file[e].writable
      BY <1>2, <1>6, <1>9
    <2>3. EndsOK'
      BY <1>1, <1>2, <2>1, <2>2, EndsSame
    <2>4. ASSUME NEW q \in Proc PROVE (Holds(q) /\ Frees(q) /\ Waits(q))'
      <3>1. CASE q = p
        BY <1>2, <2>1, <3>1, BackToUser
      <3>2. CASE q # p
        <4>1. ofile[q] \subseteq ofile'[q]
          BY <1>2, <3>2
        <4> QED
          BY <1>2, <2>1, <2>2, <4>1, ThreadsSame
      <3> QED
        BY <3>1, <3>2
    <2>5. ASSUME NEW h \in Page PROVE RingOK(h)'
      BY <1>2, <2>1, RingsSame
    <2>6. PipeTypeOK'
      BY <1>1, <1>2, <1>8, <2>1 DEF PipeTypeOK, Slot
    <2> QED
      BY <1>7, <2>3, <2>4, <2>5, <2>6 DEF PipeInv
  <1>10. CASE ~(file[f].ref > 1)
    <2>1. \A q \in Proc \ {p} : f \notin ofile[q]
      <3>1. Cardinality(Openers(f)') = 0 /\ Openers(f)' \in SUBSET Proc
        BY <1>3, <1>4, <1>10 DEF Openers
      <3>2. Openers(f)' = {}
        BY <3>1, Counting
      <3> QED
        BY <1>2, <3>2 DEF Openers
    <2>2. file'[f] = NoFile
      BY <1>2, <1>10
    <2>3. \A e \in Files, h \in Page : \A v : Stands(e, h, v)' <=> e # f /\ Stands(e, h, v)
      BY <1>2, <1>5, <2>2, PipeAssumption DEF Stands
    <2>4. \A q \in Proc \ {p} : th'[q] = th[q]
      BY <1>1 DEF fileclose, PipeTypeOK
    <2>5. (g = "none" => th' = th) /\ (g # "none" => th'[p] = t)
      BY <1>1, <1>10 DEF fileclose, PipeTypeOK
    <2>6. t \in Threads
      BY <1>3, EmptySeq DEF Threads, Slot
    <2>7. th'[p] \in {User, t}
      BY <1>2, <2>5
    <2>8. th' \in [Proc -> Threads]
      BY <1>1, <2>6 DEF fileclose, PipeTypeOK
    <2>9. PipeTypeOK'
      BY <1>1, <1>2, <1>8, <2>8 DEF PipeTypeOK, Slot
    <2>10. EndsOK'
      <3> SUFFICES ASSUME NEW h \in Page, NEW v \in BOOLEAN, NEW open, EndOK(h, v, open)
                   PROVE  EndOK(h, v, open)'
        <4>1. ASSUME NEW h \in Page
              PROVE  /\ EndOK(h, FALSE, pipe[h].readopen) /\ EndOK(h, TRUE, pipe[h].writeopen)
                     /\ pipe'[h] = pipe[h]
          BY <1>1, <1>2 DEF EndsOK
        <4> QED
          BY <4>1 DEF EndsOK, EndOK
      <3>1. \A q \in Proc \ {p} : Closes(q, h, v)' <=> Closes(q, h, v)
        BY <2>4 DEF Closes
      <3>2. ~Closes(p, h, v)
        BY <1>2, AtUser DEF Closes
      <3>3. Closes(p, h, v)' <=> Stands(f, h, v)
        <4>1. CASE g = "none"
          BY <1>2, <2>5, <4>1, AtUser, PipeAssumption DEF Closes, Stands
        <4>2. CASE g # "none"
          BY <2>5, <4>2 DEF Closes, Stands
        <4> QED
          BY <4>1, <4>2
      <3>4. \A e \in Files : Stands(e, h, v)' <=> e # f /\ Stands(e, h, v)
        BY <2>3
      <3> QED
        BY <3>1, <3>2, <3>3, <3>4 DEF EndOK
    <2>11. ASSUME NEW q \in Proc PROVE (Holds(q) /\ Frees(q) /\ Waits(q))'
      <3>1. CASE q = p /\ g = "none"
        BY <1>2, <2>5, <3>1, BackToUser
      <3>2. CASE q = p /\ g # "none"
        <4>1. th'[q].pc = "close" /\ th'[q].pipe = g
          BY <2>5, <3>2
        <4> QED
          BY <3>2, <4>1 DEF Holds, Frees, Waits, Reading, Writing
      <3>3. CASE q # p
        <4>1. Holds(q) /\ Waits(q) /\ Frees(q) /\ th[q] \in Threads /\ ofile[q] \subseteq Files
          BY <1>1 DEF PipeInv, PipeTypeOK
        <4>2. Wakes(q) /\ ofile'[q] = ofile[q] /\ \A e \in ofile[q] : file'[e] = file[e]
          BY <1>2, <2>1, <2>4, <3>3, <4>1 DEF Wakes
        <4>3. \A r \in Proc : th'[r].pc = "kfree" => th'[r] = th[r]
          BY <1>2, <2>4, <2>7, AtUser
        <4> QED
          BY <1>2, <3>3, <2>4, <4>1, <4>2, <4>3, HoldsKeep, FreesKeep, WaitsKeep
      <3> QED
        BY <3>1, <3>2, <3>3
    <2>12. ASSUME NEW h \in Page PROVE RingOK(h)'
      <3>1. RingOK(h)
        BY DEF PipeInv
      <3> QED
        BY <1>2, <2>4, <3>1, AtUser, RingKeeps
    <2> QED
      BY <1>7, <2>9, <2>10, <2>11, <2>12 DEF PipeInv
  <1> QED
    BY <1>9, <1>10

\* What pipeclose() does: p closes its end of the pipe in g, which becomes b, and wakes up
\* who waits at the other end.
Shuts(p, g, b) ==
  /\ g = th[p].pipe /\ pipe[g] \in Pipes /\ th[p].writable \in BOOLEAN
  /\ pipe' = [pipe EXCEPT ![g] = b]
  /\ b.data = pipe[g].data /\ b.nread = pipe[g].nread /\ b.nwrite = pipe[g].nwrite
  /\ th[p].writable => pipe[g].writeopen /\ b.writeopen = FALSE /\ b.readopen = pipe[g].readopen
  /\ ~th[p].writable => pipe[g].readopen /\ b.readopen = FALSE /\ b.writeopen = pipe[g].writeopen
  /\ th' \in [Proc -> Threads]
  /\ b.readopen \/ b.writeopen => th'[p] = User
  /\ ~b.readopen /\ ~b.writeopen => th'[p].pc = "kfree" /\ th'[p].pipe = g
  /\ \A q \in Proc \ {p} :
       /\ Wakes(q) /\ (th[q].pipe # g => th'[q] = th[q])
       /\ th[q].pipe = g /\ th[q].pc = "readwait" /\ th[p].writable => th'[q].pc = "read"
       /\ th[q].pipe = g /\ th[q].pc = "writewait" /\ ~th[p].writable => th'[q].pc = "write"
  /\ UNCHANGED <<file, ofile, killed>> /\ ~Locked(g)

LEMMA CloseStep ==
  ASSUME PipeInv, NEW p \in Proc, pipeclose(p)
  PROVE  \E g \in Page, b \in Pipes : Shuts(p, g, b)
  <1>1. PipeTypeOK
    BY DEF PipeInv
  <1>2. th[p] \in Threads /\ th[p].pc = "close" /\ Holds(p)
    BY <1>1 DEF PipeTypeOK, PipeInv, pipeclose
  <1>3. th[p].pipe # "none"
    BY <1>2 DEF Holds
  <1>4. PICK g \in Page, w \in BOOLEAN : g = th[p].pipe /\ w = th[p].writable
    BY <1>2, <1>3 DEF Threads
  <1>5. pipe[g] \in Pipes /\ (w => pipe[g].writeopen) /\ (~w => pipe[g].readopen)
    BY <1>2, <1>3, <1>4, AtPipe
  <1>6. PICK left : left = IF w THEN [pipe[g] EXCEPT !.writeopen = FALSE]
                           ELSE [pipe[g] EXCEPT !.readopen = FALSE]
    OBVIOUS
  <1>7. /\ left \in Pipes /\ left.data = pipe[g].data
        /\ left.nread = pipe[g].nread /\ left.nwrite = pipe[g].nwrite
        /\ w => left.writeopen = FALSE /\ left.readopen = pipe[g].readopen
        /\ ~w => left.readopen = FALSE /\ left.writeopen = pipe[g].writeopen
    <2>1. CASE w
      BY <1>5, <1>6, <2>1 DEF Pipes
    <2>2. CASE ~w
      BY <1>5, <1>6, <2>2 DEF Pipes
    <2> QED
      BY <2>1, <2>2
  <1> DEFINE last == ~left.readopen /\ ~left.writeopen
             free == [th[p] EXCEPT !.pc = "kfree"]
             x == IF last THEN free ELSE User
             t == [th EXCEPT ![p] = x]
             c == IF w THEN "read" ELSE "write"
  <1>8. /\ ~Locked(g) /\ pipe' = [pipe EXCEPT ![g] = left] /\ th' = Wakeup(t, g, c)
        /\ UNCHANGED <<file, ofile, killed>>
    BY <1>4, <1>6 DEF pipeclose, Awaited
  <1>9. /\ free \in Threads /\ free.pc = "kfree" /\ free.pipe = g
    BY <1>2, <1>4 DEF Threads
  <1>10. /\ x \in Threads /\ (last => x.pc = "kfree" /\ x.pipe = g) /\ (~last => x = User)
         /\ x.pc \in {"kfree", "user"}
    BY <1>9, AtUser
  <1> HIDE DEF last, free, x
  <1>11. t \in [Proc -> Threads] /\ t[p] = x /\ \A q \in Proc \ {p} : t[q] = th[q]
    BY <1>1, <1>10 DEF PipeTypeOK
  <1>12. c \in {"read", "write"} /\ (w => c = "read") /\ (~w => c = "write")
    OBVIOUS
  <1> HIDE DEF t, c
  <1>13. th'[p] = x
    BY <1>8, <1>10, <1>11, <1>12, Unwoken
  <1>14. ASSUME NEW q \in Proc \ {p}
         PROVE  /\ Wakes(q) /\ th'[q] \in Threads
                /\ th[q].pipe # g => th'[q] = th[q]
                /\ th[q].pipe = g /\ th[q].pc = "readwait" /\ w => th'[q].pc = "read"
                /\ th[q].pipe = g /\ th[q].pc = "writewait" /\ ~w => th'[q].pc = "write"
    <2>1. th[q] \in Threads /\ t[q] = th[q]
      BY <1>1, <1>11 DEF PipeTypeOK
    <2>2. /\ Wakes(q)
          /\ th[q].pipe # g => th'[q] = th[q]
          /\ th[q].pipe = g /\ th[q].pc = "readwait" /\ c = "read" => th'[q].pc = "read"
          /\ th[q].pipe = g /\ th[q].pc = "writewait" /\ c = "write" => th'[q].pc = "write"
      BY <1>8, <1>11, <1>12, <2>1, Wakeups
    <2>3. th'[q] \in Threads
      BY <2>1, <2>2, Woken
    <2> QED
      BY <1>12, <2>1, <2>2, <2>3
  <1>15. th' \in [Proc -> Threads]
    <2>1. th' = [q \in Proc |-> th'[q]]
      BY <1>8 DEF Wakeup
    <2>2. \A q \in Proc : th'[q] \in Threads
      BY <1>10, <1>13, <1>14
    <2> QED
      BY <2>1, <2>2
  <1>16. /\ left.readopen \/ left.writeopen => th'[p] = User
         /\ ~left.readopen /\ ~left.writeopen => th'[p].pc = "kfree" /\ th'[p].pipe = g
    BY <1>10, <1>13 DEF last
  <1>17. Shuts(p, g, left)
    BY <1>4, <1>5, <1>7, <1>8, <1>14, <1>15, <1>16 DEF Shuts
  <1> QED
    BY <1>7, <1>17

LEMMA KeepsPipeclose ==
  ASSUME PipeInv, NEW p \in Proc, pipeclose(p)
  PROVE  PipeInv'
  <1>1. PipeTypeOK /\ FilesOK /\ EndsOK
    BY DEF PipeInv
  <1>2. th[p].pc = "close"
    BY DEF pipeclose
  <1>3. PICK g \in Page, left \in Pipes : Shuts(p, g, left)
    BY CloseStep
  <1>4. PICK w \in BOOLEAN : g = th[p].pipe /\ w = th[p].writable
    BY <1>3 DEF Shuts
  <1>5. pipe[g] \in Pipes /\ (w => pipe[g].writeopen) /\ (~w => pipe[g].readopen)
    BY <1>3, <1>4 DEF Shuts
  <1>7. /\ left.data = pipe[g].data
        /\ left.nread = pipe[g].nread /\ left.nwrite = pipe[g].nwrite
        /\ w => left.writeopen = FALSE /\ left.readopen = pipe[g].readopen
        /\ ~w => left.readopen = FALSE /\ left.writeopen = pipe[g].writeopen
    BY <1>3, <1>4 DEF Shuts
  <1> DEFINE last == ~left.readopen /\ ~left.writeopen
  <1>8. /\ ~Locked(g) /\ pipe' = [pipe EXCEPT ![g] = left] /\ th' \in [Proc -> Threads]
        /\ UNCHANGED <<file, ofile, killed>>
    BY <1>3 DEF Shuts
  <1>10. /\ last => th'[p].pc = "kfree" /\ th'[p].pipe = g
         /\ ~last => th'[p] = User
         /\ th'[p].pc \in {"kfree", "user"}
    BY <1>3, AtUser DEF Shuts
  <1> HIDE DEF last
  <1>14. ASSUME NEW q \in Proc \ {p}
         PROVE  /\ Wakes(q) /\ th[q] \in Threads
                /\ th[q].pipe # g => th'[q] = th[q]
                /\ th[q].pipe = g /\ th[q].pc = "readwait" /\ w => th'[q].pc = "read"
                /\ th[q].pipe = g /\ th[q].pc = "writewait" /\ ~w => th'[q].pc = "write"
                /\ th'[q].pipe = th[q].pipe /\ th'[q].writable = th[q].writable
                /\ \A y \in {"close", "kfree", "rsleep", "wsleep"} :
                     th'[q].pc = y <=> th[q].pc = y
                /\ th'[q].pc = "readwait" => th[q].pc = "readwait"
                /\ th'[q].pc = "writewait" => th[q].pc = "writewait"
                /\ th'[q].pc = "kfree" => th'[q] = th[q]
    <2>1. th[q] \in Threads
      BY <1>1 DEF PipeTypeOK
    <2>2. /\ Wakes(q)
          /\ th[q].pipe # g => th'[q] = th[q]
          /\ th[q].pipe = g /\ th[q].pc = "readwait" /\ w => th'[q].pc = "read"
          /\ th[q].pipe = g /\ th[q].pc = "writewait" /\ ~w => th'[q].pc = "write"
      BY <1>3, <1>4 DEF Shuts
    <2>3. /\ th'[q].pipe = th[q].pipe /\ th'[q].writable = th[q].writable
          /\ \A y \in {"close", "kfree", "rsleep", "wsleep"} :
               th'[q].pc = y <=> th[q].pc = y
          /\ th'[q].pc = "readwait" => th[q].pc = "readwait"
          /\ th'[q].pc = "writewait" => th[q].pc = "writewait"
          /\ th'[q].pc = "kfree" => th'[q] = th[q]
      BY <2>1, <2>2, Woken
    <2> QED
      BY <2>1, <2>2, <2>3
  <1>15. pipe'[g] = left /\ \A h \in Page \ {g} : pipe'[h] = pipe[h]
    BY <1>1, <1>8 DEF PipeTypeOK
  <1>16. ASSUME NEW q \in Proc, th[q].pc = "kfree" PROVE th[q].pipe # g
    <2>1. Frees(q)
      BY DEF PipeInv
    <2> QED
      BY <1>5, <1>16, <2>1 DEF Frees
  <1>17. PipeTypeOK'
    <2>4. pipe' \in [Page -> {NoPipe} \cup Pipes]
      BY <1>1, <1>8 DEF PipeTypeOK
    <2> QED
      BY <1>1, <1>8, <2>4 DEF PipeTypeOK
  <1>18. FilesOK'
    BY <1>1, <1>8, FilesKeep
  <1>19. EndsOK'
    <2>1. ASSUME NEW h \in Page, NEW v \in BOOLEAN
          PROVE  /\ \A f \in Files : Stands(f, h, v)' <=> Stands(f, h, v)
                 /\ \A q \in Proc : Closes(q, h, v)' <=> q # p /\ Closes(q, h, v)
                 /\ Closes(p, h, v) <=> h = g /\ v = w
      BY <1>2, <1>4, <1>8, <1>10, <1>14 DEF Stands, Closes
    <2>4. ASSUME NEW h \in Page
          PROVE  EndOK(h, FALSE, pipe[h].readopen) /\ EndOK(h, TRUE, pipe[h].writeopen)
      BY <1>1 DEF EndsOK
    <2>5. ASSUME NEW h \in Page
          PROVE  (EndOK(h, FALSE, pipe[h].readopen) /\ EndOK(h, TRUE, pipe[h].writeopen))'
      <3>4. /\ \A f \in Files : Stands(f, h, FALSE)' <=> Stands(f, h, FALSE)
            /\ \A q \in Proc : Closes(q, h, FALSE)' <=> q # p /\ Closes(q, h, FALSE)
            /\ Closes(p, h, FALSE) <=> h = g /\ w = FALSE
            /\ EndOK(h, FALSE, pipe[h].readopen)
        BY <2>1, <2>4
      <3>5. /\ \A f \in Files : Stands(f, h, TRUE)' <=> Stands(f, h, TRUE)
            /\ \A q \in Proc : Closes(q, h, TRUE)' <=> q # p /\ Closes(q, h, TRUE)
            /\ Closes(p, h, TRUE) <=> h = g /\ w = TRUE
            /\ EndOK(h, TRUE, pipe[h].writeopen)
        BY <2>1, <2>4
      <3>1. CASE h # g
        <4>1. EndOK(h, FALSE, pipe[h].readopen)'
          BY <1>15, <3>1, <3>4 DEF EndOK
        <4>2. EndOK(h, TRUE, pipe[h].writeopen)'
          BY <1>15, <3>1, <3>5 DEF EndOK
        <4> QED
          BY <4>1, <4>2
      <3>2. CASE h = g /\ w = TRUE
        <4>1. EndOK(g, FALSE, pipe[g].readopen)'
          BY <1>7, <1>15, <3>2, <3>4 DEF EndOK
        <4>2. EndOK(g, TRUE, pipe[g].writeopen)'
          BY <1>7, <1>15, <3>2, <3>5 DEF EndOK
        <4> QED
          BY <3>2, <4>1, <4>2
      <3>3. CASE h = g /\ w = FALSE
        <4>1. EndOK(g, FALSE, pipe[g].readopen)'
          BY <1>7, <1>15, <3>3, <3>4 DEF EndOK
        <4>2. EndOK(g, TRUE, pipe[g].writeopen)'
          BY <1>7, <1>15, <3>3, <3>5 DEF EndOK
        <4> QED
          BY <3>3, <4>1, <4>2
      <3> QED
        BY <3>1, <3>2, <3>3
    <2> QED
      BY <2>5 DEF EndsOK
  <1>20. ASSUME NEW q \in Proc PROVE (Holds(q) /\ Frees(q) /\ Waits(q))'
    <2>1. Holds(q) /\ Frees(q) /\ Waits(q)
      BY DEF PipeInv
    <2>2. CASE q = p /\ ~last
      BY <1>10, <2>2, BackToUser
    <2>3. CASE q = p /\ last
      <3>1. th'[p].pc = "kfree" /\ th'[p].pipe = g
        BY <1>10, <2>3
      <3>2. Holds(p)' /\ Waits(p)'
        BY <3>1, PipeAssumption DEF Holds, Waits, Reading, Writing
      <3>3. \A r \in Proc \ {p} : ~(th'[r].pc = "kfree" /\ th'[r].pipe = g)
        BY <1>14, <1>16
      <3>4. Frees(p)'
        BY <1>7, <1>15, <2>3, <3>1, <3>3, Unlike DEF Frees, last
      <3> QED
        BY <2>3, <3>2, <3>4
    <2>4. CASE q # p
      <3>1. Holds(q)'
        BY <1>8, <1>14, <2>1, <2>4, HoldsKeep
      <3>2. Frees(q)'
        <4> SUFFICES ASSUME th'[q].pc = "kfree" PROVE Frees(q)'
          BY DEF Frees
        <4>1. th'[q] = th[q] /\ th[q].pc = "kfree" /\ th[q].pipe # g
          BY <1>14, <1>16, <2>4
        <4>2. th[q].pipe \in Page
          BY <2>1, <4>1, <1>14, <2>4 DEF Holds, Threads
        <4>3. pipe'[th[q].pipe] = pipe[th[q].pipe]
          BY <1>15, <4>1, <4>2
        <4>4. \A r \in Proc \ {p} : th'[r].pc = "kfree" => th'[r] = th[r]
          BY <1>14
        <4>5. th'[p].pc = "kfree" => th'[p].pipe = g
          BY <1>10, AtUser
        <4> QED
          BY <2>1, <4>1, <4>3, <4>4, <4>5 DEF Frees
      <3>3. CASE th[q].pipe # g
        <4>1. th[q].pc \notin {"user", "ret"} => pipe'[th[q].pipe] = pipe[th[q].pipe]
          BY <1>14, <1>15, <2>1, <2>4, <3>3 DEF Holds, Threads
        <4> QED
          BY <1>14, <2>1, <2>4, <3>1, <3>2, <4>1, WaitsKeep
      <3>4. CASE th[q].pipe = g
        <4>1. th'[q].pc \notin {"rsleep", "wsleep"}
          BY <1>8, <1>14, <2>4, <3>4 DEF Locked
        <4>2. th'[q].pc = "readwait" => pipe'[g].writeopen
          BY <1>7, <1>14, <1>15, <2>1, <2>4, <3>4 DEF Waits
        <4>3. th'[q].pc = "writewait" => Used(g)' = PIPESIZE /\ pipe'[g].readopen
          BY <1>7, <1>14, <1>15, <2>1, <2>4, <3>4 DEF Waits, Used
        <4>4. Waits(q)'
          BY <1>14, <2>4, <3>4, <4>1, <4>2, <4>3 DEF Waits, Used
        <4> QED
          BY <3>1, <3>2, <4>4
      <3> QED
        BY <3>3, <3>4
    <2> QED
      BY <2>2, <2>3, <2>4
  <1>21. ASSUME NEW h \in Page PROVE RingOK(h)'
    <2>1. RingOK(h)
      BY DEF PipeInv
    <2>2. CASE h # g
      BY <1>2, <1>14, <1>15, <2>1, <2>2, RingKeeps
    <2>3. CASE h = g
      <3>1. Used(g)' = Used(g) /\ Queue(g)' = Queue(g)
        BY <1>7, <1>15 DEF Used, Queue, Oldest
      <3>2. Used(g) <= PIPESIZE /\ Queue(g) \in Seq(Byte)
        BY <1>5, <2>1, <2>3, Unlike DEF RingOK
      <3>3. left.readopen \/ left.writeopen \/ (th'[p].pc = "kfree" /\ th'[p].pipe = g)
        BY <1>10 DEF last
      <3>4. RingOK(g)'
        BY <1>15, <3>1, <3>2, <3>3 DEF RingOK
      <3> QED
        BY <2>3, <3>4
    <2> QED
      BY <2>2, <2>3
  <1> QED
    BY <1>17, <1>18, <1>19, <1>20, <1>21 DEF PipeInv

LEMMA KeepsFreePipe ==
  ASSUME PipeInv, NEW p \in Proc, FreePipe(p)
  PROVE  PipeInv'
  <1>1. PipeTypeOK /\ FilesOK /\ EndsOK
    BY DEF PipeInv
  <1>2. th[p] \in Threads /\ th[p].pc = "kfree" /\ Holds(p) /\ Frees(p)
    BY <1>1 DEF PipeTypeOK, PipeInv, FreePipe
  <1>3. PICK g \in Page : g = th[p].pipe
    BY <1>2 DEF Threads, Holds
  <1>4. /\ pipe[g] \in Pipes /\ ~pipe[g].readopen /\ ~pipe[g].writeopen
        /\ pipe[g].readopen = FALSE /\ pipe[g].writeopen = FALSE
    BY <1>1, <1>2, <1>3 DEF Frees, PipeTypeOK, Pipes
  <1>5. /\ th'[p] = User /\ \A q \in Proc \ {p} : th'[q] = th[q]
        /\ pipe'[g] = NoPipe /\ \A h \in Page \ {g} : pipe'[h] = pipe[h]
        /\ UNCHANGED <<file, ofile, killed>>
    BY <1>1, <1>3 DEF FreePipe, PipeTypeOK
  <1>6. ASSUME NEW q \in Proc \ {p} PROVE th[q].pipe # g
    <2> SUFFICES ASSUME th[q].pipe = g PROVE FALSE
      OBVIOUS
    <2>1. /\ th[q].pc \in Reading => pipe[g].readopen
          /\ th[q].pc \in Writing => pipe[g].writeopen
          /\ th[q].pc = "close" => /\ th[q].writable => pipe[g].writeopen
                                   /\ ~th[q].writable => pipe[g].readopen
          /\ th[q].pc \in Reading \cup Writing \cup {"close", "kfree"}
      BY <1>1, AtPipe, PipeAssumption
    <2>2. th[q].pc # "kfree"
      BY <1>2, <1>3 DEF Frees
    <2> QED
      BY <1>4, <2>1, <2>2
  <1>7. PipeTypeOK'
    BY <1>1, <1>3, AtUser DEF PipeTypeOK, FreePipe
  <1>8. FilesOK'
    BY <1>1, <1>5, FilesKeep
  <1>9. EndsOK'
    <2>1. \A h \in Page : pipe'[h].readopen = pipe[h].readopen /\ pipe'[h].writeopen = pipe[h].writeopen
      BY <1>4, <1>5, Unlike
    <2> QED
      BY <1>1, <1>2, <1>5, <2>1, AtUser, EndsKeep
  <1>10. ASSUME NEW q \in Proc PROVE (Holds(q) /\ Frees(q) /\ Waits(q))'
    <2>1. CASE q = p
      BY <1>5, <2>1, BackToUser
    <2>2. CASE q # p
      <3>1. Holds(q) /\ Frees(q) /\ Waits(q) /\ th[q] \in Threads
        BY <1>1 DEF PipeInv, PipeTypeOK
      <3>2. th[q].pc \notin {"user", "ret"} => pipe'[th[q].pipe] = pipe[th[q].pipe]
        BY <1>5, <1>6, <2>2, <3>1 DEF Holds, Threads
      <3>3. \A r \in Proc : th'[r].pc = "kfree" => th'[r] = th[r]
        BY <1>5, AtUser
      <3> QED
        BY <1>5, <2>2, <3>1, <3>2, <3>3, HoldsKeep, FreesKeep, WaitsKeep DEF Wakes
    <2> QED
      BY <2>1, <2>2
  <1>11. ASSUME NEW h \in Page PROVE RingOK(h)'
    <2>1. RingOK(h)
      BY DEF PipeInv
    <2>2. CASE h # g
      BY <1>3, <1>5, <2>1, <2>2, RingKeeps
    <2>3. CASE h = g
      BY <1>5, <2>3 DEF RingOK
    <2> QED
      BY <2>2, <2>3
  <1> QED
    BY <1>7, <1>8, <1>9, <1>10, <1>11 DEF PipeInv

\* Steps in which p moves bytes in the pipe in g.
LEMMA Transfer ==
  ASSUME PipeInv, NEW p \in Proc, NEW g \in Page, NEW b \in Pipes,
         pipe[g] \in Pipes, pipe' = [pipe EXCEPT ![g] = b],
         b.readopen = pipe[g].readopen, b.writeopen = pipe[g].writeopen,
         pipe[g].readopen \/ pipe[g].writeopen,
         UNCHANGED <<file, ofile, killed>>, th' \in [Proc -> Threads],
         th[p].pc \notin {"close", "kfree"}, th'[p].pc \notin {"close", "kfree"},
         \A q \in Proc \ {p} : Wakes(q), Holds(p)', Waits(p)',
         \A q \in Proc \ {p} : th[q].pipe = g => Waits(q)',
         Distance(b) <= PIPESIZE, Content(b) \in Seq(Byte)
  PROVE  PipeInv'
  <1>1. PipeTypeOK /\ FilesOK /\ EndsOK
    BY DEF PipeInv
  <1>2. pipe'[g] = b /\ \A h \in Page \ {g} : pipe'[h] = pipe[h]
    BY <1>1 DEF PipeTypeOK
  <1>3. ASSUME NEW q \in Proc \ {p}
        PROVE  /\ th[q] \in Threads /\ th'[q].pipe = th[q].pipe
               /\ \A x \in {"close", "kfree"} : th'[q].pc = x <=> th[q].pc = x
               /\ th'[q].pc \in {"close", "kfree"} => th'[q] = th[q]
    <2>1. th[q] \in Threads /\ Wakes(q)
      BY <1>1 DEF PipeTypeOK
    <2> QED
      BY <2>1, Woken
  <1>4. ASSUME NEW q \in Proc, th[q].pc = "kfree" PROVE th[q].pipe # g
    <2>1. Frees(q)
      BY DEF PipeInv
    <2> QED
      BY <1>4, <2>1 DEF Frees
  <1>5. PipeTypeOK'
    BY <1>1 DEF PipeTypeOK
  <1>6. FilesOK'
    BY <1>1, FilesKeep
  <1>7. EndsOK'
    BY <1>1, <1>2, <1>3, EndsKeep
  <1>8. ASSUME NEW q \in Proc PROVE (Holds(q) /\ Frees(q) /\ Waits(q))'
    <2>1. Holds(q) /\ Frees(q) /\ Waits(q)
      BY DEF PipeInv
    <2>2. \A r \in Proc : th'[r].pc = "kfree" => th'[r] = th[r]
      BY <1>3
    <2>3. th[q] \in Threads
      BY <1>1 DEF PipeTypeOK
    <2>4. th[q].pc \notin {"user", "ret"} /\ th[q].pipe # g => pipe'[th[q].pipe] = pipe[th[q].pipe]
      BY <1>2, <2>1, <2>3 DEF Holds, Threads
    <2>5. Frees(q)'
      BY <1>4, <2>1, <2>2, <2>4, FreesKeep
    <2>6. q # p => Holds(q)'
      BY <2>1, <2>3, HoldsKeep
    <2>7. q # p => Waits(q)'
      BY <2>1, <2>3, <2>4, WaitsKeep
    <2> QED
      BY <2>5, <2>6, <2>7
  <1>9. ASSUME NEW h \in Page PROVE RingOK(h)'
    <2>1. RingOK(h)
      BY DEF PipeInv
    <2>2. CASE h # g
      BY <1>2, <1>3, <2>1, <2>2, RingKeeps
    <2>3. CASE h = g
      <3>1. Used(g)' = Distance(b) /\ Queue(g)' = Content(b)
        BY <1>2 DEF Used, Queue, Distance, Content
      <3>2. RingOK(g)'
        BY <1>2, <3>1 DEF RingOK
      <3> QED
        BY <2>3, <3>2
    <2> QED
      BY <2>2, <2>3
  <1> QED
    BY <1>5, <1>6, <1>7, <1>8, <1>9 DEF PipeInv

\* What piperead() does when it does not have to wait: p reads n bytes of the pipe in g,
\* which becomes b.
Reads(p, g, b, n) ==
  /\ g = th[p].pipe /\ pipe[g] \in Pipes /\ pipe[g].readopen
  /\ n = IF Len(th[p].todo) < Used(g) THEN Len(th[p].todo) ELSE Used(g)
  /\ pipe' = [pipe EXCEPT ![g] = b]
  /\ b.readopen = pipe[g].readopen /\ b.writeopen = pipe[g].writeopen
  /\ Distance(b) <= Used(g) /\ Distance(b) <= PIPESIZE /\ Content(b) \in Seq(Byte)
  /\ Content(b) = SubSeq(Queue(g), n + 1, Used(g))
  /\ th' \in [Proc -> Threads] /\ th'[p].pc = "ret" /\ th'[p].pipe = "none"
  /\ th'[p].todo = SubSeq(Queue(g), 1, n)
  /\ \A q \in Proc \ {p} :
       Wakes(q) /\ (th[q].pipe = g /\ th[q].pc = "writewait" => th'[q].pc = "write")
  /\ UNCHANGED <<file, ofile, killed>> /\ ~Locked(g)

LEMMA ReadStep ==
  ASSUME PipeInv, NEW p \in Proc, piperead(p),
         ~(pipe[th[p].pipe].nread = pipe[th[p].pipe].nwrite /\ pipe[th[p].pipe].writeopen)
  PROVE  \E g \in Page, b \in Pipes, n \in 0..COUNT : Reads(p, g, b, n)
  <1>1. PipeTypeOK /\ th[p] \in Threads /\ th[p].pc = "read" /\ Holds(p)
    BY DEF PipeTypeOK, PipeInv, piperead
  <1>2. PICK g \in Page : g = th[p].pipe
    BY <1>1 DEF Threads, Holds
  <1>3. pipe[g] \in Pipes /\ pipe[g].readopen
    BY <1>1, <1>2, AtPipe, PipeAssumption DEF Reading
  <1>4. Used(g) = Distance(pipe[g]) /\ Queue(g) = Content(pipe[g])
    BY DEF Used, Queue, Distance, Content
  <1>5. Distance(pipe[g]) <= PIPESIZE /\ Content(pipe[g]) \in Seq(Byte)
    BY <1>3, <1>4, Unlike DEF PipeInv, RingOK
  <1>6. /\ pipe[g].nread \in 0..(COUNT - 1) /\ Distance(pipe[g]) \in 0..(COUNT - 1)
    BY <1>3, Counters
  <1>7. PICK n : n = IF Len(th[p].todo) < Used(g) THEN Len(th[p].todo) ELSE Used(g)
    OBVIOUS
  <1>8. n \in 0..Distance(pipe[g]) /\ n \in 0..COUNT
    <2>1. Len(th[p].todo) \in Nat
      BY <1>1, LenProperties DEF Threads
    <2> QED
      BY <1>4, <1>6, <1>7, <2>1, Sizes
  <1> DEFINE D == Rest(pipe[g], n)
             b == [pipe[g] EXCEPT !.nread = (pipe[g].nread + n) % COUNT, !.data = D]
             R == Oldest(pipe[g], n)
             t == [th EXCEPT ![p].pc = "ret", ![p].pipe = "none", ![p].todo = R]
  <1>9. th' = Wakeup(t, g, "write")
    BY <1>2, <1>7 DEF piperead
  <1>10. /\ pipe' = [pipe EXCEPT ![g].nread = (pipe[g].nread + n) % COUNT, ![g].data = D]
         /\ UNCHANGED <<file, ofile, killed>> /\ ~Locked(g)
    BY <1>2, <1>7 DEF piperead
  <1>11. D \in [0..(PIPESIZE - 1) -> Byte \cup {"junk"}]
    <2>1. pipe[g].data \in [0..(PIPESIZE - 1) -> Byte \cup {"junk"}]
      BY <1>3 DEF Pipes
    <2> QED
      BY <2>1 DEF Rest
  <1>12. (pipe[g].nread + n) % COUNT \in 0..(COUNT - 1)
    <2>1. pipe[g].nread + n \in Int
      BY <1>6, <1>8
    <2> QED
      BY <2>1, Sizes, Division
  <1> HIDE DEF D, R
  <1>15. /\ b \in Pipes /\ b.readopen = pipe[g].readopen /\ b.writeopen = pipe[g].writeopen
         /\ b.nread = (pipe[g].nread + n) % COUNT /\ b.nwrite = pipe[g].nwrite /\ b.data = D
    BY <1>3, <1>11, <1>12 DEF Pipes
  <1>16. pipe' = [pipe EXCEPT ![g] = b]
    BY <1>1, <1>10 DEF PipeTypeOK
  <1> HIDE DEF b
  <1>17. /\ Distance(b) = Distance(pipe[g]) - n
         /\ Content(b) = SubSeq(Content(pipe[g]), n + 1, Distance(pipe[g]))
         /\ R = SubSeq(Content(pipe[g]), 1, n)
         /\ Content(b) \in Seq(Byte) /\ SubSeq(Content(pipe[g]), 1, n) \in Seq(Byte)
    BY <1>3, <1>5, <1>8, <1>15, ReadContent DEF D, R
  <1>18. R \in Seq(Byte \cup {"junk", "room"})
    BY <1>17, SeqMonotonic
  <1>19. /\ t \in [Proc -> Threads] /\ t[p].pc = "ret" /\ t[p].pipe = "none" /\ t[p].todo = R
         /\ \A q \in Proc \ {p} : t[q] = th[q]
    BY <1>1, <1>18 DEF PipeTypeOK, Threads
  <1> HIDE DEF t
  <1>20. th'[p] = t[p]
    BY <1>9, <1>19, Unwoken
  <1>21. ASSUME NEW q \in Proc \ {p}
         PROVE  /\ Wakes(q) /\ th'[q] \in Threads
                /\ th[q].pipe = g /\ th[q].pc = "writewait" => th'[q].pc = "write"
    <2>1. th[q] \in Threads /\ t[q] = th[q]
      BY <1>1, <1>19 DEF PipeTypeOK
    <2>2. Wakes(q) /\ (th[q].pipe = g /\ th[q].pc = "writewait" => th'[q].pc = "write")
      BY <1>9, <1>19, <2>1, Wakeups
    <2>3. th'[q] \in Threads
      BY <2>1, <2>2, Woken
    <2> QED
      BY <2>2, <2>3
  <1>22. th' \in [Proc -> Threads]
    <2>1. th' = [q \in Proc |-> th'[q]]
      BY <1>9 DEF Wakeup
    <2>2. \A q \in Proc : th'[q] \in Threads
      BY <1>19, <1>20, <1>21
    <2> QED
      BY <2>1, <2>2
  <1>23. Distance(b) <= PIPESIZE /\ Distance(b) <= Used(g)
    BY <1>4, <1>5, <1>6, <1>8, <1>17, Sizes
  <1>24. /\ Content(b) = SubSeq(Queue(g), n + 1, Used(g))
         /\ th'[p].pc = "ret" /\ th'[p].pipe = "none" /\ th'[p].todo = SubSeq(Queue(g), 1, n)
    BY <1>4, <1>17, <1>19, <1>20
  <1>25. Reads(p, g, b, n)
    BY <1>2, <1>3, <1>7, <1>10, <1>15, <1>16, <1>17, <1>21, <1>22, <1>23, <1>24 DEF Reads
  <1> QED
    BY <1>8, <1>15, <1>25

LEMMA KeepsPiperead ==
  ASSUME PipeInv, NEW p \in Proc, piperead(p)
  PROVE  PipeInv'
  <1>1. PipeTypeOK /\ th[p] \in Threads /\ th[p].pc = "read" /\ Holds(p)
    BY DEF PipeTypeOK, PipeInv, piperead
  <1>2. CASE pipe[th[p].pipe].nread = pipe[th[p].pipe].nwrite /\ pipe[th[p].pipe].writeopen
    <2> DEFINE t == IF p \in killed THEN User ELSE [th[p] EXCEPT !.pc = "rsleep"]
    <2>1. th' = [th EXCEPT ![p] = t] /\ UNCHANGED <<file, ofile, pipe, killed>>
      BY <1>2 DEF piperead
    <2>2. t \in Threads /\ t.pc \in {"user", "rsleep"} /\ (t.pc = "user" => t = User)
          /\ (t.pc = "rsleep" => t.pipe = th[p].pipe /\ t.todo = th[p].todo)
      BY <1>1, AtUser DEF Threads
    <2> HIDE DEF t
    <2>3. th'[p] = t
      BY <1>1, <2>1 DEF PipeTypeOK
    <2>4. CASE t = User
      BY <1>1, <2>1, <2>2, <2>3, <2>4, BackToUser, Calm, AtUser DEF PipeTypeOK
    <2>5. CASE t.pc = "rsleep"
      <3>1. th[p].pipe \in Page /\ pipe[th[p].pipe] \in Pipes
        BY <1>1, AtPipe DEF Holds
      <3>2. Used(th[p].pipe) = 0
        BY <1>2, <3>1, Counters DEF Used, Distance
      <3>3. Holds(p)'
        BY <1>1, <2>1, <2>2, <2>3, <2>5 DEF Holds, Reading, Writing, Stands
      <3>4. Waits(p)'
        BY <1>2, <2>1, <2>2, <2>3, <2>5, <3>2 DEF Waits, Used
      <3> QED
        BY <1>1, <2>1, <2>2, <2>5, <3>3, <3>4, Calm DEF PipeTypeOK
    <2> QED
      BY <2>2, <2>4, <2>5
  <1>3. CASE ~(pipe[th[p].pipe].nread = pipe[th[p].pipe].nwrite /\ pipe[th[p].pipe].writeopen)
    <2>0. PICK g \in Page, b \in Pipes, n \in 0..COUNT : Reads(p, g, b, n)
      BY <1>3, ReadStep
    <2>1. /\ g = th[p].pipe /\ pipe[g] \in Pipes /\ pipe[g].readopen
          /\ pipe' = [pipe EXCEPT ![g] = b]
          /\ b.readopen = pipe[g].readopen /\ b.writeopen = pipe[g].writeopen
          /\ Distance(b) <= PIPESIZE /\ Content(b) \in Seq(Byte)
          /\ th' \in [Proc -> Threads] /\ th'[p].pc = "ret" /\ th'[p].pipe = "none"
          /\ \A q \in Proc \ {p} :
               Wakes(q) /\ (th[q].pipe = g /\ th[q].pc = "writewait" => th'[q].pc = "write")
          /\ UNCHANGED <<file, ofile, killed>> /\ ~Locked(g)
      BY <2>0 DEF Reads
    <2>2. Holds(p)' /\ Waits(p)'
      BY <2>1 DEF Holds, Waits, Reading, Writing
    <2>3. ASSUME NEW q \in Proc \ {p}, th[q].pipe = g PROVE Waits(q)'
      <3>1. Waits(q) /\ th[q] \in Threads /\ Wakes(q)
        BY <1>1, <2>1 DEF PipeInv, PipeTypeOK
      <3>2. th[q].pc \notin {"rsleep", "wsleep"}
        BY <2>1, <2>3 DEF Locked
      <3>3. /\ th'[q].pipe = g /\ th'[q].pc \notin {"rsleep", "wsleep"}
            /\ th'[q].pc = "readwait" => th[q].pc = "readwait"
            /\ th'[q].pc # "writewait"
        BY <2>1, <2>3, <3>1, <3>2, Woken
      <3>4. pipe'[g] = b
        BY <1>1, <2>1 DEF PipeTypeOK
      <3> QED
        BY <2>1, <2>3, <3>1, <3>3, <3>4 DEF Waits
    <2> QED
      BY <1>1, <2>1, <2>2, <2>3, Transfer
  <1> QED
    BY <1>2, <1>3

\* What pipewrite() does: p writes the n bytes that fit into the pipe in g, which becomes
\* b, and wakes up who waits for them unless it gives up.
Writes(p, g, b, n) ==
  /\ g = th[p].pipe /\ pipe[g] \in Pipes /\ pipe[g].writeopen
  /\ n <= PIPESIZE - Used(g) /\ n <= Len(th[p].todo)
  /\ n # Len(th[p].todo) => n = PIPESIZE - Used(g)
  /\ pipe' = [pipe EXCEPT ![g] = b]
  /\ b.readopen = pipe[g].readopen /\ b.writeopen = pipe[g].writeopen
  /\ Distance(b) = Used(g) + n /\ Distance(b) <= PIPESIZE /\ Content(b) \in Seq(Byte)
  /\ SubSeq(th[p].todo, 1, n) \in Seq(Byte) /\ Len(SubSeq(th[p].todo, 1, n)) = n
  /\ Content(b) = Queue(g) \o SubSeq(th[p].todo, 1, n)
  /\ th' \in [Proc -> Threads]
  /\ \/ th'[p] = User
     \/ /\ th'[p].pc = "wsleep" /\ th'[p].pipe = g /\ th'[p].todo \in Seq(Byte)
        /\ Distance(b) = PIPESIZE /\ pipe[g].readopen
  /\ \A q \in Proc \ {p} : Wakes(q)
  /\ \/ n # Len(th[p].todo) /\ (~pipe[g].readopen \/ p \in killed) /\ th'[p] = User
     \/ \A q \in Proc \ {p} :
          th[q].pipe = g /\ th[q].pc = "readwait" => th'[q].pc = "read"
  /\ UNCHANGED <<file, ofile, killed>> /\ ~Locked(g)

LEMMA WriteStep ==
  ASSUME PipeInv, NEW p \in Proc, pipewrite(p)
  PROVE  \E g \in Page, b \in Pipes, n \in 0..PIPESIZE : Writes(p, g, b, n)
  <1>1. PipeTypeOK /\ th[p] \in Threads /\ th[p].pc = "write" /\ Holds(p)
    BY DEF PipeTypeOK, PipeInv, pipewrite
  <1>2. PICK g \in Page : g = th[p].pipe
    BY <1>1 DEF Threads, Holds
  <1>3. pipe[g] \in Pipes /\ pipe[g].writeopen
    BY <1>1, <1>2, AtPipe, PipeAssumption DEF Writing
  <1>4. Used(g) = Distance(pipe[g]) /\ Queue(g) = Content(pipe[g])
    BY DEF Used, Queue, Distance, Content
  <1>5. Distance(pipe[g]) <= PIPESIZE /\ Content(pipe[g]) \in Seq(Byte)
    BY <1>3, <1>4, Unlike DEF PipeInv, RingOK
  <1>6. /\ pipe[g].nwrite \in 0..(COUNT - 1) /\ Distance(pipe[g]) \in 0..(COUNT - 1)
    BY <1>3, Counters
  <1>7. Room(g) = PIPESIZE - Distance(pipe[g])
    BY <1>3, <1>4, <1>5, RoomIs
  <1>8. PICK bs \in Seq(Byte) : bs = th[p].todo
    BY <1>1 DEF Holds, Writing
  <1>9. PICK n : n = IF Len(bs) < Room(g) THEN Len(bs) ELSE Room(g)
    OBVIOUS
  <1>10. /\ n \in 0..(PIPESIZE - Distance(pipe[g])) /\ n <= Len(bs) /\ n \in 0..PIPESIZE
         /\ n # Len(bs) => n = PIPESIZE - Distance(pipe[g])
    <2>1. Len(bs) \in Nat
      BY LenProperties
    <2> QED
      BY <1>5, <1>6, <1>7, <1>9, <2>1, Sizes
  <1> DEFINE D == Filled(pipe[g], bs, n)
             b == [pipe[g] EXCEPT !.nwrite = (pipe[g].nwrite + n) % COUNT, !.data = D]
             done == n = Len(bs)
             fail == ~done /\ (~pipe[g].readopen \/ p \in killed)
             R == SubSeq(bs, n + 1, Len(bs))
             x == IF done THEN User ELSE [th[p] EXCEPT !.pc = "wsleep", !.todo = R]
             t == [th EXCEPT ![p] = x]
  <1>11. th' = IF fail THEN [th EXCEPT ![p] = User] ELSE Wakeup(t, g, "read")
    BY <1>2, <1>8, <1>9 DEF pipewrite
  <1>12. /\ pipe' = [pipe EXCEPT ![g].nwrite = (pipe[g].nwrite + n) % COUNT, ![g].data = D]
         /\ UNCHANGED <<file, ofile, killed>> /\ ~Locked(g)
    BY <1>2, <1>8, <1>9 DEF pipewrite
  <1>13. D \in [0..(PIPESIZE - 1) -> Byte \cup {"junk"}]
    <2> DEFINE At(i) == ((pipe[g].nwrite + i - 1) % COUNT) % PIPESIZE
               e(d) == IF \E i \in 1..n : At(i) = d
                       THEN bs[CHOOSE i \in 1..n : At(i) = d] ELSE pipe[g].data[d]
    <2>1. pipe[g].data \in [0..(PIPESIZE - 1) -> Byte \cup {"junk"}]
      BY <1>3 DEF Pipes
    <2>2. D = [d \in 0..(PIPESIZE - 1) |-> e(d)]
      BY <2>1 DEF Filled
    <2>3. \A i \in 1..n : bs[i] \in Byte
      BY <1>10, ElementOfSeq
    <2> HIDE DEF At
    <2>4. ASSUME NEW d \in 0..(PIPESIZE - 1) PROVE e(d) \in Byte \cup {"junk"}
      <3>1. CASE \E i \in 1..n : At(i) = d
        <4>1. (CHOOSE i \in 1..n : At(i) = d) \in 1..n
          BY <3>1
        <4> QED
          BY <2>3, <3>1, <4>1
      <3>2. CASE ~(\E i \in 1..n : At(i) = d)
        BY <2>1, <3>2
      <3> QED
        BY <3>1, <3>2
    <2> HIDE DEF e, D
    <2> QED
      BY <2>2, <2>4
  <1>14. (pipe[g].nwrite + n) % COUNT \in 0..(COUNT - 1)
    <2>1. pipe[g].nwrite + n \in Int
      BY <1>6, <1>10
    <2> QED
      BY <2>1, Sizes, Division
  <1> HIDE DEF D
  <1>15. /\ b \in Pipes /\ b.readopen = pipe[g].readopen /\ b.writeopen = pipe[g].writeopen
         /\ b.nread = pipe[g].nread /\ b.nwrite = (pipe[g].nwrite + n) % COUNT /\ b.data = D
    BY <1>3, <1>13, <1>14 DEF Pipes
  <1>16. pipe' = [pipe EXCEPT ![g] = b]
    BY <1>1, <1>12 DEF PipeTypeOK
  <1> HIDE DEF b
  <1>17. /\ Distance(b) = Distance(pipe[g]) + n /\ Distance(b) <= PIPESIZE
         /\ SubSeq(bs, 1, n) \in Seq(Byte) /\ Len(SubSeq(bs, 1, n)) = n
         /\ Content(b) = Content(pipe[g]) \o SubSeq(bs, 1, n)
         /\ Content(b) \in Seq(Byte)
    <2>1. b.data = Filled(pipe[g], bs, n)
      BY <1>15 DEF D
    <2>2. Len(bs) \in Nat
      BY LenProperties
    <2> QED
      BY <1>3, <1>5, <1>10, <1>15, <2>1, <2>2, WriteContent
  <1>18. R \in Seq(Byte) /\ R \in Seq(Byte \cup {"junk", "room"})
    <2>1. Len(bs) \in Nat /\ n \in Nat
      BY <1>10, LenProperties
    <2>2. \A i \in (n + 1)..Len(bs) : bs[i] \in Byte
      BY <2>1, ElementOfSeq
    <2>3. R \in Seq(Byte)
      BY <2>1, <2>2, SubSeqProperties
    <2> QED
      BY <2>3, SeqMonotonic
  <1> HIDE DEF R
  <1>19. /\ x \in Threads /\ x.pc \in {"user", "wsleep"}
         /\ done => x = User
         /\ ~done => x.pc = "wsleep" /\ x.pipe = g /\ x.todo = R
    BY <1>1, <1>2, <1>18, AtUser DEF Threads
  <1> HIDE DEF x, done
  <1>20. t \in [Proc -> Threads] /\ t[p] = x /\ \A q \in Proc \ {p} : t[q] = th[q]
    BY <1>1, <1>19 DEF PipeTypeOK
  <1> HIDE DEF t, fail
  <1>23. /\ n <= PIPESIZE - Used(g) /\ n <= Len(th[p].todo)
         /\ n # Len(th[p].todo) => n = PIPESIZE - Used(g)
         /\ Distance(b) = Used(g) + n
         /\ SubSeq(th[p].todo, 1, n) \in Seq(Byte) /\ Len(SubSeq(th[p].todo, 1, n)) = n
         /\ Content(b) = Queue(g) \o SubSeq(th[p].todo, 1, n)
    BY <1>4, <1>6, <1>8, <1>10, <1>17, Sizes
  <1>21. CASE fail
    <2>1. th' \in [Proc -> Threads] /\ th'[p] = User /\ \A q \in Proc \ {p} : th'[q] = th[q]
      BY <1>1, <1>11, <1>21, AtUser DEF PipeTypeOK
    <2>2. \A q \in Proc \ {p} : Wakes(q)
      BY <2>1 DEF Wakes
    <2>3. n # Len(bs) /\ (~pipe[g].readopen \/ p \in killed)
      BY <1>21 DEF fail, done
    <2>4. Writes(p, g, b, n)
      BY <1>2, <1>3, <1>8, <1>12, <1>15, <1>16, <1>17, <1>23, <2>1, <2>2, <2>3 DEF Writes
    <2> QED
      BY <1>10, <1>15, <2>4
  <1>22. CASE ~fail
    <2>1. th' = Wakeup(t, g, "read")
      BY <1>11, <1>22
    <2>2. th'[p] = x
      BY <1>19, <1>20, <2>1, Unwoken
    <2>3. ASSUME NEW q \in Proc \ {p}
          PROVE  /\ Wakes(q) /\ th'[q] \in Threads
                 /\ th[q].pipe = g /\ th[q].pc = "readwait" => th'[q].pc = "read"
      <3>1. th[q] \in Threads /\ t[q] = th[q]
        BY <1>1, <1>20 DEF PipeTypeOK
      <3>2. Wakes(q) /\ (th[q].pipe = g /\ th[q].pc = "readwait" => th'[q].pc = "read")
        BY <1>20, <2>1, <3>1, Wakeups
      <3>3. th'[q] \in Threads
        BY <3>1, <3>2, Woken
      <3> QED
        BY <3>2, <3>3
    <2>4. th' \in [Proc -> Threads]
      <3>1. th' = [q \in Proc |-> th'[q]]
        BY <2>1 DEF Wakeup
      <3>2. \A q \in Proc : th'[q] \in Threads
        BY <1>19, <2>2, <2>3
      <3> QED
        BY <3>1, <3>2
    <2>5. \/ th'[p] = User
          \/ /\ th'[p].pc = "wsleep" /\ th'[p].pipe = g /\ th'[p].todo \in Seq(Byte)
             /\ Distance(b) = PIPESIZE /\ pipe[g].readopen
      <3>1. CASE done
        BY <1>19, <2>2, <3>1
      <3>2. CASE ~done
        <4>1. Distance(b) = PIPESIZE
          BY <1>5, <1>6, <1>10, <1>17, <3>2, Sizes DEF done
        <4>2. pipe[g].readopen
          BY <1>22, <3>2 DEF fail
        <4> QED
          BY <1>18, <1>19, <2>2, <3>2, <4>1, <4>2
      <3> QED
        BY <3>1, <3>2
    <2>6. Writes(p, g, b, n)
      BY <1>2, <1>3, <1>12, <1>15, <1>16, <1>17, <1>23, <2>3, <2>4, <2>5 DEF Writes
    <2> QED
      BY <1>10, <1>15, <2>6
  <1> QED
    BY <1>21, <1>22

LEMMA KeepsPipewrite ==
  ASSUME PipeInv, NEW p \in Proc, pipewrite(p)
  PROVE  PipeInv'
  <1>1. PipeTypeOK /\ th[p] \in Threads /\ th[p].pc = "write" /\ Holds(p)
    BY DEF PipeTypeOK, PipeInv, pipewrite
  <1>0. PICK g \in Page, b \in Pipes, n \in 0..PIPESIZE : Writes(p, g, b, n)
    BY WriteStep
  <1>2. /\ g = th[p].pipe /\ pipe[g] \in Pipes /\ pipe[g].writeopen
        /\ n <= PIPESIZE - Used(g)
        /\ pipe' = [pipe EXCEPT ![g] = b]
        /\ b.readopen = pipe[g].readopen /\ b.writeopen = pipe[g].writeopen
        /\ Distance(b) = Used(g) + n /\ Distance(b) <= PIPESIZE /\ Content(b) \in Seq(Byte)
        /\ th' \in [Proc -> Threads]
        /\ \/ th'[p] = User
           \/ /\ th'[p].pc = "wsleep" /\ th'[p].pipe = g /\ th'[p].todo \in Seq(Byte)
              /\ Distance(b) = PIPESIZE /\ pipe[g].readopen
        /\ \A q \in Proc \ {p} : Wakes(q)
        /\ UNCHANGED <<file, ofile, killed>> /\ ~Locked(g)
    BY <1>0 DEF Writes
  <1>3. pipe'[g] = b /\ Used(g)' = Distance(b)
    <2>1. pipe'[g] = b
      BY <1>1, <1>2 DEF PipeTypeOK
    <2> QED
      BY <2>1 DEF Used, Distance
  <1>4. th'[p].pc \in {"user", "wsleep"}
    BY <1>2, AtUser
  <1>5. Holds(p)' /\ Waits(p)'
    <2>1. CASE th'[p] = User
      BY <2>1, BackToUser
    <2>2. CASE th'[p] # User
      <3>1. /\ th'[p].pc = "wsleep" /\ th'[p].pipe = g /\ th'[p].todo \in Seq(Byte)
            /\ Distance(b) = PIPESIZE /\ pipe[g].readopen
        BY <1>2, <2>2
      <3>2. PICK f \in ofile[p] : Stands(f, g, TRUE)
        BY <1>1, <1>2 DEF Holds, Writing
      <3>3. Stands(f, g, TRUE)' /\ f \in ofile'[p]
        BY <1>2, <3>2 DEF Stands
      <3>4. Holds(p)'
        BY <3>1, <3>3, PipeAssumption DEF Holds, Reading, Writing
      <3>5. Waits(p)'
        BY <1>2, <1>3, <3>1 DEF Waits, Used, Distance
      <3> QED
        BY <3>4, <3>5
    <2> QED
      BY <2>1, <2>2
  <1>6. ASSUME NEW q \in Proc \ {p}, th[q].pipe = g PROVE Waits(q)'
    <2>1. Waits(q) /\ th[q] \in Threads /\ Wakes(q)
      BY <1>1, <1>2 DEF PipeInv, PipeTypeOK
    <2>2. th[q].pc \notin {"rsleep", "wsleep"}
      BY <1>2, <1>6 DEF Locked
    <2>3. /\ th'[q].pipe = g /\ th'[q].pc \notin {"rsleep", "wsleep"}
          /\ th'[q].pc = "readwait" => th[q].pc = "readwait"
          /\ th'[q].pc = "writewait" => th[q].pc = "writewait"
      BY <1>6, <2>1, <2>2, Woken
    <2>4. th'[q].pc = "writewait" => Used(g)' = PIPESIZE /\ pipe[g].readopen
      <3>1. th[q].pc = "writewait" => Used(g) = PIPESIZE /\ pipe[g].readopen
        BY <1>6, <2>1 DEF Waits
      <3>2. n \in Nat
        OBVIOUS
      <3> QED
        BY <1>2, <1>3, <2>3, <3>1, <3>2, Sizes
    <2>5. th'[q].pc = "readwait" => pipe[g].writeopen
      BY <1>2
    <2> QED
      BY <1>2, <1>3, <2>3, <2>4, <2>5 DEF Waits, Used
  <1> QED
    BY <1>1, <1>2, <1>4, <1>5, <1>6, Transfer

-----------------------------------------------------------------------------
(* What follows for every behaviour.                                       *)

\* A step is one of the operations, or nothing changes.
LEMMA Steps ==
  ASSUME [PipeNext]_pvars
  PROVE  \/ UNCHANGED pvars
         \/ \E p \in Proc :
              \/ pipealloc(p) \/ filealloc(p) \/ PipeKill(p)
              \/ pipeclose(p) \/ FreePipe(p) \/ piperead(p) \/ pipewrite(p) \/ PipeSleep(p)
              \/ PipeReturn(p)
              \/ \E c \in Proc : fork(p, c)
              \/ \E f \in Files : \/ fileclose(p, f)
                                  \/ \E n \in IoSize : PipeRead(p, f, n)
                                  \/ \E bs \in Message : PipeWrite(p, f, bs)
  BY Zenon DEF PipeNext, InKernel

LEMMA Stutters ==
  ASSUME PipeInv, UNCHANGED pvars
  PROVE  PipeInv'
  <1>1. th \in [Proc -> Threads] /\ killed \in SUBSET Proc
    BY DEF PipeInv, PipeTypeOK
  <1>2. UNCHANGED <<file, ofile, pipe, th, killed>>
    BY DEF pvars
  <1> QED
    BY <1>1, <1>2, KeepsWaking DEF Wakes

LEMMA PipeStep ==
  ASSUME PipeInv, [PipeNext]_pvars
  PROVE  PipeInv'
  <1>1. CASE UNCHANGED pvars
    BY <1>1, Stutters
  <1>2. ASSUME NEW p \in Proc, pipealloc(p) \/ filealloc(p) \/ PipeKill(p)
        PROVE  PipeInv'
    BY <1>2, KeepsPipealloc, KeepsFilealloc, KeepsKill
  <1>3. ASSUME NEW p \in Proc, pipeclose(p) \/ FreePipe(p) \/ piperead(p) \/ pipewrite(p)
        PROVE  PipeInv'
    BY <1>3, KeepsPipeclose, KeepsFreePipe, KeepsPiperead, KeepsPipewrite
  <1>4. ASSUME NEW p \in Proc, PipeSleep(p) \/ PipeReturn(p)
        PROVE  PipeInv'
    BY <1>4, KeepsSleep, KeepsReturn
  <1>5. ASSUME NEW p \in Proc, NEW c \in Proc, fork(p, c)
        PROVE  PipeInv'
    BY <1>5, KeepsFork
  <1>6. ASSUME NEW p \in Proc, NEW f \in Files, fileclose(p, f)
        PROVE  PipeInv'
    BY <1>6, KeepsFileclose
  <1>7. ASSUME NEW p \in Proc, NEW f \in Files, NEW n \in IoSize, PipeRead(p, f, n)
        PROVE  PipeInv'
    BY <1>7, KeepsPipeRead
  <1>8. ASSUME NEW p \in Proc, NEW f \in Files, NEW bs \in Message, PipeWrite(p, f, bs)
        PROVE  PipeInv'
    BY <1>8, KeepsPipeWrite
  <1> QED
    BY <1>1, <1>2, <1>3, <1>4, <1>5, <1>6, <1>7, <1>8, Steps

\* The inductive invariant of the pipes holds in every state: the references of a file
\* count who has it open (file.c), each end of a pipe is stood for by one file or one
\* fileclose() under way exactly while it is open, who is in read() or write() has a file
\* of that end, and the ring has at most PIPESIZE bytes (pipe.c).
THEOREM PipeInvariant == PipeSpec => []PipeInv
  <1>1. PipeInit => PipeInv
    BY InitPipe
  <1>2. PipeInv /\ [PipeNext]_pvars => PipeInv'
    BY PipeStep
  <1> QED
    BY <1>1, <1>2, PTL DEF PipeSpec

LEMMA PagesFollow ==
  ASSUME PipeInv
  PROVE  PipePages
  <1> SUFFICES ASSUME NEW g \in Page
               PROVE  LET Ends(w) == \/ \E f \in Files : /\ file[f].ref > 0 /\ file[f].pipe = g
                                                         /\ file[f].writable = w
                                     \/ \E p \in Proc : /\ th[p].pc = "close" /\ th[p].pipe = g
                                                        /\ th[p].writable = w
                          users == {p \in Proc : th[p].pipe = g}
                      IN  /\ pipe[g].readopen <=> Ends(FALSE)
                          /\ pipe[g].writeopen <=> Ends(TRUE)
                          /\ pipe[g] # NoPipe /\ ~pipe[g].readopen /\ ~pipe[g].writeopen =>
                               \E p \in users : th[p].pc = "kfree" /\ users = {p}
                          /\ pipe[g] = NoPipe => users = {}
    BY DEF PipePages
  <1> DEFINE users == {p \in Proc : th[p].pipe = g}
  <1>1. \A f \in Files : file[f].pipe = g => file[f].ref > 0
    <2>1. \A f \in Files : file[f].ref \in Nat
      BY DEF PipeInv, PipeTypeOK
    <2>2. \A f \in Files : file[f].ref = 0 => file[f].pipe = "none"
      BY Unopened
    <2> QED
      BY <2>1, <2>2, PipeAssumption
  <1>2. EndOK(g, FALSE, pipe[g].readopen) /\ EndOK(g, TRUE, pipe[g].writeopen)
    BY DEF PipeInv, EndsOK
  <1>3. pipe[g].readopen <=> \/ \E f \in Files : /\ file[f].ref > 0 /\ file[f].pipe = g
                                                 /\ file[f].writable = FALSE
                             \/ \E p \in Proc : /\ th[p].pc = "close" /\ th[p].pipe = g
                                                /\ th[p].writable = FALSE
    BY <1>1, <1>2 DEF EndOK, Stands, Closes
  <1>4. pipe[g].writeopen <=> \/ \E f \in Files : /\ file[f].ref > 0 /\ file[f].pipe = g
                                                  /\ file[f].writable = TRUE
                              \/ \E p \in Proc : /\ th[p].pc = "close" /\ th[p].pipe = g
                                                 /\ th[p].writable = TRUE
    BY <1>1, <1>2 DEF EndOK, Stands, Closes
  <1>5. ASSUME pipe[g] # NoPipe, ~pipe[g].readopen, ~pipe[g].writeopen
        PROVE  \E p \in users : th[p].pc = "kfree" /\ users = {p}
    <2>1. RingOK(g)
      BY DEF PipeInv
    <2>2. PICK p \in Proc : th[p].pc = "kfree" /\ th[p].pipe = g
      BY <1>5, <2>1 DEF RingOK
    <2>3. ASSUME NEW q \in Proc \ {p} PROVE th[q].pipe # g
      <3> SUFFICES ASSUME th[q].pipe = g PROVE FALSE
        OBVIOUS
      <3>1. /\ th[q].pc \in Reading => pipe[g].readopen
            /\ th[q].pc \in Writing => pipe[g].writeopen
            /\ th[q].pc = "close" => /\ th[q].writable => pipe[g].writeopen
                                     /\ ~th[q].writable => pipe[g].readopen
            /\ th[q].pc \in Reading \cup Writing \cup {"close", "kfree"}
        BY AtPipe, PipeAssumption
      <3>2. th[q].pc # "kfree"
        BY <2>2 DEF PipeInv, Frees
      <3> QED
        BY <1>5, <3>1, <3>2
    <2>4. users = {p}
      BY <2>2, <2>3
    <2> QED
      BY <2>2, <2>4
  <1>6. pipe[g] = NoPipe => users = {}
    BY Deserted
  <1> QED
    BY <1>3, <1>4, <1>5, <1>6

\* pipeclose() frees the page of a pipe exactly when its second end is closed, and nobody
\* is left in read() or write() on a page that is free or about to be.
THEOREM PagesAreFreedOnce == PipeSpec => []PipePages
  BY PipeInvariant, PagesFollow, PTL

\* Nobody sleeps in piperead() or pipewrite() for what cannot come any more: the wakeup()
\* calls of pipeclose(), piperead() and pipewrite() come in time.
THEOREM SleepersAreWoken == PipeSpec => []PipeSleepers
  <1>1. PipeInv => PipeSleepers
    BY DEF PipeInv, PipeSleepers, Waits
  <1> QED
    BY <1>1, PipeInvariant, PTL

LEMMA StillAwake ==
  ASSUME NEW p \in Proc, Overslept(p)',
         th'[p].pc = "readwait" => /\ th[p].pc = "readwait" /\ th'[p].pipe = th[p].pipe
                                   /\ pipe'[th[p].pipe].nread = pipe[th[p].pipe].nread
                                   /\ pipe'[th[p].pipe].nwrite = pipe[th[p].pipe].nwrite
  PROVE  Overslept(p)
  BY DEF Overslept, Used

LEMMA WakingStep ==
  ASSUME PipeInv, [PipeNext]_pvars, NEW p \in Proc, Overslept(p)', ~Overslept(p)
  PROVE  \E q \in killed : /\ th[q].pc = "write" /\ th[q].pipe = th[p].pipe
                           /\ Len(th[q].todo) > PIPESIZE /\ th'[q] = User
  <1>1. PipeTypeOK /\ th[p] \in Threads /\ Holds(p)
    BY DEF PipeInv, PipeTypeOK
  <1>2. th'[p].pc = "readwait" /\ Used(th[p].pipe)' > 0
    BY DEF Overslept
  <1>3. ASSUME UNCHANGED pvars PROVE FALSE
    BY <1>3, StillAwake DEF pvars
  <1>4. ASSUME NEW q \in Proc, pipealloc(q) PROVE FALSE
    <2>1. UNCHANGED th /\ th[p].pc = "readwait"
      BY <1>2, <1>4 DEF pipealloc
    <2>2. PICK g \in Page : /\ pipe[g] = NoPipe
                            /\ \A h \in Page \ {g} : pipe'[h] = pipe[h]
      BY <1>1, <1>4 DEF pipealloc, PipeTypeOK
    <2>3. th[p].pipe \in Page /\ pipe[th[p].pipe] \in Pipes
      BY <1>1, <2>1, AtPipe DEF Holds
    <2> QED
      BY <2>1, <2>2, <2>3, Unlike, StillAwake
  <1>5. ASSUME NEW q \in Proc, NEW c \in Proc, filealloc(q) \/ fork(q, c) PROVE FALSE
    BY <1>5, StillAwake DEF filealloc, fork
  <1>6. ASSUME NEW q \in Proc, NEW f \in Files, fileclose(q, f) PROVE FALSE
    <2>1. UNCHANGED pipe
      BY <1>6 DEF fileclose
    <2>2. q # p => th'[p] = th[p]
      BY <1>1, <1>6 DEF fileclose, PipeTypeOK
    <2>3. q = p => th'[p].pc # "readwait"
      BY <1>1, <1>6, AtUser DEF fileclose, PipeTypeOK
    <2> QED
      BY <1>2, <2>1, <2>2, <2>3, StillAwake
  <1>7. ASSUME NEW q \in Proc, NEW f \in Files, NEW n \in IoSize, PipeRead(q, f, n) PROVE FALSE
    <2>1. UNCHANGED pipe /\ (q # p => th'[p] = th[p]) /\ (q = p => th'[p].pc = "read")
      BY <1>1, <1>7 DEF PipeRead, PipeTypeOK
    <2> QED
      BY <1>2, <2>1, StillAwake
  <1>8. ASSUME NEW q \in Proc, NEW f \in Files, NEW bs \in Message, PipeWrite(q, f, bs) PROVE FALSE
    <2>1. UNCHANGED pipe /\ (q # p => th'[p] = th[p]) /\ (q = p => th'[p].pc = "write")
      BY <1>1, <1>8 DEF PipeWrite, PipeTypeOK
    <2> QED
      BY <1>2, <2>1, StillAwake
  <1>9. ASSUME NEW q \in Proc, PipeReturn(q) PROVE FALSE
    <2>1. UNCHANGED pipe /\ (q # p => th'[p] = th[p]) /\ (q = p => th'[p] = User)
      BY <1>1, <1>9 DEF PipeReturn, PipeTypeOK
    <2> QED
      BY <1>2, <2>1, StillAwake, AtUser
  <1>10. ASSUME NEW q \in Proc, PipeKill(q) PROVE FALSE
    <2>1. UNCHANGED pipe /\ (q # p => th'[p] = th[p])
      BY <1>1, <1>10 DEF PipeKill, PipeTypeOK
    <2>2. q = p => th'[p].pc \in {"read", "write"} \/ th'[p] = th[p]
      BY <1>1, <1>10 DEF PipeKill, PipeTypeOK, Threads
    <2> QED
      BY <1>2, <2>1, <2>2, StillAwake
  <1>11. ASSUME NEW q \in Proc, PipeSleep(q) PROVE FALSE
    <2>1. UNCHANGED pipe /\ (q # p => th'[p] = th[p])
      BY <1>1, <1>11 DEF PipeSleep, PipeTypeOK
    <2>2. CASE q = p
      <3>1. th[p].pc = "rsleep" /\ th'[p].pipe = th[p].pipe
        BY <1>1, <1>2, <1>11, <2>2 DEF PipeSleep, PipeTypeOK, Threads
      <3>2. Used(th[p].pipe) = 0
        BY <3>1 DEF PipeInv, Waits
      <3>3. Used(th[p].pipe)' = 0
        BY <2>1, <3>1, <3>2 DEF Used
      <3> QED
        BY <1>2, <3>3
    <2>3. CASE q # p
      BY <2>1, <2>3, StillAwake
    <2> QED
      BY <2>2, <2>3
  <1>12. ASSUME NEW q \in Proc, FreePipe(q) PROVE FALSE
    <2>1. /\ q # p => th'[p] = th[p]
          /\ q = p => th'[p] = User
          /\ \A h \in Page : h # th[q].pipe => pipe'[h] = pipe[h]
      BY <1>1, <1>12 DEF FreePipe, PipeTypeOK
    <2>2. q # p /\ th'[p] = th[p] /\ th[p].pc = "readwait"
      BY <1>2, <2>1, AtUser
    <2>3. th[p].pipe \in Page /\ pipe[th[p].pipe].readopen
      BY <1>1, <2>2, AtPipe DEF Holds, Reading
    <2>4. ~pipe[th[q].pipe].readopen
      BY <1>12 DEF FreePipe, PipeInv, Frees
    <2> QED
      BY <2>1, <2>2, <2>3, <2>4, StillAwake
  <1>13. ASSUME NEW q \in Proc, pipeclose(q) PROVE FALSE
    <2>1. PICK g \in Page, b \in Pipes : Shuts(q, g, b)
      BY <1>13, CloseStep
    <2>2. /\ pipe'[g].nread = pipe[g].nread /\ pipe'[g].nwrite = pipe[g].nwrite
          /\ \A h \in Page \ {g} : pipe'[h] = pipe[h]
      BY <1>1, <2>1 DEF Shuts, PipeTypeOK
    <2>3. q # p /\ Wakes(p)
      BY <1>2, <2>1, AtUser DEF Shuts
    <2>4. th[p].pc = "readwait" /\ th'[p].pipe = th[p].pipe
      BY <1>1, <1>2, <2>3, Woken
    <2>5. th[p].pipe \in Page
      BY <1>1, <2>4, AtPipe DEF Holds
    <2> QED
      BY <2>2, <2>4, <2>5, StillAwake
  <1>14. ASSUME NEW q \in Proc, piperead(q) PROVE FALSE
    <2>1. CASE pipe[th[q].pipe].nread = pipe[th[q].pipe].nwrite /\ pipe[th[q].pipe].writeopen
      <3>1. /\ UNCHANGED pipe /\ (q # p => th'[p] = th[p])
            /\ q = p => th'[p] = User \/ th'[p].pc = "rsleep"
        BY <1>1, <1>14, <2>1 DEF piperead, PipeTypeOK, Threads
      <3> QED
        BY <1>2, <3>1, StillAwake, AtUser
    <2>2. CASE ~(pipe[th[q].pipe].nread = pipe[th[q].pipe].nwrite /\ pipe[th[q].pipe].writeopen)
      <3>1. PICK g \in Page, b \in Pipes, n \in 0..COUNT : Reads(q, g, b, n)
        BY <1>14, <2>2, ReadStep
      <3>2. q # p /\ Wakes(p) /\ pipe' = [pipe EXCEPT ![g] = b] /\ pipe[g] \in Pipes
        BY <1>2, <3>1 DEF Reads
      <3>3. th[p].pc = "readwait" /\ th'[p].pipe = th[p].pipe
        BY <1>1, <1>2, <3>2, Woken
      <3>4. th[p].pipe \in Page
        BY <1>1, <3>3, AtPipe DEF Holds
      <3>5. CASE th[p].pipe # g
        <4>1. pipe'[th[p].pipe] = pipe[th[p].pipe]
          BY <1>1, <3>2, <3>4, <3>5 DEF PipeTypeOK
        <4> QED
          BY <3>3, <4>1, StillAwake
      <3>6. CASE th[p].pipe = g
        <4>1. Distance(b) > 0
          <5>1. pipe'[g] = b
            BY <1>1, <3>2 DEF PipeTypeOK
          <5> QED
            BY <1>2, <3>3, <3>6, <5>1 DEF Used, Distance
        <4>2. Used(g) \in 0..(COUNT - 1) /\ Distance(b) \in 0..(COUNT - 1)
          BY <3>2, Counters DEF Used, Distance
        <4>3. Distance(b) <= Used(g)
          BY <3>1 DEF Reads
        <4>4. Used(g) > 0
          BY <4>1, <4>2, <4>3, Sizes
        <4> QED
          BY <3>3, <3>6, <4>4 DEF Overslept
      <3> QED
        BY <3>5, <3>6
    <2> QED
      BY <2>1, <2>2
  <1>15. ASSUME NEW q \in Proc, pipewrite(q)
         PROVE  \E r \in killed : /\ th[r].pc = "write" /\ th[r].pipe = th[p].pipe
                                  /\ Len(th[r].todo) > PIPESIZE /\ th'[r] = User
    <2>1. PICK g \in Page, b \in Pipes, n \in 0..PIPESIZE : Writes(q, g, b, n)
      BY <1>15, WriteStep
    <2>2. q # p /\ Wakes(p) /\ pipe' = [pipe EXCEPT ![g] = b]
      BY <1>2, <2>1, AtUser DEF Writes
    <2>3. th[p].pc = "readwait" /\ th'[p].pipe = th[p].pipe
      BY <1>1, <1>2, <2>2, Woken
    <2>4. th[p].pipe \in Page /\ pipe[th[p].pipe].readopen /\ pipe[th[p].pipe] \in Pipes
      BY <1>1, <2>3, AtPipe DEF Holds, Reading
    <2>5. th[p].pipe = g
      <3> SUFFICES ASSUME th[p].pipe # g PROVE FALSE
        OBVIOUS
      <3>1. pipe'[th[p].pipe] = pipe[th[p].pipe]
        BY <1>1, <2>2, <2>4 DEF PipeTypeOK
      <3> QED
        BY <2>3, <3>1, StillAwake
    <2>6. Used(g) = 0
      <3>1. Used(g) \in 0..(COUNT - 1)
        BY <2>4, <2>5, Counters DEF Used, Distance
      <3>2. ~(Used(g) > 0)
        BY <2>3, <2>5 DEF Overslept
      <3> QED
        BY <3>1, <3>2, Sizes
    <2>7. n # Len(th[q].todo) /\ q \in killed /\ th'[q] = User
      BY <1>2, <2>1, <2>2, <2>3, <2>4, <2>5 DEF Writes
    <2>8. n = PIPESIZE - Used(g) /\ n <= Len(th[q].todo)
      BY <2>1, <2>7 DEF Writes
    <2>9. Len(th[q].todo) > PIPESIZE
      <3>1. Len(th[q].todo) \in Nat
        <4>1. th[q].todo \in Seq(Byte \cup {"junk", "room"})
          BY <1>1 DEF PipeTypeOK, Threads
        <4> QED
          BY <4>1, LenProperties
      <3> QED
        BY <2>6, <2>7, <2>8, <3>1, Sizes
    <2> QED
      BY <1>15, <2>1, <2>5, <2>7, <2>9 DEF Writes, pipewrite
  <1> QED
    BY <1>3, <1>4, <1>5, <1>6, <1>7, <1>8, <1>9, <1>10, <1>11, <1>12, <1>13, <1>14, <1>15, Steps

\* A write() wakes up every reader that waits for its bytes; the one exception is the
\* write() of a process that was killed and gives up in the middle (pipe.c, line 86).
THEOREM BytesWakeReaders == PipeSpec => ReadersAreWoken
  <1>1. PipeInv /\ [PipeNext]_pvars =>
          [\A p \in Proc : Overslept(p)' /\ ~Overslept(p) =>
             \E q \in killed : /\ th[q].pc = "write" /\ th[q].pipe = th[p].pipe
                               /\ Len(th[q].todo) > PIPESIZE /\ th'[q] = User]_pvars
    BY WakingStep
  <1> QED
    BY <1>1, PipeInvariant, PTL DEF PipeSpec, ReadersAreWoken

-----------------------------------------------------------------------------
(* The pipes are channels.                                                 *)

\* The pipe b as a channel.
Shown(b) == IF ~b.readopen /\ ~b.writeopen THEN [q |-> <<>>, r |-> FALSE, w |-> FALSE]
            ELSE [q |-> Content(b), r |-> b.readopen, w |-> b.writeopen]

LEMMA Mapping ==
  /\ Channels = [g \in Page |-> Shown(pipe[g])]
  /\ Channels' = [g \in Page |-> Shown(pipe'[g])]
  BY DEF Channels, Shown, Queue, Used, Content, Distance

\* What a step that changes one pipe does to the channels.
LEMMA OneChannel ==
  ASSUME PipeTypeOK, NEW g \in Page, NEW b, pipe' = [pipe EXCEPT ![g] = b]
  PROVE  /\ Channels[g] = Shown(pipe[g]) /\ Channels' = [Channels EXCEPT ![g] = Shown(b)]
         /\ Shown(b) = Shown(pipe[g]) => UNCHANGED Channels
  <1>1. pipe'[g] = b /\ \A h \in Page \ {g} : pipe'[h] = pipe[h]
    BY DEF PipeTypeOK
  <1> QED
    BY <1>1, Mapping

LEMMA SameChannels ==
  ASSUME UNCHANGED pipe
  PROVE  UNCHANGED Channels
  BY Mapping

LEMMA SameResults ==
  ASSUME \A q \in Proc : /\ th'[q].pc = "ret" <=> th[q].pc = "ret"
                         /\ th[q].pc = "ret" => th'[q].todo = th[q].todo
  PROVE  UNCHANGED Results
  BY DEF Results

\* Nothing that a step does to a process but p shows.
LEMMA OneResult ==
  ASSUME PipeTypeOK, NEW p \in Proc, \A q \in Proc \ {p} : Wakes(q)
  PROVE  /\ Results' = [Results EXCEPT ![p] = IF th'[p].pc = "ret" THEN th'[p].todo ELSE <<"none">>]
         /\ th[p].pc # "ret" /\ th'[p].pc # "ret" => UNCHANGED Results
  <1>1. ASSUME NEW q \in Proc \ {p}
        PROVE  /\ th'[q].pc = "ret" <=> th[q].pc = "ret"
               /\ th'[q].todo = th[q].todo
    <2>1. th[q] \in Threads /\ Wakes(q)
      BY DEF PipeTypeOK
    <2> QED
      BY <2>1, Woken
  <1> QED
    BY <1>1 DEF Results

\* The channel c has the queue Q and the ends u and v; the channel at g in C gets the
\* queue X.
Chan(c, Q, u, v) == c = [q |-> Q, r |-> u, w |-> v]
Queued(C, g, X) == [C EXCEPT ![g].q = X]

LEMMA NewQueue ==
  ASSUME NEW C, NEW g, NEW d, NEW Q, NEW X, NEW u, NEW v,
         Chan(C[g], Q, u, v), Chan(d, X, u, v)
  PROVE  [C EXCEPT ![g] = d] = Queued(C, g, X)
  <1>1. PICK c : c = C[g]
    OBVIOUS
  <1>2. d = [c EXCEPT !.q = X]
    BY <1>1 DEF Chan
  <1>3. Queued(C, g, X) = [C EXCEPT ![g] = [C[g] EXCEPT !.q = X]]
    BY DEF Queued
  <1> QED
    BY <1>1, <1>2, <1>3

LEMMA OpenStep ==
  ASSUME PipeInv, NEW p \in Proc, pipealloc(p)
  PROVE  Ch!Next
  <1> DEFINE b == [data |-> [i \in 0..(PIPESIZE - 1) |-> "junk"], nread |-> 0, nwrite |-> 0,
                   readopen |-> TRUE, writeopen |-> TRUE]
  <1>1. PICK g \in Page : pipe[g] = NoPipe /\ pipe' = [pipe EXCEPT ![g] = b]
    BY DEF pipealloc
  <1>2. b \in Pipes /\ b.nread = b.nwrite /\ b.readopen = TRUE /\ b.writeopen = TRUE
    BY Sizes DEF Pipes
  <1> HIDE DEF b
  <1>3. Shown(b) = [q |-> <<>>, r |-> TRUE, w |-> TRUE]
    BY <1>2, EmptyContent DEF Shown
  <1>4. Shown(pipe[g]) = [q |-> <<>>, r |-> FALSE, w |-> FALSE]
    BY <1>1, Unlike DEF Shown
  <1>5. Channels[g] = Shown(pipe[g]) /\ Channels' = [Channels EXCEPT ![g] = Shown(b)]
    BY <1>1, OneChannel DEF PipeInv
  <1>6. UNCHANGED Results
    BY DEF pipealloc, Results
  <1>7. Ch!Open(g)
    BY <1>3, <1>4, <1>5, <1>6 DEF Ch!Open, Ch!NoChannel
  <1> QED
    BY <1>7 DEF Ch!Next

LEMMA CloseMaps ==
  ASSUME PipeInv, NEW p \in Proc, pipeclose(p)
  PROVE  Ch!Next
  <1>1. PICK g \in Page, b \in Pipes : Shuts(p, g, b)
    BY CloseStep
  <1>2. pipe[g] \in Pipes /\ pipe' = [pipe EXCEPT ![g] = b] /\ PipeTypeOK
    BY <1>1 DEF Shuts, PipeInv
  <1>3. /\ pipe[g].readopen \in BOOLEAN /\ pipe[g].writeopen \in BOOLEAN
        /\ b.readopen \in BOOLEAN /\ b.writeopen \in BOOLEAN
    BY <1>2 DEF Pipes
  <1>4. Channels[g] = Shown(pipe[g]) /\ Channels' = [Channels EXCEPT ![g] = Shown(b)]
    BY <1>2, OneChannel
  <1>5. UNCHANGED Results
    <2>1. th[p].pc = "close"
      BY DEF pipeclose
    <2>2. th'[p].pc # "ret" /\ \A q \in Proc \ {p} : Wakes(q)
      BY <1>1, AtUser DEF Shuts
    <2> QED
      BY <1>2, <2>1, <2>2, OneResult
  <1>6. Content(b) = Content(pipe[g])
    BY <1>1 DEF Shuts, Content, Distance, Oldest
  <1>7. CASE th[p].writable
    <2>1. pipe[g].writeopen = TRUE /\ b.writeopen = FALSE /\ b.readopen = pipe[g].readopen
      BY <1>1, <1>3, <1>7 DEF Shuts
    <2>2. Shown(pipe[g]) = [q |-> Content(pipe[g]), r |-> pipe[g].readopen, w |-> TRUE]
      BY <2>1 DEF Shown
    <2>3. Shown(b) = IF pipe[g].readopen THEN [Shown(pipe[g]) EXCEPT !.w = FALSE]
                     ELSE [q |-> <<>>, r |-> FALSE, w |-> FALSE]
      BY <1>6, <2>1, <2>2 DEF Shown
    <2>4. Ch!CloseWrite(g)
      BY <1>4, <1>5, <2>2, <2>3 DEF Ch!CloseWrite, Ch!NoChannel
    <2> QED
      BY <2>4 DEF Ch!Next
  <1>8. CASE ~th[p].writable
    <2>1. pipe[g].readopen = TRUE /\ b.readopen = FALSE /\ b.writeopen = pipe[g].writeopen
      BY <1>1, <1>3, <1>8 DEF Shuts
    <2>2. Shown(pipe[g]) = [q |-> Content(pipe[g]), r |-> TRUE, w |-> pipe[g].writeopen]
      BY <2>1 DEF Shown
    <2>3. Shown(b) = IF pipe[g].writeopen THEN [Shown(pipe[g]) EXCEPT !.r = FALSE]
                     ELSE [q |-> <<>>, r |-> FALSE, w |-> FALSE]
      BY <1>6, <2>1, <2>2 DEF Shown
    <2>4. Ch!CloseRead(g)
      BY <1>4, <1>5, <2>2, <2>3 DEF Ch!CloseRead, Ch!NoChannel
    <2> QED
      BY <2>4 DEF Ch!Next
  <1> QED
    BY <1>7, <1>8

LEMMA ReadMaps ==
  ASSUME PipeInv, NEW p \in Proc, piperead(p)
  PROVE  Ch!Next \/ UNCHANGED <<Channels, Results>>
  <1>1. PipeTypeOK /\ th[p] \in Threads /\ th[p].pc = "read" /\ Holds(p)
    BY DEF PipeInv, PipeTypeOK, piperead
  <1>2. CASE pipe[th[p].pipe].nread = pipe[th[p].pipe].nwrite /\ pipe[th[p].pipe].writeopen
    <2>1. /\ UNCHANGED pipe /\ \A q \in Proc \ {p} : th'[q] = th[q]
          /\ th'[p] = User \/ th'[p].pc = "rsleep"
      BY <1>1, <1>2 DEF piperead, PipeTypeOK, Threads
    <2>2. th'[p].pc # "ret" /\ \A q \in Proc \ {p} : Wakes(q)
      BY <2>1, AtUser DEF Wakes
    <2>3. UNCHANGED Results
      BY <1>1, <2>2, OneResult
    <2> QED
      BY <2>1, <2>3, SameChannels
  <1>3. CASE ~(pipe[th[p].pipe].nread = pipe[th[p].pipe].nwrite /\ pipe[th[p].pipe].writeopen)
    <2>1. PICK g \in Page, b \in Pipes, n \in 0..COUNT : Reads(p, g, b, n)
      BY <1>3, ReadStep
    <2>2. /\ g = th[p].pipe /\ pipe[g] \in Pipes /\ pipe[g].readopen
          /\ n = IF Len(th[p].todo) < Used(g) THEN Len(th[p].todo) ELSE Used(g)
          /\ pipe' = [pipe EXCEPT ![g] = b]
          /\ b.readopen = pipe[g].readopen /\ b.writeopen = pipe[g].writeopen
          /\ Content(b) = SubSeq(Queue(g), n + 1, Used(g))
          /\ th'[p].pc = "ret" /\ th'[p].todo = SubSeq(Queue(g), 1, n)
          /\ \A q \in Proc \ {p} : Wakes(q)
      BY <2>1 DEF Reads
    <2>3. PICK Q : Q = Queue(g)
      OBVIOUS
    <2>4. Queue(g) = Content(pipe[g]) /\ Used(g) = Distance(pipe[g])
      BY DEF Queue, Used, Content, Distance
    <2>5. Len(Q) = Used(g) /\ Used(g) \in Nat /\ Used(g) <= PIPESIZE
      <3>1. Len(Q) = Used(g)
        BY <2>2, <2>3, <2>4, ContentIs
      <3>2. Used(g) \in 0..(COUNT - 1)
        BY <2>2, <2>4, Counters
      <3>3. Used(g) <= PIPESIZE
        BY <2>2, Unlike DEF PipeInv, RingOK
      <3> QED
        BY <3>1, <3>2, <3>3
    <2>6. Len(th[p].todo) \in Nat \ {0}
      <3>1. th[p].todo \in Seq(Byte \cup {"junk", "room"}) /\ th[p].todo # <<>>
        BY <1>1 DEF Threads, Holds, Reading
      <3> QED
        BY <3>1, LenProperties, EmptySeq
    <2>7. PICK m \in 1..(PIPESIZE + 1) : (IF m < Len(Q) THEN m ELSE Len(Q)) = n
      <3>1. CASE Len(th[p].todo) <= PIPESIZE
        BY <2>2, <2>5, <2>6, <3>1, Sizes
      <3>2. CASE ~(Len(th[p].todo) <= PIPESIZE)
        <4>1. PIPESIZE + 1 \in 1..(PIPESIZE + 1) /\ ~(PIPESIZE + 1 < Len(Q)) /\ n = Len(Q)
          BY <2>2, <2>5, <2>6, <3>2, Sizes
        <4> QED
          BY <4>1
      <3> QED
        BY <3>1, <3>2
    <2>8. pipe[g].readopen = TRUE /\ pipe[g].writeopen \in BOOLEAN
      BY <2>2 DEF Pipes
    <2>9. /\ Shown(pipe[g]) = [q |-> Q, r |-> TRUE, w |-> pipe[g].writeopen]
          /\ Shown(b) = [q |-> SubSeq(Q, n + 1, Len(Q)), r |-> TRUE, w |-> pipe[g].writeopen]
      BY <2>2, <2>3, <2>4, <2>5, <2>8 DEF Shown
    <2>10. Q = <<>> => ~pipe[g].writeopen
      BY <1>3, <2>2, <2>3, <2>4, EmptyContent, Counters
    <2>11. Channels[g] = Shown(pipe[g]) /\ Channels' = [Channels EXCEPT ![g] = Shown(b)]
      BY <1>1, <2>2, OneChannel
    <2>12. Results' = [Results EXCEPT ![p] = SubSeq(Q, 1, n)]
      BY <1>1, <2>2, <2>3, OneResult
    <2>13. Channels' = [Channels EXCEPT ![g].q = SubSeq(Q, n + 1, Len(Q))]
      <3>1. PICK C, X, u, v : /\ C = Channels /\ X = SubSeq(Q, n + 1, Len(Q))
                              /\ u = TRUE /\ v = pipe[g].writeopen
        OBVIOUS
      <3>2. Chan(C[g], Q, u, v) /\ Chan(Shown(b), X, u, v)
        BY <2>9, <2>11, <3>1 DEF Chan
      <3>3. [C EXCEPT ![g] = Shown(b)] = Queued(C, g, X)
        BY <3>2, NewQueue
      <3> QED
        BY <2>11, <3>1, <3>3 DEF Queued
    <2>14. Ch!Get(p, g, m)
      <3>1. Channels[g].q = Q /\ Channels[g].r = TRUE /\ Channels[g].w = pipe[g].writeopen
        BY <2>9, <2>11
      <3>2. n = IF m < Len(Channels[g].q) THEN m ELSE Len(Channels[g].q)
        BY <2>7, <3>1
      <3>3. Results' = [Results EXCEPT ![p] = SubSeq(Channels[g].q, 1, n)]
        BY <2>12, <3>1
      <3>4. Channels' = [Channels EXCEPT ![g].q = SubSeq(Channels[g].q, n + 1, Len(Channels[g].q))]
        BY <2>13, <3>1
      <3> QED
        BY <2>10, <3>1, <3>2, <3>3, <3>4 DEF Ch!Get
    <2> QED
      BY <2>14 DEF Ch!Next
  <1> QED
    BY <1>2, <1>3

LEMMA WriteMaps ==
  ASSUME PipeInv, NEW p \in Proc, pipewrite(p)
  PROVE  Ch!Next \/ UNCHANGED <<Channels, Results>>
  <1>1. PipeTypeOK /\ th[p] \in Threads /\ th[p].pc = "write" /\ Holds(p)
    BY DEF PipeInv, PipeTypeOK, pipewrite
  <1>2. PICK g \in Page, b \in Pipes, n \in 0..PIPESIZE : Writes(p, g, b, n)
    BY WriteStep
  <1>3. /\ g = th[p].pipe /\ pipe[g] \in Pipes /\ pipe[g].writeopen
        /\ pipe' = [pipe EXCEPT ![g] = b]
        /\ b.readopen = pipe[g].readopen /\ b.writeopen = pipe[g].writeopen
        /\ Distance(b) = Used(g) + n /\ Distance(b) <= PIPESIZE
        /\ SubSeq(th[p].todo, 1, n) \in Seq(Byte) /\ Len(SubSeq(th[p].todo, 1, n)) = n
        /\ Content(b) = Queue(g) \o SubSeq(th[p].todo, 1, n)
        /\ th'[p] = User \/ th'[p].pc = "wsleep"
        /\ \A q \in Proc \ {p} : Wakes(q)
    BY <1>2 DEF Writes
  <1>4. PICK Q, bs : Q = Queue(g) /\ bs = SubSeq(th[p].todo, 1, n)
    OBVIOUS
  <1>5. Queue(g) = Content(pipe[g]) /\ Used(g) = Distance(pipe[g])
    BY DEF Queue, Used, Content, Distance
  <1>6. Q \in Seq(Byte) /\ Len(Q) = Used(g)
    <2>1. Len(Q) = Used(g)
      BY <1>3, <1>4, <1>5, ContentIs
    <2>2. Queue(g) \in Seq(Byte)
      BY <1>3, Unlike DEF PipeInv, RingOK
    <2> QED
      BY <1>4, <2>1, <2>2
  <1>7. UNCHANGED Results
    <2>1. th'[p].pc # "ret"
      BY <1>3, AtUser
    <2> QED
      BY <1>1, <1>3, <2>1, OneResult
  <1>8. pipe[g].writeopen = TRUE /\ pipe[g].readopen \in BOOLEAN
    BY <1>3 DEF Pipes
  <1>9. /\ Shown(pipe[g]) = [q |-> Q, r |-> pipe[g].readopen, w |-> TRUE]
        /\ Shown(b) = [q |-> Q \o bs, r |-> pipe[g].readopen, w |-> TRUE]
    BY <1>3, <1>4, <1>5, <1>8 DEF Shown
  <1>10. /\ Channels[g] = Shown(pipe[g]) /\ Channels' = [Channels EXCEPT ![g] = Shown(b)]
         /\ Shown(b) = Shown(pipe[g]) => UNCHANGED Channels
    BY <1>1, <1>3, OneChannel
  <1>11. CASE n = 0
    <2>1. bs = <<>>
      BY <1>3, <1>4, <1>11, EmptySeq
    <2>2. Q \o bs = Q
      BY <1>6, <2>1, ConcatEmptySeq
    <2> QED
      BY <1>7, <1>9, <1>10, <2>2
  <1>12. CASE n # 0
    <2>1. bs \in [1..n -> Byte] /\ n \in 1..PIPESIZE
      <3>1. bs \in Seq(Byte) /\ Len(bs) = n
        BY <1>3, <1>4
      <3>2. bs \in [1..n -> Byte]
        BY <3>1, LenProperties
      <3>3. n \in 1..PIPESIZE
        BY <1>12, Sizes
      <3> QED
        BY <3>2, <3>3
    <2>2. Channels' = [Channels EXCEPT ![g].q = Q \o bs]
      <3>1. PICK C, X, u, v : /\ C = Channels /\ X = Q \o bs
                              /\ u = pipe[g].readopen /\ v = TRUE
        OBVIOUS
      <3>2. Chan(C[g], Q, u, v) /\ Chan(Shown(b), X, u, v)
        BY <1>9, <1>10, <3>1 DEF Chan
      <3>3. [C EXCEPT ![g] = Shown(b)] = Queued(C, g, X)
        BY <3>2, NewQueue
      <3> QED
        BY <1>10, <3>1, <3>3 DEF Queued
    <2>3. Channels[g].q = Q /\ Channels[g].w = TRUE
      BY <1>9, <1>10
    <2>4. Len(Q) + Len(bs) <= PIPESIZE
      BY <1>3, <1>4, <1>6
    <2>5. Ch!Put(g, bs)
      BY <1>7, <2>2, <2>3, <2>4 DEF Ch!Put
    <2> QED
      BY <2>1, <2>5 DEF Ch!Next
  <1> QED
    BY <1>11, <1>12

\* A page whose ends are both closed shows nothing, before and after kfree().
LEMMA FreeMaps ==
  ASSUME PipeInv, NEW p \in Proc, FreePipe(p)
  PROVE  UNCHANGED <<Channels, Results>>
  <1>1. /\ PipeTypeOK /\ th[p] \in Threads /\ th[p].pc = "kfree" /\ Frees(p) /\ Holds(p)
        /\ pipe' = [pipe EXCEPT ![th[p].pipe] = NoPipe] /\ th' = [th EXCEPT ![p] = User]
    BY DEF PipeInv, PipeTypeOK, FreePipe
  <1>2. PICK g \in Page : g = th[p].pipe
    BY <1>1 DEF Threads, Holds
  <1>3. Shown(pipe[g]) = Shown(NoPipe)
    BY <1>1, <1>2, Unlike DEF Shown, Frees
  <1>4. UNCHANGED Channels
    BY <1>1, <1>2, <1>3, OneChannel
  <1>5. th'[p] = User /\ \A q \in Proc \ {p} : th'[q] = th[q]
    BY <1>1 DEF PipeTypeOK
  <1>6. UNCHANGED Results
    BY <1>1, <1>5, AtUser, OneResult DEF Wakes
  <1> QED
    BY <1>4, <1>6

LEMMA ReturnMaps ==
  ASSUME PipeInv, NEW p \in Proc, PipeReturn(p)
  PROVE  Ch!Next
  <1>1. /\ PipeTypeOK /\ th' = [th EXCEPT ![p] = User] /\ UNCHANGED pipe
    BY DEF PipeInv, PipeReturn
  <1>2. th'[p] = User /\ \A q \in Proc \ {p} : th'[q] = th[q]
    BY <1>1 DEF PipeTypeOK
  <1>3. Results' = [Results EXCEPT ![p] = <<"none">>]
    BY <1>1, <1>2, AtUser, OneResult DEF Wakes
  <1>4. UNCHANGED Channels
    BY <1>1, SameChannels
  <1> QED
    BY <1>3, <1>4 DEF Ch!Next, Ch!Forget, Ch!NoRead

\* A step of p that leaves the pipes alone, and takes p neither to nor from the end of
\* a read(), shows nothing.
LEMMA ShowsNothing ==
  ASSUME PipeTypeOK, UNCHANGED pipe, NEW p \in Proc, \A q \in Proc \ {p} : th'[q] = th[q],
         th[p].pc # "ret", th'[p].pc # "ret"
  PROVE  UNCHANGED <<Channels, Results>>
  <1>1. UNCHANGED Results
    BY OneResult DEF Wakes
  <1> QED
    BY <1>1, SameChannels

\* A step that moves p within the kernel, or into it.
LEMMA MovesShowNothing ==
  ASSUME PipeInv, NEW p \in Proc,
         \/ PipeSleep(p) \/ PipeKill(p)
         \/ \E f \in Files : \/ fileclose(p, f)
                             \/ \E n \in IoSize : PipeRead(p, f, n)
                             \/ \E bs \in Message : PipeWrite(p, f, bs)
  PROVE  UNCHANGED <<Channels, Results>>
  <1>1. PipeTypeOK /\ th[p] \in Threads
    BY DEF PipeInv, PipeTypeOK
  <1>2. CASE PipeSleep(p)
    <2>1. /\ UNCHANGED pipe /\ \A q \in Proc \ {p} : th'[q] = th[q]
          /\ th[p].pc # "ret" /\ th'[p].pc # "ret"
      BY <1>1, <1>2 DEF PipeSleep, PipeTypeOK, Threads
    <2> QED
      BY <1>1, <2>1, ShowsNothing
  <1>3. CASE PipeKill(p)
    <2>1. /\ UNCHANGED pipe /\ \A q \in Proc \ {p} : th'[q] = th[q]
          /\ th'[p] = [th[p] EXCEPT !.pc = CASE th[p].pc = "readwait" -> "read"
                                             [] th[p].pc = "writewait" -> "write"
                                             [] OTHER -> th[p].pc]
      BY <1>1, <1>3 DEF PipeKill, PipeTypeOK
    <2>2. th'[p].todo = th[p].todo /\ (th'[p].pc = "ret" <=> th[p].pc = "ret")
      BY <1>1, <2>1 DEF Threads
    <2>3. UNCHANGED Results
      BY <2>1, <2>2, SameResults
    <2> QED
      BY <2>1, <2>3, SameChannels
  <1>4. ASSUME NEW f \in Files, fileclose(p, f)
        PROVE  UNCHANGED <<Channels, Results>>
    <2>1. UNCHANGED pipe /\ th[p].pc # "ret"
      BY <1>4, AtUser DEF fileclose
    <2>2. CASE th' = th
      BY <2>1, <2>2, SameChannels, SameResults
    <2>3. CASE th' = [th EXCEPT ![p] = [pc |-> "close", pipe |-> file[f].pipe,
                                        writable |-> file[f].writable, todo |-> <<>>]]
      <3>1. th'[p].pc = "close" /\ \A q \in Proc \ {p} : th'[q] = th[q]
        BY <1>1, <2>3 DEF PipeTypeOK
      <3> QED
        BY <1>1, <2>1, <3>1, ShowsNothing
    <2> QED
      BY <1>4, <2>2, <2>3 DEF fileclose
  <1>5. ASSUME NEW f \in Files, NEW n \in IoSize, PipeRead(p, f, n)
        PROVE  UNCHANGED <<Channels, Results>>
    <2>1. th'[p].pc = "read" /\ \A q \in Proc \ {p} : th'[q] = th[q]
      BY <1>1, <1>5 DEF PipeRead, PipeTypeOK
    <2>2. UNCHANGED pipe /\ th[p].pc # "ret"
      BY <1>5, AtUser DEF PipeRead
    <2> QED
      BY <1>1, <2>1, <2>2, ShowsNothing
  <1>6. ASSUME NEW f \in Files, NEW bs \in Message, PipeWrite(p, f, bs)
        PROVE  UNCHANGED <<Channels, Results>>
    <2>1. th'[p].pc = "write" /\ \A q \in Proc \ {p} : th'[q] = th[q]
      BY <1>1, <1>6 DEF PipeWrite, PipeTypeOK
    <2>2. UNCHANGED pipe /\ th[p].pc # "ret"
      BY <1>6, AtUser DEF PipeWrite
    <2> QED
      BY <1>1, <2>1, <2>2, ShowsNothing
  <1> QED
    BY <1>2, <1>3, <1>4, <1>5, <1>6

LEMMA ChannelStep ==
  ASSUME PipeInv, [PipeNext]_pvars
  PROVE  [Ch!Next]_<<Channels, Results>>
  <1>1. ASSUME UNCHANGED <<pipe, th>>
        PROVE  UNCHANGED <<Channels, Results>>
    BY <1>1, SameChannels, SameResults
  <1>2. CASE UNCHANGED pvars
    BY <1>1, <1>2 DEF pvars
  <1>3. ASSUME NEW p \in Proc, pipealloc(p) \/ pipeclose(p) \/ PipeReturn(p)
        PROVE  Ch!Next
    BY <1>3, OpenStep, CloseMaps, ReturnMaps
  <1>4. ASSUME NEW p \in Proc, piperead(p) \/ pipewrite(p) \/ FreePipe(p)
        PROVE  Ch!Next \/ UNCHANGED <<Channels, Results>>
    BY <1>4, ReadMaps, WriteMaps, FreeMaps
  <1>5. ASSUME NEW p \in Proc, filealloc(p) \/ \E c \in Proc : fork(p, c)
        PROVE  UNCHANGED <<Channels, Results>>
    BY <1>1, <1>5 DEF filealloc, fork
  <1>6. ASSUME NEW p \in Proc,
               \/ PipeSleep(p) \/ PipeKill(p)
               \/ \E f \in Files : \/ fileclose(p, f)
                                   \/ \E n \in IoSize : PipeRead(p, f, n)
                                   \/ \E bs \in Message : PipeWrite(p, f, bs)
        PROVE  UNCHANGED <<Channels, Results>>
    BY <1>6, MovesShowNothing
  <1> QED
    BY <1>2, <1>3, <1>4, <1>5, <1>6, Steps

LEMMA ChannelInit ==
  ASSUME PipeInit
  PROVE  Ch!Init
  <1>1. Channels = [g \in Page |-> [q |-> <<>>, r |-> FALSE, w |-> FALSE]]
    BY Unlike DEF PipeInit, Channels
  <1>2. Results = [p \in Proc |-> <<"none">>]
    BY AtUser DEF PipeInit, Results
  <1> QED
    BY <1>1, <1>2 DEF Ch!Init, Ch!NoChannel, Ch!NoRead

\* Every behaviour of the pipes is one of the bounded queues of Channel, whatever the
\* processes, the size of the ring and the width of its counters: bytes come out once,
\* in the order in which they went in, across the wrap of nread and nwrite and the
\* sleeps of piperead() and pipewrite(), and a page is a channel until both ends are
\* closed.
THEOREM PipesImplementChannels == PipeSpec => PipesAreQueues
  <1>1. PipeInit => Ch!Init
    BY ChannelInit
  <1>2. PipeInv /\ [PipeNext]_pvars => [Ch!Next]_<<Channels, Results>>
    BY ChannelStep
  <1> QED
    BY <1>1, <1>2, PipeInvariant, PTL DEF PipeSpec, PipesAreQueues, Ch!Spec

-----------------------------------------------------------------------------
(* The ring of the console.                                                *)

LEMMA InputSizes == /\ INPUT_BUF \in Nat \ {0} /\ ICOUNT \in Nat \ {0}
                    /\ INPUT_BUF < ICOUNT /\ ICOUNT % INPUT_BUF = 0
  BY ConsoleAssumption

\* The cell of an index, and the one k behind it.
LEMMA InputCell ==
  ASSUME NEW x \in Int, NEW k \in Int
  PROVE  /\ (x % ICOUNT) % INPUT_BUF = x % INPUT_BUF /\ x % INPUT_BUF \in 0..(INPUT_BUF - 1)
         /\ ((x % ICOUNT) + k) % INPUT_BUF = (x + k) % INPUT_BUF
  <1>1. \A z \in Int : /\ (z % ICOUNT) % INPUT_BUF = z % INPUT_BUF
                       /\ z % INPUT_BUF \in 0..(INPUT_BUF - 1)
    BY InputSizes, RemainderTwice, Division
  <1> DEFINE y == (x % ICOUNT) + k
             z == x + k
  <1>2. y \in Int /\ z \in Int
    BY Division, InputSizes
  <1>3. y % ICOUNT = z % ICOUNT
    BY AddRemainder, InputSizes
  <1> HIDE DEF y, z
  <1>4. y % INPUT_BUF = z % INPUT_BUF
    BY <1>1, <1>2, <1>3
  <1> QED
    BY <1>1, <1>4 DEF y, z

LEMMA Between ==
  ASSUME NEW r \in 0..(ICOUNT - 1), NEW w \in 0..(ICOUNT - 1)
  PROVE  /\ Minus(w, r) \in 0..(ICOUNT - 1) /\ (r + Minus(w, r)) % ICOUNT = w
         /\ Minus(w, r) = 0 <=> r = w
  <1>1. PICK u : u = (w - r) % ICOUNT
    OBVIOUS
  <1>2. w - r \in Int /\ r \in Int /\ w \in Int /\ (w - r) + r = w
    BY InputSizes
  <1>3. u \in 0..(ICOUNT - 1)
    BY <1>1, <1>2, Division, InputSizes
  <1>4. (u + r) % ICOUNT = ((w - r) + r) % ICOUNT
    BY <1>1, <1>2, AddRemainder, InputSizes
  <1>5. w % ICOUNT = w /\ r % ICOUNT = r /\ 0 % ICOUNT = 0
    BY SmallRemainder, InputSizes
  <1>6. (r + u) % ICOUNT = w
    <2>1. r + u = u + r
      BY <1>2, <1>3
    <2> QED
      BY <1>2, <1>4, <1>5, <2>1
  <1>7. u = 0 <=> r = w
    <2>1. r = w => w - r = 0
      BY <1>2
    <2> QED
      BY <1>1, <1>2, <1>5, <1>6, <2>1
  <1> QED
    BY <1>1, <1>3, <1>6, <1>7 DEF Minus

\* The indices of the ring, counted from r.
LEMMA Offsets ==
  ASSUME NEW s \in Inputs
  PROVE  /\ s.r \in 0..(ICOUNT - 1) /\ s.w \in 0..(ICOUNT - 1) /\ s.e \in 0..(ICOUNT - 1)
         /\ s.buf \in [0..(INPUT_BUF - 1) -> Key \cup {"?"}]
         /\ Entered(s) \in 0..(ICOUNT - 1) /\ Filling(s) \in 0..(ICOUNT - 1)
         /\ (s.r + Entered(s)) % ICOUNT = s.w /\ (s.r + Filling(s)) % ICOUNT = s.e
         /\ Entered(s) = 0 <=> s.r = s.w
         /\ Entered(s) = Filling(s) <=> s.w = s.e
  <1>1. /\ s.r \in 0..(ICOUNT - 1) /\ s.w \in 0..(ICOUNT - 1) /\ s.e \in 0..(ICOUNT - 1)
        /\ s.buf \in [0..(INPUT_BUF - 1) -> Key \cup {"?"}]
    BY DEF Inputs
  <1>2. /\ Entered(s) \in 0..(ICOUNT - 1) /\ (s.r + Entered(s)) % ICOUNT = s.w
        /\ Entered(s) = 0 <=> s.r = s.w
    BY <1>1, Between DEF Entered
  <1>3. Filling(s) \in 0..(ICOUNT - 1) /\ (s.r + Filling(s)) % ICOUNT = s.e
    BY <1>1, Between DEF Filling
  <1>4. s.w = s.e => Entered(s) = Filling(s)
    BY DEF Entered, Filling
  <1> QED
    BY <1>1, <1>2, <1>3, <1>4

\* Indices that are d and k behind r.
LEMMA Indices ==
  ASSUME NEW r \in 0..(ICOUNT - 1), NEW k \in Int, NEW d \in Int, d - k \in 0..(ICOUNT - 1)
  PROVE  /\ Minus((r + d) % ICOUNT, (r + k) % ICOUNT) = d - k
         /\ k = 0 => Minus((r + d) % ICOUNT, r) = d
         /\ (r + k) % ICOUNT \in 0..(ICOUNT - 1)
  <1>1. r \in Int /\ r + k \in Int /\ (k = 0 => r + k = r)
    BY InputSizes
  <1>2. r % ICOUNT = r
    BY SmallRemainder, InputSizes
  <1>3. (((r + d) % ICOUNT) - ((r + k) % ICOUNT)) % ICOUNT = d - k
    BY <1>1, Apart, InputSizes
  <1>4. (r + k) % ICOUNT \in 0..(ICOUNT - 1)
    BY <1>1, Division, InputSizes
  <1> QED
    BY <1>1, <1>2, <1>3, <1>4 DEF Minus

\* A ring of s that became t with other indices behind the same r.
LEMMA Reindexed ==
  ASSUME NEW s \in Inputs, NEW t \in Inputs, t.r = s.r, NEW k \in 0..(ICOUNT - 1),
         NEW d \in 0..(ICOUNT - 1), t.w = (s.r + k) % ICOUNT, t.e = (s.r + d) % ICOUNT
  PROVE  Entered(t) = k /\ Filling(t) = d
  <1>1. s.r \in 0..(ICOUNT - 1) /\ s.r + 0 = s.r /\ k \in Int /\ d \in Int /\ 0 \in Int
    BY Offsets, InputSizes
  <1>2. Minus((s.r + k) % ICOUNT, s.r) = k /\ Minus((s.r + d) % ICOUNT, s.r) = d
    BY <1>1, Indices
  <1> QED
    BY <1>2 DEF Entered, Filling

\* What clearing the cells that are never looked at leaves alone.
LEMMA ClearedRing ==
  ASSUME NEW s \in Inputs
  PROVE  /\ Cleared(s) \in Inputs
         /\ Cleared(s).r = s.r /\ Cleared(s).w = s.w /\ Cleared(s).e = s.e
         /\ Entered(Cleared(s)) = Entered(s) /\ Filling(Cleared(s)) = Filling(s)
         /\ Filling(s) <= INPUT_BUF =>
              \A j \in 0..(Filling(s) - 1) : Nth(Cleared(s), j) = Nth(s, j)
  <1> DEFINE B == s.buf
             C == [i \in DOMAIN B |->
                     IF \E k \in 0..(INPUT_BUF - 1) : /\ k < Filling(s)
                                                      /\ ((s.r + k) % ICOUNT) % INPUT_BUF = i
                     THEN B[i] ELSE "?"]
  <1>1. /\ s.r \in 0..(ICOUNT - 1) /\ s.w \in 0..(ICOUNT - 1) /\ s.e \in 0..(ICOUNT - 1)
        /\ B \in [0..(INPUT_BUF - 1) -> Key \cup {"?"}] /\ Filling(s) \in 0..(ICOUNT - 1)
    BY Offsets
  <1>2. Cleared(s) = [s EXCEPT !.buf = C]
    BY DEF Cleared, Filling
  <1>3. C \in [0..(INPUT_BUF - 1) -> Key \cup {"?"}]
    BY <1>1
  <1>4. ASSUME NEW j \in 0..(Filling(s) - 1), Filling(s) <= INPUT_BUF
        PROVE  C[(s.r + j) % INPUT_BUF] = B[(s.r + j) % INPUT_BUF]
    <2>1. j \in 0..(INPUT_BUF - 1) /\ s.r + j \in Int
      BY <1>1, <1>4, InputSizes
    <2>2. /\ ((s.r + j) % ICOUNT) % INPUT_BUF = (s.r + j) % INPUT_BUF
          /\ (s.r + j) % INPUT_BUF \in 0..(INPUT_BUF - 1)
      BY <2>1, InputCell
    <2>3. PICK x : x = (s.r + j) % INPUT_BUF
      OBVIOUS
    <2>4. x \in DOMAIN B /\ \E k \in 0..(INPUT_BUF - 1) :
                              k < Filling(s) /\ ((s.r + k) % ICOUNT) % INPUT_BUF = x
      <3>1. j < Filling(s) /\ ((s.r + j) % ICOUNT) % INPUT_BUF = x
        BY <1>1, <2>2, <2>3
      <3>2. x \in DOMAIN B
        BY <1>1, <2>2, <2>3
      <3> QED
        BY <2>1, <3>1, <3>2, Zenon
    <2>5. C[x] = B[x]
      BY <2>4
    <2> QED
      BY <2>3, <2>5
  <1> HIDE DEF B, C
  <1>5. /\ Cleared(s) \in Inputs /\ Cleared(s).buf = C
        /\ Cleared(s).r = s.r /\ Cleared(s).w = s.w /\ Cleared(s).e = s.e
    BY <1>2, <1>3 DEF Inputs
  <1> QED
    BY <1>4, <1>5 DEF B, Entered, Filling, Nth

\* ^U takes the whole line.
LEMMA KeptIs ==
  ASSUME NEW s \in Inputs, RingIsLines(s)
  PROVE  Kept(s) = s.w
  <1> DEFINE r == s.r
             k == Entered(s)
             d == Filling(s)
             B == s.buf
             F(i) == B[Minus(s.e, i) % INPUT_BUF]
             P(e) == /\ Minus(s.e, e) <= Minus(s.e, s.w)
                     /\ e = s.w \/ F(Minus(s.e, e) + 1) = "\n"
                     /\ \A i \in 1..Minus(s.e, e) : F(i) # "\n"
  <1>1. /\ r \in 0..(ICOUNT - 1) /\ k \in 0..(ICOUNT - 1) /\ d \in 0..(ICOUNT - 1)
        /\ s.w = (r + k) % ICOUNT /\ s.e = (r + d) % ICOUNT
        /\ s.w \in 0..(ICOUNT - 1) /\ s.e \in 0..(ICOUNT - 1)
    BY Offsets
  <1>2. k <= d /\ d <= INPUT_BUF /\ \A j \in k..(d - 1) : B[(r + j) % INPUT_BUF] # "\n"
    BY <1>1 DEF RingIsLines, Nth
  <1>3. Kept(s) = CHOOSE e \in 0..(ICOUNT - 1) : P(e)
    BY DEF Kept
  <1> HIDE DEF r, k, d, B, F, P
  <1>4. Minus(s.e, s.w) = d - k
    <2>1. d - k \in 0..(ICOUNT - 1) /\ k \in Int /\ d \in Int
      BY <1>1, <1>2, InputSizes
    <2> QED
      BY <1>1, <2>1, Indices
  <1>5. ASSUME NEW i \in 1..(d - k)
        PROVE  F(i) # "\n"
    <2>1. /\ r + d \in Int /\ -i \in Int /\ (r + d) + (-i) = r + (d - i) /\ d - i \in k..(d - 1)
          /\ r + (d - i) \in Int
      BY <1>1, <1>2
    <2>2. Minus(s.e, i) = (((r + d) % ICOUNT) + (-i)) % ICOUNT
      <3>1. (r + d) % ICOUNT \in Int
        BY <1>1
      <3>2. ((r + d) % ICOUNT) - i = ((r + d) % ICOUNT) + (-i)
        BY <3>1
      <3> QED
        BY <1>1, <3>2 DEF Minus
    <2>3. (((r + d) % ICOUNT) + (-i)) % ICOUNT = (r + (d - i)) % ICOUNT
      <3>1. (((r + d) % ICOUNT) + (-i)) % ICOUNT = ((r + d) + (-i)) % ICOUNT
        BY <2>1, AddRemainder, InputSizes
      <3> QED
        BY <2>1, <3>1
    <2>4. ((r + (d - i)) % ICOUNT) % INPUT_BUF = (r + (d - i)) % INPUT_BUF
      BY <2>1, InputCell
    <2>5. F(i) = B[(r + (d - i)) % INPUT_BUF]
      BY <2>2, <2>3, <2>4 DEF F
    <2> QED
      BY <1>2, <2>1, <2>5
  <1>6. P(s.w)
    <2>1. \A i \in 1..(d - k) : F(i) # "\n"
      BY <1>5
    <2>2. d - k \in Int /\ d - k <= d - k
      BY <1>1
    <2> QED
      BY <1>4, <2>1, <2>2 DEF P
  <1>7. ASSUME NEW e \in 0..(ICOUNT - 1), P(e)
        PROVE  e = s.w
    <2>1. Minus(s.e, e) \in 0..(ICOUNT - 1)
      BY <1>1, Between
    <2>2. CASE Minus(s.e, e) < d - k
      <3>1. Minus(s.e, e) + 1 \in 1..(d - k)
        BY <1>1, <1>2, <2>1, <2>2
      <3> QED
        BY <1>5, <1>7, <3>1 DEF P
    <2>3. CASE ~(Minus(s.e, e) < d - k)
      <3>1. Minus(s.e, e) = Minus(s.e, s.w)
        BY <1>1, <1>4, <1>7, <2>1, <2>3 DEF P
      <3>2. (e + Minus(s.e, e)) % ICOUNT = (s.w + Minus(s.e, e)) % ICOUNT
        BY <1>1, <3>1, Between
      <3> DEFINE m == Minus(s.e, e)
      <3>3. e + m \in Int /\ s.w + m \in Int /\ -ICOUNT < (e + m) - (s.w + m)
            /\ (e + m) - (s.w + m) < ICOUNT
        BY <1>1, <2>1, InputSizes
      <3>4. (e + m) % ICOUNT = (s.w + m) % ICOUNT
        BY <3>2
      <3>5. m \in Int /\ e \in Int /\ s.w \in Int
        BY <1>1, <2>1
      <3> HIDE DEF m
      <3>6. e + m = s.w + m
        BY <3>3, <3>4, Distinct, InputSizes
      <3> QED
        BY <3>5, <3>6
    <2> QED
      BY <2>2, <2>3
  <1>8. (CHOOSE e \in 0..(ICOUNT - 1) : P(e)) = s.w
    BY <1>1, <1>6, <1>7
  <1> QED
    BY <1>3, <1>8

\* A character that is stored is behind all others.
LEMMA StoreIs ==
  ASSUME NEW s \in Inputs, RingIsLines(s), Filling(s) < INPUT_BUF, NEW c \in Key,
         NEW t, t = Store(s, c)
  PROVE  /\ t \in Inputs /\ t.r = s.r /\ Filling(t) = Filling(s) + 1
         /\ Entered(t) = IF c \in {"\n", "^D"} \/ Filling(t) = INPUT_BUF
                         THEN Filling(t) ELSE Entered(s)
         /\ Nth(t, Filling(s)) = c
         /\ \A j \in 0..(Filling(s) - 1) : Nth(t, j) = Nth(s, j)
  <1> DEFINE r == s.r
             k == Entered(s)
             d == Filling(s)
             B == s.buf
             x == (r + d) % INPUT_BUF
             e == (s.e + 1) % ICOUNT
             C == [B EXCEPT ![s.e % INPUT_BUF] = c]
             w == IF c \in {"\n", "^D"} \/ e = (r + INPUT_BUF) % ICOUNT THEN e ELSE s.w
  <1>1. /\ r \in 0..(ICOUNT - 1) /\ k \in 0..(ICOUNT - 1) /\ d \in 0..(ICOUNT - 1)
        /\ s.w = (r + k) % ICOUNT /\ s.e = (r + d) % ICOUNT
        /\ s.w \in 0..(ICOUNT - 1) /\ s.e \in 0..(ICOUNT - 1)
        /\ B \in [0..(INPUT_BUF - 1) -> Key \cup {"?"}]
    BY Offsets
  <1>2. d \in 0..(INPUT_BUF - 1) /\ d + 1 \in 0..(ICOUNT - 1)
    BY <1>1, InputSizes
  <1>3. t = [s EXCEPT !.buf[s.e % INPUT_BUF] = c, !.e = e, !.w = w]
    BY DEF Store, Filling
  <1>4. s.e % INPUT_BUF = x /\ x \in 0..(INPUT_BUF - 1)
    <2>1. r + d \in Int
      BY <1>1, InputSizes
    <2> QED
      BY <1>1, <2>1, InputCell
  <1>5. t = [s EXCEPT !.buf = C, !.e = e, !.w = w]
    BY <1>3
  <1>6. C \in [0..(INPUT_BUF - 1) -> Key \cup {"?"}] /\ C[x] = c
        /\ \A i \in 0..(INPUT_BUF - 1) : i # x => C[i] = B[i]
    BY <1>1, <1>4
  <1> HIDE DEF r, k, d, B, x, C
  <1>7. e = (r + (d + 1)) % ICOUNT /\ e \in 0..(ICOUNT - 1)
    <2>1. r + d \in Int /\ 1 \in Int /\ (r + d) + 1 = r + (d + 1) /\ r + (d + 1) \in Int
      BY <1>1, InputSizes
    <2>2. (((r + d) % ICOUNT) + 1) % ICOUNT = ((r + d) + 1) % ICOUNT
      BY <2>1, AddRemainder, InputSizes
    <2>3. (r + (d + 1)) % ICOUNT \in 0..(ICOUNT - 1)
      BY <2>1, Division, InputSizes
    <2> QED
      BY <1>1, <2>1, <2>2, <2>3
  <1> HIDE DEF e
  <1>8. e = (r + INPUT_BUF) % ICOUNT <=> d + 1 = INPUT_BUF
    <2>1. /\ r + (d + 1) \in Int /\ r + INPUT_BUF \in Int
          /\ -ICOUNT < (r + (d + 1)) - (r + INPUT_BUF) /\ (r + (d + 1)) - (r + INPUT_BUF) < ICOUNT
      BY <1>1, <1>2, InputSizes
    <2>2. e = (r + INPUT_BUF) % ICOUNT => r + (d + 1) = r + INPUT_BUF
      BY <1>7, <2>1, Distinct, InputSizes
    <2>3. r + (d + 1) = r + INPUT_BUF => d + 1 = INPUT_BUF
      BY <1>1, InputSizes
    <2> QED
      BY <1>7, <2>2, <2>3
  <1> DEFINE n == IF c \in {"\n", "^D"} \/ d + 1 = INPUT_BUF THEN d + 1 ELSE k
  <1>9. w = (r + n) % ICOUNT /\ n \in 0..(ICOUNT - 1) /\ w \in 0..(ICOUNT - 1)
    BY <1>1, <1>2, <1>7, <1>8
  <1> HIDE DEF n, w
  <1>10. t \in Inputs /\ t.r = r /\ t.w = w /\ t.e = e /\ t.buf = C
    BY <1>1, <1>5, <1>6, <1>7, <1>9 DEF Inputs, r
  <1>11. Entered(t) = n /\ Filling(t) = d + 1
    BY <1>2, <1>7, <1>9, <1>10, Reindexed DEF r
  <1>12. ASSUME NEW j \in 0..(d - 1)
         PROVE  C[(r + j) % INPUT_BUF] = B[(r + j) % INPUT_BUF]
    <2>1. /\ r + j \in Int /\ r + d \in Int /\ -INPUT_BUF < (r + j) - (r + d)
          /\ (r + j) - (r + d) < INPUT_BUF /\ r + j # r + d
      BY <1>1, <1>2, InputSizes
    <2>2. (r + j) % INPUT_BUF # x
      BY <2>1, Distinct, InputSizes DEF x
    <2>3. (r + j) % INPUT_BUF \in 0..(INPUT_BUF - 1)
      BY <2>1, InputCell
    <2> QED
      BY <1>6, <2>2, <2>3
  <1>13. Nth(t, d) = c
    BY <1>6, <1>10 DEF Nth, x
  <1>14. \A j \in 0..(d - 1) : Nth(t, j) = Nth(s, j)
    BY <1>10, <1>12 DEF Nth, r, B
  <1> QED
    BY <1>10, <1>11, <1>13, <1>14 DEF r, d, k, n

\* ^H takes the last character of the line, if there is one.
LEMMA EraseIs ==
  ASSUME NEW s \in Inputs, RingIsLines(s), s.e # s.w, NEW t, t = Erase(s)
  PROVE  /\ t \in Inputs /\ t.r = s.r /\ t.buf = s.buf
         /\ Entered(t) = Entered(s) /\ Filling(t) = Filling(s) - 1 /\ Entered(s) < Filling(s)
  <1> DEFINE r == s.r
             k == Entered(s)
             d == Filling(s)
             e == Minus(s.e, 1)
  <1>1. /\ r \in 0..(ICOUNT - 1) /\ k \in 0..(ICOUNT - 1) /\ d \in 0..(ICOUNT - 1)
        /\ s.w = (r + k) % ICOUNT /\ s.e = (r + d) % ICOUNT
        /\ s.w \in 0..(ICOUNT - 1) /\ s.e \in 0..(ICOUNT - 1) /\ (k = d <=> s.w = s.e)
    BY Offsets
  <1>2. k <= d /\ k # d
    BY <1>1 DEF RingIsLines
  <1>3. t = [s EXCEPT !.e = e]
    BY DEF Erase
  <1> HIDE DEF r, k, d
  <1>4. k < d /\ d - 1 \in 0..(ICOUNT - 1)
    BY <1>1, <1>2, InputSizes
  <1>5. e = (r + (d - 1)) % ICOUNT /\ e \in 0..(ICOUNT - 1)
    <2>1. r + d \in Int /\ -1 \in Int /\ (r + d) + (-1) = r + (d - 1) /\ r + (d - 1) \in Int
      BY <1>1, InputSizes
    <2>2. (((r + d) % ICOUNT) + (-1)) % ICOUNT = ((r + d) + (-1)) % ICOUNT
      BY <2>1, AddRemainder, InputSizes
    <2>3. (r + (d - 1)) % ICOUNT \in 0..(ICOUNT - 1)
      BY <2>1, Division, InputSizes
    <2>4. s.e - 1 = s.e + (-1)
      BY <1>1, InputSizes
    <2> QED
      BY <1>1, <2>1, <2>2, <2>3, <2>4 DEF Minus
  <1> HIDE DEF e
  <1>6. t \in Inputs /\ t.r = s.r /\ t.w = s.w /\ t.e = e /\ t.buf = s.buf
    BY <1>3, <1>5 DEF Inputs
  <1>7. Entered(t) = k /\ Filling(t) = d - 1
    BY <1>1, <1>4, <1>5, <1>6, Reindexed DEF r
  <1> QED
    BY <1>4, <1>6, <1>7 DEF k, d

\* ^U takes all of it.
LEMMA KillIs ==
  ASSUME NEW s \in Inputs, RingIsLines(s), NEW t, t = [s EXCEPT !.e = Kept(s)]
  PROVE  /\ t \in Inputs /\ t.r = s.r /\ t.buf = s.buf
         /\ Entered(t) = Entered(s) /\ Filling(t) = Entered(s)
  <1>1. Kept(s) = s.w
    BY KeptIs
  <1>2. t \in Inputs /\ t.r = s.r /\ t.w = s.w /\ t.e = s.w /\ t.buf = s.buf
    BY <1>1 DEF Inputs
  <1> QED
    BY <1>2 DEF Entered, Filling

\* Numbers are well ordered.
LEMMA Least ==
  ASSUME NEW T, T \subseteq Nat, T # {}
  PROVE  \E x \in T : \A y \in T : x <= y
  <1> DEFINE R == OpToRel(<, Nat)
  <1>1. PICK x \in T : \A y \in T : <<y, x>> \notin R
    <2>1. IsWellFoundedOn(R, Nat)
      BY NatLessThanWellFounded
    <2> HIDE DEF R
    <2> QED
      BY <2>1, WFMin
  <1>2. ASSUME NEW y \in T
        PROVE  x <= y
    <2>1. <<y, x>> \notin R /\ x \in Nat /\ y \in Nat
      BY <1>1
    <2>2. ~(y < x) /\ x \in Nat /\ y \in Nat
      BY <2>1 DEF OpToRel
    <2> HIDE DEF R
    <2> QED
      BY <2>2
  <1> QED
    BY <1>2

\* The k characters from offset a on.
Cells(s, a, k) == [i \in 1..k |-> Nth(s, a + i - 1)]

\* What a read that wants n takes: k characters, and a ^D if x is 1.
Takes(s, n, nothing, t, k, x) ==
  /\ k \in 0..Entered(s) /\ x \in {0, 1} /\ k <= n /\ k + x <= Entered(s)
  /\ t.text = Cells(s, 0, k)
  /\ t.r = (s.r + (k + x)) % ICOUNT
  /\ x = 1 => nothing /\ k = 0 /\ Nth(s, 0) = "^D"
  /\ \A i \in 1..k : Nth(s, i - 1) # "^D" /\ (i < k => Nth(s, i - 1) # "\n")
  /\ ~t.done => k = Entered(s) /\ x = 0 /\ \A i \in 1..k : Nth(s, i - 1) # "\n"

LEMMA TakenIs ==
  ASSUME NEW s \in Inputs, NEW n \in Nat, NEW nothing, NEW t, t = Taken(s, n, nothing)
  PROVE  \E k, x : Takes(s, n, nothing, t, k, x)
  <1> DEFINE r == s.r
             there == Entered(s)
             A(i) == s.buf[((s.r + i - 1) % ICOUNT) % INPUT_BUF]
             stop == {i \in 1..there : A(i) \in {"\n", "^D"}}
             first == CHOOSE i \in stop : \A j \in stop : i <= j
             chars == IF stop = {} THEN there ELSE IF A(first) = "^D" THEN first - 1 ELSE first
             k == IF chars < n THEN chars ELSE n
             eof == stop # {} /\ A(first) = "^D" /\ k = first - 1 /\ k < n
             x == IF eof /\ nothing /\ k = 0 THEN 1 ELSE 0
  <1>1. r \in 0..(ICOUNT - 1) /\ there \in 0..(ICOUNT - 1)
    BY Offsets
  <1>2. /\ t.text = [i \in 1..k |-> A(i)] /\ t.r = (r + k + x) % ICOUNT
        /\ t.done <=> (k = n \/ eof \/ (stop # {} /\ k = first))
    BY DEF Taken, Entered
  <1> HIDE DEF there
  <1>3. \A i \in 1..there : A(i) = Nth(s, i - 1)
    <2> SUFFICES ASSUME NEW i \in 1..there PROVE A(i) = Nth(s, i - 1)
      OBVIOUS
    <2>1. r + (i - 1) \in Int /\ r + i - 1 = r + (i - 1)
      BY <1>1, InputSizes
    <2>2. ((r + (i - 1)) % ICOUNT) % INPUT_BUF = (r + (i - 1)) % INPUT_BUF
      BY <2>1, InputCell
    <2> QED
      BY <2>1, <2>2 DEF Nth
  <1> HIDE DEF A
  <1>4. stop # {} => /\ first \in stop /\ \A j \in stop : first <= j
    <2>1. stop \subseteq Nat
      BY <1>1
    <2>2. stop # {} => \E i \in stop : \A j \in stop : i <= j
      BY <2>1, Least
    <2> HIDE DEF stop
    <2> QED
      BY <2>2
  <1>5. stop # {} => /\ first \in 1..there /\ A(first) \in {"\n", "^D"}
                     /\ \A i \in 1..(first - 1) : A(i) \notin {"\n", "^D"}
    <2>1. ASSUME stop # {} PROVE first \in 1..there /\ A(first) \in {"\n", "^D"}
      BY <1>4, <2>1
    <2>2. ASSUME stop # {}, NEW i \in 1..(first - 1) PROVE A(i) \notin {"\n", "^D"}
      <3>1. i \in 1..there /\ ~(first <= i)
        BY <1>1, <2>1, <2>2
      <3>2. i \notin stop
        BY <1>4, <2>2, <3>1
      <3> QED
        BY <3>1, <3>2
    <2> QED
      BY <2>1, <2>2
  <1>6. stop = {} => \A i \in 1..there : A(i) \notin {"\n", "^D"}
    OBVIOUS
  <1> HIDE DEF stop, first
  <1>7. /\ chars \in 0..there /\ k \in 0..there /\ k <= n /\ k <= chars
        /\ x \in {0, 1} /\ k + x <= there
    BY <1>1, <1>5
  <1>8. x = 1 => nothing /\ k = 0 /\ A(1) = "^D" /\ 1 \in 1..there
    BY <1>1, <1>5
  <1>9. \A i \in 1..k : i \in 1..there /\ A(i) # "^D" /\ (i < k => A(i) # "\n")
    BY <1>1, <1>5, <1>6
  <1>10. ~(k = n \/ eof \/ (stop # {} /\ k = first)) =>
           k = there /\ x = 0 /\ \A i \in 1..k : A(i) # "\n"
    BY <1>1, <1>5, <1>6
  <1> HIDE DEF k, x, eof
  <1>11. r + k + x = r + (k + x)
    BY <1>1, <1>7
  <1>12. [i \in 1..k |-> A(i)] = Cells(s, 0, k)
    <2>1. \A i \in 1..k : A(i) = Nth(s, 0 + i - 1)
      <3>1. \A i \in 1..k : 0 + i - 1 = i - 1
        BY <1>7
      <3> QED
        BY <1>3, <1>9, <3>1
    <2> QED
      BY <2>1 DEF Cells
  <1>13. x = 1 => Nth(s, 0) = "^D"
    <2>1. 1 - 1 = 0
      OBVIOUS
    <2> QED
      BY <1>3, <1>8, <2>1
  <1>14. \A i \in 1..k : A(i) = Nth(s, i - 1)
    BY <1>3, <1>9
  <1>15. Takes(s, n, nothing, t, k, x)
    BY <1>2, <1>7, <1>8, <1>9, <1>10, <1>11, <1>12, <1>13, <1>14 DEF Takes, there, r
  <1> QED
    BY <1>15

LEMMA ClearedOK ==
  ASSUME NEW s \in Inputs, RingIsLines(s)
  PROVE  RingIsLines(Cleared(s))
  <1>1. Filling(s) \in 0..(ICOUNT - 1) /\ Filling(s) <= INPUT_BUF
    BY Offsets DEF RingIsLines
  <1>2. /\ Entered(Cleared(s)) = Entered(s) /\ Filling(Cleared(s)) = Filling(s)
        /\ \A j \in 0..(Filling(s) - 1) : Nth(Cleared(s), j) = Nth(s, j)
    BY <1>1, ClearedRing
  <1> QED
    BY <1>2 DEF RingIsLines

\* Whatever is typed, the ring stays one of lines.
LEMMA TypedOK ==
  ASSUME NEW s \in Inputs, RingIsLines(s), NEW c \in Key, NEW t, t = Typed(s, c)
  PROVE  t \in Inputs /\ RingIsLines(t) /\ t.r = s.r
  <1>1. /\ Entered(s) \in 0..(ICOUNT - 1) /\ Filling(s) \in 0..(ICOUNT - 1)
        /\ (Entered(s) = Filling(s) <=> s.w = s.e)
    BY Offsets
  <1>2. /\ Entered(s) <= Filling(s) /\ Filling(s) <= INPUT_BUF
        /\ Filling(s) = INPUT_BUF => Entered(s) = Filling(s)
        /\ \A j \in 0..(Filling(s) - 1) : Nth(s, j) \in Key /\ (j >= Entered(s) => Nth(s, j) # "\n")
    BY DEF RingIsLines
  <1>3. CASE t = s
    BY <1>3
  <1>4. CASE t = [s EXCEPT !.e = Kept(s)]
    <2>1. /\ t \in Inputs /\ t.r = s.r /\ t.buf = s.buf
          /\ Entered(t) = Entered(s) /\ Filling(t) = Entered(s)
      BY <1>4, KillIs
    <2>2. \A j \in 0..(Entered(s) - 1) : Nth(t, j) = Nth(s, j) /\ j \in 0..(Filling(s) - 1)
      BY <1>1, <1>2, <2>1 DEF Nth
    <2>3. \A j \in 0..(Entered(s) - 1) : Nth(t, j) \in Key /\ ~(j >= Entered(s))
      BY <1>1, <1>2, <2>2
    <2> QED
      BY <1>1, <1>2, <2>1, <2>3, InputSizes DEF RingIsLines
  <1>5. CASE t = Erase(s) /\ s.e # s.w
    <2>1. /\ t \in Inputs /\ t.r = s.r /\ t.buf = s.buf
          /\ Entered(t) = Entered(s) /\ Filling(t) = Filling(s) - 1 /\ Entered(s) < Filling(s)
      BY <1>5, EraseIs
    <2>2. \A j \in 0..((Filling(s) - 1) - 1) : Nth(t, j) = Nth(s, j) /\ j \in 0..(Filling(s) - 1)
      BY <1>1, <1>2, <2>1 DEF Nth
    <2>3. \A j \in 0..((Filling(s) - 1) - 1) :
            Nth(t, j) \in Key /\ (j >= Entered(s) => Nth(t, j) # "\n")
      BY <1>2, <2>2
    <2>4. Entered(s) <= Filling(s) - 1 /\ Filling(s) - 1 < INPUT_BUF /\ Filling(s) - 1 # INPUT_BUF
      BY <1>1, <1>2, <2>1, InputSizes
    <2>5. Filling(s) - 1 <= INPUT_BUF
      BY <1>1, <2>4, InputSizes
    <2> QED
      BY <2>1, <2>3, <2>4, <2>5 DEF RingIsLines
  <1>6. CASE t = Store(s, c) /\ Filling(s) < INPUT_BUF
    <2> DEFINE d == Filling(s)
               k == Entered(s)
    <2>1. /\ t \in Inputs /\ t.r = s.r /\ Filling(t) = d + 1
          /\ Entered(t) = IF c \in {"\n", "^D"} \/ Filling(t) = INPUT_BUF THEN Filling(t) ELSE k
          /\ Nth(t, d) = c
          /\ \A j \in 0..(d - 1) : Nth(t, j) = Nth(s, j)
      BY <1>6, StoreIs
    <2>2. /\ k \in 0..(ICOUNT - 1) /\ d \in 0..(ICOUNT - 1) /\ k <= d /\ d < INPUT_BUF
          /\ \A j \in 0..(d - 1) : Nth(s, j) \in Key /\ (j >= k => Nth(s, j) # "\n")
      BY <1>1, <1>2, <1>6
    <2> HIDE DEF d, k
    <2>3. Entered(t) \in {k, d + 1} /\ (Entered(t) = k => c # "\n" \/ k = d + 1)
      BY <2>1
    <2>4. ASSUME NEW j \in 0..d
          PROVE  Nth(t, j) \in Key /\ (j >= Entered(t) => Nth(t, j) # "\n")
      <3>1. CASE j = d
        <4>1. j >= Entered(t) => Entered(t) = k
          BY <2>2, <2>3, <3>1
        <4>2. k # d + 1
          BY <2>2
        <4> QED
          BY <2>1, <2>3, <3>1, <4>1, <4>2
      <3>2. CASE j # d
        <4>1. j \in 0..(d - 1) /\ (j >= Entered(t) => j >= k)
          BY <2>2, <2>3, <3>2
        <4> QED
          BY <2>1, <2>2, <4>1
      <3> QED
        BY <3>1, <3>2
    <2>5. (d + 1) - 1 = d /\ d + 1 <= INPUT_BUF /\ Entered(t) <= d + 1
      BY <2>2, <2>3, InputSizes
    <2> QED
      BY <2>1, <2>4, <2>5 DEF RingIsLines
  <1>7. \/ t = s \/ t = [s EXCEPT !.e = Kept(s)] \/ (t = Erase(s) /\ s.e # s.w)
        \/ (t = Store(s, c) /\ Filling(s) < INPUT_BUF)
    <2>1. t = s \/ t = [s EXCEPT !.e = Kept(s)] \/ t = Erase(s) \/ t = Store(s, c)
      BY DEF Typed
    <2>2. t = Erase(s) /\ s.e = s.w => t = s
      BY DEF Erase
    <2>3. t = Store(s, c) /\ ~(Filling(s) < INPUT_BUF) => t = s
      BY DEF Store, Filling
    <2> QED
      BY <2>1, <2>2, <2>3
  <1> QED
    BY <1>3, <1>4, <1>5, <1>6, <1>7

\* A read that takes m characters moves r.
LEMMA ReadIs ==
  ASSUME NEW s \in Inputs, RingIsLines(s), NEW m \in 0..Entered(s),
         NEW t, t = [s EXCEPT !.r = (s.r + m) % ICOUNT]
  PROVE  /\ t \in Inputs /\ t.w = s.w
         /\ Entered(t) = Entered(s) - m /\ Filling(t) = Filling(s) - m
         /\ \A j \in Int : Nth(t, j) = Nth(s, m + j)
         /\ RingIsLines(t)
  <1> DEFINE r == s.r
             k == Entered(s)
             d == Filling(s)
             B == s.buf
  <1>1. /\ r \in 0..(ICOUNT - 1) /\ k \in 0..(ICOUNT - 1) /\ d \in 0..(ICOUNT - 1)
        /\ s.w = (r + k) % ICOUNT /\ s.e = (r + d) % ICOUNT
    BY Offsets
  <1>2. /\ k <= d /\ d <= INPUT_BUF /\ (d = INPUT_BUF => k = d)
        /\ \A j \in 0..(d - 1) : Nth(s, j) \in Key /\ (j >= k => Nth(s, j) # "\n")
    BY DEF RingIsLines
  <1>3. m \in 0..k
    OBVIOUS
  <1> HIDE DEF k, d
  <1>4. (r + m) % ICOUNT \in 0..(ICOUNT - 1)
    <2>1. r + m \in Int
      BY <1>1, <1>3
    <2> QED
      BY <2>1, Division, InputSizes
  <1>5. t \in Inputs /\ t.r = (r + m) % ICOUNT /\ t.w = s.w /\ t.e = s.e /\ t.buf = B
    BY <1>4 DEF Inputs
  <1>6. Entered(t) = k - m /\ Filling(t) = d - m
    <2>1. /\ m \in Int /\ k \in Int /\ d \in Int
          /\ k - m \in 0..(ICOUNT - 1) /\ d - m \in 0..(ICOUNT - 1)
      BY <1>1, <1>2, <1>3, InputSizes
    <2>2. /\ Minus((r + k) % ICOUNT, (r + m) % ICOUNT) = k - m
          /\ Minus((r + d) % ICOUNT, (r + m) % ICOUNT) = d - m
      BY <1>1, <2>1, Indices
    <2> QED
      BY <1>1, <1>5, <2>2 DEF Entered, Filling
  <1> HIDE DEF r
  <1>7. ASSUME NEW j \in Int
        PROVE  Nth(t, j) = Nth(s, m + j)
    <2>1. r + m \in Int /\ (r + m) + j = r + (m + j)
      BY <1>1, <1>3
    <2>2. (((r + m) % ICOUNT) + j) % INPUT_BUF = ((r + m) + j) % INPUT_BUF
      BY <2>1, InputCell
    <2> QED
      BY <1>5, <2>1, <2>2 DEF Nth, r
  <1>8. ASSUME NEW j \in 0..((d - m) - 1)
        PROVE  Nth(t, j) \in Key /\ (j >= k - m => Nth(t, j) # "\n")
    <2>1. j \in Int /\ m + j \in 0..(d - 1) /\ (j >= k - m => m + j >= k)
      BY <1>1, <1>2, <1>3
    <2> QED
      BY <1>2, <1>7, <2>1
  <1>9. k - m <= d - m /\ d - m <= INPUT_BUF /\ (d - m = INPUT_BUF => k - m = d - m)
    BY <1>1, <1>2, <1>3, InputSizes
  <1>10. RingIsLines(t)
    BY <1>6, <1>8, <1>9 DEF RingIsLines
  <1> QED
    BY <1>5, <1>6, <1>7, <1>10 DEF k, d

-----------------------------------------------------------------------------
(* The console keeps its invariant.                                        *)

LEMMA AtOut == Out \in Calls /\ Out.pc = "user" /\ Out.got = <<>>
  <1>1. <<>> \in Seq(Key)
    BY EmptySeq
  <1> QED
    BY <1>1 DEF Out, Calls

LEMMA InitConsole ==
  ASSUME ConsoleInit
  PROVE  ConsoleInv
  <1>1. /\ input.r = 0 /\ input.w = 0 /\ input.e = 0 /\ input \in Inputs
    BY InputSizes DEF ConsoleInit, Inputs
  <1>2. Entered(input) = 0 /\ Filling(input) = 0
    <2>1. 0 - 0 = 0 /\ 0 % ICOUNT = 0
      BY SmallRemainder, InputSizes
    <2> QED
      BY <1>1, <2>1 DEF Entered, Filling, Minus
  <1>3. RingIsLines(input)
    BY <1>2, InputSizes DEF RingIsLines
  <1>4. con = [p \in Reader |-> Out] /\ dead = {}
    BY DEF ConsoleInit
  <1>5. ConsoleTypeOK /\ \A p \in Reader : con[p] = Out
    BY <1>1, <1>4, AtOut DEF ConsoleTypeOK
  <1>6. CallOK(Out, input)
    BY AtOut DEF CallOK
  <1> QED
    BY <1>3, <1>5, <1>6 DEF ConsoleInv

\* A step of p that leaves the ring alone.
LEMMA KeepsOthers ==
  ASSUME ConsoleInv, UNCHANGED input, NEW p \in Reader, NEW c \in Calls, CallOK(c, input),
         con' = [con EXCEPT ![p] = c], dead' \in SUBSET Reader
  PROVE  ConsoleInv'
  <1>1. con \in [Reader -> Calls] /\ \A q \in Reader : CallOK(con[q], input)
    BY DEF ConsoleInv, ConsoleTypeOK
  <1>2. con' \in [Reader -> Calls] /\ \A q \in Reader : con'[q] = IF q = p THEN c ELSE con[q]
    BY <1>1
  <1>3. \A q \in Reader : CallOK(con'[q], input)
    BY <1>1, <1>2
  <1>4. input \in Inputs /\ RingIsLines(input)
    BY DEF ConsoleInv, ConsoleTypeOK
  <1>5. input' = input
    OBVIOUS
  <1> QED
    BY <1>2, <1>3, <1>4, <1>5 DEF ConsoleInv, ConsoleTypeOK

LEMMA KeepsTyping ==
  ASSUME ConsoleInv, consoleintr
  PROVE  ConsoleInv'
  <1>1. /\ input \in Inputs /\ RingIsLines(input) /\ con \in [Reader -> Calls]
        /\ dead \in SUBSET Reader /\ \A p \in Reader : CallOK(con[p], input)
    BY DEF ConsoleInv, ConsoleTypeOK
  <1>2. PICK c \in Key : input' = Cleared(Typed(input, c))
    BY DEF consoleintr
  <1>3. PICK t : t = Typed(input, c)
    OBVIOUS
  <1>4. t \in Inputs /\ RingIsLines(t) /\ t.r = input.r
    BY <1>1, <1>3, TypedOK
  <1>5. Cleared(t) \in Inputs /\ RingIsLines(Cleared(t)) /\ Cleared(t).r = input.r
    BY <1>4, ClearedRing, ClearedOK
  <1>6. input' \in Inputs /\ RingIsLines(input') /\ input'.r = input.r
    BY <1>2, <1>3, <1>5
  <1>7. ASSUME NEW p \in Reader
        PROVE  con'[p] \in Calls /\ CallOK(con'[p], input')
    <2>1. con[p] \in Calls /\ CallOK(con[p], input) /\ con[p].pc # "sleep"
      BY <1>1 DEF consoleintr, Held
    <2>2. CASE input'.w = input.w
      <3>1. con'[p] = con[p]
        BY <2>2 DEF consoleintr
      <3> QED
        BY <1>6, <2>1, <2>2, <3>1 DEF CallOK
    <2>3. CASE input'.w # input.w /\ con[p].pc = "wait"
      <3>1. con'[p] = [con[p] EXCEPT !.pc = "read"]
        BY <2>3 DEF consoleintr
      <3>2. con'[p] \in Calls /\ con'[p].pc = "read" /\ con'[p].got = con[p].got
        BY <2>1, <3>1 DEF Calls
      <3> QED
        BY <2>1, <2>3, <3>2 DEF CallOK
    <2>4. CASE input'.w # input.w /\ con[p].pc # "wait"
      <3>1. con'[p] = con[p]
        BY <2>4 DEF consoleintr
      <3> QED
        BY <1>6, <2>1, <2>4, <3>1 DEF CallOK
    <2> QED
      BY <2>2, <2>3, <2>4
  <1>8. con' \in [Reader -> Calls]
    <2>1. con' = [p \in Reader |-> con'[p]]
      BY <1>1 DEF consoleintr
    <2> QED
      BY <1>7, <2>1
  <1>9. dead' = dead
    BY DEF consoleintr
  <1> QED
    BY <1>1, <1>6, <1>7, <1>8, <1>9 DEF ConsoleInv, ConsoleTypeOK

\* The steps of a call but the one that reads.
LEMMA KeepsCalls ==
  ASSUME ConsoleInv, NEW p \in Reader,
         \/ ConsWrite(p) \/ ConsUnlock(p) \/ ConsSleep(p) \/ consolewrite(p) \/ ConsReturn(p)
         \/ ConsKill(p) \/ Replace(p) \/ \E n \in ReadSize : ConsRead(p, n)
  PROVE  ConsoleInv'
  <1>1. /\ con \in [Reader -> Calls] /\ con[p] \in Calls /\ CallOK(con[p], input)
        /\ dead \in SUBSET Reader
    BY DEF ConsoleInv, ConsoleTypeOK
  <1>2. PICK C : C = con[p]
    OBVIOUS
  <1>3. ASSUME NEW x \in {"user", "entry", "read", "sleep", "wait", "write", "relock"}
        PROVE  LET v == [C EXCEPT !.pc = x]
               IN  v \in Calls /\ v.pc = x /\ v.got = C.got
    BY <1>1, <1>2 DEF Calls
  <1>4. CASE ConsWrite(p)
    <2>1. PICK v : v = [C EXCEPT !.pc = "write"]
      OBVIOUS
    <2>2. v \in Calls /\ v.pc = "write" /\ v.got = <<>>
      BY <1>2, <1>3, <1>4, <2>1, AtOut DEF ConsWrite
    <2>3. CallOK(v, input)
      BY <2>2 DEF CallOK
    <2>4. con' = [con EXCEPT ![p] = v] /\ UNCHANGED <<input, dead>>
      BY <1>2, <1>4, <2>1 DEF ConsWrite
    <2> QED
      BY <1>1, <2>2, <2>3, <2>4, KeepsOthers
  <1>5. CASE ConsUnlock(p)
    <2>1. PICK v : v = [C EXCEPT !.pc = "read"]
      OBVIOUS
    <2>2. v \in Calls /\ v.pc = "read" /\ v.got = C.got
      BY <1>3, <2>1
    <2>3. CallOK(v, input)
      BY <1>1, <1>2, <1>5, <2>2 DEF CallOK, ConsUnlock
    <2>4. con' = [con EXCEPT ![p] = v] /\ UNCHANGED <<input, dead>>
      BY <1>2, <1>5, <2>1 DEF ConsUnlock
    <2> QED
      BY <1>1, <2>2, <2>3, <2>4, KeepsOthers
  <1>6. CASE ConsSleep(p)
    <2>1. PICK v : v = [C EXCEPT !.pc = "wait"]
      OBVIOUS
    <2>2. v \in Calls /\ v.pc = "wait" /\ v.got = C.got
      BY <1>3, <2>1
    <2>3. CallOK(v, input)
      BY <1>1, <1>2, <1>6, <2>2 DEF CallOK, ConsSleep
    <2>4. con' = [con EXCEPT ![p] = v] /\ UNCHANGED <<input, dead>>
      BY <1>2, <1>6, <2>1 DEF ConsSleep
    <2> QED
      BY <1>1, <2>2, <2>3, <2>4, KeepsOthers
  <1>7. CASE consolewrite(p)
    <2>1. PICK v : v = [C EXCEPT !.pc = "relock"]
      OBVIOUS
    <2>2. v \in Calls /\ v.pc = "relock"
      BY <1>3, <2>1
    <2>3. CallOK(v, input)
      BY <2>2 DEF CallOK
    <2>4. con' = [con EXCEPT ![p] = v] /\ UNCHANGED <<input, dead>>
      BY <1>2, <1>7, <2>1 DEF consolewrite
    <2> QED
      BY <1>1, <2>2, <2>3, <2>4, KeepsOthers
  <1>8. CASE ConsReturn(p)
    <2>1. CallOK(Out, input)
      BY AtOut DEF CallOK
    <2>2. con' = [con EXCEPT ![p] = Out] /\ UNCHANGED <<input, dead>>
      BY <1>8 DEF ConsReturn
    <2> QED
      BY <1>1, <2>1, <2>2, AtOut, KeepsOthers
  <1>9. CASE ConsKill(p)
    <2>1. PICK v : v = [C EXCEPT !.pc = IF C.pc = "wait" THEN "read" ELSE C.pc]
      OBVIOUS
    <2>2. /\ v \in Calls /\ v.got = C.got
          /\ v.pc = IF C.pc = "wait" THEN "read" ELSE C.pc
      BY <1>1, <1>2, <2>1 DEF Calls
    <2>3. CallOK(v, input)
      BY <1>1, <1>2, <2>2 DEF CallOK
    <2>4. con' = [con EXCEPT ![p] = v] /\ UNCHANGED input /\ dead' \in SUBSET Reader
      BY <1>1, <1>2, <1>9, <2>1 DEF ConsKill
    <2> QED
      BY <2>2, <2>3, <2>4, KeepsOthers
  <1>10. CASE Replace(p)
    <2>1. con' = [con EXCEPT ![p] = C] /\ UNCHANGED input /\ dead' \in SUBSET Reader
      BY <1>1, <1>2, <1>10 DEF Replace
    <2> QED
      BY <1>1, <1>2, <2>1, KeepsOthers
  <1>11. ASSUME NEW n \in ReadSize, ConsRead(p, n)
         PROVE  ConsoleInv'
    <2>1. PICK v : v = [pc |-> "entry", n |-> n, got |-> <<>>]
      OBVIOUS
    <2>2. v \in Calls /\ v.pc = "entry" /\ v.got = <<>>
      <3>1. <<>> \in Seq(Key) /\ n \in Nat
        BY ConsoleAssumption, EmptySeq
      <3> QED
        BY <2>1, <3>1 DEF Calls
    <2>3. CallOK(v, input)
      BY <2>2 DEF CallOK
    <2>4. con' = [con EXCEPT ![p] = v] /\ UNCHANGED <<input, dead>>
      BY <1>11, <2>1 DEF ConsRead
    <2> QED
      BY <1>1, <2>2, <2>3, <2>4, KeepsOthers
  <1> QED
    BY <1>4, <1>5, <1>6, <1>7, <1>8, <1>9, <1>10, <1>11

\* What is in neither of two sequences is not in both together.
LEMMA Joined ==
  ASSUME NEW S, NEW D, NEW g \in Seq(S), NEW y \in Seq(S), \A i \in DOMAIN g : g[i] \notin D,
         \A i \in 1..Len(y) : y[i] \notin D
  PROVE  \A i \in DOMAIN (g \o y) : (g \o y)[i] \notin D
  <1>1. Len(g) \in Nat /\ DOMAIN g = 1..Len(g) /\ Len(y) \in Nat
    BY LenProperties
  <1>2. /\ g \o y \in Seq(S) /\ Len(g \o y) = Len(g) + Len(y)
        /\ \A i \in 1..(Len(g) + Len(y)) :
             (g \o y)[i] = IF i <= Len(g) THEN g[i] ELSE y[i - Len(g)]
    BY ConcatProperties
  <1>3. DOMAIN (g \o y) = 1..(Len(g) + Len(y))
    BY <1>2, LenProperties
  <1>4. ASSUME NEW i \in 1..(Len(g) + Len(y))
        PROVE  (g \o y)[i] \notin D
    <2>1. CASE i <= Len(g)
      <3>1. i \in 1..Len(g)
        BY <1>1, <2>1
      <3> QED
        BY <1>1, <1>2, <2>1, <3>1
    <2>2. CASE ~(i <= Len(g))
      <3>1. i - Len(g) \in 1..Len(y)
        BY <1>1, <2>2
      <3> QED
        BY <1>2, <2>2, <3>1
    <2> QED
      BY <2>1, <2>2
  <1> QED
    BY <1>3, <1>4

LEMMA IsSeq ==
  ASSUME NEW S, NEW k \in Nat, NEW x \in [1..k -> S]
  PROVE  x \in Seq(S) /\ Len(x) = k
  OBVIOUS

\* Characters of the ring as a sequence.
LEMMA Characters ==
  ASSUME NEW s \in Inputs, RingIsLines(s), NEW a \in Nat, NEW k \in Nat, a + k <= Filling(s)
  PROVE  /\ Cells(s, a, k) \in Seq(Key) /\ Len(Cells(s, a, k)) = k
         /\ \A i \in 1..k : Cells(s, a, k)[i] = Nth(s, a + i - 1)
  <1>1. Filling(s) \in 0..(ICOUNT - 1)
    BY Offsets
  <1>2. ASSUME NEW i \in 1..k
        PROVE  Nth(s, a + i - 1) \in Key
    <2>1. a + i - 1 \in 0..(Filling(s) - 1)
      BY <1>1
    <2> QED
      BY <2>1 DEF RingIsLines
  <1>3. Cells(s, a, k) \in [1..k -> Key]
    <2> DEFINE e(i) == Nth(s, a + i - 1)
    <2>1. \A i \in 1..k : e(i) \in Key
      BY <1>2
    <2>2. Cells(s, a, k) = [i \in 1..k |-> e(i)]
      BY DEF Cells
    <2> HIDE DEF e
    <2> QED
      BY <2>1, <2>2
  <1>4. Cells(s, a, k) \in Seq(Key) /\ Len(Cells(s, a, k)) = k
    BY <1>3, IsSeq
  <1>5. \A i \in 1..k : Cells(s, a, k)[i] = Nth(s, a + i - 1)
    BY DEF Cells
  <1> QED
    BY <1>4, <1>5

\* What consoleread() does.
ConsTakes(p, t, k, x, c) ==
  /\ Takes(input, con[p].n, con[p].got = <<>>, t, k, x)
  /\ t.text \in Seq(Key) /\ Len(t.text) = k
  /\ input' = Cleared([input EXCEPT !.r = t.r]) /\ con' = [con EXCEPT ![p] = c]
  /\ c \in Calls /\ c.got = con[p].got \o t.text
  /\ c.pc = "relock" \/ (c.pc = "sleep" /\ ~t.done)
  /\ con[p].pc = "read" /\ ~Held /\ UNCHANGED dead

LEMMA ConsoleReadStep ==
  ASSUME ConsoleInv, NEW p \in Reader, consoleread(p)
  PROVE  \E t, k, x, c : ConsTakes(p, t, k, x, c)
  <1>1. /\ input \in Inputs /\ RingIsLines(input) /\ con \in [Reader -> Calls]
        /\ con[p] \in Calls
    BY DEF ConsoleInv, ConsoleTypeOK
  <1>2. PICK C : C = con[p]
    OBVIOUS
  <1>3. C.n \in Nat /\ C.got \in Seq(Key) /\ C \in Calls
    BY <1>1, <1>2 DEF Calls
  <1>4. PICK t : t = Taken(input, C.n, C.got = <<>>)
    OBVIOUS
  <1>5. PICK k, x : Takes(input, C.n, C.got = <<>>, t, k, x)
    BY <1>1, <1>3, <1>4, TakenIs
  <1>6. /\ k \in 0..Entered(input) /\ k <= C.n
        /\ t.text = Cells(input, 0, k)
    BY <1>5 DEF Takes
  <1>7. t.text \in Seq(Key) /\ Len(t.text) = k
    <2>1. Entered(input) \in 0..(ICOUNT - 1) /\ Entered(input) <= Filling(input)
      BY <1>1, Offsets DEF RingIsLines
    <2>2. k \in Nat /\ 0 \in Nat /\ 0 + k <= Filling(input)
      BY <1>1, <1>6, <2>1, Offsets
    <2> QED
      BY <1>1, <1>6, <2>2, Characters
  <1>8. PICK c : c = [C EXCEPT !.got = C.got \o t.text, !.n = C.n - Len(t.text),
                               !.pc = IF t.done THEN "relock"
                                      ELSE IF p \in dead THEN "relock" ELSE "sleep"]
    OBVIOUS
  <1>9. /\ input' = Cleared([input EXCEPT !.r = t.r])
        /\ con[p].pc = "read" /\ ~Held /\ UNCHANGED dead
    BY <1>2, <1>4 DEF consoleread
  <1>10. con' = [con EXCEPT ![p] = c]
    BY <1>2, <1>4, <1>8 DEF consoleread
  <1>11. C.got \o t.text \in Seq(Key) /\ C.n - Len(t.text) \in Nat
    <2>1. k \in Nat /\ k <= C.n
      <3>1. Entered(input) \in 0..(ICOUNT - 1)
        BY <1>1, Offsets
      <3> QED
        BY <1>6, <3>1
    <2>2. C.got \o t.text \in Seq(Key)
      BY <1>3, <1>7, ConcatProperties
    <2> QED
      BY <1>3, <1>7, <2>1, <2>2
  <1>12. /\ c \in Calls /\ c.got = C.got \o t.text
         /\ c.pc = "relock" \/ (c.pc = "sleep" /\ ~t.done)
    BY <1>3, <1>8, <1>11 DEF Calls
  <1>13. ConsTakes(p, t, k, x, c)
    BY <1>2, <1>5, <1>7, <1>9, <1>10, <1>12 DEF ConsTakes
  <1> QED
    BY <1>13

LEMMA KeepsReading ==
  ASSUME ConsoleInv, NEW p \in Reader, consoleread(p)
  PROVE  ConsoleInv'
  <1>1. /\ input \in Inputs /\ RingIsLines(input) /\ con \in [Reader -> Calls]
        /\ dead \in SUBSET Reader /\ \A q \in Reader : CallOK(con[q], input)
    BY DEF ConsoleInv, ConsoleTypeOK
  <1>2. PICK t, k, x, c : ConsTakes(p, t, k, x, c)
    BY ConsoleReadStep
  <1>3. /\ k \in 0..Entered(input) /\ x \in {0, 1} /\ k + x <= Entered(input)
        /\ t.text = Cells(input, 0, k)
        /\ t.r = (input.r + (k + x)) % ICOUNT
        /\ \A i \in 1..k : Nth(input, i - 1) # "^D"
        /\ ~t.done => k = Entered(input) /\ x = 0 /\ \A i \in 1..k : Nth(input, i - 1) # "\n"
    BY <1>2 DEF ConsTakes, Takes
  <1>4. PICK m, s : m = k + x /\ s = [input EXCEPT !.r = t.r]
    OBVIOUS
  <1>5. Entered(input) \in 0..(ICOUNT - 1) /\ (Entered(input) = 0 <=> input.r = input.w)
    BY <1>1, Offsets
  <1>6. m \in 0..Entered(input) /\ k \in Nat
    BY <1>3, <1>4, <1>5
  <1>7. s \in Inputs /\ s.w = input.w /\ Entered(s) = Entered(input) - m /\ RingIsLines(s)
    BY <1>1, <1>3, <1>4, <1>6, ReadIs
  <1>8. /\ Cleared(s) \in Inputs /\ RingIsLines(Cleared(s)) /\ Cleared(s).r = s.r
        /\ Cleared(s).w = s.w
    BY <1>7, ClearedRing, ClearedOK
  <1>9. input' = Cleared(s) /\ con' = [con EXCEPT ![p] = c] /\ UNCHANGED dead
    BY <1>2, <1>4 DEF ConsTakes
  <1>10. m = Entered(input) => input'.r = input'.w
    <2>1. Entered(s) = 0 <=> s.r = s.w
      BY <1>7, Offsets
    <2>2. m = Entered(input) => Entered(input) - m = 0
      BY <1>5
    <2> QED
      BY <1>7, <1>8, <1>9, <2>1, <2>2
  <1>11. CallOK(c, input')
    <2>1. CASE c.pc = "relock"
      BY <2>1 DEF CallOK
    <2>2. CASE c.pc = "sleep" /\ ~t.done
      <3>1. k = Entered(input) /\ x = 0 /\ \A i \in 1..k : Nth(input, i - 1) # "\n"
        BY <1>3, <2>2
      <3>2. m = Entered(input)
        BY <1>4, <1>5, <3>1
      <3>3. PICK g, y : g = con[p].got /\ y = t.text
        OBVIOUS
      <3>4. /\ g \in Seq(Key) /\ y \in Seq(Key) /\ Len(y) = k /\ c.got = g \o y
            /\ \A i \in DOMAIN g : g[i] \notin {"\n", "^D"}
        <4>1. con[p] \in Calls /\ CallOK(con[p], input) /\ con[p].pc = "read"
          BY <1>1, <1>2 DEF ConsTakes
        <4> QED
          BY <1>2, <3>3, <4>1 DEF ConsTakes, Calls, CallOK
      <3>5. \A i \in 1..k : y[i] \notin {"\n", "^D"}
        <4>1. \A i \in 1..k : y[i] = Nth(input, 0 + i - 1) /\ 0 + i - 1 = i - 1
          BY <1>3, <1>6, <3>3 DEF Cells
        <4> QED
          BY <1>3, <3>1, <4>1
      <3>6. \A i \in DOMAIN (g \o y) : (g \o y)[i] \notin {"\n", "^D"}
        BY <3>4, <3>5, Joined
      <3> QED
        BY <1>10, <2>2, <3>2, <3>4, <3>6 DEF CallOK
    <2> QED
      BY <1>2, <2>1, <2>2 DEF ConsTakes
  <1>12. ASSUME NEW q \in Reader, q # p
         PROVE  CallOK(con[q], input')
    <2>1. CallOK(con[q], input) /\ con[q].pc # "sleep"
      BY <1>1, <1>2 DEF ConsTakes, Held
    <2>2. con[q].pc = "wait" => input'.r = input'.w
      <3>1. input.r = input.w => m = Entered(input)
        BY <1>5, <1>6
      <3> QED
        BY <1>10, <2>1, <3>1 DEF CallOK
    <2> QED
      BY <2>1, <2>2 DEF CallOK
  <1>13. c \in Calls
    BY <1>2 DEF ConsTakes
  <1>14. con' \in [Reader -> Calls] /\ \A q \in Reader : con'[q] = IF q = p THEN c ELSE con[q]
    BY <1>1, <1>9, <1>13
  <1>15. \A q \in Reader : CallOK(con'[q], input')
    BY <1>11, <1>12, <1>14
  <1> QED
    BY <1>1, <1>8, <1>9, <1>14, <1>15 DEF ConsoleInv, ConsoleTypeOK

LEMMA ConsoleStep ==
  ASSUME ConsoleInv, [ConsoleNext]_cvars
  PROVE  ConsoleInv'
  <1>1. CASE UNCHANGED cvars
    BY <1>1 DEF cvars, ConsoleInv, ConsoleTypeOK
  <1>2. CASE consoleintr
    BY <1>2, KeepsTyping
  <1>3. ASSUME NEW p \in Reader, consoleread(p)
        PROVE  ConsoleInv'
    BY <1>3, KeepsReading
  <1>4. ASSUME NEW p \in Reader,
               \/ ConsWrite(p) \/ ConsUnlock(p) \/ ConsSleep(p) \/ consolewrite(p) \/ ConsReturn(p)
               \/ ConsKill(p) \/ Replace(p) \/ \E n \in ReadSize : ConsRead(p, n)
        PROVE  ConsoleInv'
    BY <1>4, KeepsCalls
  <1> QED
    BY <1>1, <1>2, <1>3, <1>4 DEF ConsoleNext, InCall

\* The inductive invariant of the console.
THEOREM ConsoleInvariant == ConsoleSpec => []ConsoleInv
  <1>1. ConsoleInit => ConsoleInv
    BY InitConsole
  <1>2. ConsoleInv /\ [ConsoleNext]_cvars => ConsoleInv'
    BY ConsoleStep
  <1> QED
    BY <1>1, <1>2, PTL DEF ConsoleSpec

\* Nobody sleeps in consoleread() while a line waits in the ring, and a full ring has
\* been entered, for any number of readers and any size of the ring: consoleintr() never
\* drops what is typed while everybody waits for a newline that does not fit.
THEOREM ConsoleNeverStuck == ConsoleSpec => []ConsoleSleepers
  <1>1. ConsoleInv => ConsoleSleepers
    <2> SUFFICES ASSUME ConsoleInv PROVE ConsoleSleepers
      OBVIOUS
    <2>1. input \in Inputs /\ RingIsLines(input) /\ \A p \in Reader : CallOK(con[p], input)
      BY DEF ConsoleInv, ConsoleTypeOK
    <2>2. Entered(input) = Filling(input) => input.w = input.e
      BY <2>1, Offsets
    <2>3. \A p \in Reader : con[p].pc = "wait" => input.r = input.w
      BY <2>1 DEF CallOK
    <2> QED
      BY <2>1, <2>2, <2>3 DEF ConsoleSleepers, RingIsLines, Filling
  <1> QED
    BY <1>1, ConsoleInvariant, PTL

-----------------------------------------------------------------------------
(* The console implements the line discipline.                             *)

LEMMA SameCells ==
  ASSUME NEW s, NEW t, NEW a \in Int, NEW b \in Int, NEW k \in Int,
         \A j \in 0..(k - 1) : Nth(t, a + j) = Nth(s, b + j)
  PROVE  Cells(t, a, k) = Cells(s, b, k)
  <1> DEFINE f(i) == Nth(t, a + i - 1)
             g(i) == Nth(s, b + i - 1)
  <1>1. ASSUME NEW i \in 1..k
        PROVE  f(i) = g(i)
    <2>1. i - 1 \in 0..(k - 1) /\ a + i - 1 = a + (i - 1) /\ b + i - 1 = b + (i - 1)
      OBVIOUS
    <2> QED
      BY <2>1
  <1>2. Cells(t, a, k) = [i \in 1..k |-> f(i)] /\ Cells(s, b, k) = [i \in 1..k |-> g(i)]
    BY DEF Cells
  <1> HIDE DEF f, g
  <1> QED
    BY <1>1, <1>2

\* The characters of the ring between two of its indices.
View(s, a, b) == [i \in 1..Minus(b, a) |-> s.buf[((a + i - 1) % ICOUNT) % INPUT_BUF]]

LEMMA ViewIs ==
  ASSUME NEW s \in Inputs, RingIsLines(s)
  PROVE  /\ View(s, s.r, s.w) = Cells(s, 0, Entered(s))
         /\ View(s, s.w, s.e) = Cells(s, Entered(s), Filling(s) - Entered(s))
  <1>1. PICK r, w, e, k, d, B : /\ r = s.r /\ w = s.w /\ e = s.e /\ B = s.buf
                                /\ k = Entered(s) /\ d = Filling(s)
    OBVIOUS
  <1>2. /\ r \in 0..(ICOUNT - 1) /\ k \in 0..(ICOUNT - 1) /\ d \in 0..(ICOUNT - 1)
        /\ w = (r + k) % ICOUNT /\ e = (r + d) % ICOUNT
    BY <1>1, Offsets
  <1>3. k <= d
    BY <1>1 DEF RingIsLines
  <1>4. r \in Int /\ k \in Int /\ d \in Int /\ d - k \in 0..(ICOUNT - 1)
    BY <1>2, <1>3, InputSizes
  <1>5. Minus(w, r) = k /\ Minus(e, w) = d - k
    <2>1. Minus(e, w) = d - k
      BY <1>2, <1>4, Indices
    <2> QED
      BY <1>1, <2>1 DEF Entered
  <1>6. ASSUME NEW i \in 1..k
        PROVE  B[((r + i - 1) % ICOUNT) % INPUT_BUF] = Nth(s, 0 + i - 1)
    <2>1. r + i - 1 \in Int /\ 0 \in Int /\ r + (0 + i - 1) = r + i - 1
      BY <1>4
    <2>2. ((r + i - 1) % ICOUNT) % INPUT_BUF = (r + i - 1) % INPUT_BUF
      BY <2>1, InputCell
    <2> QED
      BY <1>1, <2>1, <2>2 DEF Nth
  <1>7. ASSUME NEW i \in 1..(d - k)
        PROVE  B[((w + i - 1) % ICOUNT) % INPUT_BUF] = Nth(s, k + i - 1)
    <2>1. r + k \in Int /\ i - 1 \in Int /\ (r + k) + (i - 1) = r + (k + i - 1)
      BY <1>4
    <2>2. w \in Int /\ w + i - 1 \in Int /\ w + i - 1 = w + (i - 1)
      <3>1. w \in 0..(ICOUNT - 1)
        BY <1>1, Offsets
      <3> QED
        BY <3>1, InputSizes
    <2>3. ((w + i - 1) % ICOUNT) % INPUT_BUF = (w + i - 1) % INPUT_BUF
      BY <2>2, InputCell
    <2>4. (w + (i - 1)) % INPUT_BUF = ((r + k) + (i - 1)) % INPUT_BUF
      BY <1>2, <2>1, InputCell
    <2> QED
      BY <1>1, <2>1, <2>2, <2>3, <2>4 DEF Nth
  <1> DEFINE f(i) == B[((r + i - 1) % ICOUNT) % INPUT_BUF]
             g(i) == B[((w + i - 1) % ICOUNT) % INPUT_BUF]
             h(i) == Nth(s, 0 + i - 1)
             l(i) == Nth(s, k + i - 1)
  <1>8. (\A i \in 1..k : f(i) = h(i)) /\ (\A i \in 1..(d - k) : g(i) = l(i))
    BY <1>6, <1>7
  <1>9. /\ View(s, r, w) = [i \in 1..k |-> f(i)] /\ View(s, w, e) = [i \in 1..(d - k) |-> g(i)]
        /\ Cells(s, 0, k) = [i \in 1..k |-> h(i)]
        /\ Cells(s, k, d - k) = [i \in 1..(d - k) |-> l(i)]
    BY <1>1, <1>5 DEF View, Cells
  <1> HIDE DEF f, g, h, l
  <1>10. View(s, r, w) = Cells(s, 0, k) /\ View(s, w, e) = Cells(s, k, d - k)
    BY <1>8, <1>9
  <1> QED
    BY <1>1, <1>10

\* Cells one after the other.
LEMMA Adjacent ==
  ASSUME NEW s \in Inputs, RingIsLines(s), NEW a \in Nat, NEW k \in Nat, NEW m \in Nat,
         a + k + m <= Filling(s)
  PROVE  Cells(s, a, k) \o Cells(s, a + k, m) = Cells(s, a, k + m)
  <1>1. PICK X, Y, Z : X = Cells(s, a, k) /\ Y = Cells(s, a + k, m) /\ Z = Cells(s, a, k + m)
    OBVIOUS
  <1>2. Filling(s) \in 0..(ICOUNT - 1) /\ a + k \in Nat /\ k + m \in Nat
    BY Offsets
  <1>3. /\ a + k <= Filling(s) /\ (a + k) + m <= Filling(s) /\ a + (k + m) <= Filling(s)
    BY <1>2, InputSizes
  <1>4. /\ X \in Seq(Key) /\ Len(X) = k /\ (\A i \in 1..k : X[i] = Nth(s, a + i - 1))
        /\ Y \in Seq(Key) /\ Len(Y) = m /\ (\A i \in 1..m : Y[i] = Nth(s, (a + k) + i - 1))
        /\ Z \in Seq(Key) /\ Len(Z) = k + m /\ (\A i \in 1..(k + m) : Z[i] = Nth(s, a + i - 1))
    BY <1>1, <1>2, <1>3, Characters
  <1>5. /\ X \o Y \in Seq(Key) /\ Len(X \o Y) = k + m
        /\ \A i \in 1..(k + m) : (X \o Y)[i] = IF i <= k THEN X[i] ELSE Y[i - k]
    BY <1>4, ConcatProperties
  <1>6. ASSUME NEW i \in 1..(k + m)
        PROVE  (X \o Y)[i] = Z[i]
    <2>1. CASE i <= k
      <3>1. i \in 1..k
        BY <2>1
      <3> QED
        BY <1>4, <1>5, <2>1, <3>1
    <2>2. CASE ~(i <= k)
      <3>1. i - k \in 1..m /\ (a + k) + (i - k) - 1 = a + i - 1
        BY <2>2
      <3> QED
        BY <1>4, <1>5, <2>2, <3>1
    <2> QED
      BY <2>1, <2>2
  <1>7. X \o Y = Z
    BY <1>4, <1>5, <1>6, SeqEqual
  <1> QED
    BY <1>1, <1>7

\* One more cell.
LEMMA Appended ==
  ASSUME NEW s \in Inputs, RingIsLines(s), NEW a \in Nat, NEW k \in Nat, a + k < Filling(s)
  PROVE  Append(Cells(s, a, k), Nth(s, a + k)) = Cells(s, a, k + 1)
  <1>1. PICK X, Z, y : X = Cells(s, a, k) /\ Z = Cells(s, a, k + 1) /\ y = Nth(s, a + k)
    OBVIOUS
  <1>2. Filling(s) \in 0..(ICOUNT - 1) /\ k + 1 \in Nat
    BY Offsets
  <1>3. a + k <= Filling(s) /\ a + (k + 1) <= Filling(s) /\ a + k \in 0..(Filling(s) - 1)
    BY <1>2, InputSizes
  <1>4. /\ X \in Seq(Key) /\ Len(X) = k /\ (\A i \in 1..k : X[i] = Nth(s, a + i - 1))
        /\ Z \in Seq(Key) /\ Len(Z) = k + 1 /\ (\A i \in 1..(k + 1) : Z[i] = Nth(s, a + i - 1))
    BY <1>1, <1>2, <1>3, Characters
  <1>5. y \in Key
    BY <1>1, <1>3 DEF RingIsLines
  <1>6. /\ Append(X, y) \in Seq(Key) /\ Len(Append(X, y)) = k + 1
        /\ (\A i \in 1..k : Append(X, y)[i] = X[i]) /\ Append(X, y)[k + 1] = y
    BY <1>4, <1>5, AppendProperties
  <1>7. ASSUME NEW i \in 1..(k + 1)
        PROVE  Append(X, y)[i] = Z[i]
    <2>1. CASE i = k + 1
      <3>1. a + (k + 1) - 1 = a + k
        OBVIOUS
      <3> QED
        BY <1>1, <1>4, <1>6, <2>1, <3>1
    <2>2. CASE i # k + 1
      <3>1. i \in 1..k
        BY <2>2
      <3> QED
        BY <1>4, <1>6, <3>1
    <2> QED
      BY <2>1, <2>2
  <1>8. Append(X, y) = Z
    BY <1>4, <1>6, <1>7, SeqEqual
  <1> QED
    BY <1>1, <1>8

\* Fewer cells.
Part(X, m, n) == SubSeq(X, m + 1, n)

LEMMA Shortened ==
  ASSUME NEW s \in Inputs, RingIsLines(s), NEW a \in Nat, NEW k \in Nat, a + k <= Filling(s),
         NEW m \in Nat, NEW n \in Nat, m <= n, n <= k,
         NEW b, b = a + m, NEW l, l = n - m
  PROVE  Part(Cells(s, a, k), m, n) = Cells(s, b, l)
  <1>1. PICK X, Y, Z : X = Cells(s, a, k) /\ Y = SubSeq(X, m + 1, n) /\ Z = Cells(s, a + m, n - m)
    OBVIOUS
  <1>2. Filling(s) \in 0..(ICOUNT - 1) /\ a + m \in Nat /\ n - m \in Nat
    BY Offsets
  <1>3. (a + m) + (n - m) <= Filling(s)
    BY <1>2, InputSizes
  <1>4. /\ X \in Seq(Key) /\ Len(X) = k /\ (\A i \in 1..k : X[i] = Nth(s, a + i - 1))
        /\ Z \in Seq(Key) /\ Len(Z) = n - m
        /\ (\A i \in 1..(n - m) : Z[i] = Nth(s, (a + m) + i - 1))
    BY <1>1, <1>2, <1>3, Characters
  <1>6. /\ Y \in Seq(Key) /\ Len(Y) = n - m
        /\ \A i \in 1..(n - m) : Y[i] = X[m + i]
    <2>1. m + 1 \in 1..(k + 1) /\ n \in (m + 1 - 1)..k
      OBVIOUS
    <2>2. /\ Y \in Seq(Key)
          /\ Len(Y) = IF m + 1 <= n THEN n - (m + 1) + 1 ELSE 0
          /\ \A i \in 1..(n - (m + 1) + 1) : Y[i] = X[(m + 1) + i - 1]
      BY <1>1, <1>4, <2>1, SubSeqProperties
    <2>3. n - (m + 1) + 1 = n - m /\ (~(m + 1 <= n) => n - m = 0)
      OBVIOUS
    <2>4. \A i \in 1..(n - m) : (m + 1) + i - 1 = m + i
      OBVIOUS
    <2> QED
      BY <2>2, <2>3, <2>4
  <1>7. ASSUME NEW i \in 1..(n - m)
        PROVE  Y[i] = Z[i]
    <2>1. m + i \in 1..k /\ a + (m + i) - 1 = (a + m) + i - 1
      OBVIOUS
    <2> QED
      BY <1>4, <1>6, <2>1
  <1>8. Y = Z
    BY <1>4, <1>6, <1>7, SeqEqual
  <1> QED
    BY <1>1, <1>8 DEF Part

\* What was entered, and the line being edited.
Lines(s) == Cells(s, 0, Entered(s))
Line(s) == Cells(s, Entered(s), Filling(s) - Entered(s))

LEMMA LinesAre ==
  ASSUME NEW s \in Inputs, RingIsLines(s)
  PROVE  /\ Lines(s) \in Seq(Key) /\ Len(Lines(s)) = Entered(s)
         /\ Line(s) \in Seq(Key) /\ Len(Line(s)) = Filling(s) - Entered(s)
         /\ Lines(s) \o Line(s) = Cells(s, 0, Filling(s)) /\ Len(Cells(s, 0, Filling(s))) = Filling(s)
         /\ Entered(s) \in Nat /\ Filling(s) \in Nat /\ Filling(s) - Entered(s) \in Nat
  <1>1. PICK k, d : k = Entered(s) /\ d = Filling(s)
    OBVIOUS
  <1>2. k \in 0..(ICOUNT - 1) /\ d \in 0..(ICOUNT - 1) /\ k <= d
    BY <1>1, Offsets DEF RingIsLines
  <1>3. /\ 0 \in Nat /\ k \in Nat /\ d \in Nat /\ d - k \in Nat /\ 0 + k = k /\ k + (d - k) = d
        /\ 0 + k <= d /\ k + (d - k) <= d /\ 0 + k + (d - k) <= d /\ 0 + d <= d
    BY <1>2, InputSizes
  <1>4. /\ Cells(s, 0, k) \in Seq(Key) /\ Len(Cells(s, 0, k)) = k
        /\ Cells(s, k, d - k) \in Seq(Key) /\ Len(Cells(s, k, d - k)) = d - k
        /\ Len(Cells(s, 0, d)) = d
    BY <1>1, <1>3, Characters
  <1>5. Cells(s, 0, k) \o Cells(s, 0 + k, d - k) = Cells(s, 0, k + (d - k))
    <2>1. PICK o, m : o = 0 /\ m = d - k
      OBVIOUS
    <2>2. o \in Nat /\ m \in Nat /\ k \in Nat /\ o + k + m <= Filling(s)
      BY <1>1, <1>3, <2>1
    <2>3. Cells(s, o, k) \o Cells(s, o + k, m) = Cells(s, o, k + m)
      BY <2>2, Adjacent
    <2> QED
      BY <2>1, <2>3
  <1> QED
    BY <1>1, <1>3, <1>4, <1>5 DEF Lines, Line

\* The same lines, in a ring that has the same characters.
LEMMA SameLines ==
  ASSUME NEW s \in Inputs, RingIsLines(s), NEW t, Entered(t) = Entered(s), Filling(t) = Filling(s),
         \A j \in 0..(Filling(s) - 1) : Nth(t, j) = Nth(s, j)
  PROVE  Lines(t) = Lines(s) /\ Line(t) = Line(s)
  <1>1. PICK k, d : k = Entered(s) /\ d = Filling(s)
    OBVIOUS
  <1>2. k \in 0..(ICOUNT - 1) /\ d \in 0..(ICOUNT - 1) /\ k <= d
    BY <1>1, Offsets DEF RingIsLines
  <1>3. k \in Int /\ d - k \in Int /\ 0 \in Int
    BY <1>2, InputSizes
  <1>4. \A j \in 0..(k - 1) : Nth(t, 0 + j) = Nth(s, 0 + j)
    <2>1. \A j \in 0..(k - 1) : 0 + j = j /\ j \in 0..(d - 1)
      BY <1>2, InputSizes
    <2> QED
      BY <1>1, <2>1
  <1>5. \A j \in 0..(d - k - 1) : Nth(t, k + j) = Nth(s, k + j)
    <2>1. \A j \in 0..(d - k - 1) : k + j \in 0..(d - 1)
      BY <1>2, InputSizes
    <2> QED
      BY <1>1, <2>1
  <1>6. Cells(t, 0, k) = Cells(s, 0, k)
    BY <1>3, <1>4, SameCells
  <1>7. Cells(t, k, d - k) = Cells(s, k, d - k)
    BY <1>3, <1>5, SameCells
  <1> QED
    BY <1>1, <1>6, <1>7 DEF Lines, Line

LEMMA NoCells == \A s, a : Cells(s, a, 0) = <<>>
  BY DEF Cells

\* A character that is typed does to the ring what it does to the lines.
LEMMA TypedShown ==
  ASSUME NEW s \in Inputs, RingIsLines(s), NEW c \in Key, NEW t, t = Typed(s, c)
  PROVE  <<Lines(t), Line(t)>> = L!Typed(<<Lines(s), Line(s)>>, c)
  <1>1. PICK q, l, W, k, d : /\ q = Lines(s) /\ l = Line(s) /\ W = q \o l
                             /\ k = Entered(s) /\ d = Filling(s)
    OBVIOUS
  <1>2. PICK T : T = L!Typed(<<q, l>>, c)
    OBVIOUS
  <1>3. /\ c = "^U" => T = <<q, <<>>>>
        /\ c = "^H" => T = <<q, IF l = <<>> THEN <<>> ELSE SubSeq(l, 1, Len(l) - 1)>>
        /\ c = "^P" => T = <<q, l>>
        /\ c \notin {"^U", "^H"} /\ Len(W) = INPUT_BUF => T = <<q, l>>
        /\ c \notin {"^U", "^H", "^P"} /\ Len(W) # INPUT_BUF =>
             T = IF c \in {"\n", "^D"} \/ Len(W) + 1 = INPUT_BUF
                 THEN <<Append(W, c), <<>>>> ELSE <<q, Append(l, c)>>
    BY <1>1, <1>2 DEF L!Typed
  <1>4. SUFFICES <<Lines(t), Line(t)>> = T
    BY <1>1, <1>2
  <1>5. /\ q \in Seq(Key) /\ Len(q) = k /\ l \in Seq(Key) /\ Len(l) = d - k /\ Len(W) = d
        /\ W = Cells(s, 0, d) /\ k \in Nat /\ d \in Nat /\ d - k \in Nat
        /\ q = Cells(s, 0, k) /\ l = Cells(s, k, d - k)
    <2>1. q = Cells(s, 0, k) /\ l = Cells(s, k, d - k)
      BY <1>1 DEF Lines, Line
    <2> QED
      BY <1>1, <2>1, LinesAre
  <1>6. k <= d /\ d <= INPUT_BUF /\ (d = INPUT_BUF => k = d)
    BY <1>1 DEF RingIsLines
  <1>7. t \in Inputs /\ RingIsLines(t)
    BY TypedOK
  <1>8. l = <<>> <=> s.e = s.w
    <2>1. l = <<>> <=> d - k = 0
      BY <1>5, EmptySeq
    <2>2. k = d <=> s.w = s.e
      BY <1>1, Offsets
    <2> QED
      BY <1>5, <2>1, <2>2
  <1>9. CASE c = "^U"
    <2>1. /\ t \in Inputs /\ t.r = s.r /\ t.buf = s.buf /\ Entered(t) = k /\ Filling(t) = k
      <3>1. t = [s EXCEPT !.e = Kept(s)]
        BY <1>9 DEF Typed
      <3> QED
        BY <1>1, <3>1, KillIs
    <2>2. Line(t) = <<>>
      BY <1>5, <2>1, NoCells DEF Line
    <2>3. Lines(t) = q
      BY <1>1, <2>1 DEF Lines, Cells, Nth
    <2> QED
      BY <1>1, <1>9, <2>2, <2>3, <1>3
  <1>10. CASE c = "^H" /\ s.e = s.w
    <2>1. t = s
      BY <1>10 DEF Typed, Erase
    <2> QED
      BY <1>1, <1>8, <1>10, <2>1, <1>3
  <1>11. CASE c = "^H" /\ s.e # s.w
    <2>1. /\ t.r = s.r /\ t.buf = s.buf /\ Entered(t) = k /\ Filling(t) = d - 1 /\ k < d
      <3>1. t = Erase(s)
        BY <1>11 DEF Typed
      <3> QED
        BY <1>1, <1>11, <3>1, EraseIs
    <2>2. Lines(t) = q
      BY <1>1, <2>1 DEF Lines, Cells, Nth
    <2>3. Line(t) = Cells(s, k, d - 1 - k)
      BY <1>1, <2>1 DEF Line, Cells, Nth
    <2>4. SubSeq(l, 0 + 1, d - k - 1) = Cells(s, k + 0, d - k - 1 - 0)
      <3>1. PICK o, m, n : o = 0 /\ m = d - k /\ n = d - k - 1
        OBVIOUS
      <3>2. k + m <= Filling(s) /\ k \in Nat /\ m \in Nat /\ n \in Nat /\ o \in Nat
            /\ o <= n /\ n <= m
        BY <1>1, <1>5, <2>1, <3>1
      <3>3. PICK b, f : b = k + o /\ f = n - o
        OBVIOUS
      <3>4. Part(Cells(s, k, m), o, n) = Cells(s, b, f)
        BY <3>2, <3>3, Shortened
      <3> QED
        BY <1>5, <3>1, <3>3, <3>4 DEF Part
    <2>5. k + 0 = k /\ d - k - 1 - 0 = d - 1 - k /\ 0 + 1 = 1
      BY <1>5
    <2>6. Line(t) = SubSeq(l, 1, Len(l) - 1)
      BY <1>5, <2>3, <2>4, <2>5
    <2> QED
      BY <1>1, <1>8, <1>11, <2>2, <2>6, <1>3
  <1>12. CASE c = "^P" \/ (c \notin {"^U", "^H"} /\ d = INPUT_BUF)
    <2>1. c # "^P" => t = Store(s, c)
      BY <1>12 DEF Typed
    <2>2. ~(INPUT_BUF < INPUT_BUF)
      BY InputSizes
    <2>3. t = s
      BY <1>1, <1>12, <2>1, <2>2 DEF Typed, Store, Filling
    <2> QED
      BY <1>1, <1>5, <1>12, <2>3, <1>3
  <1>13. CASE c \notin {"^U", "^H", "^P"} /\ d # INPUT_BUF
    <2>1. /\ t.r = s.r /\ Filling(t) = d + 1
          /\ Entered(t) = IF c \in {"\n", "^D"} \/ d + 1 = INPUT_BUF THEN d + 1 ELSE k
          /\ Nth(t, d) = c
          /\ \A j \in 0..(d - 1) : Nth(t, j) = Nth(s, j)
      <3>1. t = Store(s, c)
        BY <1>13 DEF Typed
      <3>2. d < INPUT_BUF
        BY <1>5, <1>6, <1>13, InputSizes
      <3> QED
        BY <1>1, <3>1, <3>2, StoreIs
    <2>2. CASE c \in {"\n", "^D"} \/ d + 1 = INPUT_BUF
      <3>1. Entered(t) = d + 1
        BY <2>1, <2>2
      <3>2. (d + 1) - (d + 1) = 0 /\ 0 + d = d /\ 0 + d < d + 1
        BY <1>5
      <3>3. Line(t) = <<>>
        BY <2>1, <3>1, <3>2, NoCells DEF Line
      <3>4. Append(Cells(t, 0, d), Nth(t, 0 + d)) = Cells(t, 0, d + 1)
        BY <1>5, <1>7, <2>1, <3>2, Appended
      <3>5. Cells(t, 0, d) = Cells(s, 0, d)
        <4>1. d \in Int /\ 0 \in Int /\ \A j \in 0..(d - 1) : 0 + j = j
          BY <1>5
        <4> QED
          BY <2>1, <4>1, SameCells
      <3>6. Lines(t) = Append(W, c)
        BY <1>5, <2>1, <3>1, <3>2, <3>4, <3>5 DEF Lines
      <3> QED
        BY <1>1, <1>5, <1>13, <2>2, <3>3, <3>6, <1>3
    <2>3. CASE ~(c \in {"\n", "^D"} \/ d + 1 = INPUT_BUF)
      <3>1. Entered(t) = k
        BY <2>1, <2>3
      <3>2. /\ (d + 1) - k = (d - k) + 1 /\ k + (d - k) = d /\ k + (d - k) < d + 1
            /\ \A j \in 0..(k - 1) : 0 + j = j /\ j \in 0..(d - 1)
            /\ \A j \in 0..(d - k - 1) : k + j \in 0..(d - 1)
        BY <1>5, <1>6
      <3>3. Append(Cells(t, k, d - k), Nth(t, k + (d - k))) = Cells(t, k, (d - k) + 1)
        BY <1>5, <1>7, <2>1, <3>2, Appended
      <3>4. Cells(t, 0, k) = Cells(s, 0, k)
        <4>1. \A j \in 0..(k - 1) : Nth(t, 0 + j) = Nth(s, 0 + j)
          BY <2>1, <3>2
        <4>2. k \in Int /\ 0 \in Int
          BY <1>5
        <4> QED
          BY <4>1, <4>2, SameCells
      <3>5. Cells(t, k, d - k) = Cells(s, k, d - k)
        <4>1. \A j \in 0..(d - k - 1) : Nth(t, k + j) = Nth(s, k + j)
          BY <2>1, <3>2
        <4>2. k \in Int /\ d - k \in Int
          BY <1>5
        <4> QED
          BY <4>1, <4>2, SameCells
      <3>6. Lines(t) = q
        BY <1>5, <3>1, <3>4 DEF Lines
      <3>7. Line(t) = Append(l, c)
        BY <1>5, <2>1, <3>1, <3>2, <3>3, <3>5 DEF Line
      <3> QED
        BY <1>1, <1>5, <1>13, <2>3, <3>6, <3>7, <1>3
    <2> QED
      BY <2>2, <2>3
  <1> QED
    BY <1>9, <1>10, <1>11, <1>12, <1>13

\* What a read that takes m characters leaves.
LEMMA ReadShown ==
  ASSUME NEW s \in Inputs, RingIsLines(s), NEW m \in 0..Entered(s),
         NEW t, t = [s EXCEPT !.r = (s.r + m) % ICOUNT]
  PROVE  /\ t \in Inputs /\ RingIsLines(t) /\ Line(t) = Line(s)
         /\ Lines(t) = Part(Lines(s), m, Entered(s)) /\ Part(Lines(s), 0, m) = Cells(s, 0, m)
  <1>1. PICK k, d : k = Entered(s) /\ d = Filling(s)
    OBVIOUS
  <1>2. k \in 0..(ICOUNT - 1) /\ d \in 0..(ICOUNT - 1) /\ k <= d
    BY <1>1, Offsets DEF RingIsLines
  <1>3. k \in Nat /\ d \in Nat /\ m \in Nat /\ m <= k /\ k <= d /\ 0 + k <= d
    BY <1>1, <1>2
  <1>4. /\ t \in Inputs /\ RingIsLines(t) /\ Entered(t) = k - m /\ Filling(t) = d - m
        /\ \A j \in Int : Nth(t, j) = Nth(s, m + j)
    BY <1>1, ReadIs
  <1>5. Cells(t, 0, k - m) = Cells(s, m, k - m)
    <2>1. 0 \in Int /\ m \in Int /\ k - m \in Int /\ \A j \in 0..(k - m - 1) : 0 + j = j /\ j \in Int
      BY <1>3
    <2>2. \A j \in 0..(k - m - 1) : Nth(t, 0 + j) = Nth(s, m + j)
      BY <1>4, <2>1
    <2> QED
      BY <2>1, <2>2, SameCells
  <1>6. Cells(t, k - m, d - k) = Cells(s, k, d - k)
    <2>1. k \in Int /\ k - m \in Int /\ d - k \in Int
      BY <1>3
    <2>2. \A j \in 0..(d - k - 1) : k - m + j \in Int /\ m + (k - m + j) = k + j
      BY <1>3
    <2>3. \A j \in 0..(d - k - 1) : Nth(t, k - m + j) = Nth(s, k + j)
      BY <1>4, <2>2
    <2> QED
      BY <2>1, <2>3, SameCells
  <1>7. Line(t) = Line(s)
    <2>1. (d - m) - (k - m) = d - k
      BY <1>3
    <2> QED
      BY <1>1, <1>4, <1>6, <2>1 DEF Line
  <1>8. PICK o, f, g : o = 0 /\ f = m /\ g = k - m
    OBVIOUS
  <1>9. /\ o \in Nat /\ o + k <= Filling(s) /\ o <= m /\ m = o + m /\ k <= k /\ o = o + o /\ m = m - o
    BY <1>1, <1>3, <1>8
  <1>10. Part(Cells(s, o, k), m, k) = Cells(s, m, g)
    BY <1>3, <1>8, <1>9, Shortened
  <1>11. Part(Cells(s, o, k), o, m) = Cells(s, o, m)
    BY <1>3, <1>9, Shortened
  <1> QED
    BY <1>1, <1>4, <1>5, <1>7, <1>8, <1>10, <1>11 DEF Lines

Gots == [p \in Reader |-> con[p].got]

\* The refinement mapping.
LEMMA LinesMapped ==
  ASSUME ConsoleInv, ConsoleInv'
  PROVE  /\ Ring(input.r, input.w) = Lines(input) /\ Ring(input.w, input.e) = Line(input)
         /\ Ring(input.r, input.w)' = Lines(input') /\ Ring(input.w, input.e)' = Line(input')
         /\ input \in Inputs /\ RingIsLines(input) /\ con \in [Reader -> Calls]
         /\ \A p \in Reader : con[p] \in Calls /\ con[p].got \in Seq(Key) /\ CallOK(con[p], input)
  <1>1. /\ input \in Inputs /\ RingIsLines(input) /\ con \in [Reader -> Calls]
        /\ \A p \in Reader : CallOK(con[p], input)
    BY DEF ConsoleInv, ConsoleTypeOK
  <1>2. input' \in Inputs /\ RingIsLines(input')
    BY DEF ConsoleInv, ConsoleTypeOK
  <1>3. \A p \in Reader : con[p] \in Calls /\ con[p].got \in Seq(Key)
    BY <1>1 DEF Calls
  <1>4. /\ Ring(input.r, input.w) = View(input, input.r, input.w)
        /\ Ring(input.w, input.e) = View(input, input.w, input.e)
    BY DEF Ring, View
  <1>5. /\ Ring(input.r, input.w)' = View(input', input'.r, input'.w)
        /\ Ring(input.w, input.e)' = View(input', input'.w, input'.e)
    BY DEF Ring, View
  <1>6. /\ View(input, input.r, input.w) = Lines(input)
        /\ View(input, input.w, input.e) = Line(input)
    BY <1>1, ViewIs DEF Lines, Line
  <1>7. /\ View(input', input'.r, input'.w) = Lines(input')
        /\ View(input', input'.w, input'.e) = Line(input')
    BY <1>2, ViewIs DEF Lines, Line
  <1> QED
    BY <1>1, <1>3, <1>4, <1>5, <1>6, <1>7

LEMMA ClearedShown ==
  ASSUME NEW s \in Inputs, RingIsLines(s)
  PROVE  Lines(Cleared(s)) = Lines(s) /\ Line(Cleared(s)) = Line(s)
  <1>1. Filling(s) <= INPUT_BUF
    BY DEF RingIsLines
  <1>2. /\ Entered(Cleared(s)) = Entered(s) /\ Filling(Cleared(s)) = Filling(s)
        /\ \A j \in 0..(Filling(s) - 1) : Nth(Cleared(s), j) = Nth(s, j)
    BY <1>1, ClearedRing
  <1> QED
    BY <1>2, SameLines

\* Characters that a read may take together.
LEMMA TextTaken ==
  ASSUME NEW g \in Seq(Key), NEW y \in Seq(Key),
         \A i \in DOMAIN g : g[i] \notin {"\n", "^D"},
         \A i \in 1..Len(y) : y[i] # "^D" /\ (i < Len(y) => y[i] # "\n")
  PROVE  L!Text(g \o y)
  <1>1. Len(g) \in Nat /\ DOMAIN g = 1..Len(g) /\ Len(y) \in Nat
    BY LenProperties
  <1>2. PICK z : z = g \o y
    OBVIOUS
  <1>3. /\ z \in Seq(Key) /\ Len(z) = Len(g) + Len(y)
        /\ \A i \in 1..(Len(g) + Len(y)) : z[i] = IF i <= Len(g) THEN g[i] ELSE y[i - Len(g)]
    BY <1>2, ConcatProperties
  <1>4. DOMAIN z = 1..(Len(g) + Len(y))
    BY <1>3, LenProperties
  <1>5. ASSUME NEW i \in 1..(Len(g) + Len(y))
        PROVE  z[i] # "^D" /\ (i < Len(z) => z[i] # "\n")
    <2>1. CASE i <= Len(g)
      <3>1. i \in 1..Len(g)
        BY <1>1, <2>1
      <3> QED
        BY <1>1, <1>3, <2>1, <3>1
    <2>2. CASE ~(i <= Len(g))
      <3>1. i - Len(g) \in 1..Len(y) /\ (i < Len(z) => i - Len(g) < Len(y))
        BY <1>1, <1>3, <2>2
      <3> QED
        BY <1>3, <2>2, <3>1
    <2> QED
      BY <2>1, <2>2
  <1>6. L!Text(z)
    BY <1>4, <1>5 DEF L!Text
  <1> QED
    BY <1>2, <1>6

LEMMA TypingMaps ==
  ASSUME ConsoleInv, ConsoleInv', consoleintr
  PROVE  L!Type
  <1>1. PICK c \in Key : input' = Cleared(Typed(input, c))
    BY DEF consoleintr
  <1>2. PICK t : t = Typed(input, c)
    OBVIOUS
  <1>3. t \in Inputs /\ RingIsLines(t)
    BY <1>2, TypedOK, LinesMapped
  <1>4. Lines(input') = Lines(t) /\ Line(input') = Line(t)
    BY <1>1, <1>2, <1>3, ClearedShown
  <1>5. <<Lines(t), Line(t)>> = L!Typed(<<Lines(input), Line(input)>>, c)
    BY <1>2, TypedShown, LinesMapped
  <1>6. \A p \in Reader : con'[p].got = con[p].got
    <2>1. con \in [Reader -> Calls] /\ \A p \in Reader : con[p] \in Calls
      BY LinesMapped
    <2> QED
      BY <2>1 DEF consoleintr, Calls
  <1>7. [p \in Reader |-> con[p].got]' = [p \in Reader |-> con[p].got]
    BY <1>6
  <1>8. <<Ring(input.r, input.w)', Ring(input.w, input.e)'>>
          = L!Typed(<<Ring(input.r, input.w), Ring(input.w, input.e)>>, c)
    BY <1>4, <1>5, LinesMapped
  <1> QED
    BY <1>7, <1>8 DEF L!Type

LEMMA OneGot ==
  ASSUME con \in [Reader -> Calls], NEW p \in Reader, NEW c, con' = [con EXCEPT ![p] = c]
  PROVE  /\ Gots' = [Gots EXCEPT ![p] = c.got] /\ Gots[p] = con[p].got
         /\ c.got = con[p].got => Gots' = Gots
  <1>1. con'[p] = c /\ \A r \in Reader \ {p} : con'[r] = con[r]
    OBVIOUS
  <1> QED
    BY <1>1 DEF Gots

\* consoleread() takes what the line discipline lets it take, or nothing.
LEMMA ReadingMaps ==
  ASSUME ConsoleInv, ConsoleInv', NEW p \in Reader, consoleread(p)
  PROVE  \/ L!TakeEof(p) \/ \E k \in 1..INPUT_BUF : L!Take(p, k)
         \/ UNCHANGED <<Ring(input.r, input.w), Ring(input.w, input.e), Gots>>
  <1>1. PICK t, k, x, c : ConsTakes(p, t, k, x, c)
    BY ConsoleReadStep
  <1>2. PICK q, l, g, y, K : /\ q = Lines(input) /\ l = Line(input) /\ g = con[p].got
                             /\ y = t.text /\ K = Entered(input)
    OBVIOUS
  <1>3. /\ k \in 0..K /\ x \in {0, 1} /\ k + x <= K /\ y = Cells(input, 0, k)
        /\ t.r = (input.r + (k + x)) % ICOUNT
        /\ x = 1 => g = <<>> /\ k = 0 /\ Nth(input, 0) = "^D"
        /\ \A i \in 1..k : Nth(input, i - 1) # "^D" /\ (i < k => Nth(input, i - 1) # "\n")
        /\ y \in Seq(Key) /\ Len(y) = k /\ c.got = g \o y /\ con[p].pc = "read"
    BY <1>1, <1>2 DEF ConsTakes, Takes
  <1>4. PICK m, s : m = k + x /\ s = [input EXCEPT !.r = t.r]
    OBVIOUS
  <1>5. /\ q \in Seq(Key) /\ Len(q) = K /\ K \in Nat /\ g \in Seq(Key) /\ K <= INPUT_BUF
        /\ input \in Inputs /\ RingIsLines(input) /\ con \in [Reader -> Calls]
    <2>1. /\ input \in Inputs /\ RingIsLines(input) /\ con \in [Reader -> Calls] /\ g \in Seq(Key)
      BY <1>2, LinesMapped
    <2>2. q \in Seq(Key) /\ Len(q) = K /\ K \in Nat
      BY <1>2, <2>1, LinesAre
    <2>3. K <= INPUT_BUF
      <3>1. K <= Filling(input) /\ Filling(input) <= INPUT_BUF /\ Filling(input) \in 0..(ICOUNT - 1)
        BY <1>2, <2>1, Offsets DEF RingIsLines
      <3> QED
        BY <2>2, <3>1, InputSizes
    <2> QED
      BY <2>1, <2>2, <2>3
  <1>6. m \in 0..K /\ k \in Nat
    BY <1>3, <1>4, <1>5
  <1>7. /\ s \in Inputs /\ RingIsLines(s) /\ Line(s) = l /\ Lines(s) = Part(q, m, K)
        /\ Part(q, 0, m) = Cells(input, 0, m)
    BY <1>2, <1>3, <1>4, <1>5, <1>6, ReadShown
  <1>8. Lines(input') = Part(q, m, K) /\ Line(input') = l
    <2>1. input' = Cleared(s)
      BY <1>1, <1>4 DEF ConsTakes
    <2> QED
      BY <1>7, <2>1, ClearedShown
  <1>9. /\ Ring(input.r, input.w) = q /\ Ring(input.w, input.e) = l
        /\ Ring(input.r, input.w)' = Part(q, m, K) /\ Ring(input.w, input.e)' = l
    BY <1>2, <1>8, LinesMapped
  <1>10. Gots' = [Gots EXCEPT ![p] = g \o y] /\ Gots[p] = g /\ (g \o y = g => Gots' = Gots)
    <2>1. con' = [con EXCEPT ![p] = c]
      BY <1>1 DEF ConsTakes
    <2> QED
      <3>1. con \in [Reader -> Calls]
        BY <1>5
      <3>2. /\ Gots' = [Gots EXCEPT ![p] = c.got] /\ Gots[p] = con[p].got
            /\ c.got = con[p].got => Gots' = Gots
        BY <2>1, <3>1, OneGot
      <3> QED
        BY <1>2, <1>3, <3>2
  <1>11. k = 0 => g \o y = g
    <2>1. k = 0 => y = <<>>
      BY <1>3, NoCells
    <2> QED
      BY <1>5, <2>1, ConcatEmptySeq
  <1>12. CASE k = 0 /\ x = 0
    <2>1. m = 0
      BY <1>4, <1>12
    <2>2. Part(q, 0, K) = q
      BY <1>5, SubSeqFull DEF Part
    <2> QED
      BY <1>9, <1>10, <1>11, <1>12, <2>1, <2>2
  <1>13. CASE x = 1
    <2>1. m = 1 /\ k = 0 /\ K >= 1
      BY <1>3, <1>4, <1>5, <1>13
    <2>2. q # <<>> /\ Head(q) = "^D"
      <3>1. q = Cells(input, 0, K)
        BY <1>2 DEF Lines
      <3>2. q[1] = Nth(input, 0 + 1 - 1) /\ 0 + 1 - 1 = 0
        BY <1>5, <2>1, <3>1 DEF Cells
      <3>3. q[1] = "^D"
        BY <1>3, <1>13, <3>2
      <3>4. q # <<>>
        BY <1>5, <2>1, EmptySeq
      <3> QED
        BY <1>5, <3>3, <3>4
    <2>3. Tail(q) = Part(q, m, K)
      <3>1. Tail(q) = SubSeq(q, 2, Len(q)) /\ 1 + 1 = 2
        BY <1>5, <2>2, TailIsSubSeq
      <3> QED
        BY <1>5, <2>1, <3>1 DEF Part
    <2>4. L!TakeEof(p)
      <3>1. [r \in Reader |-> con[r].got] = Gots /\ [r \in Reader |-> con[r].got]' = Gots'
        BY DEF Gots
      <3>2. Gots' = Gots /\ Gots[p] = <<>>
        BY <1>3, <1>10, <1>11, <1>13, <2>1
      <3> QED
        BY <1>9, <2>2, <2>3, <3>1, <3>2 DEF L!TakeEof
    <2> QED
      BY <2>4
  <1>14. CASE k # 0 /\ x = 0
    <2>1. m = k /\ k \in 1..INPUT_BUF /\ k <= K
      BY <1>3, <1>4, <1>5, <1>6, <1>14, InputSizes
    <2>2. SubSeq(q, 1, k) = y /\ SubSeq(q, k + 1, Len(q)) = Part(q, m, K)
      <3>1. Part(q, 0, k) = y
        BY <1>3, <1>7, <2>1
      <3>2. 0 + 1 = 1
        OBVIOUS
      <3> QED
        BY <1>5, <2>1, <3>1, <3>2 DEF Part
    <2>3. L!Text(g \o y)
      <3>1. \A i \in DOMAIN g : g[i] \notin {"\n", "^D"}
        <4>1. CallOK(con[p], input)
          BY LinesMapped
        <4> QED
          BY <1>2, <1>3, <4>1 DEF CallOK
      <3>2. \A i \in 1..k : y[i] = Nth(input, 0 + i - 1) /\ 0 + i - 1 = i - 1
        BY <1>3, <1>6 DEF Cells
      <3>3. \A i \in 1..Len(y) : y[i] # "^D" /\ (i < Len(y) => y[i] # "\n")
        BY <1>3, <3>2
      <3> QED
        BY <1>3, <1>5, <3>1, <3>3, TextTaken
    <2>4. L!Take(p, k)
      <3>1. [r \in Reader |-> con[r].got] = Gots /\ [r \in Reader |-> con[r].got]' = Gots'
        BY DEF Gots
      <3>2. Gots' = [Gots EXCEPT ![p] = Gots[p] \o y] /\ Gots[p] = g
        BY <1>10
      <3> QED
        BY <1>5, <1>9, <2>1, <2>2, <2>3, <3>1, <3>2 DEF L!Take
    <2> QED
      BY <2>1, <2>4
  <1> QED
    BY <1>3, <1>12, <1>13, <1>14

LEMMA SameRings ==
  ASSUME UNCHANGED input
  PROVE  UNCHANGED <<Ring(input.r, input.w), Ring(input.w, input.e)>>
  BY DEF Ring

\* The rest of a call shows nothing but its end.
LEMMA CallsMap ==
  ASSUME ConsoleInv, ConsoleInv', NEW p \in Reader,
         \/ ConsWrite(p) \/ ConsUnlock(p) \/ ConsSleep(p) \/ consolewrite(p) \/ ConsReturn(p)
         \/ ConsKill(p) \/ Replace(p) \/ \E n \in ReadSize : ConsRead(p, n)
  PROVE  \/ L!Return(p)
         \/ UNCHANGED <<Ring(input.r, input.w), Ring(input.w, input.e), Gots>>
  <1>1. con \in [Reader -> Calls] /\ con[p] \in Calls
    BY LinesMapped
  <1>2. UNCHANGED input
    BY DEF ConsWrite, ConsUnlock, ConsSleep, consolewrite, ConsReturn, ConsKill, Replace, ConsRead
  <1>3. UNCHANGED <<Ring(input.r, input.w), Ring(input.w, input.e)>>
    BY <1>2, SameRings
  <1>4. ASSUME NEW c, con' = [con EXCEPT ![p] = c], c.got = con[p].got
        PROVE  Gots' = Gots
    BY <1>1, <1>4, OneGot
  <1>5. ASSUME NEW u, con' = [con EXCEPT ![p].pc = u]
        PROVE  Gots' = Gots
    <2>1. PICK c : c = [con[p] EXCEPT !.pc = u]
      OBVIOUS
    <2>2. con' = [con EXCEPT ![p] = c] /\ c.got = con[p].got
      BY <1>1, <1>5, <2>1 DEF Calls
    <2> QED
      BY <1>4, <2>2
  <1>6. CASE ConsWrite(p) \/ ConsUnlock(p) \/ ConsSleep(p) \/ consolewrite(p)
    <2>1. \E u : con' = [con EXCEPT ![p].pc = u]
      BY <1>6 DEF ConsWrite, ConsUnlock, ConsSleep, consolewrite
    <2> QED
      BY <1>3, <1>5, <2>1
  <1>7. CASE ConsKill(p)
    <2>1. PICK u : u = IF con[p].pc = "wait" THEN "read" ELSE con[p].pc
      OBVIOUS
    <2>2. con' = [con EXCEPT ![p].pc = u]
      BY <1>7, <2>1 DEF ConsKill
    <2> QED
      BY <1>3, <1>5, <2>2
  <1>8. CASE Replace(p)
    <2>1. con' = con
      BY <1>8 DEF Replace
    <2> QED
      BY <1>3, <2>1 DEF Gots
  <1>9. CASE \E n \in ReadSize : ConsRead(p, n)
    <2>1. PICK n \in ReadSize : ConsRead(p, n)
      BY <1>9
    <2>2. PICK c : c = [pc |-> "entry", n |-> n, got |-> <<>>]
      OBVIOUS
    <2>3. con' = [con EXCEPT ![p] = c] /\ c.got = con[p].got
      BY <2>1, <2>2, AtOut DEF ConsRead
    <2> QED
      BY <1>3, <1>4, <2>3
  <1>10. CASE ConsReturn(p)
    <2>1. con' = [con EXCEPT ![p] = Out]
      BY <1>10 DEF ConsReturn
    <2>2. Gots' = [Gots EXCEPT ![p] = <<>>]
      <3>1. PICK c : c = Out
        OBVIOUS
      <3>2. con' = [con EXCEPT ![p] = c] /\ c.got = <<>>
        BY <2>1, <3>1, AtOut
      <3>3. Gots' = [Gots EXCEPT ![p] = c.got]
        BY <1>1, <3>2, OneGot
      <3> QED
        BY <3>2, <3>3
    <2>3. [r \in Reader |-> con[r].got] = Gots /\ [r \in Reader |-> con[r].got]' = Gots'
      BY DEF Gots
    <2> QED
      BY <1>3, <2>2, <2>3 DEF L!Return
  <1> QED
    BY <1>6, <1>7, <1>8, <1>9, <1>10

LEMMA LinesStep ==
  ASSUME ConsoleInv, ConsoleInv', [ConsoleNext]_cvars
  PROVE  [L!Next]_<<Ring(input.r, input.w), Ring(input.w, input.e), [p \in Reader |-> con[p].got]>>
  <1>1. CASE UNCHANGED cvars
    BY <1>1, SameRings DEF cvars
  <1>2. CASE consoleintr
    BY <1>2, TypingMaps DEF L!Next
  <1>3. ASSUME NEW p \in Reader, consoleread(p)
        PROVE  \/ L!Next
               \/ UNCHANGED <<Ring(input.r, input.w), Ring(input.w, input.e), Gots>>
    BY <1>3, ReadingMaps DEF L!Next
  <1>4. ASSUME NEW p \in Reader,
               \/ ConsWrite(p) \/ ConsUnlock(p) \/ ConsSleep(p) \/ consolewrite(p) \/ ConsReturn(p)
               \/ ConsKill(p) \/ Replace(p) \/ \E n \in ReadSize : ConsRead(p, n)
        PROVE  \/ L!Next
               \/ UNCHANGED <<Ring(input.r, input.w), Ring(input.w, input.e), Gots>>
    BY <1>4, CallsMap DEF L!Next
  <1>5. UNCHANGED Gots => UNCHANGED [p \in Reader |-> con[p].got]
    BY DEF Gots
  <1> QED
    BY <1>1, <1>2, <1>3, <1>4, <1>5 DEF ConsoleNext, InCall

LEMMA LinesInit ==
  ASSUME ConsoleInit
  PROVE  L!Init
  <1>1. input.r = 0 /\ input.w = 0 /\ input.e = 0 /\ con = [p \in Reader |-> Out]
    BY DEF ConsoleInit
  <1>2. Minus(0, 0) = 0
    <2>1. 0 - 0 = 0 /\ 0 % ICOUNT = 0
      BY SmallRemainder, InputSizes
    <2> QED
      BY <2>1 DEF Minus
  <1>3. Ring(input.r, input.w) = <<>> /\ Ring(input.w, input.e) = <<>>
    BY <1>1, <1>2 DEF Ring
  <1>4. [p \in Reader |-> con[p].got] = [p \in Reader |-> <<>>]
    BY <1>1, AtOut
  <1> QED
    BY <1>3, <1>4 DEF L!Init

\* The console implements the line discipline, for any ring and any readers: the
\* interleavings of consoleintr() with consoleread() calls, the wrapping indices r, w and e
\* and the reads that stop in the middle of a line never lose, double, reorder or edit
\* what was entered.
THEOREM ConsoleImplementsLines == ConsoleSpec => ConsoleIsLines
  <1>1. ConsoleInit => L!Init
    BY LinesInit
  <1>2. ConsoleInv /\ ConsoleInv' /\ [ConsoleNext]_cvars
          => [L!Next]_<<Ring(input.r, input.w), Ring(input.w, input.e), [p \in Reader |-> con[p].got]>>
    BY LinesStep
  <1> QED
    BY <1>1, <1>2, ConsoleInvariant, PTL DEF ConsoleSpec, ConsoleIsLines, L!Spec
=============================================================================
