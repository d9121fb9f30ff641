-------------------------------- MODULE Text ---------------------------------
(***************************************************************************)
(* Strings, names and numbers: string.c of the kernel, ulib.c and printf.c *)
(* of the programs, the printing of console.c, and skipelem() of fs.c.     *)
(* Memory is a function from addresses; a string is a sequence without its *)
(* NUL, and reading behind its end gives NUL.                              *)
(***************************************************************************)
EXTENDS Integers, Sequences, FiniteSets

CONSTANTS DIRSIZ,   \* bytes of a name in a directory entry
          WORD      \* the number of values of a uint

LOCAL INSTANCE SequencesExt
LOCAL INSTANCE FiniteSetsExt

NUL == ""
Char(t, i) == IF i <= Len(t) THEN t[i] ELSE NUL

-----------------------------------------------------------------------------
\* Copying.  memmove() of the kernel, and the two loops it is made of.
RECURSIVE CopyUp(_, _, _, _)
CopyUp(mem, d, s, n) == IF n <= 0 THEN mem
                        ELSE CopyUp([mem EXCEPT ![d] = mem[s]], d + 1, s + 1, n - 1)
RECURSIVE CopyDown(_, _, _, _)
CopyDown(mem, d, s, n) == IF n <= 0 THEN mem
                          ELSE CopyDown([mem EXCEPT ![d - 1] = mem[s - 1]], d - 1, s - 1, n - 1)

memmove(mem, dst, src, n) == IF src < dst /\ src + n > dst
                             THEN CopyDown(mem, dst + n, src + n, n)
                             ELSE CopyUp(mem, dst, src, n)

\* memmove() of ulib.c.
UlibMemmove(mem, dst, src, n) == CopyUp(mem, dst, src, n)

\* while(n-- > 0 && (*s++ = *t++) != 0): the buffer, where s is and what n is.
RECURSIVE CopyString(_, _, _, _, _)
CopyString(buf, s, t, i, n) ==
  IF n <= 0 THEN [buf |-> buf, s |-> s, n |-> n - 1]
  ELSE LET b == [buf EXCEPT ![s] = Char(t, i)]
       IN  IF Char(t, i) = NUL THEN [buf |-> b, s |-> s + 1, n |-> n - 1]
           ELSE CopyString(b, s + 1, t, i + 1, n - 1)

strncpy(buf, t, n) ==
  LET c == CopyString(buf, 1, t, 1, n)
  IN  [a \in DOMAIN buf |-> IF a >= c.s /\ a < c.s + c.n THEN NUL ELSE c.buf[a]]

safestrcpy(buf, t, n) == LET c == CopyString(buf, 1, t, 1, n - 1)
                         IN  IF n <= 0 THEN buf ELSE [c.buf EXCEPT ![c.s] = NUL]

\* The string in a buffer of n bytes: all of it when there is no NUL.
StringIn(buf, n) == SubSeq(buf, 1, (CHOOSE e \in 1..(n + 1) :
                      /\ e = n + 1 \/ buf[e] = NUL
                      /\ \A i \in 1..(e - 1) : buf[i] # NUL) - 1)

\* strncmp(), as whether it returns 0.
RECURSIVE SameUpTo(_, _, _, _)
SameUpTo(p, q, i, n) == \/ n = 0
                        \/ /\ Char(p, i) = Char(q, i)
                           /\ Char(p, i) = NUL \/ SameUpTo(p, q, i + 1, n - 1)
namecmp(s, t) == SameUpTo(s, t, 1, DIRSIZ)

-----------------------------------------------------------------------------
\* Paths: the next element goes to name, whose old bytes stay behind its NUL.
Past(path, s, inside) == CHOOSE e \in s..(Len(path) + 1) :
                           /\ e = Len(path) + 1 \/ (path[e] # "/") = ~inside
                           /\ \A i \in s..(e - 1) : (path[i] # "/") = inside
MutSkipelem(path, at, name) ==
  LET s == Past(path, at, FALSE)
      e == Past(path, s, TRUE)
      len == e - s
      n == IF len >= DIRSIZ THEN DIRSIZ ELSE len
  IN  IF s = Len(path) + 1 THEN [found |-> FALSE, at |-> s, name |-> name]
      ELSE [found |-> TRUE, at |-> Past(path, e, FALSE),
            name |-> [i \in 1..DIRSIZ |-> IF i <= n THEN path[s + i - 1]
                                          ELSE name[i]]]

skipelem(path, at, name) ==
  LET s == Past(path, at, FALSE)
      e == Past(path, s, TRUE)
      len == e - s
      n == IF len >= DIRSIZ THEN DIRSIZ ELSE len
  IN  IF s = Len(path) + 1 THEN [found |-> FALSE, at |-> s, name |-> name]
      ELSE [found |-> TRUE, at |-> Past(path, e, FALSE),
            name |-> [i \in 1..DIRSIZ |-> IF i <= n THEN path[s + i - 1]
                                          ELSE IF i = len + 1 THEN NUL ELSE name[i]]]

\* The names that namex() looks up, in turn.
RECURSIVE NamesOf(_, _, _)
NamesOf(path, at, name) ==
  LET e == skipelem(path, at, name)
  IN  IF ~e.found THEN <<>> ELSE <<e.name>> \o NamesOf(path, e.at, e.name)

-----------------------------------------------------------------------------
\* Numbers.  printint() of printf.c and of console.c: the digits of the uint x
\* from the last to the first, then the sign, printed backwards.
digits == <<"0", "1", "2", "3", "4", "5", "6", "7", "8", "9", "A", "B", "C", "D", "E", "F">>
ValueOf(c) == (CHOOSE i \in DOMAIN digits : digits[i] = c) - 1

RECURSIVE DigitsOf(_, _)
DigitsOf(x, base) == <<digits[(x % base) + 1]>>
                     \o IF x \div base = 0 THEN <<>> ELSE DigitsOf(x \div base, base)
printint(xx, base, sgn) ==
  LET neg == sgn /\ xx < 0
      x == (IF neg THEN -xx ELSE xx) % WORD
  IN  Reverse(DigitsOf(x, base) \o IF neg THEN <<"-">> ELSE <<>>)

RECURSIVE AtoiFrom(_, _, _)
AtoiFrom(s, i, n) == IF Char(s, i) \notin {digits[d] : d \in 1..10} THEN n
                     ELSE AtoiFrom(s, i + 1, (n * 10 + ValueOf(s[i])) % WORD)
atoi(s) == AtoiFrom(s, 1, 0)

\* The string a word of the arguments points to.
Pointed(arg) == IF arg.int = 0 THEN <<"(", "n", "u", "l", "l", ")">> ELSE arg.str

\* printf() of printf.c: state is TRUE after a %, args what is left of the
\* words of arguments; each is read as an int, a character or a pointer.
RECURSIVE printf(_, _, _)
printf(fmt, state, args) ==
  LET c == fmt[1]
      rest == Tail(fmt)
      Put(text, n) == text \o printf(rest, FALSE, SubSeq(args, n + 1, Len(args)))
  IN  IF fmt = <<>> THEN <<>>
      ELSE IF ~state THEN IF c = "%" THEN printf(rest, TRUE, args) ELSE Put(<<c>>, 0)
      ELSE CASE c = "d" -> Put(printint(Head(args).int, 10, TRUE), 1)
             [] c = "x" -> Put(printint(Head(args).int, 16, FALSE), 1)
             [] c = "s" -> Put(Pointed(Head(args)), 1)
             [] c = "c" -> Put(<<Head(args).chr>>, 1)
             [] c = "%" -> Put(<<"%">>, 0)
             [] OTHER -> Put(<<"%", c>>, 0)

\* cprintf() of console.c, which stops at a % that ends the format.
RECURSIVE cprintf(_, _)
cprintf(fmt, args) ==
  LET c == Char(fmt, 2)
      Put(text, used, n) == text \o cprintf(SubSeq(fmt, used + 1, Len(fmt)),
                                            SubSeq(args, n + 1, Len(args)))
  IN  IF fmt = <<>> \/ (fmt[1] = "%" /\ c = NUL) THEN <<>>
      ELSE IF fmt[1] # "%" THEN Put(<<fmt[1]>>, 1, 0)
      ELSE CASE c = "d" -> Put(printint(Head(args).int, 10, TRUE), 2, 1)
             [] c = "x" -> Put(printint(Head(args).int, 16, FALSE), 2, 1)
             [] c = "s" -> Put(Pointed(Head(args)), 2, 1)
             [] c = "%" -> Put(<<"%">>, 2, 0)
             [] OTHER -> Put(<<"%", c>>, 2, 0)

-----------------------------------------------------------------------------
\* What the functions promise, for one input each.

\* The target gets what the source held, overlap or not, and nothing else
\* changes; the programs' memmove() has to be called with the target below the
\* source or clear of it.
MovedAs(mem, dst, src, n) ==
  LET want == [a \in DOMAIN mem |-> IF a \in dst..(dst + n - 1) THEN mem[src + a - dst] ELSE mem[a]]
  IN  /\ memmove(mem, dst, src, n) = want
      /\ dst <= src \/ dst >= src + n => UlibMemmove(mem, dst, src, n) = want

\* The copy is a string within the n bytes, as much of t as fits; behind the n
\* bytes nothing is written.
CopiedAs(buf, t, n) ==
  LET c == safestrcpy(buf, t, n)
      k == IF Len(t) < n THEN Len(t) ELSE n - 1
  IN  /\ \A a \in DOMAIN buf : a > n => c[a] = buf[a]
      /\ n > 0 => StringIn(c, n) = SubSeq(t, 1, k) /\ \E a \in 1..n : c[a] = NUL

\* An entry that dirlink() made for the name x is found under an element of path
\* exactly when the two agree in their first DIRSIZ characters, whatever an
\* earlier and longer element left in the buffer.
NamedAs(path, x) ==
  LET names == NamesOf(path, 1, [i \in 1..DIRSIZ |-> "?"])
      cuts == {i \in DOMAIN path : path[i] # "/" /\ (i = 1 \/ path[i - 1] = "/")}
      starts == SetToSortSeq(cuts, <)
      Elem(i) == SubSeq(path, i, Past(path, i, TRUE) - 1)
      Cut(t) == SubSeq(t, 1, IF Len(t) < DIRSIZ THEN Len(t) ELSE DIRSIZ)
      entry == strncpy([i \in 1..DIRSIZ |-> "?"], x, DIRSIZ)
  IN  /\ Len(names) = Len(starts)
      /\ \A k \in DOMAIN names : namecmp(names[k], entry) <=> (Cut(Elem(starts[k])) = Cut(x))

\* The digits stand for the number, with the sign of an int or none of a uint; the
\* buffer holds them; atoi() reads back what is not negative.
PrintedAs(xx, base, sgn) ==
  LET p == printint(xx, base, sgn)
      neg == p[1] = "-"
      ds == IF neg THEN Tail(p) ELSE p
      value == FoldLeft(LAMBDA n, d : n * base + ValueOf(d), 0, ds)
  IN  /\ (IF neg THEN -value ELSE value) = IF sgn THEN xx ELSE xx % WORD
      /\ Len(p) <= 16 /\ (Len(ds) > 1 => ds[1] # "0")
      /\ base = 10 /\ ~neg => atoi(p) = xx % WORD

\* The kernel and the programs print the same for every format both understand.
FormattedAs(fmt, args) ==
  ~(\E i \in DOMAIN fmt : fmt[i] = "c") => printf(fmt, FALSE, args) = cprintf(fmt, args)
=============================================================================
