------------------------------- MODULE Filters -------------------------------
(***************************************************************************)
(* The programs that read a file through a buffer: grep.c and wc.c.        *)
(***************************************************************************)
EXTENDS Integers, Sequences, FiniteSets

CONSTANTS GREPBUF,   \* bytes of the buffer of grep
          WCBUF      \* bytes of the buffer of wc

LOCAL INSTANCE SequencesExt
LOCAL INSTANCE FiniteSetsExt

NL == "\n"
Ch(t, i) == IF i <= Len(t) THEN t[i] ELSE ""

\* matchhere() and matchstar(), with re and text as the positions reached.
RECURSIVE matchhere(_, _, _, _)
RECURSIVE matchstar(_, _, _, _, _)
matchstar(c, re, r, text, t) ==
  \/ matchhere(re, r, text, t)
  \/ /\ Ch(text, t) # "" /\ (Ch(text, t) = c \/ c = ".")
     /\ matchstar(c, re, r, text, t + 1)
matchhere(re, r, text, t) ==
  IF Ch(re, r) = "" THEN TRUE
  ELSE IF Ch(re, r + 1) = "*" THEN matchstar(Ch(re, r), re, r + 2, text, t)
  ELSE IF Ch(re, r) = "$" /\ Ch(re, r + 1) = "" THEN Ch(text, t) = ""
  ELSE /\ Ch(text, t) # "" /\ (Ch(re, r) = "." \/ Ch(re, r) = Ch(text, t))
       /\ matchhere(re, r + 1, text, t + 1)

match(re, text) == IF Ch(re, 1) = "^" THEN matchhere(re, 2, text, 1)
                   ELSE \E t \in 1..(Len(text) + 1) : matchhere(re, 1, text, t)

\* The lines of b that end: <<text, ...>> without their newlines.
Lines(b) ==
  LET ends == SetToSortSeq({i \in DOMAIN b : b[i] = NL}, <)
  IN  [k \in DOMAIN ends |-> SubSeq(b, IF k = 1 THEN 1 ELSE ends[k - 1] + 1, ends[k] - 1)]

MutRest(b) == <<>>

\* What is behind the last newline of b, which memmove() takes to its front.
Rest(b) == LET ends == {0} \cup {i \in DOMAIN b : b[i] = NL}
           IN  SubSeq(b, Max(ends) + 1, Len(b))

\* The loop of grep(): b is what is in the buffer, file what is still to be read.
\* read() of a file fills what is left of the buffer.
RECURSIVE GrepLoop(_, _, _, _)
GrepLoop(re, file, b, out) ==
  LET n == Min({Len(file), GREPBUF - Len(b) - 1})
      full == b \o SubSeq(file, 1, n)
      found == SelectSeq(Lines(full), LAMBDA line : match(re, line))
  IN  IF n = 0 THEN out
      ELSE GrepLoop(re, SubSeq(file, n + 1, Len(file)),
                    IF NL \in Range(full) THEN Rest(full) ELSE <<>>, out \o found)
grep(re, file) == GrepLoop(re, file, <<>>, <<>>)

\* The loop of wc() over one buffer, then over the file.
WcBuffer(st, b) ==
  FoldLeft(LAMBDA s, c : [l |-> s.l + IF c = NL THEN 1 ELSE 0,
                          w |-> s.w + IF c \notin {" ", NL} /\ ~s.inword THEN 1 ELSE 0,
                          c |-> s.c + 1,
                          inword |-> c \notin {" ", NL}], st, b)
RECURSIVE WcLoop(_, _)
WcLoop(st, file) == IF file = <<>> THEN st
                    ELSE LET n == Min({WCBUF, Len(file)})
                         IN  WcLoop(WcBuffer(st, SubSeq(file, 1, n)), SubSeq(file, n + 1, Len(file)))
wc(file) == WcLoop([l |-> 0, w |-> 0, c |-> 0, inword |-> FALSE], file)

-----------------------------------------------------------------------------
\* The language of a pattern: ^ first and $ last are anchors, x* any number of
\* x, . any character and every other character itself.  The text between lo and
\* hi is cut into one piece for each atom.
RECURSIVE Atoms(_)
Atoms(re) == IF re = <<>> THEN <<>>
             ELSE IF Len(re) > 1 /\ re[2] = "*" THEN <<<<re[1], "*">>>> \o Atoms(SubSeq(re, 3, Len(re)))
             ELSE IF re = <<"$">> THEN <<<<"$", "end">>>>
             ELSE <<<<re[1], "one">>>> \o Atoms(Tail(re))

Fits(atom, piece) ==
  /\ atom[2] = "end" => piece = <<>>
  /\ atom[2] = "one" => Len(piece) = 1
  /\ atom[2] # "end" => \A i \in DOMAIN piece : atom[1] \in {".", piece[i]}

Matches(re, text) ==
  LET front == re # <<>> /\ re[1] = "^"
      atoms == Atoms(IF front THEN Tail(re) ELSE re)
      k == Len(atoms)
  IN  \E cut \in [0..k -> 0..Len(text)] :
        /\ front => cut[0] = 0
        /\ k > 0 /\ atoms[k][2] = "end" => cut[k] = Len(text)
        /\ \A i \in 1..k : /\ cut[i - 1] <= cut[i]
                           /\ Fits(atoms[i], SubSeq(text, cut[i - 1] + 1, cut[i]))

\* grep prints exactly the lines of a file that are in the language of the
\* pattern, provided each of them fits into the buffer with its newline.
GrepsAs(re, file) ==
  (\A k \in DOMAIN Lines(file) : Len(Lines(file)[k]) + 1 < GREPBUF) =>
    grep(re, file) = SelectSeq(Lines(file), LAMBDA line : Matches(re, line))

\* wc counts the newlines, the maximal runs of other than blanks, and the bytes,
\* wherever a read() cuts the file.
CountsAs(file) ==
  LET c == wc(file)
  IN  /\ c.l = Cardinality({i \in DOMAIN file : file[i] = NL})
      /\ c.w = Cardinality({i \in DOMAIN file : /\ file[i] \notin {" ", NL}
                                                /\ i = 1 \/ file[i - 1] \in {" ", NL}})
      /\ c.c = Len(file)
=============================================================================
