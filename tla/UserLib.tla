------------------------------- MODULE UserLib -------------------------------
(***************************************************************************)
(* The user library and the programs built on it, called with every small  *)
(* input: malloc() and free() in any order, the parser of the shell, grep  *)
(* and wc, and the functions on strings, names and numbers.  job is the    *)
(* call that is under way.                                                 *)
(***************************************************************************)
EXTENDS Umalloc, Shell, Filters, Text

CONSTANTS MAXLINE,   \* characters of a line for the shell
          MAXRE,     \* characters of a pattern
          MAXFILE,   \* characters of a file
          MAXPATH    \* characters of a path, and of a format

VARIABLE job

Strings(chars, max) == UNION {[1..n -> chars] : n \in 0..max}
Idle == [call |-> "none"]

Lines4Shell == Strings({"a", " ", "<", "|", ">", "&", ";", "(", ")"}, MAXLINE)
Patterns == Strings({"a", ".", "*", "^", "$"}, MAXRE)
Files == Strings({"a", "$", NL}, MAXFILE)
Paths == Strings({"a", "b", "/"}, MAXPATH)
Formats == Strings({"%", "d", "s", "c", "z"}, MAXPATH)
Ints == (-(WORD \div 2))..(WORD \div 2 - 1)

Call == /\ job = Idle /\ UmallocInit /\ UNCHANGED uvars
        /\ \/ \E l \in Lines4Shell : job' = [call |-> "parse", line |-> l]
           \/ \E f \in Files, re \in Patterns : job' = [call |-> "grep", file |-> f, re |-> re]
           \/ \E f \in Strings({"a", " ", NL}, MAXFILE) : job' = [call |-> "wc", file |-> f]
           \/ \E p \in Paths, x \in Strings({"a", "b"}, DIRSIZ + 1) :
                job' = [call |-> "name", path |-> p, x |-> x]
           \/ \E x \in Ints, base \in {10, 16}, sgn \in BOOLEAN :
                job' = [call |-> "int", x |-> x, base |-> base, sgn |-> sgn]
           \/ \E f \in Formats : job' = [call |-> "format", fmt |-> f]
           \/ \E d, s \in 1..4, n \in 0..3 : job' = [call |-> "move", d |-> d, s |-> s, n |-> n]
           \/ \E t \in Strings({"a"}, 4), n \in -1..4 : job' = [call |-> "copy", t |-> t, n |-> n]

Return == job # Idle /\ job' = Idle /\ UNCHANGED uvars

Init == UmallocInit /\ job = Idle
Next == Call \/ Return \/ (job = Idle /\ UmallocNext /\ UNCHANGED job)

-----------------------------------------------------------------------------
\* parsecmd() of sh.c takes exactly the lines of the grammar that its functions
\* follow, and the words that runcmd() finds, after nulterminate() has written
\* over the characters behind them, are those of the line's one tree.
ParsesRight == job.call = "parse" => ParsedAs(job.line)

\* grep prints the lines in the language of the pattern and wc counts what is in
\* the file, wherever the buffer ends.
FiltersRight == /\ job.call = "grep" => GrepsAs(job.re, job.file)
                /\ job.call = "wc" => CountsAs(job.file)

\* Names are found as they were entered, up to DIRSIZ characters and without what
\* an earlier element left behind; numbers read as they were meant, the least
\* int included; the kernel and the programs print alike; copies are of what was
\* there before, end with a NUL and stay within their buffer.
TextRight ==
  LET mem == [a \in 1..6 |-> a]
      args == [n \in 1..MAXPATH |-> [int |-> n - 2, str |-> <<"s", "t">>, chr |-> "k"]]
      buf == [a \in 1..4 |-> "?"]
  IN  /\ job.call = "name" => NamedAs(job.path, job.x)
      /\ job.call = "int" => PrintedAs(job.x, job.base, job.sgn)
      /\ job.call = "format" => FormattedAs(job.fmt, args)
      /\ job.call = "move" => MovedAs(mem, job.d, job.s, job.n)
      /\ job.call = "copy" => CopiedAs(buf, job.t, job.n)
=============================================================================
