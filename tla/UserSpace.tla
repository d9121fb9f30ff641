----------------------------- MODULE UserSpace ------------------------------
(***************************************************************************)
(* The programs for TLC: a behaviour is one of the programs over the       *)
(* kernel (UserPrograms) or one of the library they are linked with        *)
(* (UserLib), as level says.                                               *)
(***************************************************************************)
EXTENDS UserPrograms

CONSTANTS NALLOC, TOP, Sizes, MAXARGS, GREPBUF, WCBUF, NAMELEN, INTS,
          MAXLINE, MAXRE, MAXTEXT, MAXPATH

ASSUME LibraryAssumption ==
  /\ {NALLOC, TOP, MAXARGS, GREPBUF, WCBUF, NAMELEN} \cup Sizes \subseteq Nat \ {0}
  /\ INTS \in {2 * n : n \in 1 .. INTS} /\ {MAXLINE, MAXRE, MAXTEXT, MAXPATH} \subseteq Nat

VARIABLES level, head, freep, brk, core, held, job

libVars == <<head, freep, brk, core, held, job>>

L == INSTANCE UserLib WITH DIRSIZ <- NAMELEN, WORD <- INTS, MAXFILE <- MAXTEXT

SpaceInit == Init /\ L!Init /\ level \in {"kernel", "library"}

SpaceNext == /\ \/ level = "kernel" /\ Next /\ UNCHANGED libVars
                \/ level = "library" /\ L!Next /\ UNCHANGED vars
             /\ UNCHANGED level

SpaceSpec == SpaceInit /\ [][SpaceNext]_<<vars, libVars, level>>

-----------------------------------------------------------------------------
\* The blocks of malloc(), held and free, cover its core without a gap or an
\* overlap, in whatever order programs free them (Umalloc).
HeapExact == level = "library" => L!HeapExact

\* parsecmd() takes exactly the lines of its grammar, and the words that runcmd()
\* sees after nulterminate() are those of the line (Shell).
ParsesRight == level = "library" => L!ParsesRight

\* grep and wc do not depend on where their buffer ends (Filters).
FiltersRight == level = "library" => L!FiltersRight

\* Names, numbers, formats and copies are right at the ends of their ranges (Text).
TextRight == level = "library" => L!TextRight
=============================================================================
