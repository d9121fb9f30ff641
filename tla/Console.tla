------------------------------- MODULE Console -------------------------------
(***************************************************************************)
(* The console: the ring of input that consoleintr() fills from keyboard   *)
(* and serial line and that consoleread() empties, and the lock of the     *)
(* console's inode, which the two calls give up while they are at work.    *)
(* A step is what is done under cons.lock; a process that is about to      *)
(* sleep keeps it until sleep() has it marked as asleep.                   *)
(***************************************************************************)
EXTENDS Integers, Sequences

CONSTANTS Reader,      \* processes that read from the console and write to it
          INPUT_BUF,   \* characters in the ring
          ICOUNT,      \* the number of values of an index
          Key,         \* what is typed
          ReadSize     \* the numbers of characters that a call may want

ASSUME ConsoleAssumption == /\ INPUT_BUF \in Nat \ {0} /\ ICOUNT \in Nat
                            /\ ICOUNT > INPUT_BUF /\ ICOUNT % INPUT_BUF = 0
                            /\ ReadSize \subseteq Nat

VARIABLES input,   \* [buf, r, w, e]
          con,     \* what each process does: [pc, n, got]
          ip,      \* the process that has the inode locked, or "free"
          dead     \* the processes with killed set

cvars == <<input, con, ip, dead>>

Out == [pc |-> "user", n |-> 0, got |-> <<>>]

ConsoleInit == /\ input = [buf |-> [i \in 0..(INPUT_BUF - 1) |-> "?"], r |-> 0, w |-> 0, e |-> 0]
               /\ con = [p \in Reader |-> Out]
               /\ ip = "free" /\ dead = {}

Minus(a, b) == (a - b) % ICOUNT

\* The cells outside r..e are never looked at.
Cleared(s) == [s EXCEPT !.buf = [i \in DOMAIN @ |->
                 IF \E k \in 0..(INPUT_BUF - 1) : /\ k < Minus(s.e, s.r)
                                                  /\ ((s.r + k) % ICOUNT) % INPUT_BUF = i
                 THEN @[i] ELSE "?"]]

Held == \E p \in Reader : con[p].pc = "sleep"

-----------------------------------------------------------------------------

MutStore(s, c) ==
  IF Minus(s.e, s.r) < INPUT_BUF
  THEN [s EXCEPT !.buf[s.e % INPUT_BUF] = c, !.e = (@ + 1) % ICOUNT,
                 !.w = IF c \in {"\n", "^D"} THEN (s.e + 1) % ICOUNT ELSE @]
  ELSE s

\* The default case: the character goes into the ring if there is room; a newline,
\* ^D and the last one that fits enter the line.
Store(s, c) ==
  IF Minus(s.e, s.r) < INPUT_BUF
  THEN LET e == (s.e + 1) % ICOUNT
       IN  [s EXCEPT !.buf[s.e % INPUT_BUF] = c, !.e = e,
                     !.w = IF c \in {"\n", "^D"} \/ e = (s.r + INPUT_BUF) % ICOUNT THEN e ELSE @]
  ELSE s

\* ^U: back to what was entered, or to a newline.
Kept(s) == CHOOSE e \in 0..(ICOUNT - 1) :
  LET k == Minus(s.e, e)
      At(i) == s.buf[Minus(s.e, i) % INPUT_BUF]
  IN  /\ k <= Minus(s.e, s.w)
      /\ e = s.w \/ At(k + 1) = "\n"
      /\ \A i \in 1..k : At(i) # "\n"

MutErase(s) == [s EXCEPT !.e = Minus(@, 1)]

\* ^H: back by one, unless that was entered already.
Erase(s) == IF s.e = s.w THEN s ELSE [s EXCEPT !.e = Minus(@, 1)]

\* One turn of the loop of consoleintr().
Typed(s, c) ==
  CASE c = "^P" -> s
    [] c = "^U" -> [s EXCEPT !.e = Kept(s)]
    [] c = "^H" -> Erase(s)
    [] OTHER -> Store(s, c)

\* consoleintr() for one character; wakeup() when a line was entered.  For several
\* it is as if they came one by one, with nobody in between.
consoleintr ==
  /\ ~Held
  /\ \E c \in Key : input' = Cleared(Typed(input, c))
  /\ con' = IF input'.w = input.w THEN con
            ELSE [p \in Reader |-> IF con[p].pc = "wait" THEN [con[p] EXCEPT !.pc = "read"]
                                   ELSE con[p]]
  /\ UNCHANGED <<ip, dead>>

\* read() and write(): fileread() and filewrite() lock the inode.
ConsRead(p, n) == /\ con[p] = Out /\ p \notin dead /\ ip = "free"
                  /\ ip' = p
                  /\ con' = [con EXCEPT ![p] = [pc |-> "entry", n |-> n, got |-> <<>>]]
                  /\ UNCHANGED <<input, dead>>

ConsWrite(p) == /\ con[p] = Out /\ p \notin dead /\ ip = "free"
                /\ ip' = p /\ con' = [con EXCEPT ![p].pc = "write"]
                /\ UNCHANGED <<input, dead>>

\* consoleread() unlocks the inode.
ConsUnlock(p) == /\ con[p].pc = "entry"
                 /\ ip' = "free" /\ con' = [con EXCEPT ![p].pc = "read"]
                 /\ UNCHANGED <<input, dead>>

\* The characters that a read wanting n takes from s, and whether it is done: up to
\* a newline, to a ^D, which is taken only when the call has nothing yet, or until
\* the ring is empty.
Taken(s, n, nothing) ==
  LET At(i) == s.buf[((s.r + i - 1) % ICOUNT) % INPUT_BUF]
      there == Minus(s.w, s.r)
      stop == {i \in 1..there : At(i) \in {"\n", "^D"}}
      first == CHOOSE i \in stop : \A j \in stop : i <= j
      chars == IF stop = {} THEN there ELSE IF At(first) = "^D" THEN first - 1 ELSE first
      k == IF chars < n THEN chars ELSE n
      eof == stop # {} /\ At(first) = "^D" /\ k = first - 1 /\ k < n
  IN  [text |-> [i \in 1..k |-> At(i)],
       done |-> k = n \/ eof \/ (stop # {} /\ k = first),
       r |-> (s.r + k + (IF eof /\ nothing /\ k = 0 THEN 1 ELSE 0)) % ICOUNT]

\* consoleread() from where it has cons.lock, to where it releases it or is about
\* to sleep.
consoleread(p) ==
  LET t == Taken(input, con[p].n, con[p].got = <<>>)
      c == [con[p] EXCEPT !.got = @ \o t.text, !.n = @ - Len(t.text)]
  IN  /\ con[p].pc = "read" /\ ~Held
      /\ input' = Cleared([input EXCEPT !.r = t.r])
      /\ con' = [con EXCEPT ![p] = IF t.done THEN [c EXCEPT !.pc = "relock"]
                                   ELSE [c EXCEPT !.pc = IF p \in dead THEN "relock" ELSE "sleep"]]
      /\ UNCHANGED <<ip, dead>>

ConsSleep(p) == /\ con[p].pc = "sleep"
                /\ con' = [con EXCEPT ![p].pc = "wait"]
                /\ UNCHANGED <<input, ip, dead>>

\* consolewrite() gives up the inode and prints under cons.lock.
consolewrite(p) == /\ con[p].pc = "write" /\ ~Held
                   /\ ip' = "free" /\ con' = [con EXCEPT ![p].pc = "relock"]
                   /\ UNCHANGED <<input, dead>>

\* Both lock the inode again, which their caller unlocks, and return.
ConsReturn(p) == /\ con[p].pc = "relock" /\ ip = "free"
                 /\ con' = [con EXCEPT ![p] = Out]
                 /\ UNCHANGED <<input, ip, dead>>

ConsKill(p) == /\ p \notin dead /\ con[p] # Out
               /\ dead' = dead \cup {p}
               /\ con' = [con EXCEPT ![p].pc = IF @ = "wait" THEN "read" ELSE @]
               /\ UNCHANGED <<input, ip>>

\* A killed process exits, and the shell starts another one.
Replace(p) == /\ p \in dead /\ con[p] = Out
              /\ dead' = dead \ {p} /\ UNCHANGED <<input, con, ip>>

InCall(p) == ConsUnlock(p) \/ consoleread(p) \/ ConsSleep(p) \/ consolewrite(p) \/ ConsReturn(p)

ConsoleNext == \/ consoleintr
               \/ \E p \in Reader : \/ InCall(p) \/ ConsWrite(p) \/ ConsKill(p) \/ Replace(p)
                                    \/ \E n \in ReadSize : ConsRead(p, n)

ConsoleSpec == ConsoleInit /\ [][ConsoleNext]_cvars

-----------------------------------------------------------------------------

Ring(a, b) == [i \in 1..Minus(b, a) |-> input.buf[((a + i - 1) % ICOUNT) % INPUT_BUF]]

L == INSTANCE LineDiscipline WITH Proc <- Reader, Char <- Key, CAP <- INPUT_BUF,
       q <- Ring(input.r, input.w), line <- Ring(input.w, input.e),
       got <- [p \in Reader |-> con[p].got]

\* The ring of input, with its three indices that wrap around, implements a line
\* editor: what was entered comes out in order and cannot be edited any more,
\* whoever reads and however far, and ^D ends exactly one read.
ConsoleIsLines == L!Spec

\* Nobody sleeps while there is something to read, and a ring without room has
\* something to read: what is typed is never stuck behind a full ring.
ConsoleSleepers == /\ \A p \in Reader : con[p].pc = "wait" => input.r = input.w
                   /\ Minus(input.e, input.r) = INPUT_BUF => input.w = input.e

-----------------------------------------------------------------------------
(* The inductive invariant behind these.                                   *)

Inputs == [buf : [0..(INPUT_BUF - 1) -> Key \cup {"?"}],
           r : 0..(ICOUNT - 1), w : 0..(ICOUNT - 1), e : 0..(ICOUNT - 1)]

Calls == [pc : {"user", "entry", "read", "sleep", "wait", "write", "relock"},
          n : Nat, got : Seq(Key)]

ConsoleTypeOK == /\ input \in Inputs /\ con \in [Reader -> Calls]
                 /\ dead \in SUBSET Reader

\* From r on, at most INPUT_BUF characters, first those entered and then the line: a
\* full ring has no line, and no line has a newline.
Nth(s, j) == s.buf[(s.r + j) % INPUT_BUF]
Entered(s) == Minus(s.w, s.r)
Filling(s) == Minus(s.e, s.r)
RingIsLines(s) ==
  /\ Entered(s) <= Filling(s) /\ Filling(s) <= INPUT_BUF
  /\ Filling(s) = INPUT_BUF => Entered(s) = Filling(s)
  /\ \A j \in 0..(Filling(s) - 1) : Nth(s, j) \in Key /\ (j >= Entered(s) => Nth(s, j) # "\n")

\* Who is about to sleep or asleep has nothing to read; a call that may go on has no
\* newline and no ^D yet.
CallOK(c, s) ==
  /\ c.pc \in {"sleep", "wait"} => s.r = s.w
  /\ c.pc \in {"user", "write"} => c.got = <<>>
  /\ c.pc \in {"entry", "read", "sleep", "wait"} =>
       \A i \in DOMAIN c.got : c.got[i] \notin {"\n", "^D"}

ConsoleInv == /\ ConsoleTypeOK /\ RingIsLines(input)
              /\ \A p \in Reader : CallOK(con[p], input)
=============================================================================
