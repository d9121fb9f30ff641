--------------------------- MODULE LineDiscipline ---------------------------
(***************************************************************************)
(* What the console promises to who types and who reads: a queue of what   *)
(* was entered and the line that is being edited.  Only the line can be    *)
(* edited; it is entered by a newline, by ^D, or when there is no more     *)
(* room.  A read takes characters in order, up to a newline; ^D ends a     *)
(* read, and is taken only by one that has nothing else.                   *)
(***************************************************************************)
EXTENDS Naturals, Sequences

CONSTANTS Proc, Char, CAP

VARIABLES q,      \* entered and not read yet
          line,   \* being edited
          got     \* what the read of each process has so far

Init == q = <<>> /\ line = <<>> /\ got = [p \in Proc |-> <<>>]

\* Typing one character: <<entered, being edited>>.
Typed(s, c) ==
  LET whole == s[1] \o s[2]
  IN  CASE c = "^U" -> <<s[1], <<>>>>
        [] c = "^H" -> <<s[1], IF s[2] = <<>> THEN <<>> ELSE SubSeq(s[2], 1, Len(s[2]) - 1)>>
        [] c = "^P" \/ (c \notin {"^U", "^H"} /\ Len(whole) = CAP) -> s
        [] OTHER -> IF c \in {"\n", "^D"} \/ Len(whole) + 1 = CAP
                    THEN <<Append(whole, c), <<>>>>
                    ELSE <<s[1], Append(s[2], c)>>

Type == \E c \in Char : <<q', line'>> = Typed(<<q, line>>, c) /\ UNCHANGED got

\* Characters a read may take together: no newline but the last, and no ^D.
Text(s) == \A i \in DOMAIN s : s[i] # "^D" /\ (i < Len(s) => s[i] # "\n")

Take(p, k) == /\ k <= Len(q) /\ Text(got[p] \o SubSeq(q, 1, k))
              /\ got' = [got EXCEPT ![p] = @ \o SubSeq(q, 1, k)]
              /\ q' = SubSeq(q, k + 1, Len(q))
              /\ UNCHANGED line

TakeEof(p) == /\ q # <<>> /\ Head(q) = "^D" /\ got[p] = <<>>
              /\ q' = Tail(q) /\ UNCHANGED <<line, got>>

Return(p) == got' = [got EXCEPT ![p] = <<>>] /\ UNCHANGED <<q, line>>

Next == \/ Type
        \/ \E p \in Proc : TakeEof(p) \/ Return(p) \/ \E k \in 1..CAP : Take(p, k)

Spec == Init /\ [][Next]_<<q, line, got>>
=============================================================================
