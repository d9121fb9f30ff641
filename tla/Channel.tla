------------------------------- MODULE Channel -------------------------------
(***************************************************************************)
(* What a pipe promises: a bounded queue of bytes with two ends.  A read   *)
(* takes bytes from the front, as many as it wants and there are, and      *)
(* takes none only when there are none and nobody can write any more.      *)
(***************************************************************************)
EXTENDS Naturals, Sequences

CONSTANTS Chan,   \* the places for a channel
          Proc,
          Byte,
          CAP     \* bytes in a channel at most

VARIABLES chan,   \* for each place the channel there, or NoChannel
          got     \* what the last read of a process returned, or NoRead

NoChannel == [q |-> <<>>, r |-> FALSE, w |-> FALSE]
NoRead == <<"none">>

Init == /\ chan = [c \in Chan |-> NoChannel]
        /\ got = [p \in Proc |-> NoRead]

Open(c) == /\ chan[c] = NoChannel
           /\ chan' = [chan EXCEPT ![c] = [q |-> <<>>, r |-> TRUE, w |-> TRUE]]
           /\ UNCHANGED got

Put(c, bs) == /\ chan[c].w /\ Len(chan[c].q) + Len(bs) <= CAP
              /\ chan' = [chan EXCEPT ![c].q = @ \o bs]
              /\ UNCHANGED got

Get(p, c, n) == /\ chan[c].r /\ (chan[c].q = <<>> => ~chan[c].w)
                /\ LET k == IF n < Len(chan[c].q) THEN n ELSE Len(chan[c].q)
                   IN  /\ got' = [got EXCEPT ![p] = SubSeq(chan[c].q, 1, k)]
                       /\ chan' = [chan EXCEPT ![c].q = SubSeq(@, k + 1, Len(@))]

\* The reading or the writing end is closed; with the second one the channel is gone.
CloseRead(c) ==
  /\ chan[c].r /\ UNCHANGED got
  /\ chan' = [chan EXCEPT ![c] = IF @.w THEN [@ EXCEPT !.r = FALSE] ELSE NoChannel]

CloseWrite(c) ==
  /\ chan[c].w /\ UNCHANGED got
  /\ chan' = [chan EXCEPT ![c] = IF @.r THEN [@ EXCEPT !.w = FALSE] ELSE NoChannel]

\* The process calls again, or its read fails.
Forget(p) == got' = [got EXCEPT ![p] = NoRead] /\ UNCHANGED chan

Next == \/ \E p \in Proc : Forget(p)
        \/ \E c \in Chan : \/ Open(c) \/ CloseRead(c) \/ CloseWrite(c)
                           \/ \E n \in 1..CAP : \E bs \in [1..n -> Byte] : Put(c, bs)
                           \/ \E p \in Proc, n \in 1..(CAP + 1) : Get(p, c, n)

Spec == Init /\ [][Next]_<<chan, got>>
=============================================================================
