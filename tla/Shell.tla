-------------------------------- MODULE Shell --------------------------------
(***************************************************************************)
(* The parser of sh.c.  A line is a sequence of characters; a pointer into *)
(* it is a position, es is the position of the NUL that ends it, and NUL   *)
(* reads as "".  A parsing function returns the command and the position   *)
(* it stopped at; cmd = Panic when it called panic(), which ends the       *)
(* child that parses.                                                      *)
(***************************************************************************)
EXTENDS Integers, Sequences, FiniteSets

CONSTANT MAXARGS   \* arguments a command may have, with the 0 that ends them

LOCAL INSTANCE SequencesExt
LOCAL INSTANCE FiniteSetsExt

Panic == [type |-> "PANIC"]
whitespace == {" "}
symbols == {"<", "|", ">", "&", ";", "(", ")"}

At(b, s) == IF s <= Len(b) THEN b[s] ELSE ""

\* The first position from s on whose character is not in set.
Skip(b, s, set) == CHOOSE e \in s..(Len(b) + 1) :
                     /\ At(b, e) \notin set
                     /\ \A i \in s..(e - 1) : b[i] \in set

gettoken(b, s0) ==
  LET q == Skip(b, s0, whitespace)
      c == At(b, q)
      double == c = ">" /\ At(b, q + 1) = ">"
      word == Skip(b, q, {At(b, i) : i \in q..Len(b)} \ (whitespace \cup symbols))
      eq == CASE c = "" -> q
              [] double -> q + 2
              [] c \in symbols -> q + 1
              [] OTHER -> word
  IN  [tok |-> IF double THEN "+" ELSE IF c \in symbols \cup {""} THEN c ELSE "a",
       q |-> q, eq |-> eq, s |-> Skip(b, eq, whitespace)]

\* peek() also moves the pointer over blanks, which gettoken() does anyway.
peek(b, s, toks) == At(b, Skip(b, s, whitespace)) \in toks

execcmd(argv) == [type |-> "EXEC", argv |-> argv]
redircmd(cmd, file, tok) == [type |-> "REDIR", cmd |-> cmd, file |-> file,
                             mode |-> IF tok = "<" THEN "O_RDONLY" ELSE "O_WRONLY|O_CREATE",
                             fd |-> IF tok = "<" THEN 0 ELSE 1]
pipecmd(left, right) == [type |-> "PIPE", left |-> left, right |-> right]
listcmd(left, right) == [type |-> "LIST", left |-> left, right |-> right]
backcmd(cmd) == [type |-> "BACK", cmd |-> cmd]

\* redircmd() for each <<tok, file>> of rs: the last one is the outermost.
Wrap(cmd, rs) == FoldLeft(LAMBDA c, r : redircmd(c, r[2], r[1]), cmd, rs)

\* The redirections from s on: ok is FALSE when a file is missing.
RECURSIVE parseredirs(_, _, _)
parseredirs(b, s, rs) ==
  IF ~peek(b, s, {"<", ">"}) THEN [ok |-> TRUE, rs |-> rs, s |-> s]
  ELSE LET t == gettoken(b, s)
           f == gettoken(b, t.s)
       IN  IF f.tok # "a" THEN [ok |-> FALSE, rs |-> rs, s |-> f.s]
           ELSE parseredirs(b, f.s, Append(rs, <<t.tok, <<f.q, f.eq>>>>))

\* The loop of parseexec(): argv and the redirections so far.
RECURSIVE Arguments(_, _, _, _)
Arguments(b, s, argv, rs) ==
  LET t == gettoken(b, s)
      more == Append(argv, <<t.q, t.eq>>)
      r == parseredirs(b, t.s, rs)
  IN  IF peek(b, s, {"|", ")", "&", ";"}) THEN [cmd |-> Wrap(execcmd(argv), rs), s |-> s]
      ELSE IF t.tok = "" THEN [cmd |-> Wrap(execcmd(argv), rs), s |-> t.s]
      ELSE IF t.tok # "a" \/ Len(more) >= MAXARGS \/ ~r.ok THEN [cmd |-> Panic, s |-> t.s]
      ELSE Arguments(b, r.s, more, r.rs)

RECURSIVE parseline(_, _)
RECURSIVE parsepipe(_, _)

\* What follows the line l of a block: its parenthesis and its redirections.
BlockEnd(b, l, r) ==
  IF l.cmd = Panic \/ ~peek(b, l.s, {")"}) \/ ~r.ok THEN [cmd |-> Panic, s |-> l.s]
  ELSE [cmd |-> Wrap(l.cmd, r.rs), s |-> r.s]
AfterLine(b, l) == BlockEnd(b, l, parseredirs(b, gettoken(b, l.s).s, <<>>))
parseblock(b, s) == AfterLine(b, parseline(b, gettoken(b, s).s))

parseexec(b, s) ==
  LET r == parseredirs(b, s, <<>>)
  IN  IF peek(b, s, {"("}) THEN parseblock(b, s)
      ELSE IF ~r.ok THEN [cmd |-> Panic, s |-> r.s]
      ELSE Arguments(b, r.s, <<>>, r.rs)

\* The command made of l and of what was parsed behind it.
Join(l, r, type) ==
  IF r.cmd = Panic THEN r
  ELSE [cmd |-> IF type = "PIPE" THEN pipecmd(l.cmd, r.cmd) ELSE listcmd(l.cmd, r.cmd),
        s |-> r.s]

AfterExec(b, e) == IF e.cmd = Panic \/ ~peek(b, e.s, {"|"}) THEN e
                   ELSE Join(e, parsepipe(b, gettoken(b, e.s).s), "PIPE")
parsepipe(b, s) == AfterExec(b, parseexec(b, s))

RECURSIVE Backs(_, _)
Backs(b, r) == IF r.cmd = Panic \/ ~peek(b, r.s, {"&"}) THEN r
               ELSE Backs(b, [cmd |-> backcmd(r.cmd), s |-> gettoken(b, r.s).s])

AfterPipe(b, p) == IF p.cmd = Panic \/ ~peek(b, p.s, {";"}) THEN p
                   ELSE Join(p, parseline(b, gettoken(b, p.s).s), "LIST")
parseline(b, s) == AfterPipe(b, Backs(b, parsepipe(b, s)))

RECURSIVE nulterminate(_)
MutNulterminate(cmd) ==
  CASE cmd.type = "EXEC" -> {cmd.argv[i][2] : i \in 1..Len(cmd.argv)}
    [] cmd.type = "REDIR" -> nulterminate(cmd.cmd)
    [] cmd.type \in {"PIPE", "LIST"} -> nulterminate(cmd.left) \cup nulterminate(cmd.right)
    [] cmd.type = "BACK" -> nulterminate(cmd.cmd)

\* The positions where nulterminate() writes a NUL.
nulterminate(cmd) ==
  CASE cmd.type = "EXEC" -> {cmd.argv[i][2] : i \in 1..Len(cmd.argv)}
    [] cmd.type = "REDIR" -> nulterminate(cmd.cmd) \cup {cmd.file[2]}
    [] cmd.type \in {"PIPE", "LIST"} -> nulterminate(cmd.left) \cup nulterminate(cmd.right)
    [] cmd.type = "BACK" -> nulterminate(cmd.cmd)

\* parsecmd(): the command, and the line with the NULs that end its words.
Terminated(b, l) ==
  LET nuls == nulterminate(l.cmd)
  IN  IF l.cmd = Panic \/ Skip(b, l.s, whitespace) # Len(b) + 1
      THEN [cmd |-> Panic, buf |-> b]
      ELSE [cmd |-> l.cmd, buf |-> [i \in 1..Len(b) |-> IF i \in nuls THEN "" ELSE b[i]]]
parsecmd(b) == Terminated(b, parseline(b, 1))

-----------------------------------------------------------------------------
\* The command with every word as runcmd() reads it from buf: up to the first NUL.
WordAt(buf, w) == SubSeq(buf, w[1], (CHOOSE e \in w[1]..(Len(buf) + 1) :
                    At(buf, e) = "" /\ \A i \in w[1]..(e - 1) : buf[i] # "") - 1)

RECURSIVE AsRead(_, _)
AsRead(buf, cmd) ==
  CASE cmd.type = "EXEC" -> [cmd EXCEPT !.argv = [i \in DOMAIN @ |-> WordAt(buf, @[i])]]
    [] cmd.type = "REDIR" -> [cmd EXCEPT !.cmd = AsRead(buf, @), !.file = WordAt(buf, @)]
    [] cmd.type \in {"PIPE", "LIST"} -> [cmd EXCEPT !.left = AsRead(buf, @),
                                                    !.right = AsRead(buf, @)]
    [] cmd.type = "BACK" -> [cmd EXCEPT !.cmd = AsRead(buf, @)]
    [] cmd = Panic -> Panic
Reading(p) == AsRead(p.buf, p.cmd)

-----------------------------------------------------------------------------
(***************************************************************************)
(* The grammar, as the set of the trees of a sequence t of tokens:         *)
(*   line ::= pipe "&"* [";" line]       pipe ::= exec ["|" pipe]          *)
(*   exec ::= "(" line ")" redir* | (word | redir)*                        *)
(*   redir ::= ("<" | ">" | ">>") word                                     *)
(* A token is the longest there is, and a command has fewer than MAXARGS   *)
(* words.                                                                  *)
(***************************************************************************)
IsToken(t) == \/ Len(t) = 1 /\ t[1] \in symbols
              \/ t = <<">", ">">>
              \/ \A n \in DOMAIN t : t[n] \notin symbols \cup whitespace

RECURSIVE Tokens(_)
Tokens(b) ==
  LET n == Max({k \in 1..Len(b) : IsToken(SubSeq(b, 1, k))})
  IN  IF b = <<>> THEN <<>>
      ELSE IF b[1] \in whitespace THEN Tokens(Tail(b))
      ELSE <<SubSeq(b, 1, n)>> \o Tokens(SubSeq(b, n + 1, Len(b)))

IsWord(t) == t[1] \notin symbols
IsRedir(t) == t[1] \in {"<", ">"}
FileAt(t) == {k \in 2..Len(t) : IsRedir(t[k - 1])}

\* t has words and redirections only, and every redirection has its file.
IsSimple(t) == \A k \in DOMAIN t :
                 IsWord(t[k]) \/ (IsRedir(t[k]) /\ k < Len(t) /\ IsWord(t[k + 1]))

Args(t) == LET at == SetToSortSeq({k \in DOMAIN t \ FileAt(t) : IsWord(t[k])}, <)
           IN  [n \in DOMAIN at |-> t[at[n]]]
Redirs(t) == LET at == SetToSortSeq({k \in DOMAIN t : IsRedir(t[k])}, <)
             IN  [n \in DOMAIN at |-> <<t[at[n]][1], t[at[n] + 1]>>]

RECURSIVE LineTrees(_)
RECURSIVE PipeTrees(_)
RECURSIVE BackTrees(_)
Upto(t, m) == SubSeq(t, 1, m - 1)
From(t, m) == SubSeq(t, m + 1, Len(t))
Where(t, tok) == {m \in DOMAIN t : t[m] = <<tok>>}

ExecTrees(t) ==
  (IF IsSimple(t) /\ Len(Args(t)) < MAXARGS THEN {Wrap(execcmd(Args(t)), Redirs(t))} ELSE {})
  \cup UNION {{Wrap(l, Redirs(From(t, m))) : l \in LineTrees(Tail(Upto(t, m)))} :
              m \in {m \in Where(t, ")") : /\ t[1] = <<"(">> /\ IsSimple(From(t, m))
                                           /\ Args(From(t, m)) = <<>>}}
PipeTrees(t) ==
  ExecTrees(t) \cup
  UNION {{pipecmd(p[1], p[2]) : p \in ExecTrees(Upto(t, m)) \X PipeTrees(From(t, m))} :
         m \in Where(t, "|")}
BackTrees(t) ==
  PipeTrees(t) \cup
  IF t # <<>> /\ t[Len(t)] = <<"&">> THEN {backcmd(c) : c \in BackTrees(Front(t))} ELSE {}
LineTrees(t) ==
  BackTrees(t) \cup
  UNION {{listcmd(p[1], p[2]) : p \in BackTrees(Upto(t, m)) \X LineTrees(From(t, m))} :
         m \in Where(t, ";")}

\* For every line: the parser accepts what the grammar derives and nothing else,
\* and the words that runcmd() then finds in the line, through the NULs written
\* over the characters behind them, are those of the one tree it has.
ParsedAs(b) == LineTrees(Tokens(b)) = {Reading(parsecmd(b))} \ {Panic}
=============================================================================
