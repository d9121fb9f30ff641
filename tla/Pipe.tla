-------------------------------- MODULE Pipe ---------------------------------
(***************************************************************************)
(* Pipes and the files that stand for their ends: pipe.c, and file.c as    *)
(* far as pipes go.  A step is what a process does under one lock: from    *)
(* where it has the lock of the pipe to where it releases it, or to where  *)
(* it is about to sleep; there it keeps the lock until sleep() has it      *)
(* marked as asleep.  fileclose() lets go of the file before it closes the *)
(* pipe, and pipeclose() of the pipe before it frees the page.             *)
(***************************************************************************)
EXTENDS Integers, Sequences, FiniteSets

CONSTANTS Proc,       \* the processes
          Page,       \* the pages that kalloc() can give for pipes
          NFILE,      \* files in the system
          PIPESIZE,   \* bytes in a pipe
          COUNT,      \* the number of values of nread and nwrite
          Byte,       \* the values of a byte
          Message,    \* what a call may write
          IoSize      \* the numbers of bytes that a call may want to read

ASSUME PipeAssumption == /\ PIPESIZE \in Nat \ {0} /\ COUNT \in Nat
                         /\ COUNT > PIPESIZE /\ COUNT % PIPESIZE = 0
                         /\ NFILE \in Nat /\ IoSize \subseteq Nat \ {0}
                         /\ Message \subseteq Seq(Byte)
                         /\ IsFiniteSet(Proc) /\ "none" \notin Page

VARIABLES file,     \* ftable.file: [ref, writable, pipe] for each slot
          ofile,    \* the files that each process has open
          pipe,     \* the struct pipe in each page, or NoPipe
          th,       \* what each process does: [pc, f, pipe, todo]
          killed    \* the processes with killed set

pvars == <<file, ofile, pipe, th, killed>>

Files == 1..NFILE
NoFile == [ref |-> 0, writable |-> FALSE, pipe |-> "none"]
NoPipe == [data |-> <<>>, nread |-> 0, nwrite |-> 0, readopen |-> FALSE, writeopen |-> FALSE]
User == [pc |-> "user", pipe |-> "none", writable |-> FALSE, todo |-> <<>>]

PipeInit == /\ file = [f \in Files |-> NoFile]
            /\ ofile = [p \in Proc |-> {}]
            /\ pipe = [g \in Page |-> NoPipe]
            /\ th = [p \in Proc |-> User]
            /\ killed = {}

-----------------------------------------------------------------------------

\* The process that has the lock of the pipe in g across steps.
Locked(g) == \E p \in Proc : th[p].pipe = g /\ th[p].pc \in {"rsleep", "wsleep"}

MutWakeup(t, g, c) ==
  [p \in Proc |-> IF t[p].pipe = g /\ t[p].pc = IF c = "write" THEN "readwait" ELSE "writewait"
                  THEN [t[p] EXCEPT !.pc = c] ELSE t[p]]

\* wakeup() of those asleep on the channel c of the pipe in g, in t.
Wakeup(t, g, c) ==
  [p \in Proc |-> IF t[p].pipe = g /\ t[p].pc = IF c = "read" THEN "readwait" ELSE "writewait"
                  THEN [t[p] EXCEPT !.pc = c] ELSE t[p]]

Used(g) == (pipe[g].nwrite - pipe[g].nread) % COUNT

\* pipe(): pipealloc() finds two files and a page, or gives back what it got.
pipealloc(p) ==
  /\ th[p] = User /\ p \notin killed
  /\ \E f0, f1 \in Files, g \in Page :
       /\ file[f0].ref = 0 /\ file[f1].ref = 0 /\ f0 < f1
       /\ \A f \in Files : file[f].ref = 0 => f = f0 \/ f >= f1
       /\ pipe[g] = NoPipe
       /\ file' = [file EXCEPT ![f0] = [ref |-> 1, writable |-> FALSE, pipe |-> g],
                               ![f1] = [ref |-> 1, writable |-> TRUE, pipe |-> g]]
       /\ pipe' = [pipe EXCEPT ![g] = [data |-> [i \in 0..(PIPESIZE - 1) |-> "junk"],
                                       nread |-> 0, nwrite |-> 0,
                                       readopen |-> TRUE, writeopen |-> TRUE]]
       /\ ofile' = [ofile EXCEPT ![p] = @ \cup {f0, f1}]
  /\ UNCHANGED <<th, killed>>

\* fork(): the child c gets the files of its parent, with filedup().
fork(p, c) ==
  /\ th[p] = User /\ p \notin killed /\ ofile[p] # {}
  /\ c # p /\ th[c] = User /\ ofile[c] = {}
  /\ ofile' = [ofile EXCEPT ![c] = ofile[p]]
  /\ file' = [f \in Files |-> IF f \in ofile[p] THEN [file[f] EXCEPT !.ref = @ + 1] ELSE file[f]]
  /\ killed' = killed \ {c}
  /\ UNCHANGED <<pipe, th>>

\* open() of a file that is no pipe, which takes the first free slot as well.
filealloc(p) ==
  /\ th[p] = User /\ p \notin killed
  /\ \E f \in Files : /\ \A e \in 1..f : (file[e].ref = 0) = (e = f)
                      /\ file' = [file EXCEPT ![f].ref = 1]
                      /\ ofile' = [ofile EXCEPT ![p] = @ \cup {f}]
  /\ UNCHANGED <<pipe, th, killed>>

MutFileclose(p, f) ==
  /\ th[p] = User /\ f \in ofile[p]
  /\ ofile' = [ofile EXCEPT ![p] = @ \ {f}]
  /\ file' = [file EXCEPT ![f] = IF @.ref > 1 THEN [file[f] EXCEPT !.ref = @ - 1] ELSE NoFile]
  /\ th' = IF file[f].pipe = "none" THEN th
           ELSE [th EXCEPT ![p] = [pc |-> "close", pipe |-> file[f].pipe,
                                   writable |-> file[f].writable, todo |-> <<>>]]
  /\ UNCHANGED <<pipe, killed>>

\* close(), or exit() of a process: fileclose() under ftable.lock.  The last
\* reference frees the slot, and what it said is kept for pipeclose().
fileclose(p, f) ==
  /\ th[p] = User /\ f \in ofile[p]
  /\ ofile' = [ofile EXCEPT ![p] = @ \ {f}]
  /\ file' = [file EXCEPT ![f] = IF @.ref > 1 THEN [file[f] EXCEPT !.ref = @ - 1] ELSE NoFile]
  /\ th' = IF file[f].ref > 1 \/ file[f].pipe = "none" THEN th
           ELSE [th EXCEPT ![p] = [pc |-> "close", pipe |-> file[f].pipe,
                                   writable |-> file[f].writable, todo |-> <<>>]]
  /\ UNCHANGED <<pipe, killed>>

MutAwaited(p) == IF th[p].writable THEN "write" ELSE "read"

\* Whom the closing of an end concerns: those who sleep at the other one.
Awaited(p) == IF th[p].writable THEN "read" ELSE "write"

pipeclose(p) ==
  LET g == th[p].pipe
      left == IF th[p].writable THEN [pipe[g] EXCEPT !.writeopen = FALSE]
              ELSE [pipe[g] EXCEPT !.readopen = FALSE]
      last == ~left.readopen /\ ~left.writeopen
  IN  /\ th[p].pc = "close" /\ ~Locked(g)
      /\ pipe' = [pipe EXCEPT ![g] = left]
      /\ th' = Wakeup([th EXCEPT ![p] = IF last THEN [@ EXCEPT !.pc = "kfree"] ELSE User],
                      g, Awaited(p))
      /\ UNCHANGED <<file, ofile, killed>>

\* kfree() of the page, after the lock in it was released.
FreePipe(p) == /\ th[p].pc = "kfree"
               /\ pipe' = [pipe EXCEPT ![th[p].pipe] = NoPipe]
               /\ th' = [th EXCEPT ![p] = User]
               /\ UNCHANGED <<file, ofile, killed>>

-----------------------------------------------------------------------------

\* read() and write() on the right end of a pipe; on the other they return -1.
PipeRead(p, f, n) ==
  /\ th[p] = User /\ p \notin killed /\ f \in ofile[p]
  /\ file[f].pipe # "none" /\ ~file[f].writable
  /\ th' = [th EXCEPT ![p] = [pc |-> "read", pipe |-> file[f].pipe, writable |-> FALSE,
                              todo |-> [i \in 1..n |-> "room"]]]
  /\ UNCHANGED <<file, ofile, pipe, killed>>

PipeWrite(p, f, bs) ==
  /\ th[p] = User /\ p \notin killed /\ f \in ofile[p]
  /\ file[f].pipe # "none" /\ file[f].writable
  /\ th' = [th EXCEPT ![p] = [pc |-> "write", pipe |-> file[f].pipe, writable |-> TRUE,
                              todo |-> bs]]
  /\ UNCHANGED <<file, ofile, pipe, killed>>

\* The first n bytes in the ring of the pipe b, and the ring without them: bytes that
\* were read are never looked at again and become junk.
Oldest(b, n) == [i \in 1..n |-> b.data[((b.nread + i - 1) % COUNT) % PIPESIZE]]
Rest(b, n) ==
  [d \in DOMAIN b.data |-> IF \E i \in 1..n : ((b.nread + i - 1) % COUNT) % PIPESIZE = d
                           THEN "junk" ELSE b.data[d]]

\* piperead() from where it has the lock.
piperead(p) ==
  LET g == th[p].pipe
      n == IF Len(th[p].todo) < Used(g) THEN Len(th[p].todo) ELSE Used(g)
  IN  /\ th[p].pc = "read" /\ ~Locked(g)
      /\ IF pipe[g].nread = pipe[g].nwrite /\ pipe[g].writeopen
         THEN /\ th' = [th EXCEPT ![p] = IF p \in killed THEN User ELSE [@ EXCEPT !.pc = "rsleep"]]
              /\ UNCHANGED pipe
         ELSE /\ th' = Wakeup([th EXCEPT ![p].pc = "ret", ![p].pipe = "none",
                                         ![p].todo = Oldest(pipe[g], n)], g, "write")
              /\ pipe' = [pipe EXCEPT ![g].nread = (@ + n) % COUNT, ![g].data = Rest(pipe[g], n)]
      /\ UNCHANGED <<file, ofile, killed>>

\* read() is back in the program with its bytes.
PipeReturn(p) == /\ th[p].pc = "ret" /\ th' = [th EXCEPT ![p] = User]
                 /\ UNCHANGED <<file, ofile, pipe, killed>>

MutRoom(g) == CHOOSE k \in 0..(COUNT - 1) : (pipe[g].nwrite + k) % COUNT
                                             = (pipe[g].nread + PIPESIZE + 1) % COUNT

\* How many bytes fit until nwrite == nread + PIPESIZE.
Room(g) == CHOOSE k \in 0..(COUNT - 1) : (pipe[g].nwrite + k) % COUNT
                                          = (pipe[g].nread + PIPESIZE) % COUNT

\* The ring of b with the first n bytes of bs behind the others.
Filled(b, bs, n) ==
  LET At(i) == ((b.nwrite + i - 1) % COUNT) % PIPESIZE
  IN  [d \in DOMAIN b.data |-> IF \E i \in 1..n : At(i) = d
                               THEN bs[CHOOSE i \in 1..n : At(i) = d] ELSE b.data[d]]

\* pipewrite() from where it has the lock: the bytes that fit before the ring is
\* full.
pipewrite(p) ==
  LET g == th[p].pipe
      bs == th[p].todo
      n == IF Len(bs) < Room(g) THEN Len(bs) ELSE Room(g)
      done == n = Len(bs)
      fail == ~done /\ (~pipe[g].readopen \/ p \in killed)
  IN  /\ th[p].pc = "write" /\ ~Locked(g)
      /\ pipe' = [pipe EXCEPT ![g].nwrite = (@ + n) % COUNT, ![g].data = Filled(pipe[g], bs, n)]
      /\ th' = IF fail THEN [th EXCEPT ![p] = User]
               ELSE Wakeup([th EXCEPT ![p] = IF done THEN User
                              ELSE [@ EXCEPT !.pc = "wsleep", !.todo = SubSeq(bs, n + 1, Len(bs))]],
                           g, "read")
      /\ UNCHANGED <<file, ofile, killed>>

\* sleep(): under ptable.lock the process gives up the lock and is asleep.
PipeSleep(p) == /\ th[p].pc \in {"rsleep", "wsleep"}
                /\ th' = [th EXCEPT ![p].pc = IF @ = "rsleep" THEN "readwait" ELSE "writewait"]
                /\ UNCHANGED <<file, ofile, pipe, killed>>

\* kill(): sets killed, and makes the process runnable if it sleeps.
PipeKill(p) == /\ p \notin killed /\ ofile[p] # {}
               /\ killed' = killed \cup {p}
               /\ th' = [th EXCEPT ![p].pc = CASE @ = "readwait" -> "read"
                                               [] @ = "writewait" -> "write"
                                               [] OTHER -> @]
               /\ UNCHANGED <<file, ofile, pipe>>

InKernel(p) == pipeclose(p) \/ FreePipe(p) \/ piperead(p) \/ pipewrite(p) \/ PipeSleep(p)
               \/ PipeReturn(p)

PipeNext ==
  \E p \in Proc :
    \/ pipealloc(p) \/ filealloc(p) \/ PipeKill(p) \/ InKernel(p)
    \/ \E c \in Proc : fork(p, c)
    \/ \E f \in Files : \/ fileclose(p, f)
                        \/ \E n \in IoSize : PipeRead(p, f, n)
                        \/ \E bs \in Message : PipeWrite(p, f, bs)

PipeSpec == PipeInit /\ [][PipeNext]_pvars

-----------------------------------------------------------------------------

\* The bytes in the pipe in g.
Queue(g) == Oldest(pipe[g], Used(g))

Channels == [g \in Page |->
  IF ~pipe[g].readopen /\ ~pipe[g].writeopen THEN [q |-> <<>>, r |-> FALSE, w |-> FALSE]
  ELSE [q |-> Queue(g), r |-> pipe[g].readopen, w |-> pipe[g].writeopen]]

Results == [p \in Proc |-> IF th[p].pc = "ret" THEN th[p].todo ELSE <<"none">>]

Ch == INSTANCE Channel WITH Chan <- Page, CAP <- PIPESIZE, chan <- Channels, got <- Results

\* The pipes implement bounded queues: bytes come out in the order they went in,
\* none twice and none lost, while the counters wrap around and while the reads
\* and writes of several processes meet; read() gives nothing only when nobody
\* can write any more, and no write goes to a pipe that is closed.
PipesAreQueues == Ch!Spec

\* Every page of a pipe is freed exactly when its last end is closed: a page in
\* use is known to a file or to the process that is closing it, both ends are open
\* exactly as long as a file or a fileclose() under way stands for them, and nobody
\* is left in read() or write() on a page that is free or about to be.
PipePages ==
  \A g \in Page :
    LET Ends(w) == \/ \E f \in Files : file[f].ref > 0 /\ file[f].pipe = g /\ file[f].writable = w
                   \/ \E p \in Proc : th[p].pc = "close" /\ th[p].pipe = g /\ th[p].writable = w
        users == {p \in Proc : th[p].pipe = g}
    IN  /\ pipe[g].readopen <=> Ends(FALSE)
        /\ pipe[g].writeopen <=> Ends(TRUE)
        /\ pipe[g] # NoPipe /\ ~pipe[g].readopen /\ ~pipe[g].writeopen =>
             \E p \in users : th[p].pc = "kfree" /\ users = {p}
        /\ pipe[g] = NoPipe => users = {}

\* Nobody sleeps for what cannot come any more: who sleeps for bytes has the pipe
\* open for writing, who sleeps for room has it full and open for reading.
PipeSleepers ==
  \A p \in Proc :
    /\ th[p].pc = "readwait" => pipe[th[p].pipe].writeopen
    /\ th[p].pc = "writewait" => Used(th[p].pipe) = PIPESIZE /\ pipe[th[p].pipe].readopen

\* A reader asleep in piperead() while there are bytes.
Overslept(p) == th[p].pc = "readwait" /\ Used(th[p].pipe) > 0

\* Bytes wake up who waits for them, with one exception: those of a write() that is
\* cut short because the writer was killed.
ReadersAreWoken ==
  [][\A p \in Proc : Overslept(p)' /\ ~Overslept(p) =>
       \E q \in killed : /\ th[q].pc = "write" /\ th[q].pipe = th[p].pipe
                         /\ Len(th[q].todo) > PIPESIZE /\ th'[q] = User]_pvars

\* A reader sleeps in the loop marked "pipe-empty" only while the pipe is empty.
\* The code breaks it: a writer that fills an empty pipe, finds that it was killed
\* and returns -1 wakes nobody up.
ReaderSleepsOnEmpty ==
  \A p \in Proc : th[p].pc = "readwait" => Used(th[p].pipe) = 0

-----------------------------------------------------------------------------
(* The inductive invariant behind these.                                   *)

Pipes == [data : [0..(PIPESIZE - 1) -> Byte \cup {"junk"}],
          nread : 0..(COUNT - 1), nwrite : 0..(COUNT - 1),
          readopen : BOOLEAN, writeopen : BOOLEAN]

Threads == [pc : {"user", "ret", "close", "kfree", "read", "rsleep", "readwait",
                  "write", "wsleep", "writewait"},
            pipe : Page \cup {"none"}, writable : BOOLEAN,
            todo : Seq(Byte \cup {"junk", "room"})]

PipeTypeOK ==
  /\ file \in [Files -> [ref : Nat, writable : BOOLEAN, pipe : Page \cup {"none"}]]
  /\ ofile \in [Proc -> SUBSET Files]
  /\ pipe \in [Page -> {NoPipe} \cup Pipes]
  /\ th \in [Proc -> Threads]
  /\ killed \in SUBSET Proc

Openers(f) == {p \in Proc : f \in ofile[p]}

\* A file is free when nobody has it open.
FilesOK ==
  \A f \in Files : /\ file[f].ref = Cardinality(Openers(f))
                   /\ file[f].ref = 0 => file[f] = NoFile

\* The file f, or the process p in fileclose(), stands for the end w of the pipe in g.
Stands(f, g, w) == file[f].pipe = g /\ file[f].writable = w
Closes(p, g, w) == th[p].pc = "close" /\ th[p].pipe = g /\ th[p].writable = w

\* Each end has at most one that stands for it, and is open as long as it has one.
EndOK(g, w, open) ==
  /\ \A f, e \in Files : Stands(f, g, w) /\ Stands(e, g, w) => f = e
  /\ \A p, q \in Proc : Closes(p, g, w) /\ Closes(q, g, w) => p = q
  /\ \A f \in Files, p \in Proc : ~(Stands(f, g, w) /\ Closes(p, g, w))
  /\ open <=> (\E f \in Files : Stands(f, g, w)) \/ (\E p \in Proc : Closes(p, g, w))

EndsOK == \A g \in Page : /\ EndOK(g, FALSE, pipe[g].readopen)
                          /\ EndOK(g, TRUE, pipe[g].writeopen)

Reading == {"read", "rsleep", "readwait"}
Writing == {"write", "wsleep", "writewait"}

\* A process in read() or write() has a file of the end it uses, and cannot close it
\* meanwhile.
Holds(p) ==
  /\ th[p].pc = "user" => th[p] = User
  /\ th[p].pipe = "none" <=> th[p].pc \in {"user", "ret"}
  /\ th[p].pc \in Reading => /\ \E f \in ofile[p] : Stands(f, th[p].pipe, FALSE)
                             /\ th[p].todo # <<>>
  /\ th[p].pc \in Writing => /\ \E f \in ofile[p] : Stands(f, th[p].pipe, TRUE)
                             /\ th[p].todo \in Seq(Byte)

\* A process that frees a page is the only one at it.
Frees(p) ==
  th[p].pc = "kfree" =>
    /\ pipe[th[p].pipe] # NoPipe
    /\ ~pipe[th[p].pipe].readopen /\ ~pipe[th[p].pipe].writeopen
    /\ \A q \in Proc \ {p} : ~(th[q].pc = "kfree" /\ th[q].pipe = th[p].pipe)

\* Who is about to sleep or asleep has something to wait for.
Waits(p) ==
  /\ th[p].pc = "rsleep" => Used(th[p].pipe) = 0
  /\ th[p].pc \in {"rsleep", "readwait"} => pipe[th[p].pipe].writeopen
  /\ th[p].pc \in {"wsleep", "writewait"} =>
       Used(th[p].pipe) = PIPESIZE /\ pipe[th[p].pipe].readopen

\* The ring has at most PIPESIZE bytes, and they are bytes.
RingOK(g) ==
  pipe[g] # NoPipe =>
    /\ Used(g) <= PIPESIZE /\ Queue(g) \in Seq(Byte)
    /\ pipe[g].readopen \/ pipe[g].writeopen
        \/ \E p \in Proc : th[p].pc = "kfree" /\ th[p].pipe = g

PipeInv == /\ PipeTypeOK /\ FilesOK /\ EndsOK
           /\ \A p \in Proc : Holds(p) /\ Frees(p) /\ Waits(p)
           /\ \A g \in Page : RingOK(g)
=============================================================================
