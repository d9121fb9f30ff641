---------------------------- MODULE UserPrograms ----------------------------
(***************************************************************************)
(* The other programs of the repository as programs for module FileSys:    *)
(* init, stressfs, zombie, echo, cat, the command loop and runcmd() of sh, *)
(* and the tests memtest.c and schedtest.c; and the table of all programs. *)
(***************************************************************************)
EXTENDS UserTests

init == <<Open(<<"console">>, RDWR, "fd", Err), Mknod(<<"console">>, 1, Is(0)),
          Open(<<"console">>, RDWR, "fd", Is(0)), Dup("fd", Is(1)), Dup("fd", Is(2)),
          [op |-> "fork", child |-> Tests, dst |-> "pid", want |-> Ok], [op |-> "reap"]>>

\* Each process forks the next one and writes and reads a file of its own.
StressfsBody(f) ==
  <<Open(<<f>>, CRDWR, "fd", Either), Write("fd", Letters("a", BSIZE), Either),
    Write("fd", Letters("a", BSIZE), Either), Close("fd"), Open(<<f>>, {}, "fd", Either),
    Read("fd", BSIZE, Either), Read("fd", BSIZE, Either), Close("fd"), Wait(Either), Exit>>
stressfs == <<Fork("stressfs1", "pid", Either)>> \o StressfsBody("stressfs0")

\* The parent exits without waiting: init gets the child.
zombie == <<Fork("exit", "pid", Either), Exit>>

echo == <<Write("out", <<"h", "i", "!">>, Ok), Exit>>

\* cat(0): copy the input until there is no more of it.
cat == <<Read("in", 2, Ok), While(4), WriteBack("out"), Forget, Again(4), Exit>>

\* The loop of the shell, with one command of each kind: echo | cat > o, which is a
\* pipe into a redirection; cat < o ; echo, a list; and echo &.
sh == <<Open(<<"console">>, RDWR, "fd", Is(3)), Close("fd"),
        Fork("sh_pipe", "pid", Ok), Wait(Ok),
        Open(<<"o">>, {}, "fd", Ok), Read("fd", 8, Is(3)),
        Check({"h", "i", "!"}, Is(<<"h", "i", "!">>)), Close("fd"),
        Fork("sh_list", "pid", Ok), Wait(Ok), Fork("sh_back", "pid", Ok), Wait(Ok),
        Fork("sh_bad", "pid", Ok), Wait(Ok), Exit>>

\* runcmd() of a pipe: every process closes the ends it does not use.
sh_pipe       == <<Pipe(Is(0)), Fork("sh_pipe_left", "pid", Ok), Fork("sh_pipe_right", "pid", Ok),
                   Close("p0"), Close("p1"), Wait(Ok), Wait(Ok), Exit>>
sh_pipe_left  == <<Close("out"), Dup("p1", Is(1)), Close("p0"), Close("p1"), Exec(<<"echo">>, 1), Fail>>
sh_pipe_right == <<Close("in"), Dup("p0", Is(0)), Close("p0"), Close("p1"), Close("out"),
                   Open(<<"o">>, {"CREATE", "WRONLY"}, "fd", Is(1)), Exec(<<"cat">>, 1), Fail>>
sh_list       == <<Fork("sh_redir", "pid", Ok), Wait(Ok), Exec(<<"echo">>, 1), Fail>>
sh_redir      == <<Close("in"), Open(<<"o">>, {}, "fd", Is(0)), Exec(<<"cat">>, 1), Fail>>
sh_bad        == <<Exec(<<"README">>, 1), Exit>>   \* not a program: "exec failed"
sh_back       == <<Fork("echo", "pid", Ok), Exit>>

-----------------------------------------------------------------------------
(* memtest.c and schedtest.c.  Page i is the i-th page that sbrk() added.  *)

PageAt(i) == ExecSize + i * PGSIZE
write_pattern(i, v)  == <<Store(PageAt(i), v), Store(PageAt(i) + PGSIZE - 1, v)>>
verify_pattern(i, want) == <<Load(PageAt(i), want), Load(PageAt(i) + PGSIZE - 1, want)>>
Grow(i, v) == <<Sbrk(PGSIZE, Is(PageAt(i)))>> \o write_pattern(i, v)
Shrink == Sbrk(-PGSIZE, Ok)

test_sequential_alloc ==
  FlattenSeq([i \in 1..3 |-> Grow(i - 1, 10 + i)])
  \o FlattenSeq([i \in 1..3 |-> verify_pattern(i - 1, Is(10 + i))]) \o Times(3, <<Shrink>>)

\* Blocks 0 to 3, the odd ones freed and taken again: sbrk() frees from the end, so
\* block 1 is now where block 2 was: the test only reports what it finds then.
test_alternating_pattern ==
  FlattenSeq([i \in 1..4 |-> Grow(i - 1, 20 + i - 1)]) \o Times(2, <<Shrink>>)
  \o Grow(2, 31) \o Grow(3, 33)
  \o verify_pattern(0, Either) \o verify_pattern(2, Either)
  \o verify_pattern(2, Either) \o verify_pattern(3, Either) \o Times(4, <<Shrink>>)

\* Allocate, free, or both, by the number of the iteration.
test_stress == Grow(0, 1) \o Grow(1, 2) \o <<Shrink>> \o Grow(1, 3) \o <<Shrink, Shrink>>

memtest == test_sequential_alloc \o <<Sleep>> \o test_alternating_pattern \o <<Sleep>>
           \o test_stress \o <<Sleep, Fork("memtest_c1", "pid", Ok), Fork("memtest_c2", "pid", Ok),
                               Wait(Ok), Wait(Ok), Exit>>
\* A child of test_multiprocess().
MemtestChild(c) == FlattenSeq([i \in 1..2 |-> Grow(i - 1, c + i) \o <<Sleep>>])
                   \o verify_pattern(0, Is(c + 1)) \o verify_pattern(1, Is(c + 2))
                   \o <<Shrink, Shrink, Exit>>

\* One child of each kind, with what it prints first and last.
schedtest == <<Fork("cpu_bound_process", "pid", Ok), Fork("io_bound_process", "pid", Ok),
               Fork("mixed_process", "pid", Ok), Wait(Ok), Wait(Ok), Wait(Ok), Wait(Err), Exit>>
cpu_bound_process == <<Write("out", <<"b">>, Is(1)), Write("out", <<"e">>, Is(1)), Exit>>
io_bound_process  == <<Write("out", <<"b">>, Is(1)), Sleep, Sleep, Write("out", <<"e">>, Is(1)), Exit>>
mixed_process     == <<Write("out", <<"b">>, Is(1)), Sleep, Write("out", <<"e">>, Is(1)), Exit>>

-----------------------------------------------------------------------------

\* Two processes make, remove, look through and link over one directory: a race
\* that the repository's tests do not run.
DirLoop(n) ==
  Times(n, <<Choose({1, 3, 5, 7}), Mkdir(<<"d">>, Either), Skip(6), Unlink(<<"d">>, Either),
             Skip(4), Link(<<"README">>, <<"d">>, Either), Skip(2), Chdir(<<"d", "..">>, Either)>>)
dirrace   == <<Fork("dirrace_c", "pid", Ok)>> \o DirLoop(2) \o <<Wait(Ok), Exit>>
dirrace_c == DirLoop(1) \o <<Exit>>

\* sbrk() at the ends of its range, which the tests do not reach either: a process
\* cannot grow to the kernel, and shrinking by more than it has wraps around, which
\* deallocuvm() takes for growing.
sbrkedge == <<Sbrk(KERNBASE - ExecSize, Err), Sbrk(KERNBASE - 1 - ExecSize, Is(ExecSize)),
              Store(KERNBASE - 2, 7), Sbrk(1, Err), Sbrk(KERNBASE - 1, Err),
              Sbrk(-KERNBASE, Is(KERNBASE - 1)), Load(KERNBASE - 2, Is(7)),
              Sbrk(ExecSize - KERNBASE + 1, Is(KERNBASE - 1)), Sbrk(-ExecSize - 1, Is(ExecSize)),
              Sbrk(0, Is(ExecSize)), Fork("exit", "pid", Ok), Wait(Ok), Exit>>

\* Not in the suite: the new name of a link is an entry that every directory has.
linkdot == <<Link(<<"README">>, <<".">>, Err), Exit>>

-----------------------------------------------------------------------------

Suite == [
  iputtest |-> iputtest, exitiputtest |-> exitiputtest, openiputtest |-> openiputtest,
  opentest |-> opentest, writetest |-> writetest, writetest1 |-> writetest1,
  createtest |-> createtest, dirtest |-> dirtest, exectest |-> exectest, pipe1 |-> pipe1,
  preempt |-> preempt, exitwait |-> exitwait, sharedfd |-> sharedfd, fourfiles |-> fourfiles,
  createdelete |-> createdelete, unlinkread |-> unlinkread, linktest |-> linktest,
  concreate |-> concreate, linkunlink |-> linkunlink, bigdir |-> bigdir, subdir |-> subdir,
  bigwrite |-> bigwrite, bigfile |-> bigfile, fourteen |-> fourteen, rmdot |-> rmdot,
  dirfile |-> dirfile, iref |-> iref, forktest |-> forktest, sbrktest |-> sbrktest,
  validatetest |-> validatetest, bsstest |-> bsstest, bigargtest |-> bigargtest, uio |-> uio,
  argptest |-> argptest, usertests |-> usertests, stressfs |-> stressfs, zombie |-> zombie,
  sh |-> sh, memtest |-> memtest, schedtest |-> schedtest, dirrace |-> dirrace,
  sbrkedge |-> sbrkedge]

Parts == [
  init |-> init, exit |-> <<Exit>>, spin |-> <<Spin>>, echo |-> echo, cat |-> cat,
  exitiputtest_c |-> exitiputtest_c, openiputtest_c |-> openiputtest_c, pipe1_c |-> pipe1_c,
  preempt_c |-> preempt_c, sharedfd_c |-> sharedfd_c,
  fourfiles_c0 |-> FourfilesChild("f0", "0"), fourfiles_c1 |-> FourfilesChild("f1", "1"),
  createdelete_c0 |-> CreateDeleteChild("p1", "p2"),
  createdelete_c1 |-> CreateDeleteChild("q1", "q2"),
  mk_C0 |-> ConcreateMake("C0"), ln_C1 |-> ConcreateLink("C1"), mk_C4 |-> ConcreateMake("C4"),
  ln_C6 |-> ConcreateLink("C6"), op_C0 |-> ConcreateOpen("C0"), rm_C1 |-> ConcreateRemove("C1"),
  rm_C4 |-> ConcreateRemove("C4"), linkunlink_c |-> linkunlink_c, sbrktest_c |-> sbrktest_c,
  readkernel |-> readkernel, sbrktest_big |-> sbrktest_big,
  sbrktest_big2 |-> sbrktest_big2, bigargtest_c |-> bigargtest_c,
  stressfs1 |-> StressfsBody("stressfs1"), sh_pipe |-> sh_pipe, sh_pipe_left |-> sh_pipe_left,
  sh_pipe_right |-> sh_pipe_right, sh_list |-> sh_list, sh_redir |-> sh_redir, sh_back |-> sh_back,
  sh_bad |-> sh_bad, memtest_c1 |-> MemtestChild(40), memtest_c2 |-> MemtestChild(50),
  cpu_bound_process |-> cpu_bound_process, io_bound_process |-> io_bound_process,
  mixed_process |-> mixed_process,
  dirrace_c |-> dirrace_c]

Programs == LET Others == [linkdot |-> linkdot] IN Suite @@ Parts @@ Others
SuiteNames == DOMAIN Suite

\* What mkfs is given; a program has one page.
Elf(name) == [name |-> name, data |-> <<<<1, "ELF">>, <<PGSIZE, name>>, Zero>>]
Files0 == <<[name |-> "README", data |-> <<<<1, "r">>>>], Elf("echo"), Elf("cat"), Elf("init")>>

=============================================================================
