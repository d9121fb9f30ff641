----------------------------- MODULE UserTests -----------------------------
(***************************************************************************)
(* The test suite of the repository, usertests.c, as programs for module   *)
(* FileSys.  An instruction is one system call with the set of results the *)
(* C code goes on with: any other result prints an error there.  Counts,   *)
(* sizes and numbers of children are scaled to the constants of the model, *)
(* so that a file still needs its indirect block, a write still takes      *)
(* several transactions and tables still fill up.  What the C code prints  *)
(* is left out.                                                            *)
(***************************************************************************)
EXTENDS FileSys

Ok  == 0..99
Err == {-1}
Either == -1..99
Is(v) == {v}

\* System calls.
Open(path, mode, r, want) == [op |-> "open", path |-> path, mode |-> mode, dst |-> r, want |-> want]
Mkdir(path, want)  == [op |-> "mkdir", path |-> path, want |-> want]
Mknod(path, major, want) == [op |-> "mknod", path |-> path, major |-> major, want |-> want]
Chdir(path, want)  == [op |-> "chdir", path |-> path, want |-> want]
Unlink(path, want) == [op |-> "unlink", path |-> path, want |-> want]
Link(old, new, want) == [op |-> "link", path |-> old, path2 |-> new, want |-> want]
Exec(path, arglen) == [op |-> "exec", path |-> path, arglen |-> arglen, want |-> Either]
Close(r)           == [op |-> "close", fd |-> r, want |-> Either]
Dup(r, want)       == [op |-> "dup", fd |-> r, want |-> want]
Pipe(want)         == [op |-> "pipe", want |-> want]
Read(r, n, want)   == [op |-> "read", fd |-> r, n |-> n, want |-> want]
Write(r, data, want) == [op |-> "write", fd |-> r, data |-> data, want |-> want]
WriteBack(r)       == [op |-> "write", fd |-> r, want |-> Ok]
Fork(child, r, want) == [op |-> "fork", child |-> {child}, dst |-> r, want |-> want]
Exit               == [op |-> "exit"]
Wait(want)         == [op |-> "wait", want |-> want]
Kill(r)            == [op |-> "kill", pid |-> r, want |-> Either]
Sbrk(n, want)      == [op |-> "sbrk", n |-> n, want |-> want]
SbrkTo(r, want)    == [op |-> "sbrk", to |-> r, want |-> want]

\* What a program does by itself.
Store(a, v)   == [op |-> "store", at |-> a, val |-> v, want |-> Either]
Load(a, want) == [op |-> "load", at |-> a, want |-> want]
Sleep         == [op |-> "sleep", want |-> Is(0)]
Spin          == [op |-> "spin"]
Skip(by)     == [op |-> "choose", by |-> {by}]
Choose(by)    == [op |-> "choose", by |-> by]
While(none)   == [op |-> "loop", some |-> 1, none |-> none]
Again(by)     == [op |-> "loop", some |-> -by, none |-> 1]
Check(only, want) == [op |-> "check", only |-> only, want |-> want]
Forget        == [op |-> "check", only |-> {}, want |-> {<<>>}]
Fail          == [op |-> "check", only |-> {}, want |-> {}]

RDWR == {"RDWR"}
CRDWR == {"CREATE", "RDWR"}
Times(n, prog) == FlattenSeq([i \in 1..n |-> prog])
OpenClose(path, mode, want) == <<Open(path, mode, "fd", want), Close("fd")>>
Letters(c, n) == [u \in 1..n |-> c]

-----------------------------------------------------------------------------
(* usertests.c, in the order of the file; name_c is the child of name.     *)

iputtest == <<Mkdir(<<"iputdir">>, Ok), Chdir(<<"iputdir">>, Ok),
              Unlink(<<"..", "iputdir">>, Ok), Chdir(<<"/">>, Ok), Exit>>

exitiputtest   == <<Fork("exitiputtest_c", "pid", Ok), Wait(Either), Exit>>
exitiputtest_c == <<Mkdir(<<"iputdir">>, Ok), Chdir(<<"iputdir">>, Ok),
                    Unlink(<<"..", "iputdir">>, Ok), Exit>>

openiputtest   == <<Mkdir(<<"oidir">>, Ok), Fork("openiputtest_c", "pid", Ok),
                    Unlink(<<"oidir">>, Is(0)), Wait(Either), Exit>>
openiputtest_c == <<Open(<<"oidir">>, RDWR, "fd", Err), Exit>>

opentest == OpenClose(<<"echo">>, {}, Ok) \o <<Open(<<"doesnotexist">>, {}, "fd", Err), Exit>>

writetest ==
  <<Open(<<"small">>, CRDWR, "fd", Ok)>>
  \o Times(2, <<Write("fd", <<"a", "a">>, Is(2)), Write("fd", <<"b", "b">>, Is(2))>>)
  \o <<Close("fd"), Open(<<"small">>, {}, "fd", Ok), Read("fd", 8, Is(8)), Close("fd"),
       Unlink(<<"small">>, Ok), Exit>>

\* The largest file there can be, block by block; one more unit does not fit.
writetest1 ==
  LET block(n) == <<<<"0", "1", "2", "3", "4", "5">>[n]>> \o Letters(".", BSIZE - 1)
  IN  <<Open(<<"big">>, CRDWR, "fd", Ok)>>
      \o [n \in 1..MAXFILE |-> Write("fd", block(n), Is(BSIZE))]
      \o <<Close("fd"), Open(<<"big">>, {}, "fd", Ok)>>
      \o FlattenSeq([n \in 1..MAXFILE |-> <<Read("fd", BSIZE, Is(BSIZE)),
                                            Check(Range(block(n)), Is(block(n)))>>])
      \o <<Read("fd", BSIZE, Is(0)), Close("fd"), Unlink(<<"big">>, Ok), Exit>>

createtest == LET names == <<"a0", "a1", "a2", "a3">>
              IN  FlattenSeq([i \in 1..4 |-> OpenClose(<<names[i]>>, CRDWR, Either)])
                  \o [i \in 1..4 |-> Unlink(<<names[i]>>, Either)] \o <<Exit>>

dirtest == <<Mkdir(<<"dir0">>, Ok), Chdir(<<"dir0">>, Ok), Chdir(<<"..">>, Ok),
             Unlink(<<"dir0">>, Ok), Exit>>

exectest == <<Exec(<<"echo">>, 1), Fail>>

\* The reader asks for 1, 2, 4, 8, 8, ... units until the writers are gone.
pipe1 ==
  LET all == FlattenSeq([n \in 1..3 |-> <<"0", "1", "2", "3", "4">>])
  IN  <<Pipe(Is(0)), Fork("pipe1_c", "pid", Ok), Close("p1"), Read("p0", 1, Ok),
        Read("p0", 2, Ok), Read("p0", 4, Ok), Read("p0", 8, Ok), Again(1),
        Check(Range(all), Is(all)), Close("p0"), Wait(Either), Exit>>
pipe1_c == <<Close("p0")>> \o Times(3, <<Write("p1", <<"0", "1", "2", "3", "4">>, Is(5))>>)
           \o <<Exit>>

preempt == <<Fork("spin", "pid", Ok), Fork("spin", "pid1", Ok), Pipe(Either),
             Fork("preempt_c", "pid2", Ok), Close("p1"), Read("p0", 8, Is(1)), Close("p0"),
             Kill("pid"), Kill("pid1"), Kill("pid2"),
             Wait(Either), Wait(Either), Wait(Either), Exit>>
preempt_c == <<Close("p0"), Write("p1", <<"x">>, Is(1)), Close("p1"), Spin>>

\* The child is the only one, and gets the first free slot, 3.
exitwait == Times(3, <<Fork("exit", "pid", Is(3)), Wait(Is(3))>>) \o <<Exit>>

\* Two processes write through one file: nothing is lost, whatever the order.
sharedfd ==
  <<Unlink(<<"sharedfd">>, Either), Open(<<"sharedfd">>, CRDWR, "fd", Ok),
    Fork("sharedfd_c", "pid", Ok), Write("fd", <<"p", "p">>, Is(2)),
    Write("fd", <<"p", "p">>, Is(2)), Wait(Either), Close("fd"),
    Open(<<"sharedfd">>, {}, "fd", Ok), Read("fd", 3, Ok), Again(1),
    Check({"c", "p"}, {s \in [1..8 -> {"c", "p"}] : Cardinality({u \in 1..8 : s[u] = "c"}) = 4}),
    Close("fd"), Unlink(<<"sharedfd">>, Either), Exit>>
sharedfd_c == <<Write("fd", <<"c", "c">>, Is(2)), Write("fd", <<"c", "c">>, Is(2)), Exit>>

\* Two writers, a file each; 9 units need a third, indirect block.
fourfiles ==
  LET file(f, c) == <<Open(<<f>>, {}, "fd", Either), Read("fd", 7, Ok), Again(1),
                      Check({"0", "1"}, Is(Letters(c, 9))), Close("fd"), Unlink(<<f>>, Either)>>
  IN  <<Unlink(<<"f0">>, Either), Fork("fourfiles_c0", "pid", Ok),
        Unlink(<<"f1">>, Either), Fork("fourfiles_c1", "pid", Ok), Wait(Either), Wait(Either)>>
      \o file("f0", "0") \o file("f1", "1") \o <<Exit>>
FourfilesChild(f, c) == <<Open(<<f>>, CRDWR, "fd", Ok)>>
                        \o Times(3, <<Write("fd", Letters(c, 3), Is(3))>>) \o <<Exit>>

\* Two children create two files each and remove the first one.
createdelete ==
  <<Fork("createdelete_c0", "pid", Ok), Fork("createdelete_c1", "pid", Ok),
    Wait(Either), Wait(Either), Open(<<"p1">>, {}, "fd", Err), Open(<<"q1">>, {}, "fd", Err)>>
  \o OpenClose(<<"p2">>, {}, Ok) \o OpenClose(<<"q2">>, {}, Ok)
  \o <<Unlink(<<"p1">>, Either), Unlink(<<"q2">>, Either), Exit>>
CreateDeleteChild(one, two) ==
  OpenClose(<<one>>, CRDWR, Ok) \o OpenClose(<<two>>, CRDWR, Ok) \o <<Unlink(<<one>>, Ok), Exit>>

unlinkread ==
  <<Open(<<"unlinkread">>, CRDWR, "fd", Ok), Write("fd", <<"h", "e", "l">>, Either), Close("fd"),
    Open(<<"unlinkread">>, RDWR, "fd", Ok), Unlink(<<"unlinkread">>, Is(0)),
    Open(<<"unlinkread">>, CRDWR, "fd1", Either), Write("fd1", <<"y", "y">>, Either), Close("fd1"),
    Read("fd", 8, Is(3)), Check({"h", "y"}, Is(<<"h">>)), Write("fd", Letters("z", 6), Is(6)),
    Close("fd"), Unlink(<<"unlinkread">>, Either), Exit>>

linktest ==
  <<Unlink(<<"lf1">>, Either), Unlink(<<"lf2">>, Either), Open(<<"lf1">>, CRDWR, "fd", Ok),
    Write("fd", <<"h", "e", "l">>, Is(3)), Close("fd"), Link(<<"lf1">>, <<"lf2">>, Ok),
    Unlink(<<"lf1">>, Either), Open(<<"lf1">>, {}, "fd", Err), Open(<<"lf2">>, {}, "fd", Ok),
    Read("fd", 8, Is(3)), Close("fd"), Link(<<"lf2">>, <<"lf2">>, Err), Unlink(<<"lf2">>, Either),
    Link(<<"lf2">>, <<"lf1">>, Err), Link(<<".">>, <<"lf1">>, Err), Exit>>

-----------------------------------------------------------------------------

\* Parent and child make the same name, by open() or by link(), for the indices 0,
\* 1, 4 and 6, which take the four combinations; then they open and unlink it.
concreate ==
  LET make(f, c, ins) == <<Unlink(<<f>>, Either), Fork(c, "pid", Either)>> \o ins \o <<Wait(Either)>>
      opn(f) == OpenClose(<<f>>, CRDWR, Ok)
      lnk(f) == <<Link(<<"C0">>, <<f>>, Either)>>
      race(c, ins) == <<Fork(c, "pid", Ok)>> \o ins \o <<Wait(Either)>>
  IN  make("C0", "mk_C0", opn("C0")) \o make("C1", "ln_C1", lnk("C1"))
      \o make("C4", "mk_C4", lnk("C4")) \o make("C6", "ln_C6", opn("C6"))
      \o <<Open(<<".">>, {}, "fd", Either), Read("fd", 1, Ok), Again(1),
           Check({"C0", "C1", "C4", "C6"}, SetToSeqs({"C0", "C1", "C4", "C6"})), Close("fd")>>
      \o race("op_C0", Times(2, <<Unlink(<<"C0">>, Either)>>))
      \o race("rm_C1", Times(2, OpenClose(<<"C1">>, {}, Either)))
      \o race("rm_C4", Times(2, <<Unlink(<<"C4">>, Either)>>)) \o <<Exit>>
ConcreateMake(f) == OpenClose(<<f>>, CRDWR, Ok) \o <<Exit>>
ConcreateLink(f) == <<Link(<<"C0">>, <<f>>, Either), Exit>>
ConcreateOpen(f) == Times(2, OpenClose(<<f>>, {}, Either)) \o <<Exit>>
ConcreateRemove(f) == Times(2, <<Unlink(<<f>>, Either)>>) \o <<Exit>>

\* Both processes create, link or unlink "x", in an order that is not fixed.
LinkUnlinkLoop == Times(2, <<Choose({1, 4, 6}), Open(<<"x">>, CRDWR, "fd", Either), Close("fd"),
                             Skip(4), Link(<<"cat">>, <<"x">>, Either), Skip(2),
                             Unlink(<<"x">>, Either)>>)
linkunlink == <<Unlink(<<"x">>, Either), Fork("linkunlink_c", "pid", Ok)>>
              \o LinkUnlinkLoop \o <<Wait(Either), Exit>>
linkunlink_c == LinkUnlinkLoop \o <<Exit>>

\* The root directory grows into its indirect block.
bigdir ==
  LET names == <<"x00", "x01", "x02", "x03">>
  IN  <<Unlink(<<"bd">>, Either)>> \o OpenClose(<<"bd">>, {"CREATE"}, Ok)
      \o [i \in 1..4 |-> Link(<<"bd">>, <<names[i]>>, Is(0))] \o <<Unlink(<<"bd">>, Either)>>
      \o [i \in 1..4 |-> Unlink(<<names[i]>>, Is(0))] \o <<Exit>>

\* The first half of subdir(): directories, "..", and reading through them.
SubdirMake ==
  <<Unlink(<<"ff">>, Either), Mkdir(<<"dd">>, Is(0)), Open(<<"dd", "ff">>, CRDWR, "fd", Ok),
    Write("fd", <<"f", "f">>, Either), Close("fd"), Unlink(<<"dd">>, Err),
    Mkdir(<<"/", "dd", "dd">>, Is(0)), Open(<<"dd", "dd", "ff">>, CRDWR, "fd", Ok),
    Write("fd", <<"F", "F">>, Either), Close("fd"),
    Open(<<"dd", "dd", "..", "ff">>, {}, "fd", Ok), Read("fd", 8, Is(2)),
    Check({"f", "F"}, Is(<<"f", "f">>)), Close("fd"),
    Link(<<"dd", "dd", "ff">>, <<"dd", "dd", "ffff">>, Is(0)), Unlink(<<"dd", "dd", "ff">>, Is(0)),
    Open(<<"dd", "dd", "ff">>, {}, "fd", Err), Chdir(<<"dd">>, Is(0)),
    Chdir(<<"dd", "..", "..", "dd">>, Is(0)), Chdir(<<"dd", "..", "..", "..", "dd">>, Is(0)),
    Chdir(<<".", "..">>, Is(0)), Open(<<"dd", "dd", "ffff">>, {}, "fd", Ok),
    Read("fd", 8, Is(2)), Forget, Close("fd"), Open(<<"dd", "dd", "ff">>, {}, "fd", Err)>>

\* The second half: what must fail, and cleaning up.
subdir ==
  SubdirMake
  \o [k \in 1..5 |-> Open(<<<<"dd", "ff", "ff">>, <<"dd", "xx", "ff">>, <<"dd">>, <<"dd">>, <<"dd">>>>[k],
                          <<CRDWR, CRDWR, {"CREATE"}, RDWR, {"WRONLY"}>>[k], "fd", Err)]
  \o <<Link(<<"dd", "ff", "ff">>, <<"dd", "dd", "xx">>, Err),
       Link(<<"dd", "xx", "ff">>, <<"dd", "dd", "xx">>, Err),
       Link(<<"dd", "ff">>, <<"dd", "dd", "ffff">>, Err), Mkdir(<<"dd", "ff", "ff">>, Err),
       Mkdir(<<"dd", "xx", "ff">>, Err), Mkdir(<<"dd", "dd", "ffff">>, Err),
       Unlink(<<"dd", "xx", "ff">>, Err), Unlink(<<"dd", "ff", "ff">>, Err),
       Chdir(<<"dd", "ff">>, Err), Chdir(<<"dd", "xx">>, Err),
       Unlink(<<"dd", "dd", "ffff">>, Is(0)), Unlink(<<"dd", "ff">>, Is(0)),
       Unlink(<<"dd">>, Err), Unlink(<<"dd", "dd">>, Ok), Unlink(<<"dd">>, Ok), Exit>>

-----------------------------------------------------------------------------

\* Writes of 3, 5 and 7 units, two of each: the longer ones are several transactions.
bigwrite ==
  <<Unlink(<<"bigwrite">>, Either)>>
  \o FlattenSeq([k \in 1..3 |->
       <<Open(<<"bigwrite">>, CRDWR, "fd", Ok), Write("fd", Letters("w", 2 * k + 1), Is(2 * k + 1)),
         Write("fd", Letters("w", 2 * k + 1), Is(2 * k + 1)), Close("fd"),
         Unlink(<<"bigwrite">>, Either)>>])
  \o <<Exit>>

\* Written six units at a time, read three at a time.
bigfile ==
  LET c == <<"0", "1">>
  IN  <<Unlink(<<"bigfile">>, Either), Open(<<"bigfile">>, CRDWR, "fd", Ok)>>
      \o [i \in 1..2 |-> Write("fd", Letters(c[i], 6), Is(6))]
      \o <<Close("fd"), Open(<<"bigfile">>, {}, "fd", Ok)>>
      \o FlattenSeq([i \in 1..4 |-> <<Read("fd", 3, Is(3)),
                                      Check(Range(c), Is(Letters(c[(i + 1) \div 2], 3)))>>])
      \o <<Read("fd", 3, Is(0)), Close("fd"), Unlink(<<"bigfile">>, Either), Exit>>

\* A name of 15 characters and its first 14 are the same name.
fourteen ==
  LET a == "12345678901234"
      b == "123456789012345"
  IN  <<Mkdir(<<a>>, Is(0)), Mkdir(<<a, b>>, Is(0))>> \o OpenClose(<<b, b, b>>, {"CREATE"}, Ok)
      \o OpenClose(<<a, a, a>>, {}, Ok) \o <<Mkdir(<<a, a>>, Err), Mkdir(<<b, a>>, Err), Exit>>

rmdot == <<Mkdir(<<"dots">>, Is(0)), Chdir(<<"dots">>, Is(0)), Unlink(<<".">>, Err),
           Unlink(<<"..">>, Err), Chdir(<<"/">>, Is(0)), Unlink(<<"dots", ".">>, Err),
           Unlink(<<"dots", "..">>, Err), Unlink(<<"dots">>, Is(0)), Exit>>

dirfile ==
  OpenClose(<<"dirfile">>, {"CREATE"}, Ok)
  \o <<Chdir(<<"dirfile">>, Err), Open(<<"dirfile", "xx">>, {}, "fd", Err),
       Open(<<"dirfile", "xx">>, {"CREATE"}, "fd", Err), Mkdir(<<"dirfile", "xx">>, Err),
       Unlink(<<"dirfile", "xx">>, Err), Link(<<"README">>, <<"dirfile", "xx">>, Err),
       Unlink(<<"dirfile">>, Is(0)), Open(<<".">>, RDWR, "fd", Err), Open(<<".">>, {}, "fd", Either),
       Write("fd", <<"x">>, {-1, 0}), Close("fd"), Exit>>

\* More rounds than the inode cache has slots: a reference that is not put would fill it.
iref == Times(NINODE + 1,
              <<Mkdir(<<"irefd">>, Is(0)), Chdir(<<"irefd">>, Is(0)), Mkdir(<<>>, Either),
                Link(<<"README">>, <<>>, Either), Open(<<>>, {"CREATE"}, "fd", Err)>>
              \o OpenClose(<<"xx">>, {"CREATE"}, Ok) \o <<Unlink(<<"xx">>, Either)>>)
        \o <<Chdir(<<"/">>, Either), Exit>>

\* fork() until it fails: here the process table is full first.
forktest == Times(NPROC - 2, <<Fork("exit", "pid", Ok)>>) \o <<Fork("exit", "pid", Err)>>
            \o Times(NPROC - 2, <<Wait(Ok)>>) \o <<Wait(Err), Exit>>

-----------------------------------------------------------------------------

ExecSize == 3 * PGSIZE   \* of a program: its page, the guard page and the stack
BIG == 9 * PGSIZE

\* Growing byte by byte, after fork(), to a big address, and shrinking again.
SbrkGrow ==
  LET e == ExecSize
  IN  <<[Sbrk(0, Is(e)) EXCEPT !.want = Ok] @@ [dst |-> "brk"]>>
      \o FlattenSeq([i \in 1..3 |-> <<Sbrk(1, Is(e + i - 1)), Store(e + i - 1, 1)>>])
      \o <<Fork("sbrktest_c", "pid", Ok), Sbrk(1, Is(e + 3)), Sbrk(1, Is(e + 4)), Wait(Either),
           Sbrk(BIG - e - 5, Is(e + 5)), Store(BIG - 1, 1), Sbrk(-PGSIZE, Is(BIG)),
           Sbrk(0, Is(BIG - PGSIZE)), Sbrk(PGSIZE, Is(BIG - PGSIZE)), Sbrk(0, Is(BIG)),
           Load(BIG - 1, Is(0)), SbrkTo("brk", Is(BIG))>>
sbrktest_c == <<Sbrk(1, Is(ExecSize + 3)), Sbrk(1, Is(ExecSize + 4)), Exit>>

\* Kernel memory cannot be read, and a sbrk() that fails leaves no page behind:
\* the second child does not get all its pages, and the parent still gets one.
sbrktest ==
  SbrkGrow
  \o <<Fork("readkernel", "pid", Ok), Wait(Either), Pipe(Is(0)),
       Fork("sbrktest_big", "pid", Ok), Read("p0", 1, Is(1)),
       Fork("sbrktest_big2", "pid1", Ok), Read("p0", 1, Is(1)), Sbrk(PGSIZE, Ok),
       Kill("pid"), Wait(Ok), Kill("pid1"), Wait(Ok), SbrkTo("brk", Ok), Exit>>
readkernel   == <<Load(KERNBASE, Either), Fail>>
sbrktest_big  == <<Sbrk(BIG - ExecSize, Ok), Write("p1", <<"x">>, Either), Spin>>
sbrktest_big2 == <<Sbrk(BIG - ExecSize, Err), Write("p1", <<"x">>, Either), Spin>>

\* Bad pointers to link(); the child's call has a bad stack pointer and returns.
validatetest == <<Fork("exit", "pid", Ok), Kill("pid"), Wait(Either),
                  Link(<<"nosuchfile">>, BadPtr, Err), Link(<<"nosuchfile">>, <<"x">>, Err), Exit>>

bsstest == [a \in 1..PGSIZE |-> Load(a - 1, Is(0))] \o <<Exit>>

bigargtest   == <<Unlink(<<"bigarg-ok">>, Either), Fork("bigargtest_c", "pid", Ok), Wait(Either)>>
                \o OpenClose(<<"bigarg-ok">>, {}, Ok) \o <<Unlink(<<"bigarg-ok">>, Either), Exit>>
bigargtest_c == <<Exec(<<"echo">>, PGSIZE + 1)>> \o OpenClose(<<"bigarg-ok">>, {"CREATE"}, Either) \o <<Exit>>

\* A port instruction in user mode traps, like a load from the kernel.
uio == <<Fork("readkernel", "pid", Ok), Wait(Either), Exit>>

\* A read of -1 bytes at the end of memory, which argptr() refuses.
argptest == <<Open(<<"init">>, {}, "fd", Ok), [Read("fd", -1, Err) EXCEPT !.n = -1] @@ [buf |-> -1], Close("fd"), Exit>>

\* main() of usertests: it runs once per disk image.
usertests == <<Open(<<"usertests.ran">>, {}, "fd", Err), Open(<<"usertests.ran">>, {"CREATE"}, "fd", Either),
               Close("fd"), Open(<<"usertests.ran">>, {}, "fd", Ok), Exit>>

=============================================================================
