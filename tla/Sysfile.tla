-------------------------------- MODULE Sysfile --------------------------------
(***************************************************************************)
(* The system calls on files and directories (source/sysfile.c, file.c,    *)
(* exec.c, exit() and fork() of proc.c) made by concurrent processes.      *)
(*                                                                         *)
(* A call is a list of steps that its process takes one at a time, with    *)
(* steps of other processes in between: it waits for the transaction, for  *)
(* a locked inode, and between any two elements of a path that it walks    *)
(* outside a transaction.  A step that locks an inode and releases it      *)
(* again is atomic; the locks kept from one step to the next are flags in  *)
(* the cache.                                                              *)
(***************************************************************************)
EXTENDS Mkfs, Integers

CONSTANTS NPROC,
          Image,     \* the names of the files on the disk, in order
          Calls,     \* calls with paths that are made: <<name, path, argument>>
          MaxCalls,  \* calls in all
          Data       \* what is written

Proc == 1..NPROC
initproc == 1

VARIABLES
    s,         \* the disk and the inode cache
    pr,        \* process -> current directory, open file, and the call it is in
    orphaned,  \* history: a directory was freed that still had entries
    calls      \* calls made, up to MaxCalls

vars == <<s, pr, orphaned, calls>>

Closed == [ip |-> 0, off |-> 0, writable |-> FALSE]

Op(o) == [op |-> o]
Put(ip) == [op |-> "iput", ip |-> ip]
PutInTrans(ip) == [op |-> "putin", ip |-> ip]
Walk(names, parent) ==
    IF names = <<>> /\ ~parent THEN <<>> ELSE <<[op |-> "walk", names |-> names, parent |-> parent]>>

\* Process p takes a step to file system state t, and is then as r says.  A call
\* that is over keeps no inode.
Step(p, t, r) ==
    /\ t.panic # "wait"
    /\ s' = t
    /\ pr' = [pr EXCEPT ![p] = IF r.todo = <<>> THEN [r EXCEPT !.ip = 0, !.name = ""] ELSE r]

At(p, o) == s.panic = "" /\ pr[p].todo # <<>> /\ Head(pr[p].todo).op = o
First(p) == Head(pr[p].todo)
Rest(p) == Tail(pr[p].todo)
Then(p, t, todo) == Step(p, t, [pr[p] EXCEPT !.todo = todo])
Idle(p) == s.panic = "" /\ pr[p].todo = <<>> /\ pr[p].cwd # 0

\* A new call of p that starts with the steps todo, or with a walk along a path.
Call(p, todo) == Idle(p) /\ Then(p, s, todo)
CallAt(p, path, parent, todo) ==
    LET g == start(s, pr[p].cwd, path)
    IN  Idle(p) /\ Step(p, g.s, [pr[p] EXCEPT !.ip = g.ip, !.todo = Walk(Names(path), parent) \o todo])

\* The call fails and drops the inode that it has.
Drop(p, t) == Step(p, t, [pr[p] EXCEPT !.ip = 0, !.todo = <<Put(pr[p].ip)>>])

-------------------------------------------------------------------------------
(* Steps                                                                   *)

begin_trans(p) == At(p, "begin") /\ ~s.busy /\ Then(p, [s EXCEPT !.busy = TRUE], Rest(p))

commit_trans(p) == At(p, "commit") /\ Then(p, [s EXCEPT !.busy = FALSE, !.lh = {}], Rest(p))

\* namex() outside a transaction, one element of the path.
walk(p) ==
    /\ At(p, "walk")
    /\ LET o == First(p)
           ip == pr[p].ip
           e == element(s, ip, o.names, o.parent)
       IN  IF o.names = <<>> THEN Drop(p, s)
           ELSE IF e.ip = 0 THEN Drop(p, e.s)
           ELSE IF o.parent /\ Len(o.names) = 1
           THEN Step(p, e.s, [pr[p] EXCEPT !.name = o.names[1], !.todo = Rest(p)])
           ELSE Step(p, e.s, [pr[p] EXCEPT !.ip = e.ip,
                                           !.todo = <<Put(ip)>> \o Walk(Tail(o.names), o.parent) \o Rest(p)])

\* iput() outside a transaction.  The inode it frees is marked busy and icache.lock
\* released until it is done; each block that itrunc() frees and each iupdate() is a
\* log_write() into whatever transaction is open.  (Mutant: it is not marked.)
NotBusy(t, ip) == t
MarkBusy(t, ip) == [t EXCEPT !.ic[ip].busy = TRUE]

put(p) ==
    /\ At(p, "iput")
    /\ LET ip == First(p).ip
           step(o) == [op |-> o, ip |-> ip]
           frees == [k \in DOMAIN blocks(s, ip) |-> [op |-> "bfree", ip |-> ip, a |-> blocks(s, ip)[k]]]
       IN  IF ~Unused(s, ip) THEN Then(p, [s EXCEPT !.ic[ip].ref = @ - 1], Rest(p))
           ELSE IF s.ic[ip].busy THEN Then(p, Halt(s, "iput busy"), Rest(p))
           ELSE Then(p, MarkBusy(s, ip),
                     frees \o <<step("itrunc"), step("ifree"), step("irelease")>> \o Rest(p))

put_bfree(p) == At(p, "bfree") /\ Then(p, bfree(s, First(p).a), Rest(p))
put_itrunc(p) == At(p, "itrunc") /\ Then(p, iempty(s, First(p).ip), Rest(p))
put_ifree(p) == At(p, "ifree") /\ Then(p, ifree(s, First(p).ip), Rest(p))
put_release(p) == At(p, "irelease") /\ Then(p, irelease(s, First(p).ip), Rest(p))

\* The inodes in the middle of such an itrunc().
Truncating ==
    {s.ic[First(p).ip].inum : p \in {q \in Proc : pr[q].todo # <<>> /\ First(q).op \in {"bfree", "itrunc"}}}

\* iput() inside a transaction, of a file that is closed.
put_in_trans(p) == At(p, "putin") /\ Then(p, iput(s, First(p).ip), Rest(p))

-------------------------------------------------------------------------------
(* create()                                                                *)

\* Up to the choice between an inode that exists and a new one, which ialloc()
\* has marked on the disk; the directory stays locked for the new one.
create(p) ==
    /\ At(p, "create")
    /\ LET o == First(p)
           d == nameiparent(s, pr[p].cwd, o.path)
           name == Names(o.path)[Len(Names(o.path))]
           l == dirlookup(d.s, d.ip, name)
           a == ialloc(l.s, o.type)
           next(op, t, ip) == Step(p, t, [pr[p] EXCEPT !.ip = ip, !.todo = <<op>> \o Rest(p)])
       IN  IF d.ip = 0 THEN Then(p, d.s, Rest(p))
           ELSE IF l.ip # 0 THEN next([op |-> "existing", type |-> o.type], iput(l.s, d.ip), l.ip)
           ELSE next([op |-> "new", type |-> o.type, ip |-> d.ip, name |-> name],
                     [a.s EXCEPT !.ic[d.ip].busy = TRUE], a.ip)

create_existing(p) ==
    /\ At(p, "existing")
    /\ LET ip == pr[p].ip
           t == ilock(s, ip)
       IN  IF First(p).type = "T_FILE" /\ t.ic[ip].d.type = "T_FILE"
           THEN Then(p, [t EXCEPT !.ic[ip].busy = TRUE], Rest(p))
           ELSE Step(p, iput(t, ip), [pr[p] EXCEPT !.ip = 0, !.todo = Rest(p)])

\* The new inode and its entries.
CountDotDot(t, dp) == iupdate([t EXCEPT !.ic[dp].d.nlink = @ + 1], dp)

dots(t, ip, dp) ==
    LET one == dirlink(CountDotDot(t, dp), ip, ".", t.ic[ip].inum)
        two == dirlink(one.s, ip, "..", t.ic[dp].inum)
    IN  IF one.ok /\ two.ok THEN two.s ELSE Halt(two.s, "create dots")

create_new(p) ==
    /\ At(p, "new")
    /\ LET o == First(p)
           ip == pr[p].ip
           t == ilock(s, ip)
           u == iupdate([t EXCEPT !.ic[ip].d.nlink = 1], ip)
           v == IF o.type = "T_DIR" THEN dots(u, ip, o.ip) ELSE u
           w == dirlink(v, o.ip, o.name, s.ic[ip].inum)
           x == IF w.ok THEN w.s ELSE Halt(w.s, "create: dirlink")
       IN  IF t.panic # "" THEN Then(p, t, Rest(p))
           ELSE Then(p, iput([x EXCEPT !.ic[o.ip].busy = FALSE, !.ic[ip].busy = TRUE], o.ip), Rest(p))

\* sys_mkdir() and sys_mknod() do not keep the inode.
put_new(p) ==
    /\ At(p, "putnew")
    /\ LET ip == pr[p].ip
       IN  Step(p, IF ip = 0 THEN s ELSE iput([s EXCEPT !.ic[ip].busy = FALSE], ip),
                [pr[p] EXCEPT !.ip = 0, !.todo = Rest(p)])

sys_mkdir(p, path, type) ==
    Call(p, <<Op("begin"), [op |-> "create", path |-> path, type |-> type], Op("putnew"), Op("commit")>>)

-------------------------------------------------------------------------------
(* open(), read(), write(), close()                                        *)

\* omode is O_RDONLY, O_RDWR, or O_CREATE with O_RDWR.
sys_open(p, path, omode) ==
    IF omode = "O_CREATE"
    THEN Call(p, <<Op("begin"), [op |-> "create", path |-> path, type |-> "T_FILE"], Op("commit"),
                   [op |-> "opened", omode |-> omode]>>)
    ELSE CallAt(p, path, FALSE, <<[op |-> "ilock", omode |-> omode], [op |-> "opened", omode |-> omode]>>)

open_ilock(p) ==
    /\ At(p, "ilock")
    /\ LET ip == pr[p].ip
           t == ilock(s, ip)
       IN  IF t.panic = "" /\ IsDir(t, ip) /\ First(p).omode # "O_RDONLY" THEN Drop(p, t)
           ELSE Then(p, [t EXCEPT !.ic[ip].busy = TRUE], Rest(p))

\* filealloc(), fdalloc(): a process has one descriptor here.
open_file(p) ==
    /\ At(p, "opened")
    /\ LET ip == pr[p].ip
           t == [s EXCEPT !.ic[ip].busy = FALSE]
       IN  IF ip = 0 THEN Then(p, s, <<>>)
           ELSE IF pr[p].file # Closed THEN Drop(p, t)
           ELSE Step(p, t, [pr[p] EXCEPT !.todo = <<>>,
                            !.file = [ip |-> ip, off |-> 0, writable |-> First(p).omode # "O_RDONLY"]])

Opened(p) == Idle(p) /\ pr[p].file # Closed

\* fileread() of one unit.
sys_read(p) ==
    /\ Opened(p)
    /\ LET f == pr[p].file
           t == ilock(s, f.ip)
       IN  IF f.off < t.ic[f.ip].d.size
           THEN Step(p, readi(t, f.ip, f.off).s, [pr[p] EXCEPT !.file.off = @ + 1])
           ELSE Step(p, t, pr[p])

\* filewrite(): a transaction for each chunk, until one fails.
MaxChunk == ((LOGSIZE - 1 - 1 - 2) \div 2) * BSIZE

sys_write(p, us) ==
    Opened(p) /\ pr[p].file.writable
              /\ Call(p, <<Op("begin"), [op |-> "write", us |-> us], Op("commit")>>)

write_chunk(p) ==
    /\ At(p, "write")
    /\ LET us == First(p).us
           f == pr[p].file
           n == Min({Len(us), MaxChunk})
           more == SubSeq(us, n + 1, Len(us))
           w == writei(ilock(s, f.ip), f.ip, f.off, SubSeq(us, 1, n))
           again == <<Op("commit"), Op("begin"), [op |-> "write", us |-> more]>>
       IN  Step(p, w.s, [pr[p] EXCEPT !.file.off = IF w.ok THEN @ + n ELSE @,
                                      !.todo = (IF w.ok /\ more # <<>> THEN again ELSE <<>>) \o Rest(p)])

\* fileclose() of the last reference.
Close(ip) == IF ip = 0 THEN <<>> ELSE <<Op("begin"), PutInTrans(ip), Op("commit")>>

sys_close(p) ==
    Opened(p) /\ Step(p, s, [pr[p] EXCEPT !.file = Closed, !.todo = Close(pr[p].file.ip)])

-------------------------------------------------------------------------------
(* link(), unlink(), chdir(), exec()                                       *)

sys_link(p, old, new) ==
    CallAt(p, old, FALSE, <<Op("begin"), [op |-> "link", new |-> new], Op("commit")>>)

\* What a failed link() undoes.  (Mutant: nothing.)
KeepLink(t, ip) == t
DropLink(t, ip) == iupdate([t EXCEPT !.ic[ip].d.nlink = @ - 1], ip)

link(t0, ip, cwd, new) ==
    LET t == ilock(t0, ip)
        u == iupdate([t EXCEPT !.ic[ip].d.nlink = @ + 1], ip)
        d == nameiparent(u, cwd, new)
        k == dirlink(d.s, d.ip, Names(new)[Len(Names(new))], u.ic[ip].inum)
        bad(v) == iput(DropLink(ilock(v, ip), ip), ip)
    IN  IF t.panic # "" THEN t
        ELSE IF IsDir(t, ip) THEN iput(t, ip)
        ELSE IF d.ip = 0 THEN bad(d.s)
        ELSE IF ~k.ok THEN bad(iput(k.s, d.ip))
        ELSE iput(iput(k.s, d.ip), ip)

link_body(p) ==
    At(p, "link") /\ Step(p, link(s, pr[p].ip, pr[p].cwd, First(p).new),
                          [pr[p] EXCEPT !.ip = 0, !.todo = Rest(p)])

sys_unlink(p, path) == CallAt(p, path, TRUE, <<Op("begin"), Op("unlink"), Op("commit")>>)

isdirempty(t, ip) == \A off \in 2..t.ic[ip].d.size - 1 : readi(t, ip, off).u[1] = 0

unlink(t0, dp, name) ==
    LET t == ilock(t0, dp)
        l == dirlookup(t, dp, name)
        ip == l.ip
        u == ilock(l.s, ip)
        w == writei(u, dp, l.off, <<Zero>>).s
        x == IF IsDir(u, ip) THEN iupdate([w EXCEPT !.ic[dp].d.nlink = @ - 1], dp) ELSE w
        y == iput(x, dp)
        z == iupdate([y EXCEPT !.ic[ip].d.nlink = @ - 1], ip)
    IN  IF t.panic # "" THEN t
        ELSE IF name \in {".", ".."} THEN iput(t, dp)
        ELSE IF ip = 0 THEN iput(l.s, dp)
        ELSE IF u.panic # "" THEN u
        ELSE IF u.ic[ip].d.nlink < 1 THEN Halt(u, "unlink: nlink < 1")
        ELSE IF IsDir(u, ip) /\ ~isdirempty(u, ip) THEN iput(iput(u, ip), dp)
        ELSE iput(z, ip)

unlink_body(p) ==
    At(p, "unlink") /\ Step(p, unlink(s, pr[p].ip, pr[p].name), [pr[p] EXCEPT !.ip = 0, !.todo = Rest(p)])

sys_chdir(p, path) == CallAt(p, path, FALSE, <<Op("chdir")>>)

chdir(p) ==
    /\ At(p, "chdir")
    /\ LET ip == pr[p].ip
           t == ilock(s, ip)
       IN  IF t.panic = "" /\ ~IsDir(t, ip) THEN Drop(p, t)
           ELSE Step(p, t, [pr[p] EXCEPT !.cwd = ip, !.ip = 0, !.todo = <<Put(pr[p].cwd)>>])

\* exec() reads the file and drops it; what it reads is left out here.
sys_exec(p, path) == CallAt(p, path, FALSE, <<Op("exec")>>)

exec(p) == At(p, "exec") /\ Drop(p, ilock(s, pr[p].ip))

\* exit() closes the file, then drops the current directory; fork() duplicates it.
\* (A process that forks has no file open; Files has what is shared.)
exit(p) ==
    /\ Idle(p) /\ p # initproc
    /\ Step(p, s, [pr[p] EXCEPT !.file = Closed, !.cwd = 0,
                                !.todo = Close(pr[p].file.ip) \o <<Put(pr[p].cwd)>>])

fork(p, q) ==
    /\ Idle(p) /\ pr[p].file = Closed /\ pr[q].cwd = 0 /\ pr[q].todo = <<>>
    /\ Step(q, idup(s, pr[p].cwd), [pr[q] EXCEPT !.cwd = pr[p].cwd])

-------------------------------------------------------------------------------

\* The disk as mkfs made it; every process is in the root directory.
Init ==
    LET m == mkfs(Image)
        root == [inum |-> ROOTINO, ref |-> NPROC, busy |-> FALSE, valid |-> FALSE, d |-> FreeInode]
    IN  /\ s = [inode |-> m.inode, data |-> m.data, bitmap |-> balloc_mk(m), busy |-> FALSE, lh |-> {}, panic |-> "",
                ic |-> [c \in Slot |-> IF c = 1 THEN root ELSE [root EXCEPT !.inum = 0, !.ref = 0]]]
        /\ pr = [p \in Proc |-> [cwd |-> 1, file |-> Closed, todo |-> <<>>, ip |-> 0, name |-> ""]]
        /\ orphaned = FALSE /\ calls = 0

\* The next step of the call that p is in.
Proceed(p) ==
    \/ begin_trans(p) \/ commit_trans(p) \/ walk(p)
    \/ put(p) \/ put_bfree(p) \/ put_itrunc(p) \/ put_ifree(p) \/ put_release(p) \/ put_in_trans(p)
    \/ create(p) \/ create_existing(p) \/ create_new(p) \/ put_new(p)
    \/ open_ilock(p) \/ open_file(p) \/ write_chunk(p)
    \/ link_body(p) \/ unlink_body(p) \/ chdir(p) \/ exec(p)

Syscall(p) ==
    \/ \E c \in Calls :
          \/ c[1] = "open" /\ sys_open(p, c[2], c[3])
          \/ c[1] = "mkdir" /\ sys_mkdir(p, c[2], c[3])
          \/ c[1] = "link" /\ sys_link(p, c[2], c[3])
          \/ c[1] = "unlink" /\ sys_unlink(p, c[2])
          \/ c[1] = "chdir" /\ sys_chdir(p, c[2])
          \/ c[1] = "exec" /\ sys_exec(p, c[2])
    \/ sys_read(p) \/ sys_close(p) \/ \E us \in Data : sys_write(p, us)
    \/ exit(p) \/ \E q \in Proc : fork(p, q)

\* The content of inode i on the disk.
Unit(t, i, off) ==
    LET a == t.inode[i].addrs
        bn == off \div BSIZE
        b == IF bn < NDIRECT THEN a[bn] ELSE IF a[NDIRECT] = 0 THEN 0 ELSE t.data[a[NDIRECT]][bn - NDIRECT][1]
    IN  IF b = 0 THEN Zero ELSE t.data[b][off % BSIZE]
Dirs(t) == {i \in Inum : t.inode[i].type = "T_DIR"}
Entries(t, i) == {e \in {i} \X (0..t.inode[i].size - 1) : Unit(t, i, e[2])[1] # 0}
Named(t, i) == {e \in Entries(t, i) : Unit(t, i, e[2])[2] \notin {".", ".."}}

Halted ==
    /\ \/ s.panic # ""
       \/ calls = MaxCalls /\ \A p \in Proc : pr[p].todo = <<>>
    /\ UNCHANGED vars

Next ==
    \/ /\ \E p \in Proc :
             \/ Proceed(p) /\ UNCHANGED calls
             \/ calls < MaxCalls /\ Syscall(p) /\ calls' = calls + 1
       /\ orphaned' = (orphaned \/ \E i \in Dirs(s) \ Truncating :
                                      /\ Named(s, i) # {}
                                      /\ s'.inode[i].size = 0 \/ i \in Truncating')
    \/ Halted

Spec == Init /\ [][Next]_vars

-------------------------------------------------------------------------------
(* Properties.  They are about the time before a panic.                    *)

Fine == s.panic = ""


\* Whenever no transaction is open, no name leads to a free inode or to one that is
\* being truncated (whose own content does not count any more), and a directory
\* that has a name has one only, from the directory that its ".." leads to.
TreeWellFormed ==
    Fine /\ ~s.busy =>
        \A i \in Dirs(s) \ Truncating : \A e \in Named(s, i) :
            LET j == Unit(s, i, e[2])[1]
            IN  /\ s.inode[j].type # "0"
                /\ j \notin Truncating
                /\ j \in Dirs(s) => /\ Unit(s, j, 0) = <<j, ".">> /\ Unit(s, j, 1) = <<i, "..">>
                                    /\ \A f \in Named(s, i) : Unit(s, i, f[2])[1] = j => f = e

\* Whenever no transaction is open, the link count of an inode is the number of
\* names it has; a directory is also named by the ".." of those named in it.  The
\* exception: a file created in a directory that was removed and is then freed.
\* In any case the names form a tree.
LinksExact ==
    LET to(e) == Unit(s, e[1], e[2])[1]
        names == UNION {Named(s, i) : i \in Dirs(s) \ Truncating}
        dotdots == {e \in UNION {Entries(s, i) : i \in {to(e) : e \in names} \cap Dirs(s)} :
                       Unit(s, e[1], e[2])[2] = ".."}
        links(i) == {e \in names \cup dotdots : to(e) = i}
    IN  /\ TreeWellFormed
        /\ Fine /\ ~s.busy /\ ~orphaned =>
              \A i \in Inum : s.inode[i].type # "0" =>
                  s.inode[i].nlink = Cardinality(links(i)) + (IF i = ROOTINO THEN 1 ELSE 0)

\* The reference count of a cached inode is the number of pointers to it: current
\* directories, open files, and calls on their way.
RefsExact ==
    LET last == {"iput", "putin", "irelease", "new"}
        of(p) == {<<p, -3, pr[p].cwd>>, <<p, -2, pr[p].file.ip>>, <<p, -1, pr[p].ip>>}
                 \cup {<<p, k, pr[p].todo[k].ip>> : k \in {k \in DOMAIN pr[p].todo : pr[p].todo[k].op \in last}}
        pointers == UNION {of(p) : p \in Proc}
    IN  Fine => \A c \in Slot : s.ic[c].ref = Cardinality({x \in pointers : x[3] = c})

\* An inode is cached once, and what is cached and not locked is what the disk has:
\* the entry of an inode that is being freed is not taken for what ialloc() makes
\* of it meanwhile.
CacheCoherent ==
    Fine => \A c \in Slot : s.ic[c].ref > 0 =>
                /\ \A e \in Slot \ {c} : s.ic[e].ref > 0 => s.ic[e].inum # s.ic[c].inum
                /\ s.ic[c].valid /\ ~s.ic[c].busy => s.ic[c].d = s.inode[s.ic[c].inum]

\* An inode is not freed while it is open or somebody's current directory, whether
\* it still has a name or not.
HeldNotFreed ==
    Fine => \A p \in Proc :
                /\ pr[p].cwd # 0 => s.ic[pr[p].cwd].inum \in Dirs(s)
                /\ pr[p].file # Closed => s.inode[s.ic[pr[p].file.ip].inum].type # "0"


\* log_write() is only called inside a transaction.
NoWriteOutsideTrans == s.panic # "write outside of trans"
===============================================================================
