--------------------------------- MODULE Files ---------------------------------
(***************************************************************************)
(* The table of open files (source/file.c), the descriptors of processes   *)
(* (sysfile.c), the pipes behind them (pipe.c), and fork(), exit() and     *)
(* wait() of proc.c, which share and close descriptors.  Any process may   *)
(* make any of these calls at any time; module Shell has programs that     *)
(* make them.  The sleep and wakeup of pipes is in module Pipe: here a     *)
(* call that sleeps is one that is not yet possible.                       *)
(***************************************************************************)
EXTENDS Naturals, Integers, Sequences, FiniteSets

CONSTANTS NPROC, NOFILE, NFILE, NPIPE, PIPESIZE,
          Disk         \* the files at boot

ASSUME FilesAssumption ==
    NPROC \in Nat \ {0} /\ NOFILE \in Nat /\ NFILE \in Nat /\ NPIPE \in Nat /\ PIPESIZE \in Nat

VARIABLES
    ftable,    \* struct file: what an entry stands for, without off
    off,       \* its off
    ofile,     \* process -> descriptor -> entry of ftable, and the entries that a failing call holds in locals
    pipes,     \* struct pipe
    disk,      \* the contents of the files by name
    ptable     \* process -> state, parent, and the end of a pipe that its fileclose() is about to close

files == <<ftable, off, ofile, pipes, disk>>
kernel == <<ftable, off, ofile, pipes, disk, ptable>>

Proc == 1..NPROC
Fd == 0..NOFILE - 1
File == 1..NFILE
PipeId == 1..NPIPE
None == 0          \* a NULL pointer
initproc == 1

NoInode == "none"
FreeFile == [ref |-> 0, type |-> "FD_NONE", pipe |-> None, ip |-> NoInode, readable |-> FALSE, writable |-> FALSE]
FreePipe == [readopen |-> FALSE, writeopen |-> FALSE, data |-> <<>>]

\* The local variables rf and wf of sys_pipe(), f0 and f1 of pipealloc() and f of sys_open(): what a call that
\* has failed still has to give to fileclose().
rf == NOFILE
wf == NOFILE + 1
Local == {rf, wf}
Slot == Fd \cup Local

NoFiles == [l \in Slot |-> None]
NoEnd == [pipe |-> None, writable |-> FALSE]
UnusedProc == [state |-> "UNUSED", parent |-> None, closing |-> NoEnd]

FilesInit ==
    /\ ftable = [f \in File |-> FreeFile]
    /\ off = [f \in File |-> 0]
    /\ ofile = [p \in Proc |-> NoFiles]
    /\ pipes = [x \in PipeId |-> FreePipe]
    /\ disk = Disk
    /\ ptable = [p \in Proc |-> IF p = initproc THEN [UnusedProc EXCEPT !.state = "RUN"] ELSE UnusedProc]

\* Process p is not in the middle of a fileclose(), nor of a call that gives back what it took.
Running(p) == ptable[p].state = "RUN" /\ ptable[p].closing = NoEnd /\ \A l \in Local : ofile[p][l] = None

\* What a loop that looks for a free entry finds.
IsFirst(x, S) == x \in S /\ \A y \in S : x <= y

-------------------------------------------------------------------------------
(* Descriptors                                                             *)

\* What filealloc() and fdalloc() choose from.
FreeFiles == {f \in File : ftable[f].ref = 0}
FreeFds(p) == {fd \in Fd : ofile[p][fd] = None}

\* argfd() of a descriptor that may be out of range.
argfd(p, fd) == IF fd \in Fd THEN ofile[p][fd] ELSE None

filedup(f) == [ftable EXCEPT ![f].ref = @ + 1]

\* fileclose(): the last reference frees the entry, with ftable.lock released before
\* pipeclose() is called.
Forgotten(f) == [ftable[f] EXCEPT !.ref = 0, !.type = "FD_NONE"]
fileclose(p, f) ==
    IF ftable[f].ref > 1 THEN ftable' = [ftable EXCEPT ![f].ref = @ - 1] /\ UNCHANGED ptable
    ELSE /\ ftable' = [ftable EXCEPT ![f] = Forgotten(f)]
         /\ ptable' = IF ftable[f].type # "FD_PIPE" THEN ptable
                      ELSE [ptable EXCEPT ![p].closing = [pipe |-> ftable[f].pipe, writable |-> ftable[f].writable]]

sys_close(p, fd) ==
    /\ Running(p)
    /\ IF argfd(p, fd) = None THEN UNCHANGED kernel
       ELSE /\ ofile' = [ofile EXCEPT ![p][fd] = None]
            /\ fileclose(p, ofile[p][fd])
            /\ UNCHANGED <<off, pipes, disk>>

\* The calls return r: a descriptor or -1.
sys_dup(p, fd, r) ==
    /\ Running(p)
    /\ IF argfd(p, fd) = None \/ FreeFds(p) = {} THEN r = -1 /\ UNCHANGED kernel
       ELSE /\ IsFirst(r, FreeFds(p))
            /\ ofile' = [ofile EXCEPT ![p][r] = ofile[p][fd]]
            /\ ftable' = filedup(ofile[p][fd])
            /\ UNCHANGED <<off, pipes, disk, ptable>>

\* What a call that failed holds is given back, rf first.
giveback(p) ==
    /\ ptable[p].state = "RUN" /\ ptable[p].closing = NoEnd
    /\ \E l \in Local :
          /\ IsFirst(l, {k \in Local : ofile[p][k] # None})
          /\ ofile' = [ofile EXCEPT ![p][l] = None]
          /\ fileclose(p, ofile[p][l])
    /\ UNCHANGED <<off, pipes, disk>>

\* filealloc() of f: the entry is taken, and has no type yet.
Taken(f) == [ftable[f] EXCEPT !.ref = 1]

\* The part of sys_open() after the inode is found or created: without a descriptor the
\* entry is still to be given back.
openfile(p, name, rd, wr, r) ==
    IF FreeFiles = {} THEN r = -1 /\ UNCHANGED <<ftable, off, ofile>>
    ELSE \E f \in FreeFiles :
            /\ IsFirst(f, FreeFiles)
            /\ IF FreeFds(p) = {}
               THEN /\ r = -1 /\ ftable' = [ftable EXCEPT ![f] = Taken(f)]
                    /\ ofile' = [ofile EXCEPT ![p][rf] = f] /\ UNCHANGED off
               ELSE /\ IsFirst(r, FreeFds(p))
                    /\ ofile' = [ofile EXCEPT ![p][r] = f]
                    /\ ftable' = [ftable EXCEPT ![f] = [ref |-> 1, type |-> "FD_INODE", pipe |-> ftable[f].pipe,
                                                        ip |-> name, readable |-> rd, writable |-> wr]]
                    /\ off' = [off EXCEPT ![f] = 0]

\* O_CREATE makes the file; it does not truncate it.
sys_open(p, name, create, rd, wr, r) ==
    /\ Running(p)
    /\ IF name \notin DOMAIN disk /\ ~create THEN r = -1 /\ UNCHANGED files
       ELSE /\ disk' = [n \in DOMAIN disk \cup {name} |-> IF n \in DOMAIN disk THEN disk[n] ELSE <<>>]
            /\ openfile(p, name, rd, wr, r)
            /\ UNCHANGED pipes
    /\ UNCHANGED ptable

-------------------------------------------------------------------------------
(* Pipes                                                                   *)

\* pipealloc(): two entries become the ends of pipe x.
End(x, w) == [ref |-> 1, type |-> "FD_PIPE", pipe |-> x, ip |-> NoInode, readable |-> ~w, writable |-> w]

\* ofile[fd0] = 0 for a descriptor fd0 >= 0 that was to be the read end.  (Mutant: it stays.)
LeaveFd(o, fd0) == o
ClearFd(o, fd0) == [l \in Slot |-> IF l = fd0 THEN None ELSE o[l]]

\* sys_pipe() once pipealloc() has made entries f and g the ends of pipe x: without two descriptors fd0 is
\* cleared if there is one, and both entries are still to be given back.
fdpair(p, f, g, r) ==
    IF Cardinality(FreeFds(p)) < 2
    THEN /\ r = <<-1, -1>>
         /\ \E fd0 \in Fd \cup {-1} :
               /\ IF FreeFds(p) = {} THEN fd0 = -1 ELSE IsFirst(fd0, FreeFds(p))
               /\ LET o == [l \in Slot |-> IF l = rf \/ l = fd0 THEN f ELSE IF l = wf THEN g ELSE ofile[p][l]]
                  IN  ofile' = [ofile EXCEPT ![p] = ClearFd(o, fd0)]
    ELSE /\ IsFirst(r[1], FreeFds(p)) /\ IsFirst(r[2], FreeFds(p) \ {r[1]})
         /\ ofile' = [ofile EXCEPT ![p] = [@ EXCEPT ![r[1]] = f, ![r[2]] = g]]

\* Without a second entry or memory for the pipe, pipealloc() has to give back the entries that it took.
sys_pipe(p, r) ==
    /\ Running(p)
    /\ LET free == {x \in PipeId : pipes[x] = FreePipe}
       IN  \/ FreeFiles = {} /\ r = <<-1, -1>> /\ UNCHANGED <<ftable, ofile, pipes>>
           \/ \E f \in FreeFiles :
                 /\ FreeFiles = {f} /\ r = <<-1, -1>>
                 /\ ftable' = [ftable EXCEPT ![f] = Taken(f)]
                 /\ ofile' = [ofile EXCEPT ![p][rf] = f]
                 /\ UNCHANGED pipes
           \/ \E f, g \in FreeFiles :
                 /\ IsFirst(f, FreeFiles) /\ IsFirst(g, FreeFiles \ {f})
                 /\ \/ /\ free = {} /\ r = <<-1, -1>>
                       /\ ftable' = [ftable EXCEPT ![f] = Taken(f), ![g] = Taken(g)]
                       /\ ofile' = [ofile EXCEPT ![p] = [@ EXCEPT ![rf] = f, ![wf] = g]]
                       /\ UNCHANGED pipes
                    \/ \E x \in free :
                          /\ IsFirst(x, free)
                          /\ ftable' = [ftable EXCEPT ![f] = End(x, FALSE), ![g] = End(x, TRUE)]
                          /\ pipes' = [pipes EXCEPT ![x] = [readopen |-> TRUE, writeopen |-> TRUE, data |-> <<>>]]
                          /\ fdpair(p, f, g, r)
    /\ UNCHANGED <<off, disk, ptable>>

\* pipeclose(): the pipe is freed with its second end.  (Mutant: with its first.)
EitherClosed(q) == ~q.readopen \/ ~q.writeopen
BothClosed(q) == ~q.readopen /\ ~q.writeopen
pipeclose(p) ==
    /\ ptable[p].state = "RUN" /\ ptable[p].closing # NoEnd
    /\ LET x == ptable[p].closing.pipe
           q == IF ptable[p].closing.writable THEN [pipes[x] EXCEPT !.writeopen = FALSE]
                ELSE [pipes[x] EXCEPT !.readopen = FALSE]
       IN  pipes' = [pipes EXCEPT ![x] = IF BothClosed(q) THEN FreePipe ELSE q]
    /\ ptable' = [ptable EXCEPT ![p].closing = NoEnd]
    /\ UNCHANGED <<ftable, off, ofile, disk>>

-------------------------------------------------------------------------------
(* Reading and writing                                                     *)

Upto(n, s) == SubSeq(s, 1, n)
From(n, s) == SubSeq(s, n + 1, Len(s))

\* fileread() of a large buffer, and what it reads.
ReadWaits(f) ==
    /\ ftable[f].type = "FD_PIPE" /\ ftable[f].readable
    /\ LET q == pipes[ftable[f].pipe] IN q.data = <<>> /\ q.writeopen
Contents(f) ==
    IF ftable[f].type = "FD_PIPE" THEN pipes[ftable[f].pipe].data ELSE From(off[f], disk[ftable[f].ip])
fileread(f) ==
    IF ftable[f].type = "FD_PIPE"
    THEN pipes' = [pipes EXCEPT ![ftable[f].pipe].data = <<>>] /\ UNCHANGED off
    ELSE off' = [off EXCEPT ![f] = Len(disk[ftable[f].ip])] /\ UNCHANGED pipes
sys_read(p, fd) ==
    /\ Running(p) /\ argfd(p, fd) # None
    /\ LET f == argfd(p, fd)
       IN  IF ~ftable[f].readable THEN UNCHANGED <<off, pipes>> ELSE ~ReadWaits(f) /\ fileread(f)
    /\ UNCHANGED <<ftable, ofile, disk, ptable>>

\* writei() at an offset that is at most the length: what is there is overwritten.  What is
\* written to the console follows what was written before.
writei(ip, s, o, data) ==
    IF ip = "console" THEN s \o data ELSE Upto(o, s) \o data \o From(o + Len(data), s)

\* filewrite(), as far as it comes before it sleeps for room: the first Written of the data.
Room(q) == PIPESIZE - Len(q.data)
WriteWaits(f) ==
    /\ ftable[f].type = "FD_PIPE" /\ ftable[f].writable
    /\ LET q == pipes[ftable[f].pipe] IN Room(q) = 0 /\ q.readopen
Written(f, data) ==
    LET room == Room(pipes[ftable[f].pipe])
    IN  IF ftable[f].type = "FD_PIPE" /\ ftable[f].writable /\ 0 < room /\ room < Len(data) THEN room ELSE Len(data)
filewrite(f, data) ==
    IF ftable[f].type = "FD_PIPE"
    THEN /\ pipes' = IF Room(pipes[ftable[f].pipe]) = 0 THEN pipes
                     ELSE [pipes EXCEPT ![ftable[f].pipe].data = @ \o Upto(Written(f, data), data)]
         /\ UNCHANGED <<off, disk>>
    ELSE /\ disk' = [disk EXCEPT ![ftable[f].ip] = writei(ftable[f].ip, @, off[f], data)]
         /\ off' = [off EXCEPT ![f] = @ + Len(data)]
         /\ UNCHANGED pipes
sys_write(p, fd, data) ==
    /\ Running(p) /\ argfd(p, fd) # None
    /\ LET f == argfd(p, fd)
       IN  IF ~ftable[f].writable THEN UNCHANGED <<off, pipes, disk>> ELSE ~WriteWaits(f) /\ filewrite(f, data)
    /\ UNCHANGED <<ftable, ofile, ptable>>

-------------------------------------------------------------------------------
(* Processes                                                               *)

\* fork(): the child c gets every descriptor.
sys_fork(p, c) ==
    /\ Running(p)
    /\ LET free == {q \in Proc : ptable[q].state = "UNUSED"}
       IN  IF free = {} THEN c = None /\ UNCHANGED kernel
           ELSE /\ IsFirst(c, free)
                /\ ofile' = [ofile EXCEPT ![c] = ofile[p]]
                /\ ftable' = [f \in File |->
                                [ftable[f] EXCEPT !.ref = @ + Cardinality({fd \in Fd : ofile[p][fd] = f})]]
                /\ ptable' = [ptable EXCEPT ![c] = [state |-> "RUN", parent |-> p, closing |-> NoEnd]]
                /\ UNCHANGED <<off, pipes, disk>>

\* exit(): the descriptors are closed one after the other; then children go to init.  A descriptor is
\* cleared after its fileclose() and not before as in close(), which only the process itself can see.
sys_exit(p) ==
    /\ Running(p) /\ p # initproc
    /\ LET fds == {fd \in Fd : ofile[p][fd] # None}
       IN  IF fds # {} THEN \E fd \in fds : IsFirst(fd, fds) /\ sys_close(p, fd)
           ELSE /\ ptable' = [q \in Proc |->
                                IF q = p THEN [ptable[q] EXCEPT !.state = "ZOMBIE"]
                                ELSE IF ptable[q].parent = p THEN [ptable[q] EXCEPT !.parent = initproc]
                                ELSE ptable[q]]
                /\ UNCHANGED files

\* wait(): a zombie child c is freed, or there is no child.
sys_wait(p, c) ==
    /\ Running(p)
    /\ LET kids == {q \in Proc : ptable[q].parent = p /\ ptable[q].state # "UNUSED"}
           dead == {q \in kids : ptable[q].state = "ZOMBIE"}
       IN  IF kids = {} THEN c = None /\ UNCHANGED ptable
           ELSE IsFirst(c, dead) /\ ptable' = [ptable EXCEPT ![c] = UnusedProc]
    /\ UNCHANGED files

-------------------------------------------------------------------------------

FilesNext ==
    \E p \in Proc :
        \/ \E fd \in Fd :
              \/ sys_close(p, fd) \/ sys_read(p, fd)
              \/ \E r \in Fd \cup {-1} : sys_dup(p, fd, r)
              \/ \E data \in Seq(STRING) : sys_write(p, fd, data)
        \/ \E name \in STRING, create, rd, wr \in BOOLEAN, r \in Fd \cup {-1} : sys_open(p, name, create, rd, wr, r)
        \/ \E r \in (Fd \cup {-1}) \X (Fd \cup {-1}) : sys_pipe(p, r)
        \/ \E c \in Proc \cup {None} : sys_fork(p, c) \/ sys_wait(p, c)
        \/ sys_exit(p) \/ pipeclose(p) \/ giveback(p)

FilesSpec == FilesInit /\ [][FilesNext]_kernel

-------------------------------------------------------------------------------
(* Properties                                                              *)

Users(f) == {u \in Proc \X Slot : ofile[u[1]][u[2]] = f}

\* The reference count of an open file is the number of descriptors that name it, in all processes, and of calls
\* that still have to give it back: through dup(), fork(), exit() and the failures of open() and pipe() half-way
\* (file.c:43, file.c:57).  An entry without a type is never seen through a descriptor, and a free one has none.
FileRefsExact ==
    \A f \in File : /\ ftable[f].ref = Cardinality(Users(f))
                    /\ ftable[f].ref = 0 => ftable[f].type = "FD_NONE"
                    /\ ftable[f].type = "FD_NONE" => \A p \in Proc, fd \in Fd : ofile[p][fd] # f

Ends(x, w) == {f \in File : /\ ftable[f].ref > 0 /\ ftable[f].type = "FD_PIPE"
                            /\ ftable[f].pipe = x /\ ftable[f].writable = w}
Closing(x, w) == {p \in Proc : ptable[p].closing = [pipe |-> x, writable |-> w]}
IsOpen(x, w) == IF w THEN pipes[x].writeopen ELSE pipes[x].readopen

\* An end of a pipe is open exactly as long as one entry of the file table stands for it, or one fileclose() that
\* has freed the entry has still to call pipeclose() (file.c:75-78): no end is closed twice or
\* never, and a pipe is not freed while somebody can use it.
PipeEndsExact ==
    \A x \in PipeId, w \in BOOLEAN :
        Cardinality(Ends(x, w)) + Cardinality(Closing(x, w)) = IF IsOpen(x, w) THEN 1 ELSE 0
===============================================================================
