----------------------------------- MODULE Fs -----------------------------------
(***************************************************************************)
(* The file system below the system calls (source/fs.c): the blocks of the *)
(* disk, inodes and their cache, the content of inodes, directories.       *)
(*                                                                         *)
(* The operators go from one state s of disk and inode cache to the next:  *)
(* s.inode is the inodes on disk, s.bitmap the blocks in use, s.data their *)
(* content, s.ic the cache, s.busy whether a transaction is open (log.c),  *)
(* s.lh the blocks that it has logged, s.panic what the kernel halted on.  *)
(* The logged blocks of a transaction are read back from the buffer cache, *)
(* so that s is what calls see.                                            *)
(*                                                                         *)
(* The unit of content is a directory entry, <<inum, name>>; a piece of a  *)
(* file and a pointer in an indirect block take one unit each.             *)
(***************************************************************************)
EXTENDS Naturals, Sequences, FiniteSets, FiniteSetsExt

CONSTANTS NBLOCKS,             \* data blocks
          NINODES,             \* inodes on disk
          NINODE,              \* entries of the inode cache
          BSIZE,               \* units of a block
          NDIRECT, NINDIRECT,  \* blocks of a file
          IPB,                 \* inodes of a block
          LOGSIZE, nlog        \* sectors of the log's header, blocks of the log

ROOTINO == 1
Block == 1..NBLOCKS
Inum == 1..NINODES
Slot == 1..NINODE    \* a pointer to an inode of the cache; 0 is NULL
MAXFILE == NDIRECT + NINDIRECT

ASSUME FsAssumption ==
    /\ {NBLOCKS, NINODES, NINODE, BSIZE, NDIRECT, IPB, LOGSIZE, nlog} \subseteq Nat \ {0}
    /\ NINDIRECT \in 0..BSIZE

Zero == <<0, "">>
ZeroBlock == [u \in 0..BSIZE - 1 |-> Zero]
FreeInode == [type |-> "0", nlink |-> 0, size |-> 0, addrs |-> [i \in 0..NDIRECT |-> 0]]

\* The machine halts at the first panic; "wait" is a call that waits for a lock.
Halt(s, why) == IF s.panic = "" THEN [s EXCEPT !.panic = why] ELSE s

\* The blocks of the disk: the bitmap (of one block), inodes, data.
BBLOCK == <<"bitmap", 0>>
IBLOCK(inum) == <<"inodes", inum \div IPB>>
DataBlock(a) == <<"data", a>>

\* log_write() refuses a write when the log is full, even of a block that is in it
\* already, and while no transaction is open.
log_write(s, b) ==
    IF Cardinality(s.lh) >= LOGSIZE \/ Cardinality(s.lh) >= nlog - 1
    THEN Halt(s, "too big a transaction")
    ELSE IF ~s.busy THEN Halt(s, "write outside of trans")
    ELSE [s EXCEPT !.lh = @ \cup {b}]

-------------------------------------------------------------------------------
(* Blocks                                                                  *)

\* A free block, all zeros.
bzero(s, a) == log_write([s EXCEPT !.data[a] = ZeroBlock], DataBlock(a))

balloc(s) ==
    LET free == Block \ s.bitmap
    IN  IF free = {} THEN [s |-> Halt(s, "balloc: out of blocks"), a |-> 0]
        ELSE [s |-> bzero(log_write([s EXCEPT !.bitmap = @ \cup {Min(free)}], BBLOCK), Min(free)),
              a |-> Min(free)]

bfree(s, a) ==
    IF a \notin s.bitmap THEN Halt(s, "freeing free block")
    ELSE log_write([s EXCEPT !.bitmap = @ \ {a}], BBLOCK)

-------------------------------------------------------------------------------
(* Inodes                                                                  *)

\* iget(): the entry of the inode, or a free one.
Cached(s, inum) == {c \in Slot : s.ic[c].ref > 0 /\ s.ic[c].inum = inum}

iget(s, inum) ==
    LET hit == Cached(s, inum)
        empty == {c \in Slot : s.ic[c].ref = 0}
    IN  IF hit # {} THEN [s |-> [s EXCEPT !.ic[Min(hit)].ref = @ + 1], ip |-> Min(hit)]
        ELSE IF empty = {} THEN [s |-> Halt(s, "iget: no inodes"), ip |-> 0]
        ELSE [s |-> [s EXCEPT !.ic[Min(empty)] = [inum |-> inum, ref |-> 1, busy |-> FALSE,
                                                  valid |-> FALSE, d |-> FreeInode]],
              ip |-> Min(empty)]

\* (Mutant: not counted.)
Uncounted(s, ip) == s
idup(s, ip) == [s EXCEPT !.ic[ip].ref = @ + 1]

ialloc(s, type) ==
    LET free == {i \in Inum : s.inode[i].type = "0"}
        t == log_write([s EXCEPT !.inode[Min(free)] = [FreeInode EXCEPT !.type = type]],
                       IBLOCK(Min(free)))
    IN  IF free = {} THEN [s |-> Halt(s, "ialloc: no inodes"), ip |-> 0] ELSE iget(t, Min(free))

iupdate(s, ip) ==
    log_write([s EXCEPT !.inode[s.ic[ip].inum] = s.ic[ip].d], IBLOCK(s.ic[ip].inum))

\* ilock(): read from the disk when it is not in memory.  Where a step also
\* releases the lock, the flag I_BUSY is left as it is.
ilock(s, ip) ==
    LET d == s.inode[s.ic[ip].inum]
    IN  IF s.ic[ip].busy THEN Halt(s, "wait")
        ELSE IF s.ic[ip].valid THEN s
        ELSE IF d.type = "0" THEN Halt(s, "ilock: no type")
        ELSE [s EXCEPT !.ic[ip].valid = TRUE, !.ic[ip].d = d]

\* The last pointer to an inode without links.  (Mutant: other
\* pointers do not matter.)
LastLink(s, ip) == s.ic[ip].valid /\ s.ic[ip].d.nlink = 0
Unused(s, ip) == s.ic[ip].ref = 1 /\ s.ic[ip].valid /\ s.ic[ip].d.nlink = 0

Indirect(s, a) == IF a = 0 THEN <<>> ELSE [j \in 1..NINDIRECT |-> s.data[a][j - 1][1]] \o <<a>>

blocks(s, ip) ==
    LET a == s.ic[ip].d.addrs
    IN  SelectSeq([i \in 1..NDIRECT |-> a[i - 1]] \o Indirect(s, a[NDIRECT]), LAMBDA b : b # 0)

RECURSIVE bfreeall(_, _)
bfreeall(s, A) == IF A = <<>> THEN s ELSE bfreeall(bfree(s, Head(A)), Tail(A))

iempty(s, ip) ==
    iupdate([s EXCEPT !.ic[ip].d.size = 0, !.ic[ip].d.addrs = FreeInode.addrs], ip)

itrunc(s, ip) == iempty(bfreeall(s, blocks(s, ip)), ip)

\* iput() of an unused inode marks it busy, empties it, frees it and forgets it.
ifree(s, ip) == iupdate([s EXCEPT !.ic[ip].d.type = "0"], ip)
irelease(s, ip) == [s EXCEPT !.ic[ip].ref = @ - 1, !.ic[ip].valid = FALSE, !.ic[ip].busy = FALSE]

\* iput() inside a transaction.
iput(s, ip) ==
    IF ~Unused(s, ip) THEN [s EXCEPT !.ic[ip].ref = @ - 1]
    ELSE IF s.ic[ip].busy THEN Halt(s, "iput busy")
    ELSE irelease(ifree(itrunc(s, ip), ip), ip)

-------------------------------------------------------------------------------
(* Content                                                                 *)

\* bmap(): the block of a file, allocated when it is missing, also for a reader.
Need(s, a) == IF a # 0 THEN [s |-> s, a |-> a] ELSE balloc(s)
SetAddr(b, ip, i) == [s |-> [b.s EXCEPT !.ic[ip].d.addrs[i] = b.a], a |-> b.a]
SetEntry(b, top, j) ==
    [s |-> log_write([b.s EXCEPT !.data[top][j] = <<b.a, "">>], DataBlock(top)), a |-> b.a]
InIndirect(b, j) ==
    IF b.a = 0 THEN b
    ELSE IF b.s.data[b.a][j] # Zero THEN [s |-> b.s, a |-> b.s.data[b.a][j][1]]
    ELSE SetEntry(balloc(b.s), b.a, j)

bmap(s, ip, bn) ==
    LET addr(i) == SetAddr(Need(s, s.ic[ip].d.addrs[i]), ip, i)
    IN  IF bn < NDIRECT THEN addr(bn) ELSE InIndirect(addr(NDIRECT), bn - NDIRECT)

\* readi() of one unit below the size.
GetUnit(b, off) == [s |-> b.s, u |-> IF b.a = 0 THEN Zero ELSE b.s.data[b.a][off % BSIZE]]
readi(s, ip, off) == GetUnit(bmap(s, ip, off \div BSIZE), off)

\* writei(): unit after unit, with a log_write() for each block; then the size when
\* it has grown.
Logged(s, a, last) == IF last THEN log_write(s, DataBlock(a)) ELSE s
PutUnit(b, off, u, last) ==
    IF b.a = 0 THEN b.s ELSE Logged([b.s EXCEPT !.data[b.a][off % BSIZE] = u], b.a, last)

RECURSIVE copyin(_, _, _, _)
copyin(s, ip, off, us) ==
    IF us = <<>> \/ s.panic # "" THEN s
    ELSE copyin(PutUnit(bmap(s, ip, off \div BSIZE), off, Head(us),
                        Len(us) = 1 \/ (off + 1) % BSIZE = 0),
                ip, off + 1, Tail(us))

Grow(s, ip, end) ==
    IF end > s.ic[ip].d.size THEN iupdate([s EXCEPT !.ic[ip].d.size = end], ip) ELSE s

writei(s, ip, off, us) ==
    IF off > s.ic[ip].d.size \/ off + Len(us) > MAXFILE * BSIZE THEN [s |-> s, ok |-> FALSE]
    ELSE [s |-> Grow(copyin(s, ip, off, us), ip, off + Len(us)), ok |-> TRUE]

-------------------------------------------------------------------------------
(* Directories.  The inode dp is locked.                                   *)

\* The offset of the first entry from off on that satisfies a name, or is empty
\* when the name is ""; the size when there is none.
RECURSIVE scan(_, _, _, _), entry(_, _, _, _)
scan(s, dp, name, off) ==
    IF off >= s.ic[dp].d.size \/ s.panic # "" THEN [s |-> s, off |-> off, inum |-> 0]
    ELSE entry(readi(s, dp, off), dp, name, off)
entry(r, dp, name, off) ==
    IF r.u[2] = name /\ (name # "" => r.u[1] # 0)
    THEN [s |-> r.s, off |-> off, inum |-> r.u[1]] ELSE scan(r.s, dp, name, off + 1)

Found(g, off) == [s |-> g.s, ip |-> g.ip, off |-> off]
Hit(r) == IF r.inum = 0 THEN Found([s |-> r.s, ip |-> 0], 0) ELSE Found(iget(r.s, r.inum), r.off)
dirlookup(s, dp, name) ==
    IF s.ic[dp].d.type # "T_DIR" THEN Found([s |-> Halt(s, "dirlookup not DIR"), ip |-> 0], 0)
    ELSE Hit(scan(s, dp, name, 0))

Written(w) == [s |-> IF w.ok THEN w.s ELSE Halt(w.s, "dirlink"), ok |-> TRUE]
AddEntry(e, dp, name, inum) == Written(writei(e.s, dp, e.off, <<<<inum, name>>>>))
IfAbsent(l, dp, name, inum) ==
    IF l.ip # 0 THEN [s |-> iput(l.s, l.ip), ok |-> FALSE]
    ELSE AddEntry(scan(l.s, dp, "", 0), dp, name, inum)
dirlink(s, dp, name, inum) == IfAbsent(dirlookup(s, dp, name), dp, name, inum)

-------------------------------------------------------------------------------
(* Paths: sequences of names and slashes, which skipelem() takes apart     *)

Names(path) == SelectSeq(path, LAMBDA t : t # "/")

\* namex() starts at the root or at the current directory.
start(s, cwd, path) ==
    IF path # <<>> /\ Head(path) = "/" THEN iget(s, ROOTINO) ELSE [s |-> idup(s, cwd), ip |-> cwd]

IsDir(s, ip) == s.ic[ip].d.type = "T_DIR"

InDir(t, ip, names, parent) ==
    IF t.panic # "" \/ ~IsDir(t, ip) THEN [s |-> t, ip |-> 0]
    ELSE IF parent /\ Len(names) = 1 THEN [s |-> t, ip |-> ip]
    ELSE dirlookup(t, ip, Head(names))
element(s, ip, names, parent) == InDir(ilock(s, ip), ip, names, parent)

\* nameiparent() inside a transaction: the locked directory, or 0.
RECURSIVE parentof(_, _, _), onwards(_, _, _)
parentof(s, ip, names) ==
    IF s.panic # "" THEN [s |-> s, ip |-> 0]
    ELSE IF names = <<>> THEN [s |-> iput(s, ip), ip |-> 0]
    ELSE onwards(element(s, ip, names, TRUE), ip, names)
onwards(e, ip, names) ==
    IF e.s.panic # "" THEN e
    ELSE IF e.ip = 0 THEN [s |-> iput(e.s, ip), ip |-> 0]
    ELSE IF Len(names) = 1 THEN e
    ELSE parentof(iput(e.s, ip), e.ip, Tail(names))

nameiparent(s, cwd, path) == LET g == start(s, cwd, path) IN parentof(g.s, g.ip, Names(path))
===============================================================================
