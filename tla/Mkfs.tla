---------------------------------- MODULE Mkfs ----------------------------------
(***************************************************************************)
(* The program that makes the disk image (uprogs/mkfs.c).  Its operators   *)
(* go from one image m to the next; m.freeblock is the next free block.    *)
(***************************************************************************)
EXTENDS Fs

CONSTANT Files   \* the files of the image: sequences of units, by name

ialloc_mk(m, inum, type) ==
    [m EXCEPT !.inode[inum] = [FreeInode EXCEPT !.type = type, !.nlink = 1]]

\* The block that iappend() writes to, the next free one when it is missing.
place(m, inum, fbn) ==
    LET a == m.inode[inum].addrs
        j == fbn - NDIRECT
        top == IF a[NDIRECT] # 0 THEN m
               ELSE [m EXCEPT !.inode[inum].addrs[NDIRECT] = m.freeblock, !.freeblock = @ + 1]
        ind == top.inode[inum].addrs[NDIRECT]
    IN  IF fbn < NDIRECT
        THEN IF a[fbn] # 0 THEN [m |-> m, x |-> a[fbn]]
             ELSE [m |-> [m EXCEPT !.inode[inum].addrs[fbn] = m.freeblock, !.freeblock = @ + 1],
                   x |-> m.freeblock]
        ELSE IF top.data[ind][j] # Zero THEN [m |-> top, x |-> top.data[ind][j][1]]
        ELSE [m |-> [top EXCEPT !.data[ind][j] = <<top.freeblock, "">>, !.freeblock = @ + 1],
              x |-> top.freeblock]

RECURSIVE iappend(_, _, _)
iappend(m, inum, us) ==
    IF us = <<>> THEN m
    ELSE LET off == m.inode[inum].size
             w == place(m, inum, off \div BSIZE)
         IN  iappend([w.m EXCEPT !.data[w.x][off % BSIZE] = Head(us),
                                 !.inode[inum].size = off + 1], inum, Tail(us))

\* A file: an inode, its entry in the root, its content.
RECURSIVE files(_, _, _)
files(m, names, inum) ==
    IF names = <<>> THEN m
    ELSE LET f == ialloc_mk(m, inum, "T_FILE")
             e == iappend(f, ROOTINO, <<<<inum, Head(names)>>>>)
         IN  files(iappend(e, inum, Files[Head(names)]), Tail(names), inum + 1)

\* main().  The size of the root is rounded up to whole blocks, by one block more
\* when its entries fill their last block.
mkfs(names) ==
    LET m == [inode |-> [i \in Inum |-> FreeInode], data |-> [b \in Block |-> ZeroBlock], freeblock |-> 1]
        root == iappend(ialloc_mk(m, ROOTINO, "T_DIR"), ROOTINO, <<<<ROOTINO, ".">>, <<ROOTINO, "..">>>>)
        all == files(root, names, ROOTINO + 1)
    IN  [all EXCEPT !.inode[ROOTINO].size = (@ \div BSIZE + 1) * BSIZE]

\* balloc() of mkfs.c: the bitmap of the image.
balloc_mk(m) == 1..m.freeblock - 1
===============================================================================
