--------------------------------- MODULE Buddy ---------------------------------
(***************************************************************************)
(* The buddy memory allocator (source/buddy.c).  Every function runs under *)
(* kmem.lock, so each is an operator from one state k of struct kmem to    *)
(* the next.  Orders are counted from MIN_ORD.  A block is a pair of an    *)
(* order and a block number, which wraps for memory below the heap.        *)
(*                                                                         *)
(* k.bitmap[o] is the set of available blocks of an order.  Its blocks are *)
(* grouped in marks of MarkBits, and the marks that have an available      *)
(* block are on a doubly linked list.  head is an int, but the links are   *)
(* 16 bits: of a mark with a larger number they keep the lower half.       *)
(***************************************************************************)
EXTENDS Integers, FiniteSets, FiniteSetsExt, Folds

CONSTANTS MAX_ORD,   \* the order of a page, the largest
          MarkBits,  \* blocks in a bitmap, 32
          NPAGE,     \* pages in the heap
          ADDRS,     \* smallest blocks in the address space of 32 bits
          start_heap,
          end, kernmap, \* the memory left over from boot: from end to P2V(INIT_KERNMAP)
          Links      \* what a link can tell apart, 2^16

Orders == 0..MAX_ORD
NIL == Links - 1   \* the end of a list
NoBlock == ADDRS   \* a NULL pointer
Link(m) == m % Links

ASSUME BuddyAssumption ==
    /\ MAX_ORD \in Nat /\ NPAGE \in Nat \ {0}
    /\ MarkBits \in Nat \ {0} /\ MarkBits % 2 = 0   \* buddies share a bitmap
    /\ {ADDRS, start_heap, end, kernmap, Links} \subseteq Nat \ {0} /\ kernmap <= start_heap
    /\ start_heap + NPAGE * 2^MAX_ORD <= ADDRS

mem2blkid(o, mem) == ((mem - start_heap) % ADDRS) \div 2^o
blkid2mem(o, b) == (start_heap + b * 2^o) % ADDRS

\* The marks of the heap and of the memory below it, and those that their links lead to.
Mark(b) == b \div MarkBits
Marks(o) ==
    LET own == {Mark(mem2blkid(o, mem)) : mem \in (end..kernmap - 1) \cup (start_heap..start_heap + NPAGE * 2^MAX_ORD - 1)}
    IN  own \cup {Link(m) : m \in own}
Bits(k, o, m) == {b \in k.bitmap[o] : Mark(b) = m}

\* The machine halts at the first panic.
Panic(k, why) == IF k.panic = "" THEN [k EXCEPT !.panic = why] ELSE k

\* unmark_blk() and mark_blk(): a block leaves or enters the bitmap, and its mark
\* the list when the bitmap becomes empty or was.  (Mutant: the next
\* mark is not relinked.)
UnlinkHalf(k, o, m) ==
    LET p == k.prev[o][m]
        n == k.next[o][m]
    IN  [k EXCEPT !.head[o] = IF p = NIL /\ @ = m THEN n ELSE @,
                  !.next[o] = [x \in Marks(o) |-> IF x = m THEN NIL ELSE IF x = p THEN n ELSE @[x]],
                  !.prev[o][m] = NIL]
Unlink(k, o, m) ==
    LET p == k.prev[o][m]
        n == k.next[o][m]
    IN  [k EXCEPT !.head[o] = IF p = NIL /\ @ = m THEN n ELSE @,
                  !.next[o] = [x \in Marks(o) |-> IF x = m THEN NIL ELSE IF x = p THEN n ELSE @[x]],
                  !.prev[o] = [x \in Marks(o) |-> IF x = m THEN NIL ELSE IF x = n THEN p ELSE @[x]]]

Insert(k, o, m) ==
    [k EXCEPT !.next[o][m] = Link(k.head[o]),
              !.prev[o] = [x \in Marks(o) |->
                              IF x = m THEN NIL ELSE IF x = k.head[o] THEN Link(m) ELSE @[x]],
              !.head[o] = m]

unmark_blk(k, o, b) ==
    IF b \notin k.bitmap[o] THEN Panic(k, "double alloc")
    ELSE LET j == [k EXCEPT !.bitmap[o] = @ \ {b}]
         IN  IF Bits(j, o, Mark(b)) = {} THEN Unlink(j, o, Mark(b)) ELSE j

mark_blk(k, o, b) ==
    IF b \in k.bitmap[o] THEN Panic(k, "double free")
    ELSE LET j == [k EXCEPT !.bitmap[o] = @ \cup {b}]
         IN  IF Bits(k, o, Mark(b)) = {} THEN Insert(j, o, Mark(b)) ELSE j

Buddy(b) == IF b % 2 = 0 THEN b + 1 ELSE b - 1

Mergeable(k, o, b) == Buddy(b) \in k.bitmap[o] /\ o # MAX_ORD
\* (Mutant: the buddy stays on its list when it is merged.)
TakeNothing(k, o, b) == k
TakeBuddy(k, o, b) == unmark_blk(k, o, Buddy(b))

\* _kfree(): merged with its buddy, and on up the orders, or marked available.
RECURSIVE kfree(_, _, _)
kfree(k, o, b) ==
    IF k.panic # "" THEN k
    ELSE IF b \in k.bitmap[o] THEN Panic(k, "kfree: double free")
    ELSE IF Mergeable(k, o, b) THEN kfree(TakeBuddy(k, o, b), o + 1, b \div 2)
    ELSE mark_blk(k, o, b)

\* get_blk(): the first available block of the first mark.
get_blk(k, o) ==
    LET bits == Bits(k, o, k.head[o])
    IN  IF bits = {} THEN [k |-> Panic(k, "empty mark in the list"), b |-> NoBlock]
        ELSE [k |-> unmark_blk(k, o, Min(bits)), b |-> Min(bits)]

\* The half of a split block that is not handed out.
HighHalf(b) == 2 * b + 1

\* _kmalloc(): a block of the order, or half of one of the next order.
RECURSIVE kmalloc(_, _)
kmalloc(k, o) ==
    IF k.head[o] # NIL THEN get_blk(k, o)
    ELSE IF o = MAX_ORD THEN [k |-> k, b |-> NoBlock]
    ELSE LET up == kmalloc(k, o + 1)
         IN  IF up.b = NoBlock THEN up
             ELSE [k |-> kfree(up.k, o, HighHalf(up.b)), b |-> 2 * up.b]

\* kmem_init2(): nothing is available, then every page is freed.
kmem_init2 ==
    LET none == [bitmap |-> [o \in Orders |-> {}],
                 head |-> [o \in Orders |-> NIL],
                 prev |-> [o \in Orders |-> [m \in Marks(o) |-> NIL]],
                 next |-> [o \in Orders |-> [m \in Marks(o) |-> NIL]],
                 panic |-> ""]
        freed[n \in 0..NPAGE] == IF n = 0 THEN none ELSE kfree(freed[n - 1], MAX_ORD, n - 1)
    IN  freed[NPAGE]

\* get_order(): the smallest order whose blocks hold v bytes.
get_order(v) == Min({o \in Orders : 2^o >= v})

-------------------------------------------------------------------------------
(* What the properties of the allocator are stated with                    *)

\* The smallest blocks that a block consists of, and those of the heap.
Units(o, b) == b * 2^o..(b + 1) * 2^o - 1
Heap == 0..NPAGE * 2^MAX_ORD - 1
Boot == {mem2blkid(0, mem) : mem \in end..kernmap - 1}
FreeBlocks(k) == UNION {{<<o, b>> : b \in k.bitmap[o]} : o \in Orders}

\* The marks on the list of an order, and the marks that should be.
RECURSIVE Reach(_, _, _)
Reach(k, o, S) ==
    LET T == (S \cup {k.next[o][m] : m \in S}) \ {NIL}
    IN  IF T = S THEN S ELSE Reach(k, o, T)
Listed(k, o) == Reach(k, o, {k.head[o]} \ {NIL})
Available(k, o) == {Mark(b) : b \in k.bitmap[o]}
===============================================================================
