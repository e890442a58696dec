---------------------------------- MODULE Vm ----------------------------------
(***************************************************************************)
(* User memory: the page directories, page tables and pages of processes   *)
(* (source/vm.c) and the calls that change them: fork, exec (exec.c),      *)
(* sbrk, exit and wait (proc.c), over the buddy allocator.  Pipes take     *)
(* memory from it too (pipe.c).  Each call is one step: an address space   *)
(* belongs to one process, and the allocators are all that calls share.    *)
(*                                                                         *)
(* An address space has a directory dir, a table pde[i] for every NUM_PTE  *)
(* pages, and pages pte[i].                                                *)
(* A calculation m is an address space m.s, the allocators m.k, and        *)
(* whether it has succeeded, m.ok.  Beside the fields of struct kmem, m.k  *)
(* has freelist, the page tables left over from boot.                      *)
(***************************************************************************)
EXTENDS Buddy, Sequences, TLC

CONSTANTS NPROC, NPIPE,
          PT_ORDER,            \* the order of a page table
          PIPE_SZ,             \* sizeof(struct pipe), in smallest blocks
          PTE_SZ,              \* bytes in a page
          UintMod,             \* a uint counts bytes modulo this
          NUM_PTE, NUM_UPDE,   \* pages of a table, tables of a directory
          Increment,           \* arguments of sbrk()
          Program,             \* programs: sequences of segments
          ArgBytes             \* bytes of arguments that exec() is given

Slot == 1..NPROC
initproc == 1
UPAGES == NUM_PTE * NUM_UPDE
UADDR_SZ == UPAGES * PTE_SZ

\* A program's segments: their place and size in memory, their size in the file, and how much of that the file has.
ASSUME VmAssumption ==
    /\ PT_ORDER \in Orders /\ {NPROC, PTE_SZ, NUM_PTE, NUM_UPDE} \subseteq Nat \ {0} /\ UintMod > UADDR_SZ
    /\ \A g \in Program : \A i \in 1..Len(g) : g[i] \in [vaddr : Nat, memsz : Nat, filesz : Nat, file : Nat]

VARIABLES
    kmem,   \* the allocators: struct kmem and kpt_mem
    proc,   \* state, kstack, sz and space (what pgdir points to) of each slot
    pipes   \* pipe -> its memory

vars == <<kmem, proc, pipes>>

Unmapped == [dir |-> NoBlock,
             pde |-> [i \in 0..NUM_UPDE - 1 |-> NoBlock],
             pte |-> [i \in 0..UPAGES - 1 |-> NoBlock]]

\* align_up(sz, PTE_SZ), in pages.
PagesUp(sz) == (sz + PTE_SZ - 1) \div PTE_SZ
TableUp(a) == ((a + NUM_PTE - 1) \div NUM_PTE) * NUM_PTE

Stopped(m) == m.k.panic # ""
Fail(m) == [m EXCEPT !.ok = FALSE]
Halt(m, why) == [m EXCEPT !.ok = FALSE, !.k = Panic(m.k, why)]

-------------------------------------------------------------------------------
(* Page tables                                                             *)

\* kpt_freerange(): what is left of the memory mapped at boot, the last table first.
kpt_freerange ==
    LET n == (kernmap - end) \div 2^PT_ORDER
    IN  [i \in 1..n |-> mem2blkid(PT_ORDER, kernmap - i * 2^PT_ORDER)]

OrPanic(r) == IF r.b = NoBlock THEN [r EXCEPT !.k = Panic(r.k, "oom: kpt_alloc")] ELSE r
kpt_alloc(k) ==
    IF k.freelist # <<>> THEN [k |-> [k EXCEPT !.freelist = Tail(@)], b |-> Head(k.freelist)]
    ELSE OrPanic(kmalloc(k, PT_ORDER))

\* A table goes back to kpt_mem when it lies below P2V(KERNLINK).  None does: KERNLINK is KERNBASE, and the sum of
\* the two wraps to 0.  k.mixed notes that memory from outside of the heap has been given to it.
KERNBASE == ADDRS \div 2
P2V(a) == (a + KERNBASE) % ADDRS
Mixed(k, b) == [k EXCEPT !.mixed = @ \/ b \in {mem2blkid(PT_ORDER, mem) : mem \in end..kernmap - 1}]
kpt_free(k, b) ==
    IF blkid2mem(PT_ORDER, b) >= P2V(KERNBASE) THEN kfree(Mixed(k, b), PT_ORDER, b)
    ELSE [k EXCEPT !.freelist = <<b>> \o @]

\* An address space with a new directory d.
NewSpace(d) == [k |-> d.k, s |-> [Unmapped EXCEPT !.dir = d.b], ok |-> d.b # NoBlock]

\* walkpgdir() with alloc set, for page a.
SetPde(r, m, i) == [m EXCEPT !.k = r.k, !.s.pde[i] = r.b, !.ok = r.b # NoBlock]
walkpgdir(m, a) ==
    IF m.s.pde[a \div NUM_PTE] # NoBlock THEN m ELSE SetPde(kpt_alloc(m.k), m, a \div NUM_PTE)

\* mappages() of one page.
SetPte(w, a, pa) ==
    IF ~w.ok THEN w
    ELSE IF w.s.pte[a] # NoBlock THEN Halt(w, "remap")
    ELSE [w EXCEPT !.s.pte[a] = pa]
mappages(m, a, pa) == SetPte(walkpgdir(m, a), a, pa)

\* deallocuvm() from page a on.  Where there is no table, a is rounded up to the
\* next one and the loop adds a page.
RECURSIVE dealloc(_, _, _)
dealloc(m, a, oldsz) ==
    IF a * PTE_SZ >= oldsz \/ Stopped(m) THEN m
    ELSE IF m.s.pde[a \div NUM_PTE] = NoBlock THEN dealloc(m, TableUp(a) + 1, oldsz)
    ELSE IF m.s.pte[a] = NoBlock THEN dealloc(m, a + 1, oldsz)
    ELSE dealloc([m EXCEPT !.k = kfree(m.k, MAX_ORD, m.s.pte[a]),
                           !.s.pte[a] = NoBlock], a + 1, oldsz)

deallocuvm(m, oldsz, newsz) == IF newsz >= oldsz THEN m ELSE dealloc(m, PagesUp(newsz), oldsz)

\* What allocuvm() does about the pages it got when there is no other.  (Mutant:
\* nothing.)
KeepPages(m, newsz, oldsz) == m
GiveBack(m, newsz, oldsz) == deallocuvm(m, newsz, oldsz)

RECURSIVE alloc(_, _, _, _)
alloc(m, a, newsz, oldsz) ==
    IF a * PTE_SZ >= newsz \/ Stopped(m) THEN m
    ELSE LET r == kmalloc(m.k, MAX_ORD)
         IN  IF r.b = NoBlock THEN Fail(GiveBack([m EXCEPT !.k = r.k], newsz, oldsz))
             ELSE alloc(mappages([m EXCEPT !.k = r.k], a, r.b), a + 1, newsz, oldsz)

\* Returns 0 (~ok), the old or the new size.
TooLarge(newsz) == newsz >= UADDR_SZ
Grown(m, newsz) == [m |-> m, sz |-> IF m.ok THEN newsz ELSE 0]
allocuvm(m, oldsz, newsz) ==
    IF TooLarge(newsz) THEN [m |-> Fail(m), sz |-> 0]
    ELSE IF newsz < oldsz THEN [m |-> m, sz |-> oldsz]
    ELSE Grown(alloc(m, PagesUp(oldsz), newsz, oldsz), newsz)

\* freevm(): the pages, the tables, the directory.
Tables(s) == {i \in 0..NUM_UPDE - 1 : s.pde[i] # NoBlock}

freevm(k, s) ==
    LET m == deallocuvm([k |-> k, s |-> s, ok |-> TRUE], UADDR_SZ, 0)
        tables == MapThenFoldSet(LAMBDA i, j : kpt_free(j, s.pde[i]), m.k,
                                 LAMBDA i : i, LAMBDA S : Max(S), Tables(s))
    IN  kpt_free(tables, s.dir)

-------------------------------------------------------------------------------
(* fork(), with allocproc() and copyuvm()                                  *)

RECURSIVE copy(_, _, _, _)
copy(m, from, a, sz) ==
    IF a * PTE_SZ >= sz \/ Stopped(m) THEN m
    ELSE IF from.pde[a \div NUM_PTE] = NoBlock THEN Halt(m, "copyuvm: pte should exist")
    ELSE IF from.pte[a] = NoBlock THEN Halt(m, "copyuvm: page not present")
    ELSE LET r == kmalloc(m.k, MAX_ORD)
         IN  IF r.b = NoBlock THEN Fail([m EXCEPT !.k = freevm(r.k, m.s), !.s = Unmapped])
             ELSE copy(mappages([m EXCEPT !.k = r.k], a, r.b), from, a + 1, sz)

copyuvm(k, from, sz) == copy(NewSpace(kpt_alloc(k)), from, 0, sz)

\* A process that has given back all its memory goes on too, by what is left in the TLB: growproc() returns before
\* the switchuvm() that would flush it.
Runs(p) == proc[p].state = "RUNNABLE" /\ kmem.panic = ""

\* What becomes of the kernel stack when copyuvm() fails.  (Mutant: nothing.)
KeepStack(k, b) == k
FreeStack(k, b) == kfree(k, MAX_ORD, b)

fork_copied(p, c, stack, m) ==
    IF ~m.ok THEN kmem' = FreeStack(m.k, stack) /\ UNCHANGED proc
    ELSE /\ kmem' = m.k
         /\ proc' = [proc EXCEPT ![c] = [state |-> "RUNNABLE", kstack |-> stack,
                                         sz |-> proc[p].sz, space |-> m.s]]
fork(p, c) ==
    /\ Runs(p) /\ proc[c].state = "UNUSED"
    /\ LET stack == kmalloc(kmem, MAX_ORD)
       IN  IF stack.b = NoBlock THEN kmem' = stack.k /\ UNCHANGED proc
           ELSE fork_copied(p, c, stack.b, copyuvm(stack.k, proc[p].space, proc[p].sz))
    /\ UNCHANGED pipes

exit(p) ==
    /\ Runs(p) /\ p # initproc
    /\ proc' = [proc EXCEPT ![p].state = "ZOMBIE"]
    /\ UNCHANGED <<kmem, pipes>>

Unused == [state |-> "UNUSED", kstack |-> NoBlock, sz |-> 0, space |-> Unmapped]

\* wait() of somebody finds the zombie p.
wait(p) ==
    /\ proc[p].state = "ZOMBIE" /\ kmem.panic = ""
    /\ kmem' = freevm(kfree(kmem, MAX_ORD, proc[p].kstack), proc[p].space)
    /\ proc' = [proc EXCEPT ![p] = Unused]
    /\ UNCHANGED pipes

\* growproc().  When all memory is given back, deallocuvm() returns 0, and sz stays as it is; when more than that
\* should be, the sum wraps and nothing is given back.
Shrunk(m, oldsz, newsz) == [m |-> deallocuvm(m, oldsz, newsz), sz |-> IF newsz >= oldsz THEN oldsz ELSE newsz]
Resized(m, oldsz, newsz, n) == IF n > 0 THEN allocuvm(m, oldsz, newsz) ELSE Shrunk(m, oldsz, newsz)
growproc(p, r) ==
    /\ kmem' = r.m.k
    /\ proc' = [proc EXCEPT ![p].space = r.m.s, ![p].sz = IF r.sz # 0 THEN r.sz ELSE @]
sys_sbrk(p, n) ==
    /\ Runs(p)
    /\ growproc(p, Resized([k |-> kmem, s |-> proc[p].space, ok |-> TRUE],
                           proc[p].sz, (proc[p].sz + n) % UintMod, n))
    /\ UNCHANGED pipes

-------------------------------------------------------------------------------
(* exec()                                                                  *)

\* loaduvm(): the pages of segment g that have no table, and those that the file does not fill; the first of them
\* decides.  What lies behind the directory of a space is taken for entries without a table.
HasTable(s, a) == a \div NUM_PTE \in 0..NUM_UPDE - 1 /\ s.pde[a \div NUM_PTE] # NoBlock
loaduvm(m, g) ==
    LET all == 0..PagesUp(g.filesz) - 1
        missing == {i \in all : ~HasTable(m.s, g.vaddr \div PTE_SZ + i)}
        short == {i \in all : g.file < g.filesz /\ g.file < (i + 1) * PTE_SZ}
    IN  IF g.vaddr % PTE_SZ # 0 THEN Halt(m, "loaduvm: addr must be page aligned")
        ELSE IF missing \cup short = {} THEN m
        ELSE IF Min(missing \cup short) \in missing THEN Halt(m, "loaduvm: address should exist")
        ELSE Fail(m)

\* The segments from the i-th on.
RECURSIVE load(_, _, _, _)
Loaded(r, g) == IF r.sz = 0 THEN [r EXCEPT !.m = Fail(r.m)] ELSE [r EXCEPT !.m = loaduvm(r.m, g)]
Segment(m, sz, g) ==
    IF g.memsz < g.filesz THEN [m |-> Fail(m), sz |-> sz]
    ELSE Loaded(allocuvm(m, sz, (g.vaddr + g.memsz) % UintMod), g)
load(r, g, i, n) ==
    IF i > n \/ ~r.m.ok THEN r ELSE load(Segment(r.m, r.sz, g[i]), g, i + 1, n)

\* Two pages above the program; then the arguments, downwards from the top.
\* clearpteu() takes the lower page from the user, and copyout() fails there.
Push(r, args) == IF r.m.ok THEN [r EXCEPT !.m.ok = args <= PTE_SZ] ELSE r
stack(r, args) ==
    IF ~r.m.ok THEN r
    ELSE Push(allocuvm(r.m, PagesUp(r.sz) * PTE_SZ, (PagesUp(r.sz) + 2) * PTE_SZ), args)

\* The new image r is built beside the old one, which is freed at the end; when
\* something fails the new one is.
exec_built(p, r) ==
    IF r.m.ok
    THEN /\ kmem' = freevm(r.m.k, proc[p].space)
         /\ proc' = [proc EXCEPT ![p].space = r.m.s, ![p].sz = r.sz]
    ELSE /\ kmem' = IF Stopped(r.m) THEN r.m.k ELSE freevm(r.m.k, r.m.s)
         /\ UNCHANGED proc
exec(p, g, args) ==
    /\ Runs(p)
    /\ exec_built(p, stack(load([m |-> NewSpace(kpt_alloc(kmem)), sz |-> 0], g, 1, Len(g)), args))
    /\ UNCHANGED pipes

-------------------------------------------------------------------------------
(* Pipes                                                                   *)

PIPE_ORDER == get_order(PIPE_SZ)

pipealloc(i) ==
    /\ pipes[i] = NoBlock /\ kmem.panic = ""
    /\ LET r == kmalloc(kmem, PIPE_ORDER)
       IN  kmem' = r.k /\ pipes' = [pipes EXCEPT ![i] = r.b]
    /\ UNCHANGED proc

pipeclose(i) ==
    /\ pipes[i] # NoBlock /\ kmem.panic = ""
    /\ kmem' = kfree(kmem, PIPE_ORDER, pipes[i])
    /\ pipes' = [pipes EXCEPT ![i] = NoBlock]
    /\ UNCHANGED proc

-------------------------------------------------------------------------------

\* userinit(): a stack, a directory and, by inituvm(), one page.
Init ==
    LET kstk == kmalloc(kmem_init2 @@ [freelist |-> kpt_freerange, mixed |-> FALSE], MAX_ORD)
        d == kpt_alloc(kstk.k)
        page == kmalloc(d.k, MAX_ORD)
        m == mappages([NewSpace(d) EXCEPT !.k = page.k], 0, page.b)
    IN  /\ kmem = m.k
        /\ proc = [p \in Slot |->
                      IF p = initproc THEN [state |-> "RUNNABLE", kstack |-> kstk.b,
                                            sz |-> PTE_SZ, space |-> m.s]
                      ELSE Unused]
        /\ pipes = [i \in 1..NPIPE |-> NoBlock]

Halted == kmem.panic # "" /\ UNCHANGED vars

Next ==
    \/ \E p \in Slot :
          \/ \E c \in Slot : fork(p, c)
          \/ exit(p) \/ wait(p)
          \/ \E n \in Increment : sys_sbrk(p, n)
          \/ \E g \in Program, args \in ArgBytes : exec(p, g, args)
    \/ \E i \in 1..NPIPE : pipealloc(i) \/ pipeclose(i)
    \/ Halted

Spec == Init /\ [][Next]_vars

-------------------------------------------------------------------------------
(* Properties                                                              *)

\* Everything that memory is in use for: what it is, and the block.
Holders ==
    LET of(p) ==
            {<<p, "kstack", 0, MAX_ORD, proc[p].kstack>>, <<p, "dir", 0, PT_ORDER, proc[p].space.dir>>}
            \cup {<<p, "pde", i, PT_ORDER, proc[p].space.pde[i]>> : i \in 0..NUM_UPDE - 1}
            \cup {<<p, "pte", a, MAX_ORD, proc[p].space.pte[a]>> : a \in 0..UPAGES - 1}
        all == UNION {of(p) : p \in Slot} \cup {<<0, "pipe", i, PIPE_ORDER, pipes[i]>> : i \in 1..NPIPE}
               \cup {<<0, "kpt", i, PT_ORDER, kmem.freelist[i]>> : i \in DOMAIN kmem.freelist}
    IN  {h \in all : h[5] # NoBlock}

\* Every byte of the heap, and of the memory left over from boot, has exactly one use: it is in one block on a
\* free list, or in one stack, table, page or pipe.  Nothing is leaked when fork(), exec() or sbrk() fail half-way,
\* nothing is freed twice or shared by two processes, and the tables from below the heap that kpt_free() hands to
\* kfree() become memory like any other.
MemoryPartitioned ==
    LET blocks == Holders \cup {<<0, "free", 0, f[1], f[2]>> : f \in FreeBlocks(kmem)}
        uses == UNION {{<<h, u>> : u \in Units(h[4], h[5])} : h \in blocks}
    IN  kmem.panic = "" =>
            {x[2] : x \in uses} = Heap \cup Boot /\ Cardinality(uses) = Cardinality(Heap \cup Boot)

\* The list of each order visits exactly the marks with an available block, and its links agree in both directions:
\* no available block is out of reach.  Two buddies are never both available below the largest order, so that memory
\* that has all been freed is available in whole pages again.  Where the number of a mark does not fit its links
\* (buddy.c:31), the list is so only until a table from below the heap has been freed.
FreeListsExact ==
    \A o \in Orders :
        /\ kmem.panic = "" /\ (kmem.mixed => \A m \in Marks(o) : Link(m) = m) =>
              /\ Listed(kmem, o) = Available(kmem, o)
              /\ \A m, n \in Listed(kmem, o) : kmem.next[o][m] = n <=> kmem.prev[o][n] = m
              /\ kmem.head[o] # NIL => kmem.prev[o][kmem.head[o]] = NIL
        /\ o # MAX_ORD => \A b \in kmem.bitmap[o] : Buddy(b) \notin kmem.bitmap[o]

\* The pages of a process are those below its size, without holes, so that copyuvm() finds them all, and each has a
\* table; no process reaches the end of user space (UADDR_SZ, vm.c:240).  A process that once gave back everything,
\* whose sz growproc() left as it was, has no first page: of it only what it got since is mapped, below its size.
SizeIsMapped ==
    \A p \in Slot :
        LET s == proc[p].space
            mapped == {a \in 0..UPAGES - 1 : s.pte[a] # NoBlock}
        IN  kmem.panic = "" =>
            /\ proc[p].sz < UADDR_SZ
            /\ mapped \subseteq 0..PagesUp(proc[p].sz) - 1
            /\ 0 \in mapped => mapped = 0..PagesUp(proc[p].sz) - 1
            /\ \A a \in mapped : s.pde[a \div NUM_PTE] # NoBlock

\* The kernel halts for these reasons only: there is no page table to be had; exec() read a segment that is not
\* aligned or wraps (vm.c:206, 212); a process without memory forks, as growproc() (proc.c:173) lets it; and get_blk()
\* follows a link that lost the upper half of a mark (buddy.c:31), once a table from below the heap has been freed.
\* "remap", "copyuvm: pte should exist", "double alloc" and "double free" are out of reach.
KnownPanicsOnly ==
    \/ kmem.panic \in {"", "oom: kpt_alloc", "loaduvm: addr must be page aligned", "loaduvm: address should exist"}
    \/ kmem.panic = "copyuvm: page not present" /\ \E p \in Slot : proc[p].sz > 0 /\ proc[p].space.pte[0] = NoBlock
    \/ kmem.panic = "empty mark in the list" /\ kmem.mixed
===============================================================================
