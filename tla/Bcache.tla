-------------------------------- MODULE Bcache --------------------------------
(***************************************************************************)
(* The buffer cache (source/bio.c) over the memory disk (source/memide.c), *)
(* for callers that do what they like: a process may hold any number of    *)
(* buffers when it asks for another, write those it holds, and pin them    *)
(* with B_DIRTY (log_write), in a transaction or outside of one as iput()  *)
(* does.  bcache.lock is held from the acquire() of bget() to its          *)
(* release() or sleep() and from end to end of brelse(), so these are      *)
(* single steps; sleep() is what module SleepLock shows of it.             *)
(***************************************************************************)
EXTENDS Naturals, Sequences, FiniteSets

CONSTANTS Process,
          Sector, NoSector,  \* NoSector: dev is -1, as binit() leaves it
          Value, NoBuf,
          NBUF

Buf == 1..NBUF

ASSUME BcacheAssumption == NoSector \notin Sector /\ NoBuf \notin Buf /\ NBUF \in Nat

VARIABLES
    head,    \* the list from bcache.head.next to bcache.head.prev
    sector, flags, data,  \* struct buf
    disk,    \* memdisk
    want,    \* the sector a process is in bget() for
    chan,    \* the buffer it sleeps on there
    held,    \* the buffers it got, each with the sector it had asked for
    panic    \* bget() found no buffer

buffers == <<sector, flags, data>>
vars == <<head, sector, flags, data, disk, want, chan, held, panic>>

Init ==
    /\ head = [i \in 1..NBUF |-> NBUF + 1 - i]
    /\ sector = [b \in Buf |-> NoSector]
    /\ flags = [b \in Buf |-> {}]
    /\ data \in [Buf -> Value] /\ \A b, c \in Buf : data[b] = data[c]
    /\ disk \in [Sector -> Value] /\ \A s, t \in Sector : disk[s] = disk[t]
    /\ want = [p \in Process |-> NoSector]
    /\ chan = [p \in Process |-> NoBuf]
    /\ held = [p \in Process |-> {}]
    /\ panic = FALSE

Busy(b) == "B_BUSY" \in flags[b]
Dirty(b) == "B_DIRTY" \in flags[b]
Valid(b) == "B_VALID" \in flags[b]
Has(p, b) == \E s \in Sector : <<b, s>> \in held[p]

\* A call of bread(), once those before it have returned.
bread(p, s) ==
    /\ want[p] = NoSector
    /\ \A b \in Buf : Has(p, b) => Valid(b)
    /\ want' = [want EXCEPT ![p] = s]
    /\ UNCHANGED <<head, buffers, disk, chan, held>>

-------------------------------------------------------------------------------
(* bget(): one pass of its loop                                            *)

\* (Mutants: only valid buffers are looked at; a pinned one is recycled; one that
\* has been used never is; brelse() wakes one process.)
CachedAndValid(s) == {b \in Buf : sector[b] = s /\ Valid(b)}
Cached(s) == {b \in Buf : sector[b] = s}
CleanOrNot == {b \in Buf : ~Busy(b)}
UnusedOnly == {b \in Buf : ~Busy(b) /\ ~Valid(b)}
Recyclable == {b \in Buf : ~Busy(b) /\ ~Dirty(b)}
WakeOne(b) == [p \in Process |-> IF chan[p] = b /\ p = CHOOSE q \in Process : chan[q] = b THEN NoBuf ELSE chan[p]]
wakeup(b) == [p \in Process |-> IF chan[p] = b THEN NoBuf ELSE chan[p]]
ClearBusy(b) == [flags EXCEPT ![b] = @ \ {"B_BUSY"}]

Take(p, b) ==
    /\ held' = [held EXCEPT ![p] = @ \cup {<<b, want[p]>>}]
    /\ want' = [want EXCEPT ![p] = NoSector]

bget_hit(p) ==
    /\ want[p] # NoSector /\ chan[p] = NoBuf
    /\ \E b \in Cached(want[p]) :
          /\ ~Busy(b)
          /\ flags' = [flags EXCEPT ![b] = @ \cup {"B_BUSY"}]
          /\ Take(p, b)
    /\ UNCHANGED <<head, sector, data, disk, chan>>

bget_sleep(p) ==
    /\ want[p] # NoSector /\ chan[p] = NoBuf
    /\ \E b \in Cached(want[p]) :
          /\ Busy(b)
          /\ chan' = [chan EXCEPT ![p] = b]
    /\ UNCHANGED <<head, buffers, disk, want, held>>

\* The least recently used buffer that can be recycled is.
bget_recycle(p) ==
    /\ want[p] # NoSector /\ chan[p] = NoBuf
    /\ Cached(want[p]) = {}
    /\ \E i \in 1..NBUF :
          /\ head[i] \in Recyclable
          /\ \A j \in i + 1..NBUF : head[j] \notin Recyclable
          /\ sector' = [sector EXCEPT ![head[i]] = want[p]]
          /\ flags' = [flags EXCEPT ![head[i]] = {"B_BUSY"}]
          /\ Take(p, head[i])
    /\ UNCHANGED <<head, data, disk, chan>>

bget(p) == bget_hit(p) \/ bget_sleep(p) \/ bget_recycle(p)

\* No buffer in the list can be recycled: "bget: no buffers".
bget_panic(p) ==
    /\ want[p] # NoSector /\ chan[p] = NoBuf
    /\ Cached(want[p]) = {}
    /\ \A i \in 1..NBUF : head[i] \notin Recyclable
    /\ panic' = TRUE
    /\ UNCHANGED <<head, buffers, disk, want, chan, held>>

-------------------------------------------------------------------------------
(* What the holder of a buffer does with it                                *)

\* bread(): the buffer is filled from the disk unless it is valid.
iderw(p, b) ==
    /\ want[p] = NoSector /\ Has(p, b)
    /\ ~Valid(b)
    /\ data' = [data EXCEPT ![b] = disk[sector[b]]]
    /\ flags' = [flags EXCEPT ![b] = @ \cup {"B_VALID"}]
    /\ UNCHANGED <<head, sector, disk, want, chan, held>>

\* A log block or the header is filled and written, or a block installed.
Written(b, v) == [disk EXCEPT ![sector[b]] = v]

bwrite(p, b, v) ==
    /\ want[p] = NoSector /\ Has(p, b)
    /\ Valid(b)
    /\ data' = [data EXCEPT ![b] = v]
    /\ disk' = Written(b, v)
    /\ flags' = [flags EXCEPT ![b] = (@ \ {"B_DIRTY"}) \cup {"B_VALID"}]
    /\ UNCHANGED <<head, sector, want, chan, held>>

\* The block is changed, and pinned at the end of log_write(); the log block that log_write() reads, writes and
\* releases before that is one more block for bread(), bwrite() and brelse().
log_write(p, b, v) ==
    /\ want[p] = NoSector /\ Has(p, b)
    /\ Valid(b)
    /\ data' = [data EXCEPT ![b] = v]
    /\ flags' = [flags EXCEPT ![b] = @ \cup {"B_DIRTY"}]
    /\ UNCHANGED <<head, sector, disk, want, chan, held>>

\* b is unlinked and linked again in front of the others.
ToFront(b) ==
    LET n == CHOOSE i \in 1..NBUF : head[i] = b
    IN  [i \in 1..NBUF |-> IF i = 1 THEN b ELSE IF i <= n THEN head[i - 1] ELSE head[i]]

brelse(p, b) ==
    /\ want[p] = NoSector /\ Has(p, b)
    /\ Valid(b)
    /\ head' = ToFront(b)
    /\ flags' = ClearBusy(b)
    /\ chan' = wakeup(b)
    /\ held' = [held EXCEPT ![p] = {h \in @ : h[1] # b}]
    /\ UNCHANGED <<sector, data, disk, want>>

Step(p) ==
    \/ (\E s \in Sector : bread(p, s)) \/ bget(p)
    \/ \E b \in Buf :
          \/ iderw(p, b) \/ brelse(p, b)
          \/ \E v \in Value : bwrite(p, b, v) \/ log_write(p, b, v)

Next == ~panic /\ \E p \in Process : (Step(p) /\ UNCHANGED panic) \/ bget_panic(p)

Spec == Init /\ [][Next]_vars

-------------------------------------------------------------------------------
(* Properties                                                              *)

\* The fields of the buffers (struct buf) and of the processes have their types.
TypeOK ==
    /\ sector \in [Buf -> Sector \cup {NoSector}]
    /\ flags \in [Buf -> SUBSET {"B_BUSY", "B_VALID", "B_DIRTY"}]
    /\ data \in [Buf -> Value]
    /\ disk \in [Sector -> Value]
    /\ want \in [Process -> Sector \cup {NoSector}]
    /\ chan \in [Process -> Buf \cup {NoBuf}]
    /\ held \in [Process -> SUBSET (Buf \X Sector)]
    /\ panic \in BOOLEAN

\* A sector is in one buffer at most, even while processes that found it busy
\* or absent sleep and start over in bget().
OneBufferPerSector ==
    \A b, c \in Buf : sector[b] = sector[c] /\ sector[b] # NoSector => b = c

\* A busy buffer has one holder, no other has any, and it stays the buffer of the
\* sector its holder asked bread() for, the only one that has that sector.
HeldAlone ==
    /\ OneBufferPerSector
    /\ \A b \in Buf : Busy(b) <=> \E p \in Process : Has(p, b)
    /\ \A p, q \in Process : \A h \in held[p] : Has(q, h[1]) => p = q
    /\ \A p \in Process : \A h \in held[p] : sector[h[1]] = h[2]

\* What bread() would return of each sector.
Contents ==
    [s \in Sector |->
        IF \E b \in Buf : sector[b] = s /\ Valid(b)
        THEN data[CHOOSE b \in Buf : sector[b] = s /\ Valid(b)] ELSE disk[s]]

\* The cache is transparent: a block changes only while a process holds its
\* buffer; reading, sleeping, releasing and recycling change no block.
OnlyHoldersChangeBlocks ==
    [][\A s \in Sector :
          Contents'[s] # Contents[s] =>
              \E p \in Process, b \in Buf : <<b, s>> \in held[p] /\ held' = held]_vars

\* A valid buffer that is not pinned agrees with the disk.
CleanIsOnDisk ==
    \A b \in Buf : Valid(b) /\ ~Dirty(b) => data[b] = disk[sector[b]]

\* A process that sleeps in bget() sleeps for a buffer that is held, and that has its sector as long as it sleeps:
\* no brelse() passes a sleeper by (bio.c:77, bio.c:139), and what it waits for cannot be recycled under it.
SleepersWaitForHolders ==
    \A p \in Process :
        chan[p] # NoBuf => sector[chan[p]] = want[p] /\ \E q \in Process : Has(q, chan[p])

\* bget() panics with "bget: no buffers" only when every buffer is held or pinned: no buffer gets lost from the
\* list that brelse() links anew, and one that was given up can always be recycled (bio.c:83, bio.c:131-136).
PanicsOnlyWhenFull == panic => \A b \in Buf : Busy(b) \/ Dirty(b)
===============================================================================
