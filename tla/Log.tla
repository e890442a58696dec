---------------------------------- MODULE Log ----------------------------------
(***************************************************************************)
(* The write-ahead log (source/log.c) over the buffer cache and the disk:  *)
(* transactions, commit, installation and recovery, with the machine going *)
(* down between any two disk writes.                                       *)
(*                                                                         *)
(* begin_trans() lets one system call at a time into a transaction (module *)
(* SleepLock), so there is one transaction to follow; other processes read *)
(* blocks meanwhile, and the cache recycles buffers.  The blocks of the    *)
(* log itself are written through whenever they change, so that only the   *)
(* buffers of home locations can differ from the disk.  A sector is        *)
(* written as a whole or not at all.                                       *)
(***************************************************************************)
EXTENDS Naturals, Sequences

CONSTANTS Sector,    \* the home locations
          Value,     \* the contents of a block
          NoBuf,     \* no buffer has the block
          LOGSIZE,   \* sectors that the header has room for
          nlog,      \* sb.nlog: blocks of the disk that the log has, header included
          MaxCrash   \* bound: how often the machine goes down

ASSUME NoBufAssumption == NoBuf \notin Value
ASSUME LogsizeAssumption == LOGSIZE \in Nat \ {0} /\ nlog \in Nat \ {0}
ASSUME MaxCrashAssumption == MaxCrash \in Nat

VARIABLES
    disk,     \* the home locations on the disk
    dlog,     \* the log blocks on the disk
    dhead,    \* the header block on the disk: the sectors of a committed transaction
    cache,    \* b->data of the buffer of a sector
    dirty,    \* the sectors whose buffer has B_DIRTY
    lh,       \* log.lh: the sectors written in this transaction
    busy,     \* log.busy
    pc,       \* where commit_trans() or recover_from_log() is; "run" outside
    tail,     \* the loop variable of install_trans()
    crashes   \* how often the machine went down

vars == <<disk, dlog, dhead, cache, dirty, lh, busy, pc, tail, crashes>>

ondisk == <<disk, dlog, dhead>>

NoCache == [s \in Sector |-> NoBuf]

\* The file system made by mkfs, with an empty log, is about to be mounted.
Init ==
    /\ disk \in [Sector -> Value]
    /\ dlog \in [1..nlog - 1 -> Value]
    /\ dhead = <<>>
    /\ cache = NoCache
    /\ dirty = {}
    /\ lh = <<>>
    /\ busy = FALSE
    /\ pc = "read_head"
    /\ tail = 1
    /\ crashes = 0

-------------------------------------------------------------------------------
(* The buffer cache, as the log uses it                                    *)

\* Processes read once forkret() has called initlog().
Mounted == pc = "run" \/ busy

bread(s) ==
    /\ Mounted
    /\ cache[s] = NoBuf
    /\ cache' = [cache EXCEPT ![s] = disk[s]]
    /\ UNCHANGED <<ondisk, dirty, lh, busy, pc, tail, crashes>>

\* "Not cached; recycle some non-busy and clean buffer."
bget_recycle(s) ==
    /\ cache[s] # NoBuf
    /\ s \notin dirty
    /\ cache' = [cache EXCEPT ![s] = NoBuf]
    /\ UNCHANGED <<ondisk, dirty, lh, busy, pc, tail, crashes>>

-------------------------------------------------------------------------------
(* A transaction                                                           *)

begin_trans ==
    /\ pc = "run" /\ ~busy
    /\ busy' = TRUE
    /\ UNCHANGED <<ondisk, cache, dirty, lh, pc, tail, crashes>>

\* "too big a transaction" otherwise, which halts the machine.
Room == Len(lh) < LOGSIZE /\ Len(lh) < nlog - 1

\* Where log_write() puts sector s: over its earlier version, or at the end.
Index(s, i) ==
    \/ i \in 1..Len(lh) /\ lh[i] = s
    \/ i = Len(lh) + 1 /\ \A j \in 1..Len(lh) : lh[j] # s

\* "XXX prevent eviction".  (Mutant: the buffer may be recycled.)
NotPinned(s) == dirty
Pinned(s) == dirty \cup {s}

\* A system call modifies a buffer and calls log_write(), which panics on a
\* full log even if it has the sector already.
log_write(s, v) ==
    /\ pc = "run" /\ busy
    /\ cache[s] # NoBuf
    /\ Room
    /\ \E i \in 1..Len(lh) + 1 :
          /\ Index(s, i)
          /\ dlog' = [dlog EXCEPT ![i] = v]
          /\ lh' = IF i = Len(lh) + 1 THEN Append(lh, s) ELSE lh
    /\ cache' = [cache EXCEPT ![s] = v]
    /\ dirty' = Pinned(s)
    /\ UNCHANGED <<disk, dhead, busy, pc, tail, crashes>>

-------------------------------------------------------------------------------
(* commit_trans() and recover_from_log()                                   *)

\* log.lh.n > 0.
AnyWrites == Len(lh) > 0

commit_trans ==
    /\ pc = "run" /\ busy
    /\ pc' = IF AnyWrites THEN "write_head" ELSE "done"
    /\ UNCHANGED <<ondisk, cache, dirty, lh, busy, tail, crashes>>

\* What write_head() leaves in the header block.  (Mutant: the transaction is
\* installed without being committed first.)
EmptyHeader == <<>>
Header == lh

\* "Write header to disk -- the real commit"
write_head ==
    /\ pc = "write_head"
    /\ dhead' = Header
    /\ tail' = 1
    /\ pc' = "install"
    /\ UNCHANGED <<disk, dlog, cache, dirty, lh, busy, crashes>>

\* One round of the loop of install_trans().
install_trans ==
    /\ pc = "install" /\ tail <= Len(lh)
    /\ disk' = [disk EXCEPT ![lh[tail]] = dlog[tail]]
    /\ cache' = [cache EXCEPT ![lh[tail]] = dlog[tail]]
    /\ dirty' = dirty \ {lh[tail]}
    /\ tail' = tail + 1
    /\ UNCHANGED <<dlog, dhead, lh, busy, pc, crashes>>

\* The loop is over: log.lh.n = 0; write_head().
erase ==
    /\ pc = "install" /\ tail > Len(lh)
    /\ lh' = <<>>
    /\ dhead' = <<>>
    /\ tail' = 1
    /\ pc' = IF busy THEN "done" ELSE "run"
    /\ UNCHANGED <<disk, dlog, cache, dirty, busy, crashes>>

\* Mutant: log.busy is not cleared.
commit_stays_busy ==
    /\ pc = "done"
    /\ pc' = "run"
    /\ UNCHANGED <<ondisk, cache, dirty, lh, busy, tail, crashes>>

\* log.busy = 0; wakeup(&log)
commit_done ==
    /\ pc = "done"
    /\ busy' = FALSE
    /\ pc' = "run"
    /\ UNCHANGED <<ondisk, cache, dirty, lh, tail, crashes>>

read_head ==
    /\ pc = "read_head"
    /\ lh' = dhead
    /\ pc' = "install"
    /\ UNCHANGED <<ondisk, cache, dirty, busy, tail, crashes>>

\* The machine goes down and is started again: memory is lost.
crash ==
    /\ crashes < MaxCrash
    /\ crashes' = crashes + 1
    /\ cache' = NoCache
    /\ dirty' = {}
    /\ lh' = <<>>
    /\ busy' = FALSE
    /\ pc' = "read_head"
    /\ tail' = 1
    /\ UNCHANGED ondisk

-------------------------------------------------------------------------------

Commit == commit_trans \/ write_head \/ install_trans \/ erase \/ commit_done \/ read_head

Next ==
    \/ \E s \in Sector : bread(s) \/ bget_recycle(s)
    \/ begin_trans
    \/ \E s \in Sector, v \in Value : log_write(s, v)
    \/ Commit
    \/ crash

Spec == Init /\ [][Next]_vars

\* A transaction is ended by the system call that began it, and commit and
\* recovery, which wait for nothing but a disk in memory, go on.  A system call
\* writes only so many blocks, so that it cannot put off its commit for ever.
FairSpec == Spec /\ WF_vars(Commit) /\ SF_vars(commit_trans)

-------------------------------------------------------------------------------
(* Properties                                                              *)

TypeOK ==
    /\ disk \in [Sector -> Value]
    /\ dlog \in [1..nlog - 1 -> Value]
    /\ dhead \in Seq(Sector) /\ Len(dhead) <= LOGSIZE /\ Len(dhead) <= nlog - 1
    /\ cache \in [Sector -> Value \cup {NoBuf}]
    /\ dirty \in SUBSET Sector
    /\ lh \in Seq(Sector) /\ Len(lh) <= LOGSIZE /\ Len(lh) <= nlog - 1
    /\ busy \in BOOLEAN
    /\ pc \in {"run", "write_head", "install", "done", "read_head"}
    /\ tail \in 1..LOGSIZE + 1
    /\ crashes \in Nat

\* The contents of the disk once the transaction in the header is installed.
Recovered ==
    [s \in Sector |->
        IF \E i \in 1..Len(dhead) : dhead[i] = s
        THEN dlog[CHOOSE i \in 1..Len(dhead) : dhead[i] = s]
        ELSE disk[s]]

\* What a process that reads a block gets.
View == [s \in Sector |-> IF cache[s] # NoBuf THEN cache[s] ELSE Recovered[s]]

\* The promise of the log: a transaction takes effect in a single step, when
\* its header is written, whatever the number of blocks and wherever a crash
\* falls, in the installation or in the recovery from an earlier crash; until
\* then and afterwards every reader sees its writes, although buffers come and
\* go; a crash loses exactly the writes of the transaction in progress.
Disk == INSTANCE AtomicDisk WITH store <- Recovered, view <- View
ImplementsAtomicDisk == Disk!Spec

\* A buffer that may be recycled has what the disk has; the buffers that may
\* not are those of the transaction that are not installed yet.
CacheCoherent ==
    /\ \A s \in Sector \ dirty : cache[s] \in {NoBuf, disk[s]}
    /\ \A s \in dirty : \E i \in 1..Len(lh) : lh[i] = s /\ cache[s] = dlog[i]

\* Between transactions nothing is left in the log, in memory or on the disk.
LogEmptyBetween ==
    pc = "run" /\ ~busy => lh = <<>> /\ dhead = <<>> /\ dirty = {}

\* A transaction that was begun ends, and the machine comes up after a crash.
TransactionsEnd == busy \/ pc # "run" ~> ~busy /\ pc = "run"

-------------------------------------------------------------------------------
(* The inductive invariant behind them                                     *)

\* No sector is twice in the log.
Distinct ==
    /\ \A i, j \in 1..Len(lh) : lh[i] = lh[j] => i = j
    /\ \A i, j \in 1..Len(dhead) : dhead[i] = dhead[j] => i = j

\* What the header block and log.lh have to do with each other.
Phases ==
    /\ pc \in {"run", "write_head", "done"} => dhead = <<>>
    /\ pc = "install" => dhead = lh
    /\ pc \in {"done", "read_head"} \/ (pc = "run" /\ ~busy) => lh = <<>>
    /\ pc \in {"write_head", "done"} => busy
    /\ pc = "read_head" => ~busy /\ cache = NoCache /\ tail = 1

\* The part of the log that is not installed.
Pending(i) == pc = "install" => i >= tail

\* While a transaction is open or being installed its blocks are pinned in the
\* cache; while a committed one is being recovered they are not in the cache.
Buffers ==
    /\ \A i \in 1..Len(lh) :
           IF Pending(i)
           THEN IF busy THEN lh[i] \in dirty /\ cache[lh[i]] = dlog[i]
                        ELSE cache[lh[i]] = NoBuf
           ELSE disk[lh[i]] = dlog[i]
    /\ \A s \in dirty : busy /\ \E i \in 1..Len(lh) : Pending(i) /\ lh[i] = s
    /\ \A s \in Sector \ dirty : cache[s] \in {NoBuf, disk[s]}

IInv == TypeOK /\ Distinct /\ Phases /\ Buffers
===============================================================================
