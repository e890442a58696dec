--------------------------------- MODULE Pipe ---------------------------------
(***************************************************************************)
(* A pipe (source/pipe.c): pipewrite, piperead and pipeclose by processes  *)
(* that share its ends.  p->lock is an AtomicLock; sleep(ch, &p->lock)     *)
(* releases it and goes to sleep in one step, which is what module         *)
(* SleepLock shows of it.  Readers sleep on &p->nread, writers on          *)
(* &p->nwrite.  nread and nwrite are unsigned and wrap around.             *)
(***************************************************************************)
EXTENDS Naturals, FiniteSets

CONSTANTS Reader, Writer,  \* the processes that have the read end, the write end
          Nobody,          \* p->lock is free
          Byte,
          PIPESIZE,
          UintMod,         \* 2^32: where unsigned integers wrap around
          MaxCount         \* bound: the longest read() or write()

Process == Reader \cup Writer

ASSUME EndsAssumption == Reader \cap Writer = {} /\ Nobody \notin Process
ASSUME SizeAssumption ==
    /\ PIPESIZE \in Nat \ {0} /\ UintMod \in Nat /\ MaxCount \in Nat
    /\ UintMod > PIPESIZE /\ UintMod % PIPESIZE = 0

VARIABLES
    data, nread, nwrite, readopen, writeopen,  \* struct pipe
    lock,    \* the process that has p->lock, or Nobody
    addr,    \* the byte that a reader was given last
    killed,  \* the readers that have been killed
    pc,      \* where the process is; "user" outside, "closed" without the fd
    left     \* n - i in its call

pipe == <<data, nread, nwrite, readopen, writeopen>>
vars == <<data, nread, nwrite, readopen, writeopen, addr, lock, killed, pc, left>>

\* pipealloc() and the sharing of the two ends by fork() are past.
Init ==
    /\ data \in [0..PIPESIZE - 1 -> Byte]
    /\ nread = 0 /\ nwrite = 0
    /\ addr \in [Reader -> Byte]
    /\ readopen = TRUE /\ writeopen = TRUE
    /\ lock = Nobody
    /\ killed = {}
    /\ pc = [p \in Process |-> "user"]
    /\ left = [p \in Process |-> 0]

\* (Mutant: the test is made as if the counters never wrapped.)
FullNoWrap == nwrite = nread + PIPESIZE
Full == nwrite = (nread + PIPESIZE) % UintMod
Empty == nread = nwrite
Inc(n) == (n + 1) % UintMod

\* wakeup(): the sleepers of one end will try to get p->lock again.  (Mutant:
\* only one of them is woken.)
WakeOne(End) ==
    LET asleep == {p \in End : pc[p] = "asleep"}
        one == CHOOSE p \in Process : asleep # {} => p \in asleep
    IN  [p \in Process |-> IF p \in asleep /\ p = one THEN "relock" ELSE pc[p]]
Wake(End) == [p \in Process |-> IF p \in End /\ pc[p] = "asleep" THEN "relock" ELSE pc[p]]

\* read(fd, addr, n) and write(fd, addr, n); sleep() takes p->lock again.
call(p, n) ==
    /\ pc[p] = "user" /\ lock = Nobody
    /\ lock' = p
    /\ left' = [left EXCEPT ![p] = n]
    /\ pc' = [pc EXCEPT ![p] = IF p \in Reader THEN "read" ELSE "write"]
    /\ UNCHANGED <<pipe, addr, killed>>

relock(p) ==
    /\ pc[p] = "relock" /\ lock = Nobody
    /\ lock' = p
    /\ pc' = [pc EXCEPT ![p] = IF p \in Reader THEN "read" ELSE "write"]
    /\ UNCHANGED <<pipe, addr, killed, left>>

-------------------------------------------------------------------------------
(* pipewrite()                                                             *)

write_byte(p, b) ==
    /\ pc[p] = "write" /\ left[p] > 0
    /\ ~Full
    /\ data' = [data EXCEPT ![nwrite % PIPESIZE] = b]
    /\ nwrite' = Inc(nwrite)
    /\ left' = [left EXCEPT ![p] = @ - 1]
    /\ UNCHANGED <<nread, readopen, writeopen, addr, lock, killed, pc>>

\* The pipe is full: the call fails when nobody can read any more, and sleeps
\* otherwise, whether the process is killed or not.
write_full(p) ==
    /\ pc[p] = "write" /\ left[p] > 0
    /\ Full
    /\ \/ /\ ~readopen
          /\ pc' = [pc EXCEPT ![p] = "user"]
          /\ left' = [left EXCEPT ![p] = 0]
       \/ /\ readopen
          /\ pc' = [Wake(Reader) EXCEPT ![p] = "asleep"]
          /\ UNCHANGED left
    /\ lock' = Nobody
    /\ UNCHANGED <<pipe, addr, killed>>

write_done(p) ==
    /\ pc[p] = "write" /\ left[p] = 0
    /\ pc' = [Wake(Reader) EXCEPT ![p] = "user"]
    /\ lock' = Nobody
    /\ UNCHANGED <<pipe, addr, killed, left>>

-------------------------------------------------------------------------------
(* piperead()                                                              *)

\* The loop at its head.
read_empty(p) ==
    /\ pc[p] = "read"
    /\ Empty /\ writeopen
    /\ \/ /\ p \in killed
          /\ pc' = [pc EXCEPT ![p] = "user"]
          /\ left' = [left EXCEPT ![p] = 0]
       \/ /\ p \notin killed
          /\ pc' = [pc EXCEPT ![p] = "asleep"]
          /\ UNCHANGED left
    /\ lock' = Nobody
    /\ UNCHANGED <<pipe, addr, killed>>

read_start(p) ==
    /\ pc[p] = "read"
    /\ ~(Empty /\ writeopen)
    /\ pc' = [pc EXCEPT ![p] = "copy"]
    /\ UNCHANGED <<pipe, addr, lock, killed, left>>

read_byte(p) ==
    /\ pc[p] = "copy" /\ left[p] > 0
    /\ ~Empty
    /\ addr' = [addr EXCEPT ![p] = data[nread % PIPESIZE]]
    /\ nread' = Inc(nread)
    /\ left' = [left EXCEPT ![p] = @ - 1]
    /\ UNCHANGED <<data, nwrite, readopen, writeopen, lock, killed, pc>>

read_done(p) ==
    /\ pc[p] = "copy"
    /\ left[p] = 0 \/ Empty
    /\ pc' = [Wake(Writer) EXCEPT ![p] = "user"]
    /\ left' = [left EXCEPT ![p] = 0]
    /\ lock' = Nobody
    /\ UNCHANGED <<pipe, addr, killed>>

-------------------------------------------------------------------------------

\* The last process to close an end calls pipeclose().  (Mutant: it wakes nobody.)
CloseQuietly(End) == pc
WakeOnClose(End) == Wake(End)

close(p) ==
    /\ pc[p] = "user" /\ lock = Nobody
    /\ LET own == IF p \in Reader THEN Reader ELSE Writer
           other == Process \ own
           last == \A q \in own \ {p} : pc[q] = "closed"
       IN  /\ pc' = [(IF last THEN WakeOnClose(other) ELSE pc) EXCEPT ![p] = "closed"]
           /\ readopen' = (readopen /\ ~(last /\ own = Reader))
           /\ writeopen' = (writeopen /\ ~(last /\ own = Writer))
    /\ UNCHANGED <<data, nread, nwrite, addr, lock, killed, left>>

\* kill() by somebody else.  pipewrite() does not look at the mark, so that only
\* those of readers are kept.
kill(p) ==
    /\ pc[p] # "closed"
    /\ killed' = killed \cup ({p} \cap Reader)
    /\ pc' = [pc EXCEPT ![p] = IF @ = "asleep" THEN "relock" ELSE @]
    /\ UNCHANGED <<pipe, addr, lock, left>>

Locked(p) ==
    \/ (\E b \in Byte : write_byte(p, b)) \/ write_full(p) \/ write_done(p)
    \/ read_empty(p) \/ read_start(p) \/ read_byte(p) \/ read_done(p)

Next ==
    \/ \E p \in Process :
          \/ \E n \in 0..MaxCount : call(p, n)
          \/ relock(p) \/ Locked(p) \/ close(p) \/ kill(p)
    \/ (\E p \in Process : pc[p] = "closed") /\ UNCHANGED vars  \* p does something else

Spec == Init /\ [][Next]_vars

\* Processes go on in the kernel, get p->lock in the end, and close their end
\* at the latest when they exit.
Fairness ==
    \A p \in Process : WF_vars(Locked(p)) /\ SF_vars(relock(p)) /\ SF_vars(close(p))

FairSpec == Spec /\ Fairness

-------------------------------------------------------------------------------
(* Properties                                                              *)

\* The counters stay in a word; a process is at a place that its end of the pipe has.
TypeOK ==
    /\ data \in [0..PIPESIZE - 1 -> Byte]
    /\ nread \in 0..UintMod - 1 /\ nwrite \in 0..UintMod - 1
    /\ addr \in [Reader -> Byte]
    /\ readopen \in BOOLEAN /\ writeopen \in BOOLEAN
    /\ lock \in Process \cup {Nobody}
    /\ killed \subseteq Reader
    /\ pc \in [Process -> {"user", "closed", "write", "read", "copy", "asleep", "relock"}]
    /\ left \in [Process -> 0..MaxCount]

\* The number of bytes in the pipe, and the bytes.
Count == (nwrite + UintMod - nread) % UintMod
Contents == [i \in 1..Count |-> data[(nread + i - 1) % PIPESIZE]]

\* The bytes that readers are given come out in the order they went in, each once,
\* none overwritten and none invented, at any fill level and across the wrap-around
\* of the counters.
Queue == INSTANCE ByteQueue WITH queue <- Contents, given <- addr
ImplementsByteQueue == Queue!Spec

\* No missed wakeup: whenever p->lock is free, a reader sleeps only on an empty
\* pipe that can still be written to, a writer only on a full one that can
\* still be read.
SleepersHaveReason ==
    lock = Nobody =>
        \A p \in Process :
            pc[p] = "asleep" => IF p \in Reader THEN Empty /\ writeopen ELSE Full /\ readopen

\* Nobody sleeps on a pipe for ever, if everyone closes it in the end.
SleepersWake ==
    \A p \in Process : pc[p] = "asleep" ~> pc[p] # "asleep"
===============================================================================
