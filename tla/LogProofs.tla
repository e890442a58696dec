------------------------------- MODULE LogProofs -------------------------------
(***************************************************************************)
(* Proofs about Log, for any number of blocks and crashes and any size of  *)
(* the log.  One lemma for each action shows that it preserves the         *)
(* inductive invariant IInv; the refinement of AtomicDisk rests on it.     *)
(***************************************************************************)
EXTENDS Log, TLAPS

\* bread() fills a buffer from the disk once the log is recovered.
LEMMA Inv_bread ==
  ASSUME IInv, NEW s \in Sector, bread(s)
  PROVE  IInv'
<1> USE NoBufAssumption, LogsizeAssumption DEF IInv, bread, Mounted, ondisk
<1>1. TypeOK'
  BY DEF TypeOK
<1>2. Distinct'
  BY DEF TypeOK, Distinct, Phases
<1>3. Phases'
  BY DEF TypeOK, Phases, Buffers
<1>4. Buffers'
  BY DEF TypeOK, Distinct, Phases, Buffers, Pending
<1>. QED BY <1>1, <1>2, <1>3, <1>4

\* bget() recycles a clean buffer.
LEMMA Inv_bget_recycle ==
  ASSUME IInv, NEW s \in Sector, bget_recycle(s)
  PROVE  IInv'
<1> USE NoBufAssumption, LogsizeAssumption DEF IInv, bget_recycle, ondisk
<1>1. TypeOK'
  BY DEF TypeOK
<1>2. Distinct'
  BY DEF TypeOK, Distinct, Phases
<1>3. Phases'
  BY DEF TypeOK, Phases, NoCache
<1>4. Buffers'
  BY DEF TypeOK, Distinct, Phases, Buffers, Pending
<1>. QED BY <1>1, <1>2, <1>3, <1>4

\* begin_trans() sets log.busy.
LEMMA Inv_begin_trans ==
  ASSUME IInv, begin_trans
  PROVE  IInv'
<1> USE NoBufAssumption, LogsizeAssumption DEF IInv, begin_trans, ondisk
<1>1. TypeOK'
  BY DEF TypeOK
<1>2. Distinct'
  BY DEF TypeOK, Distinct, Phases
<1>3. Phases'
  BY DEF TypeOK, Phases, Buffers
<1>4. Buffers'
  BY DEF TypeOK, Distinct, Phases, Buffers, Pending
<1>. QED BY <1>1, <1>2, <1>3, <1>4

\* log_write() copies the buffer into the log and pins it.
LEMMA Inv_log_write ==
  ASSUME IInv, NEW s \in Sector, NEW v \in Value, log_write(s, v)
  PROVE  IInv'
<1> USE NoBufAssumption, LogsizeAssumption DEF IInv, log_write, Room, Index, Pinned, ondisk
<1>1. TypeOK'
  BY DEF TypeOK
<1>2. Distinct'
  BY DEF TypeOK, Distinct, Phases
<1>3. Phases'
  BY DEF TypeOK, Phases, Buffers
<1>4. Buffers'
  BY DEF TypeOK, Distinct, Phases, Buffers, Pending
<1>. QED BY <1>1, <1>2, <1>3, <1>4

\* commit_trans() starts.
LEMMA Inv_commit_trans ==
  ASSUME IInv, commit_trans
  PROVE  IInv'
<1> USE NoBufAssumption, LogsizeAssumption DEF IInv, commit_trans, AnyWrites, ondisk
<1>1. TypeOK'
  BY DEF TypeOK
<1>2. Distinct'
  BY DEF TypeOK, Distinct, Phases
<1>3. Phases'
  BY DEF TypeOK, Phases, Buffers
<1>4. Buffers'
  BY DEF TypeOK, Distinct, Phases, Buffers, Pending
<1>. QED BY <1>1, <1>2, <1>3, <1>4

\* write_head() commits.
LEMMA Inv_write_head ==
  ASSUME IInv, write_head
  PROVE  IInv'
<1> USE NoBufAssumption, LogsizeAssumption DEF IInv, write_head, Header, ondisk
<1>1. TypeOK'
  BY DEF TypeOK
<1>2. Distinct'
  BY DEF TypeOK, Distinct, Phases
<1>3. Phases'
  BY DEF TypeOK, Phases, Buffers
<1>4. Buffers'
  BY DEF TypeOK, Distinct, Phases, Buffers, Pending
<1>. QED BY <1>1, <1>2, <1>3, <1>4

\* install_trans() copies one block home.
LEMMA Inv_install_trans ==
  ASSUME IInv, install_trans
  PROVE  IInv'
<1> USE NoBufAssumption, LogsizeAssumption DEF IInv, install_trans, ondisk
<1>1. TypeOK'
  BY DEF TypeOK
<1>2. Distinct'
  BY DEF TypeOK, Distinct, Phases
<1>3. Phases'
  BY DEF TypeOK, Phases, Buffers
<1>4. Buffers'
  BY DEF TypeOK, Distinct, Phases, Buffers, Pending
<1>. QED BY <1>1, <1>2, <1>3, <1>4

\* The log is erased once every block is home.
LEMMA Inv_erase ==
  ASSUME IInv, erase
  PROVE  IInv'
<1> USE NoBufAssumption, LogsizeAssumption DEF IInv, erase, ondisk
<1>1. TypeOK'
  BY DEF TypeOK
<1>2. Distinct'
  BY DEF TypeOK, Distinct, Phases
<1>3. Phases'
  BY DEF TypeOK, Phases, Buffers
<1>4. Buffers'
  BY DEF TypeOK, Distinct, Phases, Buffers, Pending
<1>. QED BY <1>1, <1>2, <1>3, <1>4

\* commit_trans() clears log.busy.
LEMMA Inv_commit_done ==
  ASSUME IInv, commit_done
  PROVE  IInv'
<1> USE NoBufAssumption, LogsizeAssumption DEF IInv, commit_done, ondisk
<1>1. TypeOK'
  BY DEF TypeOK
<1>2. Distinct'
  BY DEF TypeOK, Distinct, Phases
<1>3. Phases'
  BY DEF TypeOK, Phases, Buffers
<1>4. Buffers'
  BY DEF TypeOK, Distinct, Phases, Buffers, Pending
<1>. QED BY <1>1, <1>2, <1>3, <1>4

\* read_head() finds what is committed.
LEMMA Inv_read_head ==
  ASSUME IInv, read_head
  PROVE  IInv'
<1> USE NoBufAssumption, LogsizeAssumption DEF IInv, read_head, ondisk
<1>1. TypeOK'
  BY DEF TypeOK
<1>2. Distinct'
  BY DEF TypeOK, Distinct, Phases
<1>3. Phases'
  BY DEF TypeOK, Phases, Buffers
<1>4. Buffers'
  BY DEF TypeOK, Phases, Buffers, Pending, NoCache
<1>. QED BY <1>1, <1>2, <1>3, <1>4

\* A crash loses the memory and nothing else.
LEMMA Inv_crash ==
  ASSUME IInv, crash
  PROVE  IInv'
<1> USE NoBufAssumption, LogsizeAssumption DEF IInv, crash, NoCache, ondisk
<1>1. TypeOK'
  <2>1. cache' \in [Sector -> Value \cup {NoBuf}] /\ dirty' \in SUBSET Sector
    OBVIOUS
  <2>2. lh' \in Seq(Sector) /\ Len(lh') <= LOGSIZE /\ Len(lh') <= nlog - 1 /\ tail' \in 1..LOGSIZE + 1
    OBVIOUS
  <2>3. busy' \in BOOLEAN
    BY Zenon
  <2>4. crashes' \in Nat
    BY DEF TypeOK
  <2>. QED BY <2>1, <2>2, <2>3, <2>4 DEF TypeOK
<1>2. Distinct'
  BY DEF TypeOK, Distinct, Phases
<1>3. Phases'
  BY DEF TypeOK, Phases, Buffers
<1>4. Buffers'
  BY DEF TypeOK, Distinct, Phases, Buffers, Pending
<1>. QED BY <1>1, <1>2, <1>3, <1>4

\* The file system that mkfs made satisfies the invariant.
LEMMA InitInv == Init => IInv
<1> SUFFICES ASSUME Init PROVE IInv
  OBVIOUS
<1> USE NoBufAssumption, LogsizeAssumption DEF Init, NoCache
<1>1. cache \in [Sector -> Value \cup {NoBuf}]
  OBVIOUS
<1>2. TypeOK
  <2>1. /\ dhead \in Seq(Sector) /\ Len(dhead) <= LOGSIZE
        /\ Len(dhead) <= nlog - 1 /\ Len(lh) <= nlog - 1
        /\ lh \in Seq(Sector) /\ Len(lh) <= LOGSIZE /\ tail \in 1..LOGSIZE + 1
    OBVIOUS
  <2>2. dirty \in SUBSET Sector /\ busy \in BOOLEAN /\ crashes \in Nat
    OBVIOUS
  <2>. QED BY <1>1, <2>1, <2>2 DEF TypeOK
<1>3. Distinct /\ Phases
  BY DEF Distinct, Phases
<1>4. Buffers
  BY DEF Buffers
<1>. QED BY <1>2, <1>3, <1>4 DEF IInv

\* Every step preserves it.
LEMMA NextInv == IInv /\ [Next]_vars => IInv'
<1> SUFFICES ASSUME IInv, [Next]_vars PROVE IInv'
  OBVIOUS
<1>1. CASE UNCHANGED vars
  BY <1>1 DEF vars, IInv, TypeOK, Distinct, Phases, Buffers, Pending
<1>. QED BY <1>1, Inv_bread, Inv_bget_recycle, Inv_begin_trans, Inv_log_write, Inv_commit_trans,
            Inv_write_head, Inv_install_trans, Inv_erase, Inv_commit_done, Inv_read_head,
            Inv_crash DEF Next, Commit

\* The inductive invariant of log.c holds whatever the crashes.
THEOREM Invariance == Spec => []IInv
BY InitInv, NextInv, PTL DEF Spec

\* Every variable keeps its type; neither copy of the header outgrows the log or
\* what mkfs has set aside for it.
THEOREM TypeCorrect == Spec => []TypeOK
<1>1. IInv => TypeOK
  BY DEF IInv
<1>. QED BY <1>1, Invariance, PTL

\* Only buffers that agree with the disk can be recycled.
THEOREM CacheIsCoherent == Spec => []CacheCoherent
<1>1. IInv => CacheCoherent
  BY DEF IInv, TypeOK, Buffers, CacheCoherent
<1>. QED BY <1>1, Invariance, PTL

\* A transaction leaves nothing behind in the log.
THEOREM LogIsErased == Spec => []LogEmptyBetween
<1>1. IInv => LogEmptyBetween
  BY DEF IInv, TypeOK, Phases, Buffers, LogEmptyBetween
<1>. QED BY <1>1, Invariance, PTL

-------------------------------------------------------------------------------

\* What recovery would make of a block.
LEMMA RecoveredBlocks ==
  ASSUME IInv
  PROVE  /\ \A i \in 1..Len(dhead) : Recovered[dhead[i]] = dlog[i]
         /\ \A s \in Sector :
               (\A i \in 1..Len(dhead) : dhead[i] # s) => Recovered[s] = disk[s]
<1>1. ASSUME NEW i \in 1..Len(dhead) PROVE Recovered[dhead[i]] = dlog[i]
  <2>1. dhead[i] \in Sector
    BY DEF IInv, TypeOK
  <2>2. (CHOOSE j \in 1..Len(dhead) : dhead[j] = dhead[i]) = i
    BY DEF IInv, Distinct
  <2>. QED BY <2>1, <2>2 DEF Recovered
<1>. QED BY <1>1 DEF Recovered

\* A step that changes neither the disk nor the header changes nothing that a
\* crash would leave behind.
LEMMA RecoveredSame ==
  ASSUME UNCHANGED <<disk, dlog, dhead>>
  PROVE  Recovered' = Recovered
BY DEF Recovered

\* Outside a commit the disk is what a crash leaves behind.
LEMMA RecoveredIdle ==
  ASSUME IInv, dhead = <<>>
  PROVE  Recovered = disk
<1>1. \A s \in Sector : Recovered[s] = disk[s]
  BY DEF Recovered
<1>. QED BY <1>1 DEF Recovered, IInv, TypeOK

\* bread() and bget() change what is cached and not what is read.
LEMMA Sim_cache ==
  ASSUME IInv, NEW s \in Sector, bread(s) \/ bget_recycle(s)
  PROVE  UNCHANGED <<Recovered, View>>
<1>1. Recovered' = Recovered
  BY RecoveredSame DEF bread, bget_recycle, ondisk
<1>2. ASSUME bread(s) PROVE Recovered[s] = disk[s]
  <2>1. CASE dhead = <<>>
    BY <2>1 DEF Recovered
  <2>2. CASE dhead # <<>>
    <3>1. pc = "install" /\ busy /\ dhead = lh
      BY <1>2, <2>2 DEF bread, Mounted, IInv, TypeOK, Phases
    <3>2. ASSUME NEW i \in 1..Len(lh), lh[i] = s PROVE disk[s] = dlog[i]
      <4>1. dlog[i] \in Value /\ cache[s] = NoBuf
        BY <1>2, LogsizeAssumption DEF bread, IInv, TypeOK
      <4>2. ~Pending(i)
        BY <3>1, <3>2, <4>1, NoBufAssumption DEF IInv, Buffers
      <4>. QED BY <3>2, <4>2 DEF IInv, Buffers
    <3>. QED BY <3>1, <3>2, RecoveredBlocks
  <2>. QED BY <2>1, <2>2
<1>3. ASSUME bget_recycle(s) PROVE Recovered[s] = disk[s] /\ cache[s] = disk[s]
  <2>1. s \notin dirty /\ cache[s] = disk[s]
    BY <1>3 DEF bget_recycle, IInv, Buffers
  <2>2. \A i \in 1..Len(dhead) : dhead[i] = s => disk[s] = dlog[i]
    BY <1>3, <2>1 DEF bget_recycle, IInv, TypeOK, Phases, Buffers, Pending, NoCache
  <2>. QED BY <2>1, <2>2, RecoveredBlocks
<1>4. ASSUME NEW t \in Sector PROVE View'[t] = View[t]
  <2>1. CASE bread(s)
    BY <1>1, <1>2, <2>1, NoBufAssumption DEF bread, View, IInv, TypeOK
  <2>2. CASE bget_recycle(s)
    BY <1>1, <1>3, <2>2, NoBufAssumption DEF bget_recycle, View, IInv, TypeOK
  <2>. QED BY <2>1, <2>2
<1>. QED BY <1>1, <1>4 DEF View

\* log_write() changes what is read and not what a crash leaves behind: the
\* header is empty.
LEMMA Sim_log_write ==
  ASSUME IInv, NEW s \in Sector, NEW v \in Value, log_write(s, v)
  PROVE  Disk!log_write(s, v)
<1>1. dhead = <<>> /\ dhead' = <<>> /\ disk' = disk
  BY DEF log_write, IInv, Phases
<1>2. Recovered' = Recovered
  BY <1>1 DEF Recovered
<1>3. View' = [View EXCEPT ![s] = v]
  <2>1. \A t \in Sector : View'[t] = IF t = s THEN v ELSE View[t]
    BY <1>2, NoBufAssumption DEF log_write, View, IInv, TypeOK
  <2>. QED BY <2>1 DEF View
<1>. QED BY <1>2, <1>3 DEF Disk!log_write

\* write_head() makes the transaction what a crash leaves behind.
LEMMA Sim_write_head ==
  ASSUME IInv, IInv', write_head
  PROVE  Disk!commit
<1>1. dhead = <<>> /\ dhead' = lh /\ UNCHANGED <<disk, dlog, cache>> /\ busy
  BY DEF write_head, Header, IInv, Phases
<1>2. Recovered = disk
  BY <1>1, RecoveredIdle
<1>3. ASSUME NEW s \in Sector PROVE Recovered'[s] = View[s] /\ View'[s] = View[s]
  <2>1. CASE \E i \in 1..Len(lh) : lh[i] = s
    <3>1. PICK i \in 1..Len(lh) : lh[i] = s
      BY <2>1
    <3>2. cache[s] = dlog[i] /\ dlog[i] # NoBuf
      <4>1. dlog[i] \in Value
        BY LogsizeAssumption DEF IInv, TypeOK
      <4>2. Pending(i)
        BY DEF write_head, Pending
      <4>. QED BY <1>1, <3>1, <4>1, <4>2, NoBufAssumption DEF IInv, Buffers
    <3>3. (CHOOSE j \in 1..Len(lh) : lh[j] = s) = i
      BY <3>1 DEF IInv, Distinct
    <3>4. Recovered'[s] = dlog[i]
      BY <1>1, <2>1, <3>3 DEF Recovered
    <3>. QED BY <1>1, <3>2, <3>4 DEF View
  <2>2. CASE \A i \in 1..Len(lh) : lh[i] # s
    <3>1. Recovered'[s] = disk[s]
      BY <1>1, <2>2 DEF Recovered
    <3>2. cache[s] \in {NoBuf, disk[s]}
      BY <2>2 DEF IInv, Buffers
    <3>. QED BY <1>1, <1>2, <3>1, <3>2 DEF View
  <2>. QED BY <2>1, <2>2
<1>4. Recovered' = View /\ View' = View
  BY <1>3 DEF Recovered, View
<1>. QED BY <1>4 DEF Disk!commit

\* install_trans() moves a block that recovery would move, too.
LEMMA Sim_install ==
  ASSUME IInv, install_trans
  PROVE  UNCHANGED <<Recovered, View>>
<1>1. /\ dhead = lh /\ tail \in 1..Len(lh) /\ lh[tail] \in Sector
      /\ dlog[tail] \in Value
  BY LogsizeAssumption DEF install_trans, IInv, TypeOK, Phases
<1>2. Recovered[lh[tail]] = dlog[tail]
  BY <1>1, RecoveredBlocks
<1>3. \A s \in Sector \ {lh[tail]} : disk'[s] = disk[s] /\ cache'[s] = cache[s]
  BY <1>1 DEF install_trans, IInv, TypeOK
<1>4. UNCHANGED <<dhead, dlog>>
  BY DEF install_trans
<1>5. Recovered' = Recovered
  <2>1. ASSUME NEW s \in Sector PROVE Recovered'[s] = Recovered[s]
    BY <1>1, <1>3, <1>4 DEF Recovered
  <2>. QED BY <2>1 DEF Recovered
<1>6. View[lh[tail]] = dlog[tail] /\ View'[lh[tail]] = dlog[tail]
  <2>1. cache[lh[tail]] \in {NoBuf, dlog[tail]}
    BY <1>1 DEF install_trans, IInv, TypeOK, Buffers, Pending
  <2>2. cache'[lh[tail]] = dlog[tail]
    BY <1>1 DEF install_trans, IInv, TypeOK
  <2>. QED BY <1>1, <1>2, <1>5, <2>1, <2>2, NoBufAssumption DEF View
<1>7. \A s \in Sector : View'[s] = View[s]
  BY <1>3, <1>5, <1>6 DEF View
<1>. QED BY <1>5, <1>7 DEF View

\* The log is erased when everything is home.
LEMMA Sim_erase ==
  ASSUME IInv, IInv', erase
  PROVE  UNCHANGED <<Recovered, View>>
<1>1. dhead = lh /\ dhead' = <<>> /\ UNCHANGED <<disk, dlog, cache>>
  BY DEF erase, IInv, Phases
<1>2. \A i \in 1..Len(dhead) : disk[dhead[i]] = dlog[i]
  BY <1>1 DEF erase, IInv, TypeOK, Buffers, Pending
<1>3. \A s \in Sector : Recovered[s] = disk[s]
  BY <1>2, RecoveredBlocks
<1>4. \A s \in Sector : Recovered'[s] = disk[s]
  BY <1>1 DEF Recovered
<1>5. /\ Recovered = [s \in Sector |-> Recovered[s]]
      /\ Recovered' = [s \in Sector |-> Recovered'[s]]
  BY DEF Recovered
<1>6. Recovered' = Recovered
  BY <1>3, <1>4, <1>5
<1>. QED BY <1>1, <1>6 DEF View

\* Without its memory the machine is left with what is committed.
LEMMA Sim_crash ==
  ASSUME IInv, crash
  PROVE  Disk!crash
<1>1. Recovered' = Recovered
  BY RecoveredSame DEF crash, ondisk
<1>2. \A s \in Sector : View'[s] = Recovered[s]
  BY <1>1 DEF View, crash, NoCache
<1>3. View' = Recovered
  BY <1>2 DEF View, Recovered
<1>. QED BY <1>1, <1>3 DEF Disk!crash

\* Every step is a step of AtomicDisk or changes nothing there.
LEMMA StepSimulation ==
  ASSUME IInv, IInv', [Next]_vars
  PROVE  [Disk!Next]_<<Recovered, View>>
<1>1. ASSUME UNCHANGED <<disk, dlog, dhead, cache>> PROVE UNCHANGED <<Recovered, View>>
  BY <1>1, RecoveredSame DEF View
<1>2. ASSUME begin_trans \/ commit_trans \/ commit_done \/ read_head \/ UNCHANGED vars
      PROVE  UNCHANGED <<disk, dlog, dhead, cache>>
  BY <1>2 DEF begin_trans, commit_trans, commit_done, read_head, ondisk, vars
<1>3. ASSUME \E s \in Sector : bread(s) \/ bget_recycle(s)
      PROVE  UNCHANGED <<Recovered, View>>
  BY <1>3, Sim_cache
<1>4. ASSUME \E s \in Sector, v \in Value : log_write(s, v) PROVE Disk!Next
  BY <1>4, Sim_log_write DEF Disk!Next
<1>5. ASSUME write_head \/ crash PROVE Disk!Next
  BY <1>5, Sim_write_head, Sim_crash DEF Disk!Next
<1>6. ASSUME install_trans \/ erase PROVE UNCHANGED <<Recovered, View>>
  BY <1>6, Sim_install, Sim_erase
<1>. QED BY <1>1, <1>2, <1>3, <1>4, <1>5, <1>6 DEF Next, Commit

\* Initially everything that is read is on the disk.
LEMMA InitSimulation == Init => Disk!Init
<1> SUFFICES ASSUME Init PROVE Disk!Init
  OBVIOUS
<1>1. \A s \in Sector : Recovered[s] = disk[s]
  BY DEF Init, Recovered
<1>2. Recovered = disk
  BY <1>1 DEF Init, Recovered
<1>3. \A s \in Sector : View[s] = Recovered[s]
  BY DEF Init, View, NoCache
<1>4. View = Recovered
  BY <1>3 DEF View, Recovered
<1>. QED BY <1>2, <1>4 DEF Disk!Init, Init

\* The log implements the atomic disk: for any number of blocks, any size of the
\* log and any number of crashes at any point of commit and of recovery.
THEOREM Refinement == Spec => ImplementsAtomicDisk
<1>. QED BY InitSimulation, Invariance, StepSimulation, PTL
         DEF Spec, ImplementsAtomicDisk, Disk!Spec
===============================================================================
