---------------------------- MODULE SleepLockProofs ----------------------------
(***************************************************************************)
(* Proofs about SleepLock, for any set of processes: no wakeup is lost     *)
(* between the test of the flag and the sleep, and the flag is a lock.     *)
(***************************************************************************)
EXTENDS SleepLock, TLAPS

\* All processes are awake and outside, both spin locks are free.
LEMMA InitInv == Init => IInv
BY NobodyAssumption
   DEF Init, IInv, TypeOK, Labels, Locks, Flag, Sleepers, NoLostWakeup

\* begin_trans() takes the spin lock and reads the flag.
LEMMA Inv_begin ==
  ASSUME IInv, NEW p \in Process, begin_trans(p) \/ test_busy(p)
  PROVE  IInv'
BY NobodyAssumption
   DEF IInv, TypeOK, Labels, Locks, Flag, Sleepers, NoLostWakeup,
       begin_trans, test_busy, Goto, Busy

\* begin_trans() sets the flag that nobody else has set.
LEMMA Inv_test_free ==
  ASSUME IInv, NEW p \in Process, test_free(p)
  PROVE  IInv'
BY NobodyAssumption
   DEF IInv, TypeOK, Labels, Locks, Flag, Sleepers, NoLostWakeup, test_free, Goto, Busy

\* sleep() takes ptable.lock, then releases lk: in between nobody can clear the
\* flag, and afterwards nobody who has cleared it can scan for sleepers.
LEMMA Inv_sleep ==
  ASSUME IInv, NEW p \in Process, sleep(p) \/ sleep_release(p) \/ sleep_sched(p)
  PROVE  IInv'
<1> USE NobodyAssumption DEF IInv, TypeOK, Labels, Locks, Flag, Sleepers, NoLostWakeup, Goto
<1>1. CASE sleep(p)
  BY <1>1 DEF sleep
<1>2. CASE sleep_release(p)
  BY <1>2 DEF sleep_release
<1>3. CASE sleep_sched(p)
  BY <1>3 DEF sleep_sched
<1>. QED BY <1>1, <1>2, <1>3

\* The sleeper goes on and takes lk again.
LEMMA Inv_resume ==
  ASSUME IInv, NEW p \in Process, sleep_resume(p) \/ sleep_relock(p)
  PROVE  IInv'
BY NobodyAssumption
   DEF IInv, TypeOK, Labels, Locks, Flag, Sleepers, NoLostWakeup,
       sleep_resume, sleep_relock, Goto

\* commit_trans() clears the flag, wakes everyone and releases lk.
LEMMA Inv_commit ==
  ASSUME IInv, NEW p \in Process, commit_trans(p) \/ wakeup(p) \/ commit_release(p)
  PROVE  IInv'
<1> USE NobodyAssumption DEF IInv, TypeOK, Labels, Locks, Flag, Sleepers, NoLostWakeup, Goto
<1>1. CASE commit_trans(p)
  BY <1>1 DEF commit_trans
<1>2. CASE wakeup(p)
  BY <1>2 DEF wakeup
<1>3. CASE commit_release(p)
  BY <1>3 DEF commit_release
<1>. QED BY <1>1, <1>2, <1>3

\* kill() only makes a sleeper run earlier.
LEMMA Inv_kill ==
  ASSUME IInv, NEW p \in Process, kill(p)
  PROVE  IInv'
BY NobodyAssumption DEF IInv, TypeOK, Labels, Locks, Flag, Sleepers, NoLostWakeup, kill

\* Every step preserves the invariant.
LEMMA NextInv == IInv /\ [Next]_vars => IInv'
<1> SUFFICES ASSUME IInv, [Next]_vars PROVE IInv'
  OBVIOUS
<1>1. CASE UNCHANGED vars
  BY <1>1 DEF vars, IInv, TypeOK, Locks, Flag, Sleepers, NoLostWakeup
<1>2. ASSUME NEW p \in Process, Step(p) PROVE IInv'
  BY <1>2, Inv_begin, Inv_test_free, Inv_sleep, Inv_resume, Inv_commit DEF Step
<1>. QED BY <1>1, <1>2, Inv_begin, Inv_kill DEF Next

\* The inductive invariant of sleep() and wakeup() around a flag holds in every
\* reachable state.
THEOREM Invariance == Spec => []IInv
BY InitInv, NextInv, PTL DEF Spec

\* sleep() misses no wakeup().
THEOREM WakeupsArrive == Spec => []NoLostWakeup
<1>1. IInv => NoLostWakeup
  BY DEF IInv
<1>. QED BY <1>1, Invariance, PTL

-------------------------------------------------------------------------------

\* A step either leaves the transactions alone, or starts or ends one.
LEMMA StepSimulation ==
  ASSUME IInv, [Next]_vars
  PROVE  [Gate!Next]_([p \in Process |-> IF pc[p] = "trans" THEN {"log"} ELSE {}])
<1> DEFINE h == [p \in Process |-> IF pc[p] = "trans" THEN {"log"} ELSE {}]
<1>1. ASSUME NEW p \in Process, test_free(p) PROVE Gate!acquire(p, "log")
  <2>1. \A q \in Process : pc[q] # "trans"
    BY <1>1 DEF IInv, Flag, test_free, Busy
  <2>2. h' = [h EXCEPT ![p] = @ \cup {"log"}]
    BY <1>1, <2>1 DEF IInv, TypeOK, test_free, Goto
  <2>. QED BY <2>1, <2>2 DEF Gate!acquire
<1>2. ASSUME NEW p \in Process, commit_trans(p) PROVE Gate!release(p, "log")
  <2>1. h' = [h EXCEPT ![p] = @ \ {"log"}]
    BY <1>2 DEF IInv, TypeOK, commit_trans, Goto
  <2>. QED BY <1>2, <2>1 DEF Gate!release, commit_trans, Goto
<1>3. ASSUME NEW p \in Process,
             \/ begin_trans(p) \/ test_busy(p) \/ sleep(p) \/ sleep_release(p)
             \/ sleep_sched(p) \/ sleep_resume(p) \/ sleep_relock(p)
             \/ wakeup(p) \/ commit_release(p) \/ kill(p)
      PROVE  UNCHANGED h
  <2>1. \A q \in Process : pc'[q] = "trans" <=> pc[q] = "trans"
    BY <1>3 DEF IInv, TypeOK, begin_trans, test_busy, sleep, sleep_release, sleep_sched,
                sleep_resume, sleep_relock, wakeup, commit_release, kill, Goto
  <2>. QED BY <2>1
<1>4. CASE UNCHANGED vars
  BY <1>4 DEF vars
<1>. QED BY <1>1, <1>2, <1>3, <1>4 DEF Next, Step, Gate!Next

\* begin_trans() and commit_trans() implement a lock: one system call at a time
\* is in a transaction.
THEOREM Refinement == Spec => ImplementsLock
<1>1. Init => Gate!Init
  BY DEF Init, Gate!Init
<1>. QED BY <1>1, Invariance, StepSimulation, PTL DEF Spec, ImplementsLock, Gate!Spec
===============================================================================
