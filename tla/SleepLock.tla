------------------------------- MODULE SleepLock -------------------------------
(***************************************************************************)
(* A lock that a process may keep across sleeps: a flag that is tested and *)
(* set inside a spin lock lk, and waited for with sleep() and wakeup()     *)
(* (source/proc.c).  The names are those of the flag log.busy, which       *)
(* begin_trans() and commit_trans() set and clear (source/log.c); I_BUSY   *)
(* of an inode is used in the same way by ilock() and iunlock().           *)
(*                                                                         *)
(* The module is about the two locks inside sleep(): ptable.lock is taken  *)
(* before lk is released, so that no wakeup() falls in between.  A process *)
(* that has called sched() has handed ptable.lock to the scheduler, which  *)
(* releases it (module Proc).                                              *)
(***************************************************************************)
EXTENDS Naturals

CONSTANTS Process,  \* the processes that start transactions
          Nobody    \* a spin lock that is free

ASSUME NobodyAssumption == Nobody \notin Process

VARIABLES
    lk,      \* the process that has log.lock, or Nobody
    pt,      \* the process that has ptable.lock, or Nobody
    busy,    \* log.busy
    state,   \* p->state: "SLEEPING" (on &log), or "AWAKE" for any other
    pc       \* where the process is in begin_trans() or commit_trans()

vars == <<lk, pt, busy, state, pc>>

Labels == {"idle", "test", "sleep", "sleep_release", "sleep_sched", "asleep", "relock",
           "trans", "wakeup", "unlock"}

Init ==
    /\ lk = Nobody
    /\ pt = Nobody
    /\ busy = FALSE
    /\ state = [p \in Process |-> "AWAKE"]
    /\ pc = [p \in Process |-> "idle"]

Goto(p, from, to) == pc[p] = from /\ pc' = [pc EXCEPT ![p] = to]

-------------------------------------------------------------------------------
(* begin_trans(), with sleep() inside                                      *)

begin_trans(p) ==
    /\ Goto(p, "idle", "test")
    /\ lk = Nobody
    /\ lk' = p
    /\ UNCHANGED <<pt, busy, state>>

\* The condition of the loop of begin_trans().  (Mutant: no loop.)
NeverBusy == FALSE
Busy == busy

\* The flag is set, or the process goes to sleep.
test_free(p) ==
    /\ Goto(p, "test", "trans")
    /\ ~Busy
    /\ busy' = TRUE
    /\ lk' = Nobody
    /\ UNCHANGED <<pt, state>>

test_busy(p) ==
    /\ Goto(p, "test", "sleep")
    /\ Busy
    /\ UNCHANGED <<lk, pt, busy, state>>

\* Mutant: lk is released without ptable.lock.
sleep_unlocked(p) ==
    /\ Goto(p, "sleep", "sleep_sched")
    /\ lk' = Nobody
    /\ UNCHANGED <<pt, busy, state>>

\* acquire(&ptable.lock)
sleep(p) ==
    /\ Goto(p, "sleep", "sleep_release")
    /\ pt = Nobody
    /\ pt' = p
    /\ UNCHANGED <<lk, busy, state>>

\* release(lk)
sleep_release(p) ==
    /\ Goto(p, "sleep_release", "sleep_sched")
    /\ lk' = Nobody
    /\ UNCHANGED <<pt, busy, state>>

sleep_sched(p) ==
    /\ Goto(p, "sleep_sched", "asleep")
    /\ state' = [state EXCEPT ![p] = "SLEEPING"]
    /\ pt' = Nobody
    /\ UNCHANGED <<lk, busy>>

\* The scheduler has picked the process up again; it releases ptable.lock.
sleep_resume(p) ==
    /\ Goto(p, "asleep", "relock")
    /\ state[p] # "SLEEPING"
    /\ pt = Nobody
    /\ UNCHANGED <<lk, pt, busy, state>>

\* acquire(lk); sleep() returns into the loop.
sleep_relock(p) ==
    /\ Goto(p, "relock", "test")
    /\ lk = Nobody
    /\ lk' = p
    /\ UNCHANGED <<pt, busy, state>>

-------------------------------------------------------------------------------
(* commit_trans(), with wakeup() inside                                    *)

commit_trans(p) ==
    /\ Goto(p, "trans", "wakeup")
    /\ lk = Nobody
    /\ lk' = p
    /\ busy' = FALSE
    /\ UNCHANGED <<pt, state>>

wakeup(p) ==
    /\ Goto(p, "wakeup", "unlock")
    /\ pt = Nobody
    /\ state' = [q \in Process |-> "AWAKE"]
    /\ UNCHANGED <<lk, pt, busy>>

commit_release(p) ==
    /\ Goto(p, "unlock", "idle")
    /\ lk' = Nobody
    /\ UNCHANGED <<pt, busy, state>>

\* kill() makes a sleeper RUNNABLE whatever it sleeps on.
kill(p) ==
    /\ state[p] = "SLEEPING"
    /\ pt = Nobody
    /\ state' = [state EXCEPT ![p] = "AWAKE"]
    /\ UNCHANGED <<lk, pt, busy, pc>>

-------------------------------------------------------------------------------

Step(p) ==
    \/ test_free(p) \/ test_busy(p)
    \/ sleep(p) \/ sleep_release(p) \/ sleep_sched(p) \/ sleep_resume(p) \/ sleep_relock(p)
    \/ commit_trans(p) \/ wakeup(p) \/ commit_release(p)

Next == \E p \in Process : begin_trans(p) \/ Step(p) \/ kill(p)

Spec == Init /\ [][Next]_vars

\* The steps that wait for a spin lock, or to be scheduled.
Waits(p) ==
    sleep(p) \/ sleep_resume(p) \/ sleep_relock(p) \/ commit_trans(p) \/ wakeup(p)

\* Processes go on in the kernel, a transaction ends, and a process that keeps
\* trying gets a spin lock in the end.  Nobody is obliged to start one.
Fairness == \A p \in Process : WF_vars(Step(p)) /\ SF_vars(Waits(p))

FairSpec == Spec /\ Fairness

-------------------------------------------------------------------------------
(* Properties                                                              *)

TypeOK ==
    /\ lk \in Process \cup {Nobody}
    /\ pt \in Process \cup {Nobody}
    /\ busy \in BOOLEAN
    /\ state \in [Process -> {"AWAKE", "SLEEPING"}]
    /\ pc \in [Process -> Labels]

\* "we can be guaranteed that we won't miss any wakeup" (sleep, proc.c): as long
\* as a process is asleep the flag is set, or the process that cleared it is
\* still on its way to waking everyone.
NoLostWakeup ==
    \A p \in Process :
        state[p] = "SLEEPING" => busy \/ \E q \in Process : pc[q] = "wakeup"

\* "begin_trans() ensures that only one system call can be in a transaction;
\* others must wait" (log.c): the flag with its sleepers is a lock.
Gate == INSTANCE AtomicLock WITH
            Context <- Process, Lock <- {"log"},
            held <- [p \in Process |-> IF pc[p] = "trans" THEN {"log"} ELSE {}]
ImplementsLock == Gate!Spec

\* A process that sleeps for a transaction is woken.
SleepersWake ==
    \A p \in Process : pc[p] = "asleep" ~> pc[p] # "asleep"

-------------------------------------------------------------------------------
(* The inductive invariant behind them                                     *)

\* Where a process has the spin locks.
Locks ==
    \A p \in Process :
        /\ lk = p <=> pc[p] \in {"test", "sleep", "sleep_release", "wakeup", "unlock"}
        /\ pt = p <=> pc[p] \in {"sleep_release", "sleep_sched"}

\* The flag is set for exactly one process.
Flag ==
    /\ busy <=> \E p \in Process : pc[p] = "trans"
    /\ \A p, q \in Process : pc[p] = "trans" /\ pc[q] = "trans" => p = q

\* Whoever is asleep or about to be has seen the flag set, and nobody has
\* cleared it since without going on to wake everyone.
Sleepers ==
    \A p \in Process :
        /\ state[p] = "SLEEPING" => pc[p] = "asleep"
        /\ pc[p] \in {"sleep", "sleep_release"} => busy
        /\ pc[p] = "sleep_sched" => busy \/ \E q \in Process : pc[q] = "wakeup"

\* Each of sleep()'s steps keeps what the next one needs.
IInv == TypeOK /\ Locks /\ Flag /\ Sleepers /\ NoLostWakeup
===============================================================================
