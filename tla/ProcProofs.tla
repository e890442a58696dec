------------------------------ MODULE ProcProofs ------------------------------
(***************************************************************************)
(* Proofs about Proc, for every table size, every set of cores and every   *)
(* set of channels and kill() arguments.  The safety properties of Proc    *)
(* follow from its inductive invariant IInv; one lemma for each action     *)
(* shows that the action preserves it, with one step for each conjunct     *)
(* that it can disturb.  Most actions only move processes between          *)
(* SLEEPING, RUNNABLE and RUNNING: what they keep is proved once (Quiet).  *)
(***************************************************************************)
EXTENDS Proc, TLAPS

\* The null pointer is no slot, and init has one.
LEMMA SlotFacts == 0 \notin Slot /\ initproc \in Slot
BY NPROCAssumption DEF Slot, initproc

\* Two forks in progress make two children.
LEMMA OneFork ==
  ASSUME IInv, NEW p \in Slot, NEW q \in Slot
  PROVE  np[p] = np[q] /\ np[p] # 0 => p = q
BY Zenon DEF IInv, Forks

\* What most steps do to the table, at most: processes go from one to another of the states SLEEPING,
\* RUNNABLE and RUNNING, and outside of fork() and exit().
Quiet ==
    /\ UNCHANGED <<parent, np, kstack, pid, nextpid>>
    /\ \A p \in Slot :
           /\ \/ state'[p] = state[p]
              \/ {state[p], state'[p]} \subseteq {"SLEEPING", "RUNNABLE", "RUNNING"}
           /\ \/ pc'[p] = pc[p]
              \/ /\ state[p] # "EMBRYO" /\ ~Forking(p) /\ ~Forking(p)'
                 /\ p = initproc => pc'[p] \notin {"exit", "exit_sched", "exit_resume"}

\* Such a step leaves slots, stacks, pids and the tree as they are.
LEMMA QuietKeeps ==
  ASSUME IInv, Quiet
  PROVE  Forks' /\ Stacks' /\ Pids' /\ Tree'
<1>1. \A p \in Slot : /\ state'[p] = "UNUSED" <=> state[p] = "UNUSED"
                      /\ state'[p] = "EMBRYO" <=> state[p] = "EMBRYO"
                      /\ Live(p)' <=> Live(p)
                      /\ state'[p] \in {"SLEEPING", "RUNNABLE", "RUNNING"}
                           <=> state[p] \in {"SLEEPING", "RUNNABLE", "RUNNING"}
  BY Zenon DEF Quiet, Live
<1>2. \A p \in Slot : /\ Forking(p)' <=> Forking(p)
                      /\ Forking(p) => pc'[p] = pc[p]
                      /\ state[p] = "EMBRYO" => pc'[p] = pc[p]
  BY Zenon DEF Quiet, Forking
<1>3. parent' = parent /\ np' = np /\ kstack' = kstack /\ pid' = pid /\ nextpid' = nextpid
  BY Zenon DEF Quiet
<1>4. Forks'
  <2>1. ASSUME NEW p \in Slot, Forking(p)'
        PROVE  /\ Forking(p) /\ pc'[p] = pc[p] /\ np[p] \in Slot /\ state[np[p]] = "EMBRYO"
               /\ pc'[np[p]] = pc[np[p]]
    BY <1>1, <1>2, <2>1, Zenon DEF IInv, Forks
  <2>2. \A p \in Slot : Forking(p)' => np'[p] \in Slot /\ state'[np'[p]] = "EMBRYO"
    BY <1>1, <1>3, <2>1, Zenon
  <2>3. /\ \A p \in Slot : np'[p] # 0 => Forking(p)'
        /\ \A p, q \in Slot : np'[p] = np'[q] /\ np'[p] # 0 => p = q
        /\ \A q \in Slot : state'[q] = "EMBRYO" => \E p \in Slot : np'[p] = q
    BY <1>1, <1>2, <1>3 DEF IInv, Forks
  <2>4. ASSUME NEW p \in Slot, Forking(p)'
        PROVE  /\ pc'[p] \in {"fork_copy", "fork_run"} => kstack'[np'[p]] /\ pc'[np'[p]] = "forkret"
               /\ pc'[p] = "fork_kstack" => ~kstack'[np'[p]]
    BY <1>3, <2>1, <2>4 DEF IInv, Forks
  <2>5. \A p \in Slot : pc'[p] \in {"fork_kstack", "fork_copy", "fork_run"} => Forking(p)'
    BY Zenon DEF Forking
  <2>. QED BY <2>2, <2>3, <2>4, <2>5, Zenon DEF Forks
<1>5. Stacks'
  BY <1>1, <1>3, Zenon DEF IInv, Stacks
<1>6. Pids'
  BY <1>1, <1>3, Zenon DEF IInv, Pids
<1>7. Tree'
  <2>1. /\ state'[initproc] \in {"SLEEPING", "RUNNABLE", "RUNNING"}
        /\ pc'[initproc] \notin {"exit", "exit_sched", "exit_resume"}
        /\ parent'[initproc] = 0
    BY <1>1, <1>3, SlotFacts, Zenon DEF IInv, Tree, Quiet
  <2>2. ASSUME NEW p \in Slot, parent[p] # 0
        PROVE  /\ parent[p] # p
               /\ state'[parent[p]] \in {"SLEEPING", "RUNNABLE", "RUNNING"}
               /\ Live(p)' \/ (pc'[parent[p]] = "fork_run" /\ np[parent[p]] = p)
    <3>1. parent[p] \in Slot
      BY <2>2, Zenon DEF IInv, TypeOK
    <3>2. /\ parent[p] # p /\ state[parent[p]] \in {"SLEEPING", "RUNNABLE", "RUNNING"}
          /\ Live(p) \/ (pc[parent[p]] = "fork_run" /\ np[parent[p]] = p)
      BY <2>2, Zenon DEF IInv, Tree
    <3>3. pc[parent[p]] = "fork_run" => pc'[parent[p]] = "fork_run"
      BY <1>2, <3>1, Zenon DEF Forking
    <3>. QED BY <1>1, <3>1, <3>2, <3>3, Zenon
  <2>3. \A p \in Slot \ {initproc} : Live(p)' => parent[p] # 0
    BY <1>1, Zenon DEF IInv, Tree
  <2>4. ASSUME NEW p \in Slot, pc'[p] = "fork_run" PROVE parent[np[p]] = p
    <3>1. pc[p] = "fork_run"
      BY <1>2, <2>4, Zenon DEF Forking
    <3>. QED BY <3>1, Zenon DEF IInv, Tree
  <2>. QED BY <1>3, <2>1, <2>2, <2>3, <2>4, Zenon DEF Tree
<1>. QED BY <1>4, <1>5, <1>6, <1>7, Zenon

\* A step in which nobody falls asleep, and a sleeper may only switch to the scheduler.
Dozing ==
    \A p \in Slot : state'[p] = "SLEEPING" =>
        /\ state[p] = "SLEEPING" /\ chan'[p] = chan[p]
        /\ \/ pc'[p] = pc[p]
           \/ pc[p] = "wait_sched" /\ pc'[p] = "wait_resume"
           \/ pc[p] = "sleep_sched" /\ pc'[p] = "sleep_resume"

\* A step in which a process that stays asleep in wait() loses no child, and gets none that has exited.
Kin ==
    \A p, q \in Slot : state'[p] = "SLEEPING" /\ chan[p] = p =>
        /\ parent[q] = p => parent'[q] = p
        /\ parent'[q] = p /\ state'[q] = "ZOMBIE" => parent[q] = p /\ state[q] = "ZOMBIE"

\* Such a step leaves the sleepers as they are.
LEMMA KinSleepers ==
  ASSUME IInv, Dozing, Kin
  PROVE  Sleepers'
<1> SUFFICES ASSUME NEW p \in Slot, state'[p] = "SLEEPING"
             PROVE  \/ /\ pc'[p] \in {"wait_sched", "wait_resume"}
                       /\ chan'[p] = p
                       /\ Children(p)' # {}
                       /\ \A q \in Children(p)' : state'[q] # "ZOMBIE"
                    \/ /\ pc'[p] \in {"sleep_sched", "sleep_resume"}
                       /\ chan'[p] \in OtherChan
  BY Zenon DEF Sleepers
<1>1. /\ state[p] = "SLEEPING" /\ chan'[p] = chan[p]
      /\ \/ pc'[p] = pc[p]
         \/ pc[p] = "wait_sched" /\ pc'[p] = "wait_resume"
         \/ pc[p] = "sleep_sched" /\ pc'[p] = "sleep_resume"
  BY Zenon DEF Dozing
<1>2. CASE pc[p] \in {"wait_sched", "wait_resume"} /\ chan[p] = p /\ Children(p) # {}
           /\ \A q \in Children(p) : state[q] # "ZOMBIE"
  BY <1>1, <1>2, Zenon DEF Kin, Children
<1>3. CASE pc[p] \in {"sleep_sched", "sleep_resume"} /\ chan[p] \in OtherChan
  BY <1>1, <1>3, Zenon
<1>. QED BY <1>1, <1>2, <1>3, Zenon DEF IInv, Sleepers

LEMMA QuietSleepers ==
  ASSUME IInv, Quiet, Dozing
  PROVE  Sleepers'
<1>1. Kin
  BY Zenon DEF Quiet, Kin
<1>. QED BY <1>1, KinSleepers, Zenon

\* A step of process p on core c that may also wake sleepers (under the lock), reap a zombie (under the lock),
\* or work on a slot that is not live yet (with or without it).
Own(c, p) ==
    /\ cproc[c] = p /\ cproc' = cproc /\ spos' = spos
    /\ \A d \in Cpu : lock' = d <=> IF d = c THEN pc'[p] \in Locked ELSE lock = d
    /\ IF pc'[p] = "exit_sched"
       THEN state'[p] = "ZOMBIE"
       ELSE state'[p] = "RUNNING" /\ pc'[p] \notin {"wait_sched", "sleep_sched", "exit_resume"}
    /\ \A q \in Slot \ {p} :
           \/ state'[q] = state[q] /\ pc'[q] = pc[q]
           \/ state[q] = "SLEEPING" /\ state'[q] = "RUNNABLE" /\ pc'[q] = pc[q] /\ lock = NoCpu
           \/ state[q] = "ZOMBIE" /\ state'[q] = "UNUSED" /\ pc'[q] = pc[q] /\ lock = c
           \/ /\ state[q] \in {"UNUSED", "EMBRYO"} /\ state'[q] \in {"UNUSED", "EMBRYO"}
              /\ pc'[q] = pc[q] \/ pc'[q] = "forkret"
           \/ state[q] = "EMBRYO" /\ state'[q] = "RUNNABLE" /\ pc'[q] = pc[q] /\ pc[q] = "forkret"

\* Such a step leaves the processes on the other cores alone: one that is still SLEEPING or ZOMBIE on its core
\* has the lock.
LEMMA OwnCores ==
  ASSUME IInv, NEW c \in Cpu, NEW p \in Slot, Own(c, p)
  PROVE  Handoff' /\ OnCore' /\ OffCore'
<1>1. ASSUME NEW d \in Cpu, NEW q \in Slot, q # p, cproc[d] = q
      PROVE  /\ d # c /\ spos[d] = q /\ state'[q] = state[q] /\ pc'[q] = pc[q]
             /\ lock' = d <=> pc[q] \in Locked
  <2>1. d # c /\ spos[d] = q /\ (lock = d <=> pc[q] \in Locked) /\ (lock' = d <=> lock = d)
    BY <1>1 DEF IInv, Handoff, Own
  <2>2. state[q] \in {"RUNNING", "SLEEPING", "ZOMBIE"} /\ (state[q] # "RUNNING" => pc[q] \in Locked)
    BY <1>1, Zenon DEF IInv, OnCore, Locked
  <2>3. lock \in {c, NoCpu} => state[q] = "RUNNING"
    BY <2>1, <2>2, NoCpuAssumption, Zenon
  <2>. QED BY <1>1, <2>1, <2>2, <2>3, Zenon DEF Own
<1>2. spos[c] = p /\ \A d \in Cpu : cproc[d] = p => d = c
  BY SlotFacts DEF IInv, Handoff, OnCore, Own
<1>3. Handoff'
  <2>1. \A d \in Cpu, q \in Slot : cproc'[d] = q => spos'[d] = q /\ (lock' = d <=> pc'[q] \in Locked)
    BY <1>1, <1>2 DEF Own
  <2>2. \A d \in Cpu : cproc'[d] = 0 => (lock' = d <=> spos'[d] # 0)
    BY SlotFacts DEF IInv, Handoff, Own
  <2>. QED BY <2>1, <2>2, Zenon DEF Handoff
<1>4. OnCore'
  <2>1. \A d, e \in Cpu : cproc'[d] = cproc'[e] /\ cproc'[d] # 0 => d = e
    BY DEF IInv, OnCore, Own
  <2>2. ASSUME NEW d \in Cpu, NEW q \in Slot, cproc'[d] = q
        PROVE  /\ pc'[q] = "exit_sched" => state'[q] = "ZOMBIE"
               /\ pc'[q] \in {"wait_sched", "sleep_sched"} => state'[q] = "SLEEPING"
               /\ pc'[q] \notin {"exit_sched", "wait_sched", "sleep_sched"} => state'[q] = "RUNNING"
               /\ pc'[q] # "exit_resume"
    <3>1. CASE q = p
      BY <3>1, Zenon DEF Own
    <3>2. CASE q # p
      <4>1. cproc[d] = q /\ state'[q] = state[q] /\ pc'[q] = pc[q]
        BY <1>1, <2>2, <3>2 DEF Own
      <4>. QED BY <4>1, Zenon DEF IInv, OnCore
    <3>. QED BY <3>1, <3>2, Zenon
  <2>. QED BY <2>1, <2>2, Zenon DEF OnCore
<1>5. OffCore'
  <2> SUFFICES ASSUME NEW q \in Slot, \A d \in Cpu : cproc'[d] # q
               PROVE  /\ state'[q] # "RUNNING"
                      /\ state'[q] \in {"SLEEPING", "RUNNABLE"} =>
                             pc'[q] \in {"forkret", "wait_resume", "sleep_resume"}
                      /\ state'[q] = "ZOMBIE" => pc'[q] = "exit_resume"
                      /\ ~Forking(q)'
    BY Zenon DEF OffCore
  <2>1. q # p /\ \A d \in Cpu : cproc[d] # q
    BY Zenon DEF Own
  <2>2. /\ state[q] # "RUNNING"
        /\ state[q] \in {"SLEEPING", "RUNNABLE"} => pc[q] \in {"forkret", "wait_resume", "sleep_resume"}
        /\ state[q] = "ZOMBIE" => pc[q] = "exit_resume"
        /\ ~Forking(q)
    BY <2>1, Zenon DEF IInv, OffCore
  <2>. QED BY <2>1, <2>2 DEF Own, Forking
<1>. QED BY <1>3, <1>4, <1>5, Zenon

\* A core enters the loop of scheduler() with ptable.lock.
LEMMA Inv_scheduler_acquire ==
  ASSUME IInv, NEW c \in Cpu, scheduler_acquire(c)
  PROVE  IInv'
<1> USE SlotFacts, NoCpuAssumption DEF IInv, scheduler_acquire, table, Goto, Runs
<1>1. TypeOK'
  BY NPROCAssumption DEF TypeOK
<1>2. Handoff'
  BY DEF TypeOK, Handoff, OnCore, Locked
<1>3. OnCore'
  BY DEF TypeOK, Handoff, OnCore, OffCore, Forks, Locked
<1>4. OffCore'
  BY DEF TypeOK, OnCore, OffCore, Forks, Forking
<1>5. Quiet
  BY Zenon DEF TypeOK, OnCore, Tree, Forks, Forking, Quiet
<1>6. Forks' /\ Stacks' /\ Pids' /\ Tree'
  BY <1>5, QuietKeeps, Zenon
<1>7. Sleepers'
  <2>1. Dozing
    BY Zenon DEF TypeOK, OnCore, Dozing
  <2>. QED BY <1>5, <2>1, QuietSleepers, Zenon
<1>. QED BY <1>1, <1>2, <1>3, <1>4, <1>6, <1>7, Zenon

\* scheduler() passes over a slot that is not RUNNABLE.
LEMMA Inv_scheduler_skip ==
  ASSUME IInv, NEW c \in Cpu, scheduler_skip(c)
  PROVE  IInv'
<1> USE SlotFacts, NoCpuAssumption DEF IInv, scheduler_skip, NextSlot, table, Goto, Runs
<1>1. TypeOK'
  <2>1. spos[c] + 1 \in 0..NPROC + 1
    BY NPROCAssumption DEF TypeOK, Slot
  <2>. QED BY <2>1, Zenon DEF TypeOK
<1>2. Handoff'
  BY DEF TypeOK, Handoff, OnCore, Locked
<1>3. OnCore'
  BY DEF TypeOK, Handoff, OnCore, OffCore, Forks, Locked
<1>4. OffCore'
  BY DEF TypeOK, OnCore, OffCore, Forks, Forking
<1>5. Quiet
  BY Zenon DEF TypeOK, OnCore, Tree, Forks, Forking, Quiet
<1>6. Forks' /\ Stacks' /\ Pids' /\ Tree'
  BY <1>5, QuietKeeps, Zenon
<1>7. Sleepers'
  <2>1. Dozing
    BY Zenon DEF TypeOK, OnCore, Dozing
  <2>. QED BY <1>5, <2>1, QuietSleepers, Zenon
<1>. QED BY <1>1, <1>2, <1>3, <1>4, <1>6, <1>7, Zenon

\* scheduler() switches to a RUNNABLE process, which no core runs.
LEMMA Inv_scheduler_run ==
  ASSUME IInv, NEW c \in Cpu, scheduler_run(c)
  PROVE  IInv'
<1> USE SlotFacts, NoCpuAssumption DEF IInv, scheduler_run, table, Goto, Runs
<1>1. TypeOK'
  BY Zenon DEF TypeOK, Labels, procstate
<1>2. Handoff'
  BY DEF TypeOK, Handoff, OnCore, OffCore, Locked
<1>3. OnCore'
  BY DEF TypeOK, Handoff, OnCore, OffCore, Forks, Locked
<1>4. OffCore'
  BY DEF TypeOK, OnCore, OffCore, Forks, Forking
<1>5. Quiet
  BY DEF TypeOK, OnCore, Tree, Forks, Forking, Quiet
<1>6. Forks' /\ Stacks' /\ Pids' /\ Tree'
  BY <1>5, QuietKeeps, Zenon
<1>7. Sleepers'
  <2>1. Dozing
    BY Zenon DEF TypeOK, OnCore, Dozing
  <2>. QED BY <1>5, <2>1, QuietSleepers, Zenon
<1>. QED BY <1>1, <1>2, <1>3, <1>4, <1>6, <1>7, Zenon

\* A core ends its pass over the table and releases ptable.lock.
LEMMA Inv_scheduler_release ==
  ASSUME IInv, NEW c \in Cpu, scheduler_release(c)
  PROVE  IInv'
<1> USE SlotFacts, NoCpuAssumption DEF IInv, scheduler_release, table, Goto, Runs
<1>1. TypeOK'
  BY DEF TypeOK, Labels, procstate
<1>2. Handoff'
  BY DEF TypeOK, Handoff, OnCore, Locked
<1>3. OnCore'
  BY DEF TypeOK, Handoff, OnCore, OffCore, Forks, Locked
<1>4. OffCore'
  BY DEF TypeOK, OnCore, OffCore, Forks, Forking
<1>5. Quiet
  BY Zenon DEF TypeOK, OnCore, Tree, Forks, Forking, Quiet
<1>6. Forks' /\ Stacks' /\ Pids' /\ Tree'
  BY <1>5, QuietKeeps, Zenon
<1>7. Sleepers'
  <2>1. Dozing
    BY Zenon DEF TypeOK, OnCore, Dozing
  <2>. QED BY <1>5, <2>1, QuietSleepers, Zenon
<1>. QED BY <1>1, <1>2, <1>3, <1>4, <1>6, <1>7, Zenon

\* sched() switches back to the scheduler, which keeps the lock.
LEMMA Inv_sched ==
  ASSUME IInv, NEW c \in Cpu, NEW p \in Slot, NEW from, NEW to,
         <<from, to>> \in {<<"exit_sched", "exit_resume">>, <<"wait_sched", "wait_resume">>,
                         <<"sleep_sched", "sleep_resume">>}, sched(c, p, from, to)
  PROVE  IInv'
<1> USE SlotFacts, NoCpuAssumption DEF IInv, sched, NextSlot, table, Goto, Runs
<1>1. TypeOK'
  <2>1. spos[c] + 1 \in 0..NPROC + 1
    BY NPROCAssumption DEF TypeOK, Handoff, Slot
  <2>2. to \in Labels
    BY Zenon DEF Labels
  <2>. QED BY <2>1, <2>2, Zenon DEF TypeOK
<1>2. Handoff'
  BY DEF TypeOK, Handoff, OnCore, Locked
<1>3. OnCore'
  BY DEF TypeOK, Handoff, OnCore, OffCore, Forks, Locked
<1>4. OffCore'
  BY DEF TypeOK, OnCore, OffCore, Forks, Forking
<1>5. Quiet
  BY DEF TypeOK, OnCore, Tree, Forks, Forking, Quiet
<1>6. Forks' /\ Stacks' /\ Pids' /\ Tree'
  BY <1>5, QuietKeeps, Zenon
<1>7. Sleepers'
  <2>1. Dozing
    BY Zenon DEF TypeOK, OnCore, Dozing
  <2>. QED BY <1>5, <2>1, QuietSleepers, Zenon
<1>. QED BY <1>1, <1>2, <1>3, <1>4, <1>6, <1>7, Zenon

\* A process that is not in fork() goes on to label to, in state st, on channel ch, and changes nothing else in
\* the table: it has ptable.lock afterwards if to is a place inside the lock, and does not if it is not.
Alone(c, p, to, st, ch) ==
    /\ cproc[c] = p /\ state[p] = "RUNNING" /\ ~Forking(p)
    /\ to \in {"user", "fork", "exit", "wait", "wait_scan", "wait_sched", "sleep_sched"}
    /\ to = "exit" => p # initproc
    /\ to = "sleep_sched" => ch \in OtherChan
    /\ to = "wait_sched" => ch = p /\ Children(p) # {} /\ \A q \in Children(p) : state[q] # "ZOMBIE"
    /\ st = IF to \in {"wait_sched", "sleep_sched"} THEN "SLEEPING" ELSE "RUNNING"
    /\ ch \in {0} \cup Slot \cup OtherChan
    /\ pc' = [pc EXCEPT ![p] = to]
    /\ state' = [state EXCEPT ![p] = st]
    /\ chan' = [chan EXCEPT ![p] = ch]
    /\ lock' \in Cpu \cup {NoCpu}
    /\ \A d \in Cpu : lock' = d <=> IF d = c THEN to \in Locked ELSE lock = d
    /\ UNCHANGED <<pid, parent, killed, kstack, nextpid, cproc, spos, np>>

\* Such a step preserves the invariant.
LEMMA AloneStep ==
  ASSUME IInv, NEW c \in Cpu, NEW p \in Slot, NEW to, NEW st, NEW ch, Alone(c, p, to, st, ch)
  PROVE  IInv'
<1> USE SlotFacts, NoCpuAssumption DEF IInv, Alone
<1>1. TypeOK'
  BY Zenon DEF TypeOK, Labels, procstate
<1>2. Handoff'
  BY DEF TypeOK, Handoff, OnCore, Locked
<1>3. OnCore'
  BY DEF TypeOK, OnCore
<1>4. OffCore'
  BY DEF TypeOK, OffCore, Forking
<1>5. Quiet
  BY DEF TypeOK, OnCore, Tree, Forking, Quiet
<1>6. Forks' /\ Stacks' /\ Pids' /\ Tree'
  BY <1>5, QuietKeeps, Zenon
<1>7. Sleepers'
  BY DEF TypeOK, Sleepers, Children
<1>. QED BY <1>1, <1>2, <1>3, <1>4, <1>6, <1>7, Zenon

\* The first run of a process releases the lock the scheduler took.
LEMMA Inv_forkret ==
  ASSUME IInv, NEW c \in Cpu, NEW p \in Slot, forkret(c, p)
  PROVE  IInv'
<1>1. Alone(c, p, "user", state[p], chan[p])
  BY SlotFacts, NoCpuAssumption
     DEF IInv, TypeOK, Handoff, OnCore, Alone, Forking, Locked, forkret, table, Goto, Runs
<1>. QED BY <1>1, AloneStep, Zenon

\* sleep() on a lock other than ptable.lock.
LEMMA Inv_sleep ==
  ASSUME IInv, NEW c \in Cpu, NEW p \in Slot, NEW ch \in OtherChan, sleep(c, p, ch)
  PROVE  IInv'
<1>1. Alone(c, p, "sleep_sched", "SLEEPING", ch)
  BY SlotFacts, NoCpuAssumption
     DEF IInv, TypeOK, Handoff, OnCore, Alone, Forking, Locked, sleep, table, Goto, Runs
<1>. QED BY <1>1, AloneStep, Zenon

\* The end of sleep().
LEMMA Inv_sleep_resume ==
  ASSUME IInv, NEW c \in Cpu, NEW p \in Slot, sleep_resume(c, p)
  PROVE  IInv'
<1>1. Alone(c, p, "user", state[p], 0)
  BY SlotFacts, NoCpuAssumption
     DEF IInv, TypeOK, Handoff, OnCore, Alone, Forking, Locked, sleep_resume, table, Goto, Runs
<1>. QED BY <1>1, AloneStep, Zenon

\* wakeup() changes nothing but the states of sleepers.
LEMMA Inv_wakeup ==
  ASSUME IInv, NEW ch \in OtherChan, wakeup(ch)
  PROVE  IInv'
<1> USE SlotFacts, NoCpuAssumption DEF IInv, wakeup, wakeup1, table, Goto, Runs
<1>1. TypeOK'
  BY Zenon DEF TypeOK, Labels, procstate
<1>2. Handoff'
  BY DEF TypeOK, Handoff, OnCore, Locked
<1>3. OnCore'
  BY DEF TypeOK, Handoff, OnCore, OffCore, Forks, Locked
<1>4. OffCore'
  BY DEF TypeOK, OnCore, OffCore, Forks, Forking
<1>5. Quiet
  BY Zenon DEF TypeOK, OnCore, Tree, Forks, Forking, Quiet
<1>6. Forks' /\ Stacks' /\ Pids' /\ Tree'
  BY <1>5, QuietKeeps, Zenon
<1>7. Sleepers'
  <2>1. Dozing
    BY Zenon DEF TypeOK, OnCore, Dozing
  <2>. QED BY <1>5, <2>1, QuietSleepers, Zenon
<1>. QED BY <1>1, <1>2, <1>3, <1>4, <1>6, <1>7, Zenon

\* kill() changes nothing but killed and the state of one sleeper.
LEMMA Inv_kill ==
  ASSUME IInv, NEW c \in Cpu, NEW p \in Slot, NEW n \in KillArg, kill(c, p, n)
  PROVE  IInv'
<1>1. /\ cproc[c] = p /\ pc[p] = "user" /\ lock = NoCpu
      /\ UNCHANGED <<pid, parent, chan, kstack, nextpid, lock, cproc, spos, pc, np>>
  BY Zenon DEF kill, Runs
<1>2. killed' \in [Slot -> BOOLEAN]
  BY Zenon DEF IInv, TypeOK, kill
<1>3. /\ state' \in [Slot -> procstate]
      /\ \A q \in Slot : state'[q] = state[q] \/ (state[q] = "SLEEPING" /\ state'[q] = "RUNNABLE")
  <2>1. state' = state \/ \E q \in Slot : state' = [state EXCEPT ![q] = IF @ = "SLEEPING" THEN "RUNNABLE" ELSE @]
    BY Zenon DEF kill
  <2>. QED BY <2>1, Zenon DEF IInv, TypeOK, procstate
<1>4. state[p] = "RUNNING"
  BY <1>1, Zenon DEF IInv, OnCore
<1> USE <1>1, <1>3
<1>5. TypeOK'
  BY <1>2, Zenon DEF IInv, TypeOK
<1>6. Own(c, p)
  BY <1>4, NoCpuAssumption, Zenon DEF Own, Locked
<1>7. Quiet /\ Dozing
  BY Zenon DEF Quiet, Dozing
<1>. QED BY <1>5, <1>6, <1>7, OwnCores, QuietKeeps, QuietSleepers, Zenon DEF IInv

\* A system call is entered.
LEMMA Inv_Syscall ==
  ASSUME IInv, NEW c \in Cpu, NEW p \in Slot, NEW call \in {"fork", "exit", "wait"}, Syscall(c, p, call)
  PROVE  IInv'
<1>1. Alone(c, p, call, state[p], chan[p])
  BY SlotFacts, NoCpuAssumption
     DEF IInv, TypeOK, Handoff, OnCore, Alone, Forking, Locked, Syscall, table, Goto, Runs
<1>. QED BY <1>1, AloneStep, Zenon

\* The locked part of allocproc(): the slot that it takes belongs to no other fork().
LEMMA Inv_allocproc ==
  ASSUME IInv, NEW c \in Cpu, NEW p \in Slot, allocproc(c, p)
  PROVE  IInv'
<1>1. CASE pc' = [pc EXCEPT ![p] = "user"] /\ UNCHANGED <<state, pid, nextpid, np>>
  <2>1. Alone(c, p, "user", state[p], chan[p])
    BY <1>1, SlotFacts, NoCpuAssumption DEF IInv, TypeOK, Handoff, OnCore, Alone, Forking, Locked, allocproc, Runs
  <2>. QED BY <2>1, AloneStep, Zenon
<1>2. ASSUME NEW q \in Slot, state[q] = "UNUSED",
             state' = [state EXCEPT ![q] = "EMBRYO"], pid' = [pid EXCEPT ![q] = nextpid],
             nextpid' = nextpid + 1, np' = [np EXCEPT ![p] = q], pc' = [pc EXCEPT ![p] = "fork_kstack"]
      PROVE  IInv'
  <2>1. cproc[c] = p /\ pc[p] = "fork" /\ lock = NoCpu /\ UNCHANGED <<parent, chan, killed, kstack, lock, cproc, spos>>
    BY Zenon DEF allocproc, Runs
  <2>2. state[p] = "RUNNING" /\ p # q /\ np[p] = 0 /\ ~kstack[q] /\ ~Forking(p)
    BY <1>2, <2>1, Zenon DEF IInv, TypeOK, OnCore, Forks, Forking, Stacks
  <2>3. \A r \in Slot : np[r] # q /\ (Forking(r) => np[r] \in Slot \ {q})
    BY <1>2, SlotFacts DEF IInv, Forks
  <2>4. \A r \in Slot : parent[r] # q /\ q # initproc
    BY <1>2, SlotFacts DEF IInv, Tree
  <2>5. TypeOK'
    BY <1>2, <2>1 DEF IInv, TypeOK, Labels, procstate
  <2>6. Own(c, p)
    BY <1>2, <2>1, <2>2, NoCpuAssumption, Zenon DEF IInv, TypeOK, Own, Locked
  <2>7. Forks'
    BY <1>2, <2>1, <2>2, <2>3, SlotFacts DEF IInv, TypeOK, Forks, Forking
  <2>8. Stacks'
    BY <1>2, <2>1, Zenon DEF IInv, TypeOK, Stacks, Live
  <2>9. Pids'
    BY <1>2 DEF IInv, TypeOK, Pids
  <2>10. Tree'
    BY <1>2, <2>1, <2>2, <2>3, <2>4, SlotFacts DEF IInv, TypeOK, Tree, Live
  <2>11. Dozing /\ Kin
    BY <1>2, <2>1, <2>2, Zenon DEF IInv, TypeOK, Dozing, Kin
  <2>. QED BY <2>5, <2>6, <2>7, <2>8, <2>9, <2>10, <2>11, OwnCores, KinSleepers, Zenon DEF IInv
<1>. QED BY <1>1, <1>2, Zenon DEF allocproc, First, NextPid, Goto

\* What fork() knows of the slot that it has taken.
LEMMA Embryo ==
  ASSUME IInv, NEW c \in Cpu, NEW p \in Slot, cproc[c] = p, Forking(p)
  PROVE  /\ state[p] = "RUNNING" /\ p # np[p] /\ np[p] # initproc
         /\ np[p] \in Slot /\ state[np[p]] = "EMBRYO" /\ ~Forking(np[p])
         /\ \A q \in Slot : q # p => np[q] # np[p]
         /\ \A q \in Slot : parent[q] # np[p]
         /\ pc[p] # "fork_run" => parent[np[p]] = 0
         /\ lock # c
<1>1. state[p] = "RUNNING" /\ lock # c
  BY Zenon DEF IInv, Handoff, OnCore, Forking, Locked
<1>2. np[p] \in Slot /\ state[np[p]] = "EMBRYO" /\ \A q \in Slot : q # p => np[q] # np[p]
  BY SlotFacts DEF IInv, Forks
<1>3. ~Forking(np[p])
  <2>1. \A d \in Cpu : cproc[d] # np[p]
    BY <1>2, Zenon DEF IInv, OnCore
  <2>. QED BY <1>2, <2>1, Zenon DEF IInv, OffCore
<1>4. np[p] # initproc /\ \A q \in Slot : parent[q] # np[p]
  BY <1>2, SlotFacts DEF IInv, Tree
<1>5. ASSUME parent[np[p]] # 0 PROVE pc[p] = "fork_run"
  <2>1. parent[np[p]] \in Slot /\ pc[parent[np[p]]] = "fork_run" /\ np[parent[np[p]]] = np[p]
    BY <1>2, <1>5 DEF IInv, TypeOK, Tree, Live
  <2>. QED BY <1>2, <2>1, Zenon
<1>. QED BY <1>1, <1>2, <1>3, <1>4, <1>5, Zenon

\* fork() fails and gives the slot q, which has no stack then, back.
Gives(c, p, q) ==
    /\ cproc[c] = p /\ Forking(p) /\ pc[p] # "fork_run" /\ q = np[p]
    /\ state' = [state EXCEPT ![q] = "UNUSED"] /\ np' = [np EXCEPT ![p] = 0]
    /\ pc' = [pc EXCEPT ![p] = "user"]
    /\ kstack' \in [Slot -> BOOLEAN] /\ ~kstack'[q] /\ \A r \in Slot : r # q => kstack'[r] = kstack[r]
    /\ UNCHANGED <<pid, parent, chan, killed, nextpid, lock, cproc, spos>>

LEMMA GivenBack ==
  ASSUME IInv, NEW c \in Cpu, NEW p \in Slot, NEW q, Gives(c, p, q)
  PROVE  IInv'
<1>1. /\ state[p] = "RUNNING" /\ p # q /\ q # initproc /\ q \in Slot /\ state[q] = "EMBRYO" /\ ~Forking(q)
      /\ \A r \in Slot : r # p => np[r] # q
      /\ \A r \in Slot : parent[r] # q
      /\ parent[q] = 0 /\ lock # c
  BY Embryo DEF Gives
<1> USE <1>1, SlotFacts
<1>2. TypeOK'
  BY Zenon DEF IInv, TypeOK, Gives, Labels, procstate
<1>3. Own(c, p)
  BY NoCpuAssumption DEF IInv, TypeOK, Gives, Own, Locked
<1>4. Forks'
  BY DEF IInv, TypeOK, Gives, Forks, Forking
<1>5. Stacks' /\ Pids'
  BY DEF IInv, TypeOK, Gives, Stacks, Live, Pids
<1>6. Tree'
  BY DEF IInv, TypeOK, Gives, Tree, Live, Forking
<1>7. Dozing /\ Kin
  BY DEF IInv, TypeOK, Gives, Dozing, Kin
<1>. QED BY <1>2, <1>3, <1>4, <1>5, <1>6, <1>7, OwnCores, KinSleepers, Zenon DEF IInv

\* The tail of allocproc(): the embryo it works on, without the lock, runs on no core.
LEMMA Inv_allocproc_kstack ==
  ASSUME IInv, NEW c \in Cpu, NEW p \in Slot, allocproc_kstack(c, p)
  PROVE  IInv'
<1> DEFINE q == np[p]
<1>1. /\ cproc[c] = p /\ pc[p] = "fork_kstack" /\ Forking(p)
      /\ UNCHANGED <<pid, parent, chan, killed, nextpid, lock, cproc, spos>>
  BY Zenon DEF allocproc_kstack, Runs, Forking
<1>2. /\ state[p] = "RUNNING" /\ p # q /\ q # initproc /\ q \in Slot /\ state[q] = "EMBRYO" /\ ~Forking(q)
      /\ \A r \in Slot : r # p => np[r] # q
      /\ \A r \in Slot : parent[r] # q
      /\ parent[q] = 0 /\ lock # c
  BY <1>1, Embryo
<1> USE <1>1, <1>2, SlotFacts
<1>3. ~kstack[q]
  BY Zenon DEF IInv, Forks
<1>4. CASE /\ kstack' = [kstack EXCEPT ![q] = TRUE]
           /\ pc' = [pc EXCEPT ![p] = "fork_copy", ![q] = "forkret"]
           /\ UNCHANGED <<state, np>>
  <2>0. q = np[p] OBVIOUS
  <2> HIDE DEF q
  <2>1. /\ pc'[p] = "fork_copy" /\ pc'[q] = "forkret" /\ pc' \in [Slot -> Labels]
        /\ \A r \in Slot : r # p /\ r # q => pc'[r] = pc[r]
    BY <1>4, Zenon DEF IInv, TypeOK, Labels
  <2>2. kstack' \in [Slot -> BOOLEAN] /\ kstack'[q] /\ \A r \in Slot : r # q => kstack'[r] = kstack[r]
    BY <1>4, Zenon DEF IInv, TypeOK
  <2> USE <1>4, <2>0, <2>1, <2>2
  <2>3. TypeOK'
    BY Zenon DEF IInv, TypeOK
  <2>4. Own(c, p)
    BY NoCpuAssumption DEF Own, Locked
  <2>5. Forks'
    BY DEF IInv, TypeOK, Forks, Forking
  <2>6. Stacks' /\ Pids'
    BY DEF IInv, Stacks, Live, Pids
  <2>7. Tree'
    BY DEF IInv, TypeOK, Tree, Live
  <2>8. Dozing /\ Kin
    BY DEF Dozing, Kin
  <2>. QED BY <2>3, <2>4, <2>5, <2>6, <2>7, <2>8, OwnCores, KinSleepers, Zenon DEF IInv
<1>5. CASE /\ state' = [state EXCEPT ![q] = "UNUSED"] /\ np' = [np EXCEPT ![p] = 0]
           /\ pc' = [pc EXCEPT ![p] = "user"] /\ kstack' = kstack
  <2>1. Gives(c, p, q)
    BY <1>3, <1>5, Zenon DEF IInv, TypeOK, Gives
  <2>. QED BY <2>1, GivenBack, Zenon
<1>. QED BY <1>4, <1>5, Zenon DEF allocproc_kstack, Goto


\* fork() gives the child back, or gives it its parent.
LEMMA Inv_fork_copy ==
  ASSUME IInv, NEW c \in Cpu, NEW p \in Slot, fork_copy(c, p)
  PROVE  IInv'
<1> DEFINE q == np[p]
<1>1. /\ cproc[c] = p /\ pc[p] = "fork_copy" /\ Forking(p)
      /\ UNCHANGED <<pid, chan, killed, nextpid, lock, cproc, spos>>
  BY Zenon DEF fork_copy, Runs, Forking
<1>2. /\ state[p] = "RUNNING" /\ p # q /\ q # initproc /\ q \in Slot /\ state[q] = "EMBRYO" /\ ~Forking(q)
      /\ \A r \in Slot : r # p => np[r] # q
      /\ \A r \in Slot : parent[r] # q
      /\ parent[q] = 0 /\ lock # c
  BY <1>1, Embryo
<1> USE <1>1, <1>2, SlotFacts
<1>3. CASE /\ kstack' = FreeStack(q)
           /\ state' = [state EXCEPT ![q] = "UNUSED"] /\ np' = [np EXCEPT ![p] = 0]
           /\ pc' = [pc EXCEPT ![p] = "user"] /\ parent' = parent
  <2>1. kstack' \in [Slot -> BOOLEAN]
    BY <1>3, Zenon DEF IInv, TypeOK, FreeStack
  <2>2. ~kstack'[q] /\ \A r \in Slot : r # q => kstack'[r] = kstack[r]
    BY <1>3, Zenon DEF IInv, TypeOK, FreeStack
  <2>3. Gives(c, p, q)
    BY <1>3, <2>1, <2>2, Zenon DEF Gives
  <2>. QED BY <2>3, GivenBack, Zenon
<1>4. CASE /\ parent' = [parent EXCEPT ![q] = p]
           /\ pc' = [pc EXCEPT ![p] = "fork_run"]
           /\ UNCHANGED <<state, kstack, np>>
  <2>0. q = np[p] OBVIOUS
  <2> HIDE DEF q
  <2>1. TypeOK'
    BY <1>4, Zenon DEF IInv, TypeOK, Labels
  <2>2. Own(c, p)
    BY <1>4, NoCpuAssumption, Zenon DEF IInv, TypeOK, Own, Locked
  <2>3. Forks'
    BY <1>4, <2>0 DEF IInv, TypeOK, Forks, Forking
  <2>4. Stacks' /\ Pids'
    BY <1>4, Zenon DEF IInv, Stacks, Live, Pids
  <2>5. Tree'
    BY <1>4, <2>0 DEF IInv, TypeOK, Forks, Forking, Tree, Live
  <2>6. Dozing /\ Kin
    BY <1>4, Zenon DEF IInv, TypeOK, Dozing, Kin
  <2>. QED BY <2>1, <2>2, <2>3, <2>4, <2>5, <2>6, OwnCores, KinSleepers, Zenon DEF IInv
<1>. QED BY <1>3, <1>4, Zenon DEF fork_copy, Goto

\* fork() makes its child RUNNABLE without the lock.
LEMMA Inv_fork_run ==
  ASSUME IInv, NEW c \in Cpu, NEW p \in Slot, fork_run(c, p)
  PROVE  IInv'
<1> DEFINE q == np[p]
<1>1. /\ cproc[c] = p /\ pc[p] = "fork_run" /\ Forking(p)
      /\ state' = [state EXCEPT ![q] = "RUNNABLE"] /\ np' = [np EXCEPT ![p] = 0]
      /\ pc' = [pc EXCEPT ![p] = "user"]
      /\ UNCHANGED <<pid, parent, chan, killed, kstack, nextpid, lock, cproc, spos>>
  BY Zenon DEF fork_run, Runs, Goto, Forking
<1>2. /\ state[p] = "RUNNING" /\ p # q /\ q # initproc /\ q \in Slot /\ state[q] = "EMBRYO" /\ ~Forking(q)
      /\ \A r \in Slot : r # p => np[r] # q
      /\ \A r \in Slot : parent[r] # q
      /\ lock # c
  BY <1>1, Embryo
<1>3. pc[q] = "forkret" /\ kstack[q] /\ parent[q] = p /\ q = np[p]
  BY <1>1 DEF IInv, Forks, Tree
<1> HIDE DEF q
<1> USE <1>1, <1>2, <1>3, SlotFacts
<1>4. TypeOK'
  BY Zenon DEF IInv, TypeOK, Labels, procstate
<1>5. Own(c, p)
  BY NoCpuAssumption, Zenon DEF IInv, TypeOK, Own, Locked
<1>6. Forks'
  BY DEF IInv, TypeOK, Forks, Forking
<1>7. Stacks' /\ Pids'
  BY DEF IInv, TypeOK, Stacks, Live, Pids
<1>8. Tree'
  BY DEF IInv, TypeOK, Tree, Live
<1>9. Dozing /\ Kin
  BY Zenon DEF IInv, TypeOK, Dozing, Kin
<1>. QED BY <1>4, <1>5, <1>6, <1>7, <1>8, <1>9, OwnCores, KinSleepers, Zenon DEF IInv

\* exit() wakes the parent, passes its children on to init and becomes a ZOMBIE.
LEMMA Inv_exit ==
  ASSUME IInv, NEW c \in Cpu, NEW p \in Slot, exit(c, p)
  PROVE  IInv'
<1>1. /\ cproc[c] = p /\ pc[p] = "exit" /\ lock = NoCpu /\ lock' = c
      /\ pc' = [pc EXCEPT ![p] = "exit_sched"] /\ parent' = Adopt(p)
      /\ UNCHANGED <<pid, chan, killed, kstack, nextpid, cproc, spos, np>>
  BY Zenon DEF exit, Runs, Goto
<1>2. /\ state' \in [Slot -> procstate] /\ state'[p] = "ZOMBIE"
      /\ \A q \in Slot \ {p} : state'[q] = state[q] \/ (state[q] = "SLEEPING" /\ state'[q] = "RUNNABLE")
      /\ \A q \in Slot : state'[q] = "SLEEPING" => state[q] = "SLEEPING" /\ chan[q] # parent[p]
      /\ (\E q \in Children(p) : state[q] = "ZOMBIE") => (chan[initproc] = initproc => state'[initproc] # "SLEEPING")
  BY SlotFacts, Zenon DEF IInv, TypeOK, exit, WakeOnExit, wakeup1, Children, procstate
<1>3. \A q \in Slot : parent'[q] = IF parent[q] = p THEN initproc ELSE parent[q]
  BY <1>1, Zenon DEF Adopt, Children
<1>4. state[p] = "RUNNING" /\ p # initproc /\ ~Forking(p) /\ np[p] = 0
  BY <1>1 DEF IInv, OnCore, Tree, Forks, Forking
<1>5. pc'[p] = "exit_sched" /\ \A q \in Slot : q # p => pc'[q] = pc[q]
  BY <1>1, Zenon DEF IInv, TypeOK
<1>6. \A q \in Slot : /\ state'[q] = "UNUSED" <=> state[q] = "UNUSED"
                      /\ state'[q] = "EMBRYO" <=> state[q] = "EMBRYO"
                      /\ Live(q)' <=> Live(q)
                      /\ Forking(q)' <=> Forking(q)
  BY <1>2, <1>4, <1>5, Zenon DEF Live, Forking
<1> USE <1>1, <1>2, <1>3, <1>4, <1>5, <1>6, SlotFacts
<1>7. TypeOK'
  <2>1. parent' \in [Slot -> {0} \cup Slot]
    BY DEF IInv, TypeOK, Adopt
  <2>. QED BY <2>1, Zenon DEF IInv, TypeOK, Labels
<1>8. Own(c, p)
  BY NoCpuAssumption DEF Own, Locked
<1>9. Forks'
  <2>1. \A q \in Slot : Forking(q) => q # p /\ np[q] \in Slot \ {p}
    BY DEF IInv, Forks
  <2>2. \A q \in Slot : pc'[q] \in {"fork_copy", "fork_run"} => kstack'[np'[q]] /\ pc'[np'[q]] = "forkret"
    BY <2>1 DEF IInv, Forks, Forking
  <2>3. \A q \in Slot : pc'[q] = "fork_kstack" => ~kstack'[np'[q]]
    BY <2>1 DEF IInv, Forks, Forking
  <2>. QED BY <2>2, <2>3 DEF IInv, Forks
<1>10. Stacks' /\ Pids'
  BY DEF IInv, Stacks, Pids
<1>11. Tree'
  <2>1. /\ state'[initproc] \in {"SLEEPING", "RUNNABLE", "RUNNING"}
        /\ pc'[initproc] \notin {"exit", "exit_sched", "exit_resume"} /\ parent'[initproc] = 0
    BY DEF IInv, Tree
  <2>2. \A q \in Slot : parent[q] = p => Live(q) /\ q # initproc
    BY DEF IInv, Tree
  <2>3. ASSUME NEW q \in Slot, parent'[q] # 0
        PROVE  /\ parent'[q] # q
               /\ state'[parent'[q]] \in {"SLEEPING", "RUNNABLE", "RUNNING"}
               /\ Live(q)' \/ (pc'[parent'[q]] = "fork_run" /\ np'[parent'[q]] = q)
    <3>1. CASE parent[q] = p
      BY <2>1, <2>2, <3>1
    <3>2. CASE parent[q] # p
      <4>1. parent'[q] = parent[q] /\ parent[q] \in Slot \ {p}
        BY <2>3, <3>2 DEF IInv, TypeOK
      <4>2. /\ parent[q] # q
            /\ state[parent[q]] \in {"SLEEPING", "RUNNABLE", "RUNNING"}
            /\ Live(q) \/ (pc[parent[q]] = "fork_run" /\ np[parent[q]] = q)
        BY <4>1 DEF IInv, Tree
      <4>3. /\ pc'[parent[q]] = pc[parent[q]] /\ np' = np
            /\ state'[parent[q]] \in {"SLEEPING", "RUNNABLE", "RUNNING"}
        BY <4>1, <4>2
      <4>. QED BY <4>1, <4>2, <4>3
    <3>. QED BY <3>1, <3>2, Zenon
  <2>4. \A q \in Slot \ {initproc} : Live(q)' => parent'[q] # 0
    BY DEF IInv, Tree
  <2>5. ASSUME NEW q \in Slot, pc'[q] = "fork_run" PROVE parent'[np'[q]] = q
    <3>1. pc[q] = "fork_run" /\ q # p /\ np[q] \in Slot /\ np'[q] = np[q]
      BY <2>5 DEF IInv, Forks, Forking
    <3>. QED BY <3>1 DEF IInv, Tree
  <2>. QED BY <2>1, <2>3, <2>4, <2>5, Zenon DEF Tree
<1>12. Dozing
  BY Zenon DEF Dozing
<1>13. Kin
  <2> SUFFICES ASSUME NEW r \in Slot, NEW q \in Slot, state'[r] = "SLEEPING", chan[r] = r
               PROVE  /\ parent[q] = r => parent'[q] = r
                      /\ parent'[q] = r /\ state'[q] = "ZOMBIE" => parent[q] = r /\ state[q] = "ZOMBIE"
    BY DEF Kin
  <2>1. r # p /\ r # parent[p]
    OBVIOUS
  <2>2. q = p => parent'[q] # r
    BY <2>1 DEF IInv, Tree, Live
  <2>3. q # p /\ state'[q] = "ZOMBIE" => state[q] = "ZOMBIE"
    OBVIOUS
  <2>4. parent[q] = p /\ state[q] = "ZOMBIE" => r # initproc
    BY DEF Children
  <2>. QED BY <2>1, <2>2, <2>3, <2>4
<1>. QED BY <1>7, <1>8, <1>9, <1>10, <1>11, <1>12, <1>13, OwnCores, KinSleepers, Zenon DEF IInv

\* wait() takes ptable.lock.
LEMMA Inv_wait ==
  ASSUME IInv, NEW c \in Cpu, NEW p \in Slot, wait(c, p)
  PROVE  IInv'
<1>1. Alone(c, p, "wait_scan", state[p], chan[p])
  BY SlotFacts, NoCpuAssumption
     DEF IInv, TypeOK, Handoff, OnCore, Alone, Forking, Locked, wait, table, Goto, Runs
<1>. QED BY <1>1, AloneStep, Zenon

\* wait() frees the slot of a zombie, which runs on no core.
LEMMA Inv_wait_reap ==
  ASSUME IInv, NEW c \in Cpu, NEW p \in Slot, wait_reap(c, p)
  PROVE  IInv'
<1>1. /\ cproc[c] = p /\ pc[p] = "wait_scan" /\ lock' = NoCpu /\ pc' = [pc EXCEPT ![p] = "user"]
      /\ UNCHANGED <<chan, nextpid, cproc, spos, np>>
  BY Zenon DEF wait_reap, Runs, Goto
<1>2. PICK q \in Slot : /\ parent[q] = p /\ state[q] = "ZOMBIE"
                        /\ kstack' = FreeStack(q)
                        /\ state' = [state EXCEPT ![q] = "UNUSED"]
                        /\ pid' = [pid EXCEPT ![q] = 0]
                        /\ parent' = [parent EXCEPT ![q] = 0]
                        /\ killed' = [killed EXCEPT ![q] = FALSE]
  BY Zenon DEF wait_reap, First, Zombies, Children
<1>3. state[p] = "RUNNING" /\ p # q /\ lock = c /\ ~Forking(p) /\ np[p] = 0 /\ q # initproc
  <2>1. state[p] = "RUNNING" /\ lock = c
    BY <1>1 DEF IInv, Handoff, OnCore, Locked
  <2>2. ~Forking(p) /\ np[p] = 0
    BY <1>1, Zenon DEF IInv, Forks, Forking
  <2>3. q # initproc
    BY <1>2, Zenon DEF IInv, Tree
  <2>. QED BY <1>2, <2>1, <2>2, <2>3, Zenon
<1>4. TypeOK'
  <2>1. kstack' \in [Slot -> BOOLEAN] /\ killed' \in [Slot -> BOOLEAN]
    BY <1>2, Zenon DEF IInv, TypeOK, FreeStack
  <2>2. state' \in [Slot -> procstate] /\ pid' \in [Slot -> Nat] /\ parent' \in [Slot -> {0} \cup Slot]
    BY <1>2, Zenon DEF IInv, TypeOK, procstate
  <2>. QED BY <1>1, <2>1, <2>2, Zenon DEF IInv, TypeOK, Labels
<1>5. /\ pc'[p] = "user" /\ state'[q] = "UNUSED" /\ parent'[q] = 0 /\ ~kstack'[q]
      /\ \A r \in Slot : r # p => pc'[r] = pc[r]
      /\ \A r \in Slot : r # q => state'[r] = state[r] /\ parent'[r] = parent[r] /\ kstack'[r] = kstack[r]
  BY <1>1, <1>2, Zenon DEF IInv, TypeOK, FreeStack
<1>6. parent[q] = p /\ state[q] = "ZOMBIE" /\ nextpid' = nextpid /\ np' = np /\ chan' = chan
      /\ lock' = NoCpu /\ cproc[c] = p /\ cproc' = cproc /\ spos' = spos
  BY <1>1, <1>2, Zenon
<1> USE <1>3, <1>5, <1>6, SlotFacts
<1>7. Own(c, p)
  BY NoCpuAssumption, Zenon DEF Own, Locked
<1>8. Forks'
  <2>1. \A r \in Slot : Forking(r) => r # p /\ np[r] \in Slot \ {p, q}
    BY Zenon DEF IInv, Forks
  <2>2. \A r \in Slot : /\ Forking(r)' <=> Forking(r)
                        /\ state'[r] = "EMBRYO" <=> state[r] = "EMBRYO"
    BY Zenon DEF Forking
  <2>3. \A r \in Slot : pc'[r] \in {"fork_kstack", "fork_copy", "fork_run"} <=> Forking(r)'
    BY Zenon DEF Forking
  <2>4. \A r \in Slot : /\ pc'[r] \in {"fork_copy", "fork_run"} => kstack'[np'[r]] /\ pc'[np'[r]] = "forkret"
                        /\ pc'[r] = "fork_kstack" => ~kstack'[np'[r]]
    <3> SUFFICES ASSUME NEW r \in Slot, Forking(r)
                 PROVE  /\ pc'[r] \in {"fork_copy", "fork_run"} => kstack'[np'[r]] /\ pc'[np'[r]] = "forkret"
                        /\ pc'[r] = "fork_kstack" => ~kstack'[np'[r]]
      BY <2>2, <2>3, Zenon
    <3>1. /\ np'[r] = np[r] /\ pc'[r] = pc[r]
          /\ kstack'[np[r]] = kstack[np[r]] /\ pc'[np[r]] = pc[np[r]]
      BY <2>1, Zenon
    <3>2. /\ pc[r] \in {"fork_copy", "fork_run"} => kstack[np[r]] /\ pc[np[r]] = "forkret"
          /\ pc[r] = "fork_kstack" => ~kstack[np[r]]
      BY Zenon DEF IInv, Forks
    <3>. QED BY <3>1, <3>2, Zenon
  <2>5. \A r \in Slot : Forking(r)' => np'[r] \in Slot /\ state'[np'[r]] = "EMBRYO"
    BY <2>1, <2>2, Zenon DEF IInv, Forks
  <2>6. ASSUME NEW r \in Slot PROVE np'[r] # 0 => Forking(r)'
    <3>1. np[r] # 0 => Forking(r)
      BY Zenon DEF IInv, Forks
    <3>. QED BY <2>2, <3>1, Zenon
  <2>7. ASSUME NEW r \in Slot, state'[r] = "EMBRYO" PROVE \E t \in Slot : np'[t] = r
    <3>1. state[r] = "EMBRYO"
      BY <2>2, <2>7, Zenon
    <3>2. \E t \in Slot : np[t] = r
      BY <3>1, Zenon DEF IInv, Forks
    <3>. QED BY <3>2, Zenon
  <2>8. ASSUME NEW r \in Slot, NEW t \in Slot PROVE np'[r] = np'[t] /\ np'[r] # 0 => r = t
    <3>1. np[r] = np[t] /\ np[r] # 0 => r = t
      BY OneFork, Zenon
    <3>2. np'[r] = np[r] /\ np'[t] = np[t]
      BY Zenon
    <3>. QED BY <3>1, <3>2, Zenon
  <2>. QED BY <2>4, <2>5, <2>6, <2>7, <2>8, Zenon DEF Forks
<1>9. Stacks'
  BY Zenon DEF IInv, Stacks, Live
<1>10. Pids'
  <2>1. pid' = [pid EXCEPT ![q] = 0]
    BY <1>2, Zenon
  <2>. QED BY <2>1 DEF IInv, TypeOK, Pids
<1>11. Tree'
  <2>1. ASSUME NEW r \in Slot PROVE parent[r] # q
    <3>1. parent[r] # 0 => state[parent[r]] \in {"SLEEPING", "RUNNABLE", "RUNNING"}
      BY Zenon DEF IInv, Tree
    <3>2. q # 0 /\ state[q] \notin {"SLEEPING", "RUNNABLE", "RUNNING"}
      BY Zenon
    <3>. QED BY <3>1, <3>2, Zenon
  <2>2. \A r \in Slot : r # q => (Live(r)' <=> Live(r))
    BY Zenon DEF Live
  <2>3. ~Live(q)'
    BY Zenon DEF Live
  <2>4. /\ state'[initproc] \in {"SLEEPING", "RUNNABLE", "RUNNING"}
        /\ pc'[initproc] \notin {"exit", "exit_sched", "exit_resume"} /\ parent'[initproc] = 0
    BY Zenon DEF IInv, Tree
  <2>5. ASSUME NEW r \in Slot, parent'[r] # 0
        PROVE  /\ parent'[r] # r
               /\ state'[parent'[r]] \in {"SLEEPING", "RUNNABLE", "RUNNING"}
               /\ Live(r)' \/ (pc'[parent'[r]] = "fork_run" /\ np'[parent'[r]] = r)
    <3>1. r # q /\ parent'[r] = parent[r] /\ parent[r] \in Slot \ {q}
      BY <2>1, <2>5, Zenon DEF IInv, TypeOK
    <3>2. /\ parent[r] # r /\ state[parent[r]] \in {"SLEEPING", "RUNNABLE", "RUNNING"}
          /\ Live(r) \/ (pc[parent[r]] = "fork_run" /\ np[parent[r]] = r)
      BY <3>1, Zenon DEF IInv, Tree
    <3>3. state'[parent[r]] = state[parent[r]] /\ np'[parent[r]] = np[parent[r]]
      BY <3>1, Zenon
    <3>4. pc[parent[r]] = "fork_run" => pc'[parent[r]] = "fork_run"
      BY <3>1, Zenon DEF Forking
    <3>5. Live(r)' <=> Live(r)
      BY <2>2, <3>1, Zenon
    <3>. QED BY <3>1, <3>2, <3>3, <3>4, <3>5, Zenon
  <2>6. ASSUME NEW r \in Slot \ {initproc}, Live(r)' PROVE parent'[r] # 0
    <3>1. r \in Slot /\ r # q /\ Live(r)
      BY <2>2, <2>3, <2>6, Zenon
    <3>2. parent[r] # 0
      BY <3>1, Zenon DEF IInv, Tree
    <3>. QED BY <3>1, <3>2, Zenon
  <2>7. ASSUME NEW r \in Slot, pc'[r] = "fork_run" PROVE parent'[np'[r]] = r
    <3>1. pc[r] = "fork_run" /\ Forking(r)
      BY <2>7, Zenon DEF Forking
    <3>2. np[r] \in Slot /\ state[np[r]] = "EMBRYO" /\ parent[np[r]] = r
      BY <3>1, Zenon DEF IInv, Forks, Tree
    <3>3. np[r] # q /\ np'[r] = np[r]
      BY <3>2, Zenon
    <3>. QED BY <3>2, <3>3, Zenon
  <2>. QED BY <2>4, <2>5, <2>6, <2>7, Zenon DEF Tree
<1>12. Dozing /\ Kin
  <2>1. ASSUME NEW r \in Slot, state'[r] = "SLEEPING" PROVE r # q /\ r # p
    BY <2>1, Zenon
  <2>2. Dozing
    BY <2>1, Zenon DEF Dozing
  <2>3. Kin
    BY <2>1, Zenon DEF Kin
  <2>. QED BY <2>2, <2>3, Zenon
<1>. QED BY <1>4, <1>7, <1>8, <1>9, <1>10, <1>11, <1>12, OwnCores, KinSleepers, Zenon DEF IInv

\* wait() gives up.
LEMMA Inv_wait_fail ==
  ASSUME IInv, NEW c \in Cpu, NEW p \in Slot, wait_fail(c, p)
  PROVE  IInv'
<1>1. Alone(c, p, "user", state[p], chan[p])
  BY SlotFacts, NoCpuAssumption
     DEF IInv, TypeOK, Handoff, OnCore, Alone, Forking, Locked, wait_fail, table, Goto, Runs
<1>. QED BY <1>1, AloneStep

\* wait() goes to sleep: a child is left, and none has exited.
LEMMA Inv_wait_sleep ==
  ASSUME IInv, NEW c \in Cpu, NEW p \in Slot, wait_sleep(c, p)
  PROVE  IInv'
<1>1. Alone(c, p, "wait_sched", "SLEEPING", p)
  BY SlotFacts, NoCpuAssumption, Zenon
     DEF IInv, TypeOK, Handoff, OnCore, Alone, Forking, Locked, wait_sleep, table, Goto, Runs, Zombies, Children
<1>. QED BY <1>1, AloneStep, Zenon

\* wait() goes on after its sleep, with the lock.
LEMMA Inv_wait_resume ==
  ASSUME IInv, NEW c \in Cpu, NEW p \in Slot, wait_resume(c, p)
  PROVE  IInv'
<1>1. Alone(c, p, "wait_scan", state[p], 0)
  BY SlotFacts, NoCpuAssumption
     DEF IInv, TypeOK, Handoff, OnCore, Alone, Forking, Locked, wait_resume, table, Goto, Runs
<1>. QED BY <1>1, AloneStep

\* The table as userinit() leaves it satisfies the inductive invariant.
LEMMA InitInv == Init => IInv
<1> SUFFICES ASSUME Init PROVE IInv
  OBVIOUS
<1> USE SlotFacts, NoCpuAssumption, NPROCAssumption DEF Init
<1>1. TypeOK
  BY DEF TypeOK, Labels, procstate
<1>2. Handoff /\ OnCore /\ OffCore
  BY Zenon DEF Handoff, OnCore, OffCore, Forking, Locked
<1>3. Forks
  BY Zenon DEF Forks, Forking
<1>4. Stacks
  BY Zenon DEF Stacks, Live
<1>5. Pids
  BY DEF Pids
<1>6. Tree /\ Sleepers
  BY Zenon DEF Tree, Live, Sleepers
<1>. QED BY <1>1, <1>2, <1>3, <1>4, <1>5, <1>6, Zenon DEF IInv

\* Every step preserves it: one lemma for each action.
LEMMA NextInv == IInv /\ [Next]_vars => IInv'
<1> SUFFICES ASSUME IInv, [Next]_vars PROVE IInv'
  OBVIOUS
<1>1. CASE UNCHANGED vars
  <2> USE <1>1 DEF IInv, vars
  <2>1. TypeOK'
    BY Zenon DEF TypeOK
  <2>2. Handoff' /\ OnCore'
    BY Zenon DEF Handoff, OnCore
  <2>3. OffCore' /\ Forks'
    BY DEF OffCore, Forks, Forking
  <2>4. Stacks' /\ Pids'
    BY Zenon DEF Stacks, Live, Pids
  <2>5. Tree'
    BY Zenon DEF Tree, Live
  <2>6. Sleepers'
    BY Zenon DEF Sleepers, Children
  <2>. QED BY <2>1, <2>2, <2>3, <2>4, <2>5, <2>6, Zenon
<1>2. ASSUME NEW c \in Cpu, Scheduler(c) PROVE IInv'
  BY <1>2, Inv_scheduler_acquire, Inv_scheduler_skip, Inv_scheduler_run,
     Inv_scheduler_release, Zenon DEF Scheduler
<1>3. ASSUME NEW c \in Cpu, NEW p \in Slot, Kernel(c, p) PROVE IInv'
  <2>1. CASE Sched(c, p)
    BY <2>1, Inv_sched DEF Sched
  <2>2. CASE forkret(c, p) \/ sleep_resume(c, p)
    BY <2>2, Inv_forkret, Inv_sleep_resume, Zenon
  <2>3. CASE \/ allocproc(c, p) \/ allocproc_kstack(c, p)
             \/ fork_copy(c, p) \/ fork_run(c, p)
    BY <2>3, Inv_allocproc, Inv_allocproc_kstack, Inv_fork_copy, Inv_fork_run, Zenon
  <2>4. CASE exit(c, p) \/ wait(c, p) \/ wait_reap(c, p)
    BY <2>4, Inv_exit, Inv_wait, Inv_wait_reap, Zenon
  <2>5. CASE wait_fail(c, p) \/ wait_sleep(c, p) \/ wait_resume(c, p)
    BY <2>5, Inv_wait_fail, Inv_wait_sleep, Inv_wait_resume, Zenon
  <2>. QED BY <1>3, <2>1, <2>2, <2>3, <2>4, <2>5, Zenon DEF Kernel
<1>4. ASSUME NEW c \in Cpu, NEW p \in Slot, User(c, p) PROVE IInv'
  BY <1>4, Inv_Syscall, Inv_sleep, Inv_kill, Zenon DEF User
<1>5. ASSUME NEW ch \in OtherChan, wakeup(ch) PROVE IInv'
  BY <1>5, Inv_wakeup, Zenon
<1>. QED BY <1>1, <1>2, <1>3, <1>4, <1>5, Zenon DEF Next

\* The inductive invariant holds in every reachable state, for every table size,
\* number of cores, set of channels and kill() argument.
THEOREM Invariance == Spec => []IInv
BY InitInv, NextInv, PTL DEF Spec

\* Every field of the process table and of the cores keeps its type; in
\* particular the scheduler's loop variable never leaves the table.
THEOREM TypeCorrect == Spec => []TypeOK
<1>1. IInv => TypeOK
  BY Zenon DEF IInv
<1>. QED BY <1>1, Invariance, PTL

\* scheduler() never runs a process on two cores, and RUNNING means running.
THEOREM OneCore == Spec => []OneCoreEach
<1>1. IInv => OneCoreEach
  BY SlotFacts DEF IInv, TypeOK, Handoff, OnCore, OffCore, OneCoreEach, Locked
<1>. QED BY <1>1, Invariance, PTL

\* wait() never frees the kernel stack of a process that still executes exit().
THEOREM StacksSafe == Spec => []StackInUse
<1>1. IInv => StackInUse
  BY SlotFacts, Zenon DEF IInv, TypeOK, OnCore, Stacks, Live, StackInUse
<1>. QED BY <1>1, Invariance, PTL

\* exit() leaves no orphan: the parent of a process can always wait for it.
THEOREM NoOrphans == Spec => []ParentsAlive
<1>1. IInv => ParentsAlive
  BY SlotFacts DEF IInv, TypeOK, Tree, Live, ParentsAlive
<1>. QED BY <1>1, Invariance, PTL

\* No exit() goes unnoticed by a parent asleep in wait().
THEOREM ExitsNoticed == Spec => []NoMissedExit
<1>1. IInv => NoMissedExit
  BY SlotFacts, ChanAssumption DEF IInv, Sleepers, NoMissedExit, Slot
<1>. QED BY <1>1, Invariance, PTL

\* No error path of fork() loses a slot or a kernel stack.
THEOREM SlotsKept == Spec => []SlotsConserved
<1>1. IInv => SlotsConserved
  BY SlotFacts DEF IInv, Forks, Forking, Stacks, SlotsConserved
<1>. QED BY <1>1, Invariance, PTL

\* Live processes have different pids.
THEOREM PidsDiffer == Spec => []PidsUnique
<1>1. IInv => PidsUnique
  BY Zenon DEF IInv, Pids, PidsUnique, Live
<1>. QED BY <1>1, Invariance, PTL

===============================================================================
