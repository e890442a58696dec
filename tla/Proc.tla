--------------------------------- MODULE Proc ---------------------------------
(***************************************************************************)
(* The process table and the multi-core scheduler (source/proc.c): slot    *)
(* allocation, fork, exit, wait, kill, sleep and wakeup, sched and the     *)
(* per-core scheduler loop.                                                *)
(*                                                                         *)
(* ptable.lock is an AtomicLock held by a core.  It is not released by the *)
(* code that takes it: sched() switches to the scheduler with the lock     *)
(* held, the scheduler goes on scanning the table with it, and the process *)
(* it switches to (in forkret, wait or sleep) is the one that lets go.     *)
(* What the code does without the lock is a step of its own: the tail of   *)
(* allocproc, the error paths of fork and the store that makes a child     *)
(* RUNNABLE.                                                               *)
(***************************************************************************)
EXTENDS Naturals, FiniteSets

CONSTANTS NPROC,      \* size of the table
          Cpu,        \* the cores that are enabled
          NoCpu,      \* nobody has ptable.lock
          OtherChan,  \* sleep channels that are not a process (buffers, ticks, ...)
          KillArg,    \* the values processes pass to kill()
          MaxPid      \* bound: no fork once nextpid is past it

Slot == 1..NPROC      \* &ptable.proc[i]; 0 is the null pointer
initproc == 1         \* userinit() takes the first slot

ASSUME NPROCAssumption == NPROC \in Nat \ {0}
ASSUME NoCpuAssumption == NoCpu \notin Cpu
ASSUME ChanAssumption == OtherChan \subseteq Nat \ (0..NPROC)
ASSUME KillArgAssumption == KillArg \subseteq Nat
ASSUME MaxPidAssumption == MaxPid \in Nat

VARIABLES
    state, pid, parent, chan, killed, kstack,  \* struct proc, by slot
    nextpid,  \* the next pid
    lock,     \* the core that has ptable.lock, or NoCpu
    cproc,    \* cpu->proc: the process the core runs, or 0
    spos,     \* the loop variable of scheduler(); 0 outside the loop
    pc,       \* where the process is (in the kernel, or "user")
    np        \* fork's local variable

table == <<state, pid, parent, chan, killed, kstack, nextpid>>
vars == <<state, pid, parent, chan, killed, kstack, nextpid, lock, cproc, spos, pc, np>>

procstate == {"UNUSED", "EMBRYO", "SLEEPING", "RUNNABLE", "RUNNING", "ZOMBIE"}

\* A process that switched to the scheduler is at a "_resume" label, or at
\* "forkret" if it has never run.
Labels == {"user", "fork", "fork_kstack", "fork_copy", "fork_run",
           "exit", "exit_sched", "exit_resume",
           "wait", "wait_scan", "wait_sched", "wait_resume",
           "sleep_sched", "sleep_resume", "forkret"}

\* userinit() has made init RUNNABLE and every core enters scheduler().
Init ==
    /\ state   = [p \in Slot |-> IF p = initproc THEN "RUNNABLE" ELSE "UNUSED"]
    /\ pid     = [p \in Slot |-> IF p = initproc THEN 1 ELSE 0]
    /\ parent  = [p \in Slot |-> 0]
    /\ chan    = [p \in Slot |-> 0]
    /\ killed  = [p \in Slot |-> FALSE]
    /\ kstack  = [p \in Slot |-> p = initproc]
    /\ nextpid = 2
    /\ lock    = NoCpu
    /\ cproc   = [c \in Cpu |-> 0]
    /\ spos    = [c \in Cpu |-> 0]
    /\ pc      = [p \in Slot |-> "forkret"]
    /\ np      = [p \in Slot |-> 0]

\* wakeup1(ch) on the states st: everyone sleeping on the channel is RUNNABLE.
wakeup1(st, ch) ==
    [p \in Slot |-> IF st[p] = "SLEEPING" /\ chan[p] = ch THEN "RUNNABLE" ELSE st[p]]

\* q is where a scan of the table stops that looks for a slot of S.
First(q, S) == q \in S /\ \A r \in S : q <= r

\* p++ in the loop of scheduler().
NextSlot(c) == spos[c] + 1

Goto(p, label) == pc' = [pc EXCEPT ![p] = label]

-------------------------------------------------------------------------------
(* scheduler()                                                             *)

scheduler_acquire(c) ==
    /\ cproc[c] = 0 /\ spos[c] = 0
    /\ lock = NoCpu
    /\ lock' = c
    /\ spos' = [spos EXCEPT ![c] = 1]
    /\ UNCHANGED <<table, cproc, pc, np>>

scheduler_skip(c) ==
    /\ lock = c /\ cproc[c] = 0
    /\ spos[c] \in Slot
    /\ state[spos[c]] # "RUNNABLE"
    /\ spos' = [spos EXCEPT ![c] = NextSlot(c)]
    /\ UNCHANGED <<table, lock, cproc, pc, np>>

\* swtch() to the process, which goes on with the lock held.
scheduler_run(c) ==
    /\ lock = c /\ cproc[c] = 0
    /\ spos[c] \in Slot
    /\ state[spos[c]] = "RUNNABLE"
    /\ cproc' = [cproc EXCEPT ![c] = spos[c]]
    /\ state' = [state EXCEPT ![spos[c]] = "RUNNING"]
    /\ UNCHANGED <<pid, parent, chan, killed, kstack, nextpid, lock, spos, pc, np>>

scheduler_release(c) ==
    /\ lock = c /\ cproc[c] = 0
    /\ spos[c] = NPROC + 1
    /\ lock' = NoCpu
    /\ spos' = [spos EXCEPT ![c] = 0]
    /\ UNCHANGED <<table, cproc, pc, np>>

-------------------------------------------------------------------------------
(* sched(), and where a process goes on when it is chosen again            *)

Runs(c, p) == cproc[c] = p /\ p \in Slot

\* swtch() to the scheduler of this core, which clears cpu->proc and goes on
\* with the slot after p.
sched(c, p, from, to) ==
    /\ Runs(c, p) /\ pc[p] = from
    /\ lock = c
    /\ cproc' = [cproc EXCEPT ![c] = 0]
    /\ spos' = [spos EXCEPT ![c] = NextSlot(c)]
    /\ Goto(p, to)
    /\ UNCHANGED <<table, lock, np>>

Sched(c, p) ==
    \/ sched(c, p, "exit_sched", "exit_resume")
    \/ sched(c, p, "wait_sched", "wait_resume")
    \/ sched(c, p, "sleep_sched", "sleep_resume")

\* A child's first run: it releases the scheduler's lock and goes to user space.
forkret(c, p) ==
    /\ Runs(c, p) /\ pc[p] = "forkret"
    /\ lock' = NoCpu
    /\ Goto(p, "user")
    /\ UNCHANGED <<table, cproc, spos, np>>

-------------------------------------------------------------------------------
(* sleep() on a lock other than ptable.lock, wakeup(), kill()              *)

\* Mutant: ptable.lock is released before sched() instead of after it.
sleep_unlocked(c, p, ch) ==
    /\ Runs(c, p) /\ pc[p] = "user"
    /\ lock = NoCpu
    /\ chan' = [chan EXCEPT ![p] = ch]
    /\ state' = [state EXCEPT ![p] = "SLEEPING"]
    /\ Goto(p, "sleep_sched")
    /\ UNCHANGED <<pid, parent, killed, kstack, nextpid, lock, cproc, spos, np>>

\* sleep(ch, lk): ptable.lock is taken before lk is released.
sleep(c, p, ch) ==
    /\ Runs(c, p) /\ pc[p] = "user"
    /\ lock = NoCpu
    /\ lock' = c
    /\ chan' = [chan EXCEPT ![p] = ch]
    /\ state' = [state EXCEPT ![p] = "SLEEPING"]
    /\ Goto(p, "sleep_sched")
    /\ UNCHANGED <<pid, parent, killed, kstack, nextpid, cproc, spos, np>>

sleep_resume(c, p) ==
    /\ Runs(c, p) /\ pc[p] = "sleep_resume"
    /\ chan' = [chan EXCEPT ![p] = 0]
    /\ lock' = NoCpu
    /\ Goto(p, "user")
    /\ UNCHANGED <<state, pid, parent, killed, kstack, nextpid, cproc, spos, np>>

\* wakeup(ch), by another process or by an interrupt handler.
wakeup(ch) ==
    /\ lock = NoCpu
    /\ state' = wakeup1(state, ch)
    /\ UNCHANGED <<pid, parent, chan, killed, kstack, nextpid, lock, cproc, spos, pc, np>>

\* kill(n): the first slot with that pid, whatever its state.
kill(c, p, n) ==
    /\ Runs(c, p) /\ pc[p] = "user"
    /\ lock = NoCpu
    /\ LET match == {q \in Slot : pid[q] = n} IN
       \/ match = {} /\ UNCHANGED <<state, killed>>
       \/ \E q \in Slot :
             /\ First(q, match)
             /\ killed' = [killed EXCEPT ![q] = TRUE]
             /\ state' = [state EXCEPT ![q] = IF @ = "SLEEPING" THEN "RUNNABLE" ELSE @]
    /\ UNCHANGED <<pid, parent, chan, kstack, nextpid, lock, cproc, spos, pc, np>>

-------------------------------------------------------------------------------
(* fork()                                                                  *)

\* A process in user space makes a system call; init never exits.
Syscall(c, p, call) ==
    /\ Runs(c, p) /\ pc[p] = "user"
    /\ call = "exit" => p # initproc
    /\ call = "fork" => nextpid <= MaxPid
    /\ Goto(p, call)
    /\ UNCHANGED <<table, lock, cproc, spos, np>>

\* nextpid++.
NextPid == nextpid + 1

\* The locked part of allocproc().
allocproc(c, p) ==
    /\ Runs(c, p) /\ pc[p] = "fork"
    /\ lock = NoCpu
    /\ LET unused == {q \in Slot : state[q] = "UNUSED"} IN
       \/ /\ unused = {}
          /\ Goto(p, "user")
          /\ UNCHANGED <<state, pid, nextpid, np>>
       \/ \E q \in Slot :
             /\ First(q, unused)
             /\ state' = [state EXCEPT ![q] = "EMBRYO"]
             /\ pid' = [pid EXCEPT ![q] = nextpid]
             /\ nextpid' = NextPid
             /\ np' = [np EXCEPT ![p] = q]
             /\ Goto(p, "fork_kstack")
    /\ UNCHANGED <<parent, chan, killed, kstack, lock, cproc, spos>>

\* The rest of allocproc(), without the lock: there is a page for the kernel
\* stack, or there is none.
allocproc_kstack(c, p) ==
    /\ Runs(c, p) /\ pc[p] = "fork_kstack"
    /\ \/ /\ kstack' = [kstack EXCEPT ![np[p]] = TRUE]
          /\ pc' = [pc EXCEPT ![p] = "fork_copy", ![np[p]] = "forkret"]
          /\ UNCHANGED <<state, np>>
       \/ /\ state' = [state EXCEPT ![np[p]] = "UNUSED"]
          /\ np' = [np EXCEPT ![p] = 0]
          /\ Goto(p, "user")
          /\ UNCHANGED kstack
    /\ UNCHANGED <<pid, parent, chan, killed, nextpid, lock, cproc, spos>>

\* kfree(q->kstack); q->kstack = 0.
FreeStack(q) == [kstack EXCEPT ![q] = FALSE]

\* copyuvm() fails and everything is given back, or the child gets its parent.
fork_copy(c, p) ==
    /\ Runs(c, p) /\ pc[p] = "fork_copy"
    /\ \/ /\ kstack' = FreeStack(np[p])
          /\ state' = [state EXCEPT ![np[p]] = "UNUSED"]
          /\ np' = [np EXCEPT ![p] = 0]
          /\ Goto(p, "user")
          /\ UNCHANGED parent
       \/ /\ parent' = [parent EXCEPT ![np[p]] = p]
          /\ Goto(p, "fork_run")
          /\ UNCHANGED <<state, kstack, np>>
    /\ UNCHANGED <<pid, chan, killed, nextpid, lock, cproc, spos>>

\* The child is made RUNNABLE without the lock.
fork_run(c, p) ==
    /\ Runs(c, p) /\ pc[p] = "fork_run"
    /\ state' = [state EXCEPT ![np[p]] = "RUNNABLE"]
    /\ np' = [np EXCEPT ![p] = 0]
    /\ Goto(p, "user")
    /\ UNCHANGED <<pid, parent, chan, killed, kstack, nextpid, lock, cproc, spos>>

-------------------------------------------------------------------------------
(* exit() and wait()                                                       *)

Children(p) == {q \in Slot : parent[q] = p}

\* The wakeups of exit(p): its parent and, if a child it leaves is a zombie
\* already, init.  (Mutant: the parent is not woken.)
WakeInit(p) ==
    IF \E q \in Children(p) : state[q] = "ZOMBIE" THEN wakeup1(state, initproc) ELSE state
WakeOnExit(p) ==
    LET s1 == wakeup1(state, parent[p])
    IN  IF \E q \in Children(p) : s1[q] = "ZOMBIE" THEN wakeup1(s1, initproc) ELSE s1

\* "Pass abandoned children to init".
Adopt(p) == [q \in Slot |-> IF q \in Children(p) THEN initproc ELSE parent[q]]

exit(c, p) ==
    /\ Runs(c, p) /\ pc[p] = "exit"
    /\ lock = NoCpu
    /\ lock' = c
    /\ state' = [WakeOnExit(p) EXCEPT ![p] = "ZOMBIE"]
    /\ parent' = Adopt(p)
    /\ Goto(p, "exit_sched")
    /\ UNCHANGED <<pid, chan, killed, kstack, nextpid, cproc, spos, np>>

wait(c, p) ==
    /\ Runs(c, p) /\ pc[p] = "wait"
    /\ lock = NoCpu
    /\ lock' = c
    /\ Goto(p, "wait_scan")
    /\ UNCHANGED <<table, cproc, spos, np>>

\* The children wait() can reap.  (Mutant: the state is not checked.)
AnyChild(p) == Children(p)
Zombies(p) == {q \in Children(p) : state[q] = "ZOMBIE"}

\* One pass of wait() over the table finds a zombie and frees its slot, ...
wait_reap(c, p) ==
    /\ Runs(c, p) /\ pc[p] = "wait_scan"
    /\ \E q \in Slot :
          /\ First(q, Zombies(p))
          /\ kstack' = FreeStack(q)
          /\ state' = [state EXCEPT ![q] = "UNUSED"]
          /\ pid' = [pid EXCEPT ![q] = 0]
          /\ parent' = [parent EXCEPT ![q] = 0]
          /\ killed' = [killed EXCEPT ![q] = FALSE]
    /\ lock' = NoCpu
    /\ Goto(p, "user")
    /\ UNCHANGED <<chan, nextpid, cproc, spos, np>>

\* ... or gives up, ...
wait_fail(c, p) ==
    /\ Runs(c, p) /\ pc[p] = "wait_scan"
    /\ Zombies(p) = {}
    /\ Children(p) = {} \/ killed[p]
    /\ lock' = NoCpu
    /\ Goto(p, "user")
    /\ UNCHANGED <<table, cproc, spos, np>>

\* ... or sleeps on the process itself, with ptable.lock as the lock.
wait_sleep(c, p) ==
    /\ Runs(c, p) /\ pc[p] = "wait_scan"
    /\ Zombies(p) = {}
    /\ Children(p) # {} /\ ~killed[p]
    /\ chan' = [chan EXCEPT ![p] = p]
    /\ state' = [state EXCEPT ![p] = "SLEEPING"]
    /\ Goto(p, "wait_sched")
    /\ UNCHANGED <<pid, parent, killed, kstack, nextpid, lock, cproc, spos, np>>

wait_resume(c, p) ==
    /\ Runs(c, p) /\ pc[p] = "wait_resume"
    /\ chan' = [chan EXCEPT ![p] = 0]
    /\ Goto(p, "wait_scan")
    /\ UNCHANGED <<state, pid, parent, killed, kstack, nextpid, lock, cproc, spos, np>>

-------------------------------------------------------------------------------

Scheduler(c) ==
    scheduler_acquire(c) \/ scheduler_skip(c) \/ scheduler_run(c) \/ scheduler_release(c)

\* The steps a process takes once it is in the kernel.
Kernel(c, p) ==
    \/ Sched(c, p) \/ forkret(c, p) \/ sleep_resume(c, p)
    \/ allocproc(c, p) \/ allocproc_kstack(c, p) \/ fork_copy(c, p) \/ fork_run(c, p)
    \/ exit(c, p) \/ wait(c, p)
    \/ wait_reap(c, p) \/ wait_fail(c, p) \/ wait_sleep(c, p) \/ wait_resume(c, p)

\* What it does from user space.
User(c, p) ==
    \/ \E call \in {"fork", "exit", "wait"} : Syscall(c, p, call)
    \/ \E ch \in OtherChan : sleep(c, p, ch)
    \/ \E n \in KillArg : kill(c, p, n)

Next ==
    \/ \E c \in Cpu : Scheduler(c)
    \/ \E c \in Cpu, p \in Slot : Kernel(c, p) \/ User(c, p)
    \/ \E ch \in OtherChan : wakeup(ch)

Spec == Init /\ [][Next]_vars

\* The steps that wait for ptable.lock.
Acquires(c, p) == allocproc(c, p) \/ exit(c, p) \/ wait(c, p)

\* Cores keep executing kernel code, and a core that keeps trying gets
\* ptable.lock in the end.  init waits for children again and again
\* (uprogs/init.c); any other program leaves the processor in the end by
\* exiting, since this kernel never takes it away (no handler calls yield());
\* what a sleeper waits for happens.
Fairness ==
    /\ \A c \in Cpu : WF_vars(Scheduler(c)) /\ SF_vars(scheduler_acquire(c))
    /\ \A p \in Slot : /\ WF_vars(\E c \in Cpu : Kernel(c, p))
                       /\ SF_vars(\E c \in Cpu : Acquires(c, p))
    /\ SF_vars(\E c \in Cpu : Syscall(c, initproc, "wait"))
    /\ \A p \in Slot \ {initproc} : SF_vars(\E c \in Cpu : Syscall(c, p, "exit"))
    /\ \A ch \in OtherChan : SF_vars(wakeup(ch))

FairSpec == Spec /\ Fairness

-------------------------------------------------------------------------------
(* Properties                                                              *)

TypeOK ==
    /\ state \in [Slot -> procstate]
    /\ pid \in [Slot -> Nat]
    /\ parent \in [Slot -> {0} \cup Slot]
    /\ chan \in [Slot -> {0} \cup Slot \cup OtherChan]
    /\ killed \in [Slot -> BOOLEAN]
    /\ kstack \in [Slot -> BOOLEAN]
    /\ nextpid \in Nat
    /\ lock \in Cpu \cup {NoCpu}
    /\ cproc \in [Cpu -> {0} \cup Slot]
    /\ spos \in [Cpu -> 0..NPROC + 1]
    /\ pc \in [Slot -> Labels]
    /\ np \in [Slot -> {0} \cup Slot]

Live(p) == state[p] \in {"SLEEPING", "RUNNABLE", "RUNNING", "ZOMBIE"}

Forking(p) == pc[p] \in {"fork_kstack", "fork_copy", "fork_run"}

\* No process runs on two cores, a process marked RUNNING is on one, and one
\* that is on a core which is not in the middle of a switch is RUNNING.  A
\* process puts itself to sleep while it still runs: only the lock that it
\* hands to the scheduler keeps another core from picking it up too early.
OneCoreEach ==
    /\ \A c, d \in Cpu : cproc[c] = cproc[d] /\ cproc[c] # 0 => c = d
    /\ \A p \in Slot : state[p] = "RUNNING" => \E c \in Cpu : cproc[c] = p
    /\ \A c \in Cpu : cproc[c] # 0 /\ lock # c => state[cproc[c]] = "RUNNING"

\* The kernel stack a core executes on is allocated: an exiting process, which
\* is a ZOMBIE while it still stands on its stack, is not reaped before it has
\* switched away.
StackInUse ==
    \A c \in Cpu : cproc[c] # 0 => kstack[cproc[c]]

\* Every process but init has a parent that can still wait for it: a process
\* that exits leaves no child behind, not even one that is a zombie already.
ParentsAlive ==
    \A p \in Slot \ {initproc} :
        Live(p) => /\ parent[p] \in Slot
                   /\ state[parent[p]] \in {"SLEEPING", "RUNNABLE", "RUNNING"}

\* No missed wakeup in wait(): whenever nobody is inside ptable.lock, a process
\* asleep in wait() has a child to wait for and no child that has exited.
NoMissedExit ==
    lock = NoCpu =>
        \A p \in Slot :
            state[p] = "SLEEPING" /\ chan[p] = p =>
                /\ Children(p) # {}
                /\ \A q \in Children(p) : state[q] # "ZOMBIE"

\* Slots and kernel stacks are conserved: a slot being set up belongs to exactly
\* one fork() in progress, and a free slot has no stack left in it.
SlotsConserved ==
    /\ \A q \in Slot : state[q] = "EMBRYO" => \E p \in Slot : Forking(p) /\ np[p] = q
    /\ \A p, q \in Slot : np[p] = np[q] /\ np[p] # 0 => p = q
    /\ \A p \in Slot : Forking(p) => np[p] \in Slot /\ state[np[p]] = "EMBRYO"
    /\ \A q \in Slot : state[q] = "UNUSED" => ~kstack[q]

\* Two live processes never have the same pid, although a failed fork() leaves
\* its pid in the free slot.
PidsUnique ==
    \A p, q \in Slot : Live(p) /\ Live(q) /\ pid[p] = pid[q] => p = q

\* A process that exits is reaped: by its parent or, once that has exited
\* itself, by init.
ZombiesReaped ==
    \A p \in Slot : state[p] = "ZOMBIE" ~> state[p] = "UNUSED"

\* "Process won't exit until it returns to user space (see trap in trap.c)"
\* (kill, proc.c:494): a process that is killed while it is in a trap does not
\* get back to user space.  forkret(), where a child goes to user space for the
\* first time, is not a return from a trap.
KilledNotReturned ==
    [][\A p \in Slot : pc[p] \notin {"user", "forkret"} /\ pc'[p] = "user" => ~killed[p]]_vars

-------------------------------------------------------------------------------
(* The inductive invariant behind the safety properties                    *)

\* Where a process that is on a core has ptable.lock.
Locked == {"exit_sched", "wait_scan", "wait_sched", "wait_resume",
           "sleep_sched", "sleep_resume", "forkret"}

\* A core that is in the loop of scheduler() has the lock unless it runs a
\* process that has released it; the core that has the lock is in the loop.
Handoff ==
    /\ \A c \in Cpu, p \in Slot :
           cproc[c] = p => spos[c] = p /\ (lock = c <=> pc[p] \in Locked)
    /\ \A c \in Cpu : cproc[c] = 0 => (lock = c <=> spos[c] # 0)

\* On a core, the state of a process follows from where it is; ...
OnCore ==
    /\ \A c, d \in Cpu : cproc[c] = cproc[d] /\ cproc[c] # 0 => c = d
    /\ \A c \in Cpu, p \in Slot : cproc[c] = p =>
           /\ pc[p] = "exit_sched" => state[p] = "ZOMBIE"
           /\ pc[p] \in {"wait_sched", "sleep_sched"} => state[p] = "SLEEPING"
           /\ pc[p] \notin {"exit_sched", "wait_sched", "sleep_sched"} => state[p] = "RUNNING"
           /\ pc[p] # "exit_resume"

\* ... off the cores, it is where it will resume.
OffCore ==
    \A p \in Slot : (\A c \in Cpu : cproc[c] # p) =>
        /\ state[p] # "RUNNING"
        /\ state[p] \in {"SLEEPING", "RUNNABLE"} =>
               pc[p] \in {"forkret", "wait_resume", "sleep_resume"}
        /\ state[p] = "ZOMBIE" => pc[p] = "exit_resume"
        /\ ~Forking(p)

\* Each fork() in progress has a slot of its own.
Forks ==
    /\ \A p \in Slot : Forking(p) => np[p] \in Slot /\ state[np[p]] = "EMBRYO"
    /\ \A p \in Slot : np[p] # 0 => Forking(p)
    /\ \A p, q \in Slot : np[p] = np[q] /\ np[p] # 0 => p = q
    /\ \A q \in Slot : state[q] = "EMBRYO" => \E p \in Slot : np[p] = q
    /\ \A p \in Slot : pc[p] \in {"fork_copy", "fork_run"} =>
           kstack[np[p]] /\ pc[np[p]] = "forkret"
    /\ \A p \in Slot : pc[p] = "fork_kstack" => ~kstack[np[p]]

Stacks ==
    \A p \in Slot : /\ Live(p) => kstack[p]
                    /\ state[p] = "UNUSED" => ~kstack[p]

\* Pids are handed out in increasing order.
Pids ==
    /\ \A p \in Slot : pid[p] < nextpid
    /\ \A p, q \in Slot :
           state[p] # "UNUSED" /\ state[q] # "UNUSED" /\ pid[p] = pid[q] => p = q

\* The process tree: only live processes and a child about to run have a parent.
Tree ==
    /\ state[initproc] \in {"SLEEPING", "RUNNABLE", "RUNNING"}
    /\ pc[initproc] \notin {"exit", "exit_sched", "exit_resume"}
    /\ parent[initproc] = 0
    /\ \A p \in Slot : parent[p] # 0 =>
           /\ parent[p] # p
           /\ state[parent[p]] \in {"SLEEPING", "RUNNABLE", "RUNNING"}
           /\ Live(p) \/ (pc[parent[p]] = "fork_run" /\ np[parent[p]] = p)
    /\ \A p \in Slot \ {initproc} : Live(p) => parent[p] # 0
    /\ \A p \in Slot : pc[p] = "fork_run" => parent[np[p]] = p

\* Only wait() sleeps on a process, and on its own; while it does, a child is
\* left and none has exited.
Sleepers ==
    \A p \in Slot : state[p] = "SLEEPING" =>
        \/ /\ pc[p] \in {"wait_sched", "wait_resume"}
           /\ chan[p] = p
           /\ Children(p) # {}
           /\ \A q \in Children(p) : state[q] # "ZOMBIE"
        \/ /\ pc[p] \in {"sleep_sched", "sleep_resume"}
           /\ chan[p] \in OtherChan

IInv == /\ TypeOK /\ Handoff /\ OnCore /\ OffCore /\ Forks /\ Stacks
        /\ Pids /\ Tree /\ Sleepers
===============================================================================
