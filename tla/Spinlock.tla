------------------------------- MODULE Spinlock -------------------------------
(***************************************************************************)
(* Spin locks and the interrupt nesting they rest on: acquire, release and *)
(* holding (source/spinlock.c), pushcli and popcli (source/arm.c), and the *)
(* places that turn interrupts off and on around them: the SWI trap and    *)
(* its return, the IRQ trap and its return, the scheduler's sti(), and the *)
(* switches between processes and the scheduler, which carry ptable.lock   *)
(* and cpu->intena across (source/proc.c).                                 *)
(*                                                                         *)
(* A core runs its thread (a process in the kernel or in user mode, or the *)
(* scheduler) or, on top of it, an IRQ handler; the IRQ trap saves where   *)
(* the thread was.  Every memory access that another core can observe is a *)
(* step of its own: the exclusive load, the exclusive store, the store to  *)
(* lk->cpu, the store that unlocks, the event that wakes the waiters.      *)
(***************************************************************************)
EXTENDS Naturals, FiniteSets

CONSTANTS Cpu,     \* the cores
          Lock,    \* the struct spinlocks
          ptable,  \* &ptable.lock
          Rank,    \* the order in which the kernel nests them
          NoCpu,   \* lk->cpu = 0
          NoLock   \* an exclusive monitor with no reservation

ASSUME RankAssumption == Rank \in [Lock -> Nat]
ASSUME PtableAssumption == ptable \in Lock
ASSUME NoCpuAssumption == NoCpu \notin Cpu
ASSUME NoLockAssumption == NoLock \notin Lock

VARIABLES
    locked,   \* lk->locked
    owner,    \* lk->cpu
    irqon,    \* interrupts enabled on the core (CPSR.I clear)
    ncli,     \* cpu->ncli
    intena,   \* cpu->intena
    monitor,  \* the lock the core's exclusive monitor is set on
    event,    \* the core's event register (WFE/SEV)
    inirq,    \* an IRQ handler is running on top of the thread
    mode,     \* what the thread is: see Modes
    pc,       \* where the core is in acquire() or release()
    lk,       \* their argument
    enabled,  \* pushcli's local variable
    held,     \* the locks the running code has between acquire() and release()
    frame,    \* the same four of the thread a handler has interrupted
    saved     \* what sched() has in its local intena, over the processes in it

vars == <<locked, owner, irqon, ncli, intena, monitor, event, inirq, mode,
          pc, lk, enabled, held, frame, saved>>

Labels == {"run", "cli", "ldrex", "wfe", "strex", "own", "unlock", "sev", "popcli"}

\* The thread of a core is the scheduler, a process in its first run (on its
\* way to user space for the first time), one in a system call, or one in user
\* space.
Modes == {"sched", "new", "sys", "user"}

NoFrame == [pc |-> "run", lk |-> NoLock, enabled |-> FALSE, held |-> {}]

\* The cores enter scheduler(), with interrupts on or off.
Init ==
    /\ locked  = [l \in Lock |-> 0]
    /\ owner   = [l \in Lock |-> NoCpu]
    /\ irqon   \in [Cpu -> BOOLEAN]
    /\ ncli    = [c \in Cpu |-> 0]
    /\ intena  = [c \in Cpu |-> FALSE]
    /\ monitor = [c \in Cpu |-> NoLock]
    /\ event   = [c \in Cpu |-> FALSE]
    /\ inirq   = [c \in Cpu |-> FALSE]
    /\ mode    = [c \in Cpu |-> "sched"]
    /\ pc      = [c \in Cpu |-> "run"]
    /\ lk      = [c \in Cpu |-> NoLock]
    /\ enabled = [c \in Cpu |-> FALSE]
    /\ held    = [c \in Cpu |-> {}]
    /\ frame   = [c \in Cpu |-> NoFrame]
    /\ saved   = {}

-------------------------------------------------------------------------------
(* acquire()                                                               *)

\* Who calls acquire(): interrupt handlers, the kernel on behalf of a process,
\* and scheduler(), which takes ptable.lock after its sti().
Caller(c, l) ==
    \/ inirq[c]
    \/ mode[c] \in {"sys", "new"}
    \/ mode[c] = "sched" /\ l = ptable /\ irqon[c]

\* acquire(l) is called, pushcli() starts: enabled = int_enabled().  The
\* kernel takes locks in increasing rank and never one that it has.
acquire(c, l) ==
    /\ pc[c] = "run"
    /\ Caller(c, l)
    /\ \A h \in held[c] : Rank[h] < Rank[l]
    /\ enabled' = [enabled EXCEPT ![c] = irqon[c]]
    /\ lk' = [lk EXCEPT ![c] = l]
    /\ pc' = [pc EXCEPT ![c] = "cli"]
    /\ UNCHANGED <<locked, owner, irqon, ncli, intena, monitor, event, inirq, mode, held, frame, saved>>

\* (Mutant: the interrupts stay on.)
nop(c) == irqon
cli(c) == [irqon EXCEPT ![c] = FALSE]

pushcli(c) ==
    /\ pc[c] = "cli"
    /\ irqon' = cli(c)
    /\ ncli' = [ncli EXCEPT ![c] = @ + 1]
    /\ intena' = [intena EXCEPT ![c] = IF ncli[c] = 0 THEN enabled[c] ELSE @]
    /\ enabled' = [enabled EXCEPT ![c] = FALSE]
    /\ pc' = [pc EXCEPT ![c] = "ldrex"]
    /\ UNCHANGED <<locked, owner, monitor, event, inirq, mode, lk, held, frame, saved>>

\* LDREX sets the core's exclusive monitor; TEQ picks the branch.
ldrex(c) ==
    /\ pc[c] = "ldrex"
    /\ monitor' = [monitor EXCEPT ![c] = lk[c]]
    /\ pc' = [pc EXCEPT ![c] = IF locked[lk[c]] = 0 THEN "strex" ELSE "wfe"]
    /\ UNCHANGED <<locked, owner, irqon, ncli, intena, event, inirq, mode, lk, enabled, held, frame, saved>>

\* WFENE returns when the event register is set, and clears it.
wfe(c) ==
    /\ pc[c] = "wfe"
    /\ event[c]
    /\ event' = [event EXCEPT ![c] = FALSE]
    /\ pc' = [pc EXCEPT ![c] = "ldrex"]
    /\ UNCHANGED <<locked, owner, irqon, ncli, intena, monitor, inirq, mode, lk, enabled, held, frame, saved>>

\* A store to l takes every reservation on it away.
Invalidate(l) == [d \in Cpu |-> IF monitor[d] = l THEN NoLock ELSE monitor[d]]

\* STREX stores only if the reservation of its LDREX is left.  (Mutant: a plain
\* store.)
Plain(c) == TRUE
Exclusive(c) == monitor[c] = lk[c]

strex(c) ==
    /\ pc[c] = "strex"
    /\ \/ /\ Exclusive(c)
          /\ locked' = [locked EXCEPT ![lk[c]] = 1]
          /\ monitor' = Invalidate(lk[c])
          /\ pc' = [pc EXCEPT ![c] = "own"]
       \/ /\ ~Exclusive(c)
          /\ pc' = [pc EXCEPT ![c] = "ldrex"]
          /\ UNCHANGED <<locked, monitor>>
    /\ UNCHANGED <<owner, irqon, ncli, intena, event, inirq, mode, lk, enabled, held, frame, saved>>

\* lk->cpu = curr_cpu.
Recorded(c) == [owner EXCEPT ![lk[c]] = c]

\* acquire() returns.
own(c) ==
    /\ pc[c] = "own"
    /\ owner' = Recorded(c)
    /\ held' = [held EXCEPT ![c] = @ \cup {lk[c]}]
    /\ lk' = [lk EXCEPT ![c] = NoLock]
    /\ pc' = [pc EXCEPT ![c] = "run"]
    /\ UNCHANGED <<locked, irqon, ncli, intena, monitor, event, inirq, mode, enabled, frame, saved>>

-------------------------------------------------------------------------------
(* release()                                                               *)

\* lk->cpu = 0.
Cleared(l) == [owner EXCEPT ![l] = NoCpu]

\* release(l) is called.  Locks need not be released in the
\* reverse order: sleep() takes ptable.lock and then lets go of its argument.
release(c, l) ==
    /\ pc[c] = "run"
    /\ l \in held[c]
    /\ held' = [held EXCEPT ![c] = @ \ {l}]
    /\ owner' = Cleared(l)
    /\ lk' = [lk EXCEPT ![c] = l]
    /\ pc' = [pc EXCEPT ![c] = "unlock"]
    /\ UNCHANGED <<locked, irqon, ncli, intena, monitor, event, inirq, mode, enabled, frame, saved>>

unlock(c) ==
    /\ pc[c] = "unlock"
    /\ locked' = [locked EXCEPT ![lk[c]] = 0]
    /\ monitor' = Invalidate(lk[c])
    /\ pc' = [pc EXCEPT ![c] = "sev"]
    /\ UNCHANGED <<owner, irqon, ncli, intena, event, inirq, mode, lk, enabled, held, frame, saved>>

\* SEV sets the event register of every core.  (Mutant: there is no SEV.)
NoEvent == event
Signalled == [d \in Cpu |-> TRUE]

sev(c) ==
    /\ pc[c] = "sev"
    /\ event' = Signalled
    /\ pc' = [pc EXCEPT ![c] = "popcli"]
    /\ UNCHANGED <<locked, owner, irqon, ncli, intena, monitor, inirq, mode, lk, enabled, held, frame, saved>>

\* popcli's two panics.
PopcliPanics(c) == irqon[c] \/ ncli[c] = 0

popcli(c) ==
    /\ pc[c] = "popcli"
    /\ ~PopcliPanics(c)
    /\ ncli' = [ncli EXCEPT ![c] = @ - 1]
    /\ irqon' = [irqon EXCEPT ![c] = ncli[c] = 1 /\ intena[c]]
    /\ lk' = [lk EXCEPT ![c] = NoLock]
    /\ pc' = [pc EXCEPT ![c] = "run"]
    /\ UNCHANGED <<locked, owner, intena, monitor, event, inirq, mode, enabled, held, frame, saved>>

-------------------------------------------------------------------------------
(* Traps                                                                   *)

\* The IRQ trap masks interrupts and runs the handler on the thread's stack.
trap_irq(c) ==
    /\ irqon[c]
    /\ inirq' = [inirq EXCEPT ![c] = TRUE]
    /\ irqon' = [irqon EXCEPT ![c] = FALSE]
    /\ frame' = [frame EXCEPT ![c] =
                   [pc |-> pc[c], lk |-> lk[c], enabled |-> enabled[c], held |-> held[c]]]
    /\ pc' = [pc EXCEPT ![c] = "run"]
    /\ lk' = [lk EXCEPT ![c] = NoLock]
    /\ enabled' = [enabled EXCEPT ![c] = FALSE]
    /\ held' = [held EXCEPT ![c] = {}]
    /\ UNCHANGED <<locked, owner, ncli, intena, monitor, event, mode, saved>>

\* The handler returns; the saved status word, with interrupts on, comes back.
irq_return(c) ==
    /\ inirq[c]
    /\ pc[c] = "run"
    /\ held[c] = {}
    /\ inirq' = [inirq EXCEPT ![c] = FALSE]
    /\ irqon' = [irqon EXCEPT ![c] = TRUE]
    /\ pc' = [pc EXCEPT ![c] = frame[c].pc]
    /\ lk' = [lk EXCEPT ![c] = frame[c].lk]
    /\ enabled' = [enabled EXCEPT ![c] = frame[c].enabled]
    /\ held' = [held EXCEPT ![c] = frame[c].held]
    /\ frame' = [frame EXCEPT ![c] = NoFrame]
    /\ UNCHANGED <<locked, owner, ncli, intena, monitor, event, mode, saved>>

\* A user process traps with SWI: system calls run with interrupts masked.
trap_swi(c) ==
    /\ ~inirq[c] /\ mode[c] = "user"
    /\ mode' = [mode EXCEPT ![c] = "sys"]
    /\ irqon' = [irqon EXCEPT ![c] = FALSE]
    /\ UNCHANGED <<locked, owner, ncli, intena, monitor, event, inirq, pc, lk, enabled, held, frame, saved>>

\* The way to user space, whose status word has interrupts on.
trapret(c) ==
    /\ ~inirq[c] /\ mode[c] \in {"sys", "new"}
    /\ pc[c] = "run"
    /\ held[c] = {}
    /\ mode' = [mode EXCEPT ![c] = "user"]
    /\ irqon' = [irqon EXCEPT ![c] = TRUE]
    /\ UNCHANGED <<locked, owner, ncli, intena, monitor, event, inirq, pc, lk, enabled, held, frame, saved>>

-------------------------------------------------------------------------------
(* Switches between processes and the scheduler, with ptable.lock held     *)

\* scheduler() at the head of its loop.
sti(c) ==
    /\ ~inirq[c] /\ mode[c] = "sched"
    /\ pc[c] = "run"
    /\ held[c] = {}
    /\ irqon' = [irqon EXCEPT ![c] = TRUE]
    /\ UNCHANGED <<locked, owner, ncli, intena, monitor, event, inirq, mode, pc, lk, enabled, held, frame, saved>>

\* A process calls sched() with ptable.lock and no other lock.
CallsSched(c) ==
    /\ ~inirq[c] /\ mode[c] = "sys"
    /\ pc[c] = "run"
    /\ held[c] = {ptable}

holding(c, l) == locked[l] = 1 /\ owner[l] = c

\* Three of sched()'s four panics (the state of the process is in Proc).
SchedPanics(c) == ~holding(c, ptable) \/ ncli[c] # 1 \/ irqon[c]

sched(c) ==
    /\ CallsSched(c)
    /\ ~SchedPanics(c)
    /\ saved' = saved \cup {intena[c]}
    /\ mode' = [mode EXCEPT ![c] = "sched"]
    /\ UNCHANGED <<locked, owner, irqon, ncli, intena, monitor, event, inirq, pc, lk, enabled, held, frame>>

\* curr_cpu->intena = intena, after the switch.  (Mutant: it is left alone.)
NotRestored(c, v) == intena
Restored(c, v) == [intena EXCEPT ![c] = v]

\* scheduler() switches to a process, which goes on in sched(), on any core,
\* or starts in forkret().
swtch(c) ==
    /\ ~inirq[c] /\ mode[c] = "sched"
    /\ pc[c] = "run"
    /\ held[c] = {ptable}
    /\ \/ /\ mode' = [mode EXCEPT ![c] = "sys"]
          /\ \E v \in saved : intena' = Restored(c, v)
       \/ /\ mode' = [mode EXCEPT ![c] = "new"]
          /\ UNCHANGED intena
    /\ UNCHANGED <<locked, owner, irqon, ncli, monitor, event, inirq, pc, lk, enabled, held, frame, saved>>

-------------------------------------------------------------------------------

\* The steps inside acquire() and release(), which the core always goes on with.
Step(c) ==
    \/ pushcli(c) \/ ldrex(c) \/ wfe(c) \/ strex(c) \/ own(c)
    \/ unlock(c) \/ sev(c) \/ popcli(c)

Trap(c) == trap_irq(c) \/ irq_return(c) \/ trap_swi(c) \/ trapret(c)

Switch(c) == sti(c) \/ sched(c) \/ swtch(c)

Next ==
    \E c \in Cpu :
        \/ Step(c)
        \/ Trap(c)
        \/ Switch(c)
        \/ \E l \in Lock : acquire(c, l) \/ release(c, l)

Spec == Init /\ [][Next]_vars

\* Cores keep executing, a critical section is left in the end, and a handler
\* returns.  Nothing is assumed of who wins the race for a lock.
Fairness ==
    \A c \in Cpu :
        /\ WF_vars(Step(c))
        /\ WF_vars(\E l \in Lock : release(c, l))
        /\ WF_vars(irq_return(c))

FairSpec == Spec /\ Fairness

-------------------------------------------------------------------------------
(* Properties                                                              *)

TypeOK ==
    /\ locked \in [Lock -> {0, 1}]
    /\ owner \in [Lock -> Cpu \cup {NoCpu}]
    /\ irqon \in [Cpu -> BOOLEAN]
    /\ ncli \in [Cpu -> Nat]
    /\ intena \in [Cpu -> BOOLEAN]
    /\ monitor \in [Cpu -> Lock \cup {NoLock}]
    /\ event \in [Cpu -> BOOLEAN]
    /\ inirq \in [Cpu -> BOOLEAN]
    /\ mode \in [Cpu -> Modes]
    /\ pc \in [Cpu -> Labels]
    /\ lk \in [Cpu -> Lock \cup {NoLock}]
    /\ enabled \in [Cpu -> BOOLEAN]
    /\ held \in [Cpu -> SUBSET Lock]
    /\ frame \in [Cpu -> [pc : Labels, lk : Lock \cup {NoLock},
                           enabled : BOOLEAN, held : SUBSET Lock]]
    /\ saved \subseteq BOOLEAN

\* All the locks that code on core c has, interrupted code included.
HeldOn(c) == held[c] \cup frame[c].held

\* The locks whose word the running code keeps at 1: the ones it has, the one
\* it has just stored to and the one it is about to clear.
Occupied(c) == held[c] \cup (IF pc[c] \in {"own", "unlock"} THEN {lk[c]} ELSE {})

\* Two cores never have the same lock between acquire() and release(), nor do
\* a handler and the thread it interrupted, whatever the interleaving of the
\* LDREX/STREX pairs of the cores and of the interrupts that arrive in between.
MutualExclusion ==
    /\ \A c, d \in Cpu : c # d => HeldOn(c) \cap HeldOn(d) = {}
    /\ \A c \in Cpu : held[c] \cap frame[c].held = {}

\* An IRQ handler never runs on top of a thread that has a lock or is in the
\* middle of taking or releasing one: a handler that spins for a lock (wakeup()
\* takes ptable.lock, consoleintr() input.lock) is never waiting for the very
\* code it interrupted.
HandlerNeverOverHolder ==
    \A c \in Cpu :
        inirq[c] => frame[c].held = {} /\ frame[c].pc \in {"run", "cli"}

\* holding(l) tells the truth: lk->locked and lk->cpu say that this core has
\* the lock exactly when it does.  The order in which release() clears lk->cpu
\* and lk->locked is what makes it right.
HoldingIsExact ==
    \A c \in Cpu, l \in Lock : holding(c, l) <=> l \in HeldOn(c)

\* popcli() never finds interrupts on or the nesting count at zero: neither of
\* its panics can be reached from release().
PopcliNeverPanics ==
    \A c \in Cpu : pc[c] = "popcli" => ~PopcliPanics(c)

\* A process that calls sched() with ptable.lock alone passes its checks, also
\* when the lock was taken by the scheduler of this core and handed over.
SchedNeverPanics ==
    \A c \in Cpu : CallsSched(c) => ~SchedPanics(c)

\* "if interrupts are off, then pushcli, popcli leaves them off" (arm.c): a
\* system call runs with interrupts masked from the trap to the return, also
\* when it has slept in between and goes on on a core whose scheduler took
\* ptable.lock with interrupts on; user code always runs with them on.
SystemCallsMasked ==
    \A c \in Cpu :
        /\ mode[c] = "sys" => ~irqon[c] /\ ~inirq[c]
        /\ mode[c] = "user" /\ ~inirq[c] => irqon[c]

\* A core that went to WFE because it saw the lock taken is woken: the lock
\* may be freed between its LDREX and its WFE, and the event of that release
\* must not be lost.
WaitersWake ==
    \A c \in Cpu : pc[c] = "wfe" ~> pc[c] # "wfe"

\* acquire() and release() implement an atomic lock taken by cores.
Atomic == INSTANCE AtomicLock WITH Context <- Cpu, held <- [c \in Cpu |-> HeldOn(c)]
ImplementsAtomicLock == Atomic!Spec

-------------------------------------------------------------------------------
(* The inductive invariant behind them                                     *)

\* The argument of a call in progress is a lock; nobody has infinitely many.
Argument ==
    \A c \in Cpu :
        /\ pc[c] # "run" => lk[c] \in Lock
        /\ frame[c].pc # "run" => frame[c].lk \in Lock
        /\ IsFiniteSet(held[c])

\* The lock word is 1 exactly when some core occupies the lock; only one does.
LockWord ==
    /\ \A c, d \in Cpu : c # d => Occupied(c) \cap Occupied(d) = {}
    /\ \A c \in Cpu : pc[c] \in {"own", "unlock"} => lk[c] \notin held[c]
    /\ \A l \in Lock : locked[l] = 1 <=> \E c \in Cpu : l \in Occupied(c)

\* A reservation that STREX would use is on a free lock.
Reservation ==
    \A c \in Cpu : pc[c] = "strex" /\ monitor[c] = lk[c] => locked[lk[c]] = 0

\* lk->cpu names the core that has the lock, and no core otherwise.
Ownership ==
    \A l \in Lock, c \in Cpu : owner[l] = c <=> l \in held[c]

\* An interrupted thread is not past pushcli().
Suspended ==
    \A c \in Cpu :
        /\ frame[c].held = {}
        /\ frame[c].pc \in {"run", "cli"}
        /\ frame[c].pc = "cli" => frame[c].enabled
        /\ ~inirq[c] \/ mode[c] = "user" => frame[c].pc = "run"

\* ncli counts the locks of the running code, plus the one it is taking or
\* has released without having reached popcli().
Nesting ==
    \A c \in Cpu :
        /\ ncli[c] = Cardinality(held[c]) + (IF pc[c] \in {"run", "cli"} THEN 0 ELSE 1)
        /\ ncli[c] > 0 => ~irqon[c]
        /\ pc[c] = "cli" => (enabled[c] <=> irqon[c])

\* Handlers and system calls are masked and stay so, and no process that is
\* switched out has anything else to restore; user code is not, and is in no
\* critical section.
Masking ==
    /\ saved \subseteq {FALSE}
    /\ \A c \in Cpu :
          /\ inirq[c] \/ mode[c] = "sys" => ~irqon[c] /\ (ncli[c] > 0 => ~intena[c])
          /\ inirq[c] => mode[c] # "sys"
          /\ mode[c] = "user" /\ ~inirq[c] => irqon[c] /\ pc[c] = "run"

IInv == /\ TypeOK /\ Argument /\ LockWord /\ Reservation /\ Ownership /\ Suspended
        /\ Nesting /\ Masking
===============================================================================
