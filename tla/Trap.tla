--------------------------------- MODULE Trap ---------------------------------
(***************************************************************************)
(* The devices that interrupt (source/trap.c): the timer (timer.c), which  *)
(* counts ticks for sys_sleep() and sys_uptime() (sysproc.c), and the uart *)
(* with the console behind it, under processes that sleep for ticks and    *)
(* for input.                                                              *)
(*                                                                         *)
(* timer3intr() counts and wakes without tickslock: it can come between    *)
(* the test in sys_sleep() and the moment when sleep() has marked the      *)
(* process, and that wakeup is lost.                                       *)
(***************************************************************************)
EXTENDS Console

CONSTANTS TickMod,     \* 2^32, the values of ticks
          SleepTimes,  \* the n of sleep()
          Sleepers     \* the processes that call sleep(), and that are killed

ASSUME TrapAssumption == TickMod \in Nat \ {0} /\ SleepTimes \subseteq 1..TickMod - 2

VARIABLE ticks

vars == <<input, proc, ticks>>

Elapsed(p) == (ticks - proc[p].ticks0 + TickMod) % TickMod

-------------------------------------------------------------------------------
(* sys_sleep()                                                             *)

sys_sleep(p) ==
    /\ p \in Sleepers /\ proc[p].pc = "user"
    /\ \E n \in SleepTimes : proc' = [proc EXCEPT ![p] = [@ EXCEPT !.pc = "test", !.n = n, !.ticks0 = ticks]]
    /\ UNCHANGED <<input, ticks>>

\* The condition of the loop.  (Mutant: ticks < ticks0 + n, which an overflow breaks.)
BeforeEnd(p) == ticks < proc[p].ticks0 + proc[p].n
TooEarly(p) == Elapsed(p) < proc[p].n

sleep_test(p) ==
    /\ proc[p].pc = "test"
    /\ proc' = [proc EXCEPT ![p] = IF ~TooEarly(p) \/ @.killed THEN Return(p) ELSE [@ EXCEPT !.pc = "tosleep"]]
    /\ UNCHANGED <<input, ticks>>

\* sleep(&ticks, &tickslock) has marked the process.
sleep_mark(p) ==
    /\ proc[p].pc = "tosleep"
    /\ proc' = [proc EXCEPT ![p].pc = "tsleep"]
    /\ UNCHANGED <<input, ticks>>

-------------------------------------------------------------------------------
(* Interrupts                                                              *)

\* wakeup(&ticks).
WakeAll(pr) == [p \in Process |-> IF pr[p].pc = "tsleep" THEN [pr[p] EXCEPT !.pc = "test"] ELSE pr[p]]

\* timer3intr().  No process that is awake waits for the processor so long that ticks comes
\* round to where it was: TickMod stands for 497 days.
Lapped(p) == Elapsed(p) = CASE proc[p].pc = "test" -> TickMod - 1 [] proc[p].pc = "tosleep" -> TickMod - 2 [] OTHER -> TickMod
timer3intr ==
    /\ \A p \in Process : ~Lapped(p)
    /\ ticks' = (ticks + 1) % TickMod
    /\ proc' = WakeAll(proc)
    /\ UNCHANGED input

\* irq_handler() goes on while an interrupt is pending; miniuartintr() calls consoleintr() until the uart is
\* empty.
miniuartintr(c) == consoleintr(c) /\ UNCHANGED ticks
irq_handler == timer3intr \/ \E c \in Key : miniuartintr(c)

\* kill() makes a sleeping process runnable.
Runnable(pc) == CASE pc = "tsleep" -> "test" [] pc = "rsleep" -> "read" [] OTHER -> pc
kill(p) ==
    /\ p \in Sleepers /\ ~proc[p].killed
    /\ proc' = [proc EXCEPT ![p] = [@ EXCEPT !.killed = TRUE, !.pc = Runnable(proc[p].pc)]]
    /\ UNCHANGED <<input, ticks>>

-------------------------------------------------------------------------------

Init ==
    /\ ConsoleInit
    /\ proc = [p \in Process |-> Idle]
    /\ ticks = 0

\* What the scheduler makes p do in the kernel.
Run(p) ==
    \/ consoleread(p) /\ UNCHANGED ticks
    \/ sleep_test(p)
    \/ sleep_mark(p)

Next ==
    \/ \E p \in Process : Run(p) \/ sys_sleep(p) \/ kill(p) \/ (sys_read(p) /\ UNCHANGED ticks)
    \/ irq_handler

Spec == Init /\ [][Next]_vars

\* The scheduler runs every process again and again, and the timer never stops.
FairSpec ==
    /\ Spec
    /\ \A p \in Process : WF_vars(Run(p))
    /\ WF_vars(timer3intr)

-------------------------------------------------------------------------------
(* Properties                                                              *)

Lines ==
    INSTANCE LineQueue WITH Size <- INPUT_BUF, queue <- Ring(input.r, input.w), line <- Ring(input.w, input.e)

\* The ring buffer with its three indices, counted modulo a word (console.c:319-404), is a queue of complete
\* lines and a line being edited: of what it accepted nothing is lost, read twice or out of order, editing
\* stops at what is complete, and an end of file is read alone.
ImplementsLineQueue == Lines!Spec

\* A reader sleeps only while there is nothing complete to read, whoever else reads (console.c:357, 384).
NoMissedInput == \A p \in Process : proc[p].pc = "rsleep" => input.r = input.w

\* sleep() returns, although the timer does not take tickslock and the wakeup that comes between the test and the
\* sleep is lost, and across the overflow of ticks (timer.c:46, sysproc.c:72-78).
SleepReturns ==
    \A p \in Process : (proc[p].pc \in {"test", "tosleep", "tsleep"}) ~> (proc[p].pc = "user")
===============================================================================
