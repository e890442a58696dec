------------------------------ MODULE AtomicLock ------------------------------
(***************************************************************************)
(* What the kernel's callers are promised by acquire() and release()       *)
(* (source/spinlock.c): a lock is taken in one step, by a context that     *)
(* finds it free, and given back in one step by the context that has it.   *)
(* Spinlock implements this; the modules that only need mutual exclusion   *)
(* (Proc, SleepLock, Pipe, Bcache) take their locks this way.              *)
(***************************************************************************)
CONSTANTS Context,  \* whatever may hold a lock
          Lock      \* the struct spinlocks

VARIABLE held       \* held[x]: the locks x has acquired and not released

Init == held = [x \in Context |-> {}]

acquire(x, l) ==
    /\ \A y \in Context : l \notin held[y]
    /\ held' = [held EXCEPT ![x] = @ \cup {l}]

release(x, l) ==
    /\ l \in held[x]
    /\ held' = [held EXCEPT ![x] = @ \ {l}]

Next == \E x \in Context, l \in Lock : acquire(x, l) \/ release(x, l)

Spec == Init /\ [][Next]_held

===============================================================================
