------------------------------ MODULE MCSpinlock ------------------------------
(* Spinlock on small machines, with ptable.lock taken inside another lock, as *)
(* sleep() and wakeup() do.                                                   *)
EXTENDS Spinlock, TLC

MCLock == {"input.lock", "ptable.lock"}
MCRank == ("input.lock" :> 0) @@ ("ptable.lock" :> 1)

===============================================================================
