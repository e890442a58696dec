------------------------------ MODULE AtomicDisk ------------------------------
(***************************************************************************)
(* What the file system is promised by the log (source/log.c): the writes  *)
(* of a transaction are visible at once and reach the disk all together or *)
(* not at all.                                                             *)
(***************************************************************************)
CONSTANTS Sector, Value

VARIABLES store,  \* what a crash leaves behind
          view    \* what bread() returns

Init == store \in [Sector -> Value] /\ view = store

log_write(s, v) == view' = [view EXCEPT ![s] = v] /\ UNCHANGED store

commit == store' = view /\ UNCHANGED view

crash == view' = store /\ UNCHANGED store

Next == (\E s \in Sector, v \in Value : log_write(s, v)) \/ commit \/ crash

Spec == Init /\ [][Next]_<<store, view>>
===============================================================================
