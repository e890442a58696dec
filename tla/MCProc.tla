-------------------------------- MODULE MCProc --------------------------------
(* Proc with few slots, few cores and few forks. *)
EXTENDS Proc
===============================================================================
