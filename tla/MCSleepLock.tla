------------------------------ MODULE MCSleepLock ------------------------------
(* SleepLock for a handful of processes.                                      *)
EXTENDS SleepLock
===============================================================================
