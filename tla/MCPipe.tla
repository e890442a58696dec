-------------------------------- MODULE MCPipe --------------------------------
(* Pipe with two writers that share an end, calls that do not fit into what is *)
(* left of a buffer of two, and counters that wrap around after four bytes.    *)
EXTENDS Pipe
===============================================================================
