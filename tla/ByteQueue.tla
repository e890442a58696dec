------------------------------- MODULE ByteQueue -------------------------------
(***************************************************************************)
(* What a pipe promises (source/pipe.c): a bounded queue of bytes, first   *)
(* in, first out, from which each byte is given to one reader.             *)
(***************************************************************************)
EXTENDS Naturals, Sequences

CONSTANTS Reader, Byte, PIPESIZE

VARIABLES
    queue,  \* the bytes in the pipe
    given   \* the byte that each reader was given last

Init == queue = <<>> /\ given \in [Reader -> Byte]

put(b) ==
    /\ Len(queue) < PIPESIZE
    /\ queue' = Append(queue, b)
    /\ UNCHANGED given

get(p) ==
    /\ queue # <<>>
    /\ given' = [given EXCEPT ![p] = Head(queue)]
    /\ queue' = Tail(queue)

Next == (\E b \in Byte : put(b)) \/ (\E p \in Reader : get(p))

Spec == Init /\ [][Next]_<<queue, given>>
===============================================================================
