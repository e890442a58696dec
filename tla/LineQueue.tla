------------------------------- MODULE LineQueue -------------------------------
(***************************************************************************)
(* What the console promises its readers: a line is edited while it is     *)
(* typed, joins the queue when it is complete, and is read in order.       *)
(***************************************************************************)
EXTENDS Naturals, Sequences

CONSTANTS Plain,  \* ordinary characters
          Size    \* characters that the queue and the line hold together

VARIABLES queue,  \* complete, not yet read
          line    \* being edited

Init == queue = <<>> /\ line = <<>>

Full(l) == Len(queue) + Len(l) = Size

\* A character that ends the line, or fills the buffer, completes it.
Type(c) ==
    /\ ~Full(line)
    /\ LET l == Append(line, c)
       IN  IF c \in {"newline", "eof"} \/ Full(l)
           THEN queue' = queue \o l /\ line' = <<>>
           ELSE queue' = queue /\ line' = l

Erase == line # <<>> /\ line' = SubSeq(line, 1, Len(line) - 1) /\ UNCHANGED queue
Kill == line' = <<>> /\ UNCHANGED queue

\* A read takes characters up to a newline.  The mark of the end of the file is taken alone.
Read ==
    \E n \in 1..Len(queue) :
        /\ queue' = SubSeq(queue, n + 1, Len(queue))
        /\ \A i \in 1..n : queue[i] = "newline" => i = n
        /\ \A i \in 1..n : queue[i] = "eof" => n = 1
        /\ UNCHANGED line

Next == (\E c \in Plain \cup {"newline", "eof"} : Type(c)) \/ Erase \/ Kill \/ Read
Spec == Init /\ [][Next]_<<queue, line>>
===============================================================================
