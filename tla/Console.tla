-------------------------------- MODULE Console --------------------------------
(***************************************************************************)
(* Console input (source/console.c): the interrupt handler edits the line  *)
(* at the end of a ring buffer, and processes read from its beginning.     *)
(* The indices r, w and e are unsigned and only ever counted modulo their  *)
(* word: input.buf[x % INPUT_BUF].  What the uart has received             *)
(* (source/uart.c) is any sequence of characters, since it may lose some.  *)
(***************************************************************************)
EXTENDS Naturals, Sequences, FiniteSets

CONSTANTS Process,
          Plain,      \* ordinary characters
          INPUT_BUF,
          UintMod,    \* 2^32, a multiple of INPUT_BUF
          ReadSizes   \* the n of read()

ASSUME ConsoleAssumption ==
    /\ INPUT_BUF \in Nat \ {0}
    /\ UintMod \in Nat /\ UintMod > INPUT_BUF /\ UintMod % INPUT_BUF = 0
    /\ ReadSizes \subseteq Nat

VARIABLES
    input,    \* r, w, e and buf
    proc      \* process -> where it is in a system call, with the variables of the call

Key == Plain \cup {"newline", "eof", "kill", "erase"}
NoChar == "none"

Plus(x, y) == (x + y) % UintMod
Minus(x, y) == (x - y + UintMod) % UintMod
At(x) == x % INPUT_BUF

Idle == [pc |-> "user", n |-> 0, got |-> 0, ticks0 |-> 0, killed |-> FALSE]

\* System call p returns.  A killed process stays killed.
Return(p) == [Idle EXCEPT !.killed = proc[p].killed]

ConsoleInit ==
    input = [r |-> 0, w |-> 0, e |-> 0, buf |-> [i \in 0..INPUT_BUF - 1 |-> NoChar]]

-------------------------------------------------------------------------------
(* The interrupt handler                                                   *)

\* wakeup(&input.r).  (Mutant: it wakes one process.)
WakeOne(pr) ==
    LET s == {p \in Process : pr[p].pc = "rsleep"}
    IN  IF s = {} THEN pr ELSE [pr EXCEPT ![CHOOSE p \in s : TRUE].pc = "read"]
Wake(pr) == [p \in Process |-> IF pr[p].pc = "rsleep" THEN [pr[p] EXCEPT !.pc = "read"] ELSE pr[p]]

\* The characters that complete a line.
Completes(c, e) == c \in {"newline", "eof"} \/ e = Plus(input.r, INPUT_BUF)
Fits(i) == Minus(i.e, i.r) < INPUT_BUF

\* Backspace stops at what is complete.  (Mutant: at what has been read.)
ErasesRead(i) == i.e # i.r
Erases(i) == i.e # i.w

\* consoleintr(), one character that uartgetc() returns.  C('U') goes back to the beginning of the
\* line: nothing before w is touched, and no newline is between w and e.
consoleintr(c) ==
    LET e == Plus(input.e, 1)
    IN  CASE c = "kill" -> input' = [input EXCEPT !.e = input.w] /\ UNCHANGED proc
          [] c = "erase" -> /\ input' = IF Erases(input) THEN [input EXCEPT !.e = Minus(@, 1)] ELSE input
                            /\ UNCHANGED proc
          [] OTHER -> IF ~Fits(input) THEN UNCHANGED <<input, proc>>
                      ELSE /\ input' = [input EXCEPT !.buf[At(input.e)] = c, !.e = e,
                                                     !.w = IF Completes(c, e) THEN e ELSE @]
                           /\ proc' = IF Completes(c, e) THEN Wake(proc) ELSE proc

-------------------------------------------------------------------------------
(* read() of the console                                                   *)

Char(x) == input.buf[At(x)]

\* The number of characters from r on that a read of n takes: up to w, and up to
\* and with a newline or the end of the file.
Stops(x) == Char(Plus(input.r, x - 1)) \in {"newline", "eof"}
Taken(n) ==
    CHOOSE x \in 0..n :
        /\ x <= Minus(input.w, input.r)
        /\ \A y \in 1..x - 1 : ~Stops(y)
        /\ x = n \/ x = Minus(input.w, input.r) \/ (x > 0 /\ Stops(x))

\* An end of file after other characters is left for the next read.
SavesEof(last, got) == IF last = "eof" /\ got > 0 THEN 1 ELSE 0

sys_read(p) ==
    /\ proc[p].pc = "user"
    /\ \E n \in ReadSizes : proc' = [proc EXCEPT ![p] = [@ EXCEPT !.pc = "read", !.n = n, !.got = 0]]
    /\ UNCHANGED input

\* consoleread() from where it has input.lock to where it releases it, in sleep() or
\* at its end.
consoleread(p) ==
    /\ proc[p].pc = "read"
    /\ LET want == proc[p].n - proc[p].got
           x == Taken(want)
           last == IF x = 0 THEN NoChar ELSE Char(Plus(input.r, x - 1))
           got == proc[p].got + x - IF last = "eof" THEN 1 ELSE 0
           over == x = want \/ last \in {"newline", "eof"}
       IN  /\ input' = [input EXCEPT !.r = Minus(Plus(@, x), SavesEof(last, got))]
           /\ proc' = [proc EXCEPT ![p] =
                         IF over \/ @.killed THEN Return(p)
                         ELSE [@ EXCEPT !.pc = "rsleep", !.got = got]]

-------------------------------------------------------------------------------

\* The contents of the ring from index x up to index y.
Ring(x, y) == [i \in 1..Minus(y, x) |-> Char(Plus(x, i - 1))]
===============================================================================
