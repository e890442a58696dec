--------------------------------- MODULE MCVm ---------------------------------
(* User memory with few processes, a heap that they exhaust, a few tables left   *)
(* over from boot and a bounded number of calls.  A page is four of the smallest *)
(* blocks, as a page is of tables and pipes; a table has two pages.              *)
EXTENDS Vm

CONSTANT MaxCalls
VARIABLE calls   \* counted up to MaxCalls

\* A program of two pieces, one whose file is too short, and two with a segment that is not aligned or wraps.
Seg(v, m, f, n) == [vaddr |-> v, memsz |-> m, filesz |-> f, file |-> n]
Programs == {<<Seg(0, 1, 1, 1), Seg(0, 2, 0, 0)>>, <<Seg(0, 3, 3, 2)>>,
             <<Seg(1, 1, 1, 1)>>, <<Seg(14, 3, 1, 1)>>}
Sizes == {-2, -1, 3}

MCInit == Init /\ calls = 0
MCNext ==
    \/ calls < MaxCalls /\ Next /\ calls' = IF kmem.panic = "" THEN calls + 1 ELSE calls
    \/ calls = MaxCalls /\ UNCHANGED <<vars, calls>>
MCSpec == MCInit /\ [][MCNext]_<<vars, calls>>
===============================================================================
