------------------------------ MODULE FilesProofs ------------------------------
(***************************************************************************)
(* For any programs and any number of processes, descriptors, files and    *)
(* pipes: the reference counts of the file table are exact, and so is the  *)
(* count of the ends of each pipe, although fileclose() frees the entry    *)
(* before it closes the end.  IInv adds that a process that does not run   *)
(* has no descriptors and closes nothing, that an entry of a pipe and a    *)
(* close that is under way name a pipe, and that a pipe without ends is    *)
(* free.                                                                   *)
(***************************************************************************)
EXTENDS Files, FiniteSetTheorems, TLAPS

Entry == [ref : Nat, type : {"FD_NONE", "FD_PIPE", "FD_INODE"}, pipe : PipeId \cup {None}, ip : STRING \cup {NoInode},
          readable : BOOLEAN, writable : BOOLEAN]
Pipe == [readopen : BOOLEAN, writeopen : BOOLEAN, data : Seq(STRING)]
PipeEnd == [pipe : PipeId, writable : BOOLEAN] \cup {NoEnd}
Process == [state : {"UNUSED", "RUN", "ZOMBIE"}, parent : Proc \cup {None}, closing : PipeEnd]
Ofile == [Proc -> [Slot -> File \cup {None}]]

TypeOK ==
    /\ ftable \in [File -> Entry]
    /\ ofile \in Ofile
    /\ pipes \in [PipeId -> Pipe]
    /\ ptable \in [Proc -> Process]

\* A process that does not run has nothing open and closes nothing.
Dormant == \A p \in Proc : ptable[p].state # "RUN" => ofile[p] = NoFiles /\ ptable[p].closing = NoEnd

\* An entry of a pipe names it.
Named == \A f \in File : ftable[f].type = "FD_PIPE" => ftable[f].pipe \in PipeId

\* A pipe without ends is free.
Freed == \A x \in PipeId : BothClosed(pipes[x]) => pipes[x] = FreePipe

IInv == TypeOK /\ Dormant /\ Named /\ Freed /\ FileRefsExact /\ PipeEndsExact

-------------------------------------------------------------------------------
(* Counting descriptors                                                    *)

\* In oo descriptor fd of p is f, and the others are as in o.
Sets(oo, o, p, fd, f) == \A q \in Proc, n \in Slot : oo[q][n] = IF q = p /\ n = fd THEN f ELSE o[q][n]

UsersIn(o, f) == {u \in Proc \X Slot : o[u[1]][u[2]] = f}

LEMMA SetsFinite ==
    /\ IsFiniteSet(Proc) /\ IsFiniteSet(Slot) /\ IsFiniteSet(File) /\ IsFiniteSet(Proc \X Slot)
    /\ 0 \notin File /\ 0 \notin PipeId /\ 0 \notin Proc /\ initproc \in Proc
    /\ Fd \subseteq Slot /\ rf \in Slot /\ wf \in Slot /\ rf # wf /\ rf \notin Fd /\ wf \notin Fd
<1>1. IsFiniteSet(Proc)
  BY FilesAssumption, FS_Interval DEF Proc
<1>2. IsFiniteSet(Slot)
  <2>1. Slot = 0..(NOFILE + 1)
    BY FilesAssumption DEF Slot, Fd, Local, rf, wf
  <2> QED
    BY <2>1, FilesAssumption, FS_Interval
<1>3. IsFiniteSet(File)
  BY FilesAssumption, FS_Interval DEF File
<1>4. IsFiniteSet(Proc \X Slot)
  BY <1>1, <1>2, FS_Product, Zenon
<1>5. 0 \notin File /\ 0 \notin PipeId /\ 0 \notin Proc /\ initproc \in Proc
  BY FilesAssumption DEF File, PipeId, Proc, initproc
<1>6. Fd \subseteq Slot /\ rf \in Slot /\ wf \in Slot /\ rf # wf /\ rf \notin Fd /\ wf \notin Fd
  BY FilesAssumption DEF Slot, Fd, Local, rf, wf
<1> QED
  BY <1>1, <1>2, <1>3, <1>4, <1>5, <1>6, Zenon

LEMMA UsersFinite ==
    ASSUME NEW o, NEW f
    PROVE  IsFiniteSet(UsersIn(o, f)) /\ Cardinality(UsersIn(o, f)) \in Nat
<1>1. UsersIn(o, f) \in SUBSET (Proc \X Slot)
  BY Zenon DEF UsersIn
<1>2. IsFiniteSet(UsersIn(o, f))
  BY <1>1, SetsFinite, FS_Subset, Zenon
<1> QED
  BY <1>2, FS_CardinalityType, Zenon

\* One descriptor is set: fdalloc(), seen from every entry.
LEMMA OneMoreUser ==
    ASSUME NEW o \in Ofile, NEW oo \in Ofile, NEW p \in Proc, NEW fd \in Slot, NEW g \in File, o[p][fd] = None,
           Sets(oo, o, p, fd, g),
           NEW f \in File
    PROVE  Cardinality(UsersIn(oo, f)) = Cardinality(UsersIn(o, f)) + IF f = g THEN 1 ELSE 0
<1> DEFINE u == <<p, fd>>
<1>1. f # None /\ u \in Proc \X Slot
  BY SetsFinite, Zenon DEF None
<1>2. u \notin UsersIn(o, f)
  BY <1>1, Zenon DEF UsersIn
<1>3. CASE f = g
  <2>1. UsersIn(oo, f) = UsersIn(o, f) \cup {u}
    BY <1>1, <1>3 DEF UsersIn, Sets
  <2> QED
    BY <1>2, <1>3, <2>1, UsersFinite, FS_AddElement, Zenon
<1>4. CASE f # g
  <2>1. UsersIn(oo, f) = UsersIn(o, f)
    BY <1>1, <1>4 DEF UsersIn, Sets
  <2> QED
    BY <1>4, <2>1, UsersFinite
<1> QED
  BY <1>3, <1>4, Zenon

\* One descriptor is cleared.
LEMMA OneLessUser ==
    ASSUME NEW o \in Ofile, NEW oo \in Ofile, NEW p \in Proc, NEW fd \in Slot, NEW g \in File, o[p][fd] = g,
           Sets(oo, o, p, fd, None),
           NEW f \in File
    PROVE  /\ Cardinality(UsersIn(oo, f)) = Cardinality(UsersIn(o, f)) - IF f = g THEN 1 ELSE 0
           /\ Cardinality(UsersIn(o, g)) >= 1
<1>1. oo[p][fd] = None /\ Sets(o, oo, p, fd, g)
  BY Zenon DEF Sets
<1>2. /\ Cardinality(UsersIn(o, f)) = Cardinality(UsersIn(oo, f)) + IF f = g THEN 1 ELSE 0
      /\ Cardinality(UsersIn(o, g)) = Cardinality(UsersIn(oo, g)) + IF g = g THEN 1 ELSE 0
  BY <1>1, OneMoreUser
<1> DEFINE a == Cardinality(UsersIn(o, f))
           b == Cardinality(UsersIn(oo, f))
           c == Cardinality(UsersIn(o, g))
           d == Cardinality(UsersIn(oo, g))
<1>3. a \in Nat /\ b \in Nat /\ c \in Nat /\ d \in Nat /\ a = b + (IF f = g THEN 1 ELSE 0) /\ c = d + 1
  BY <1>2, UsersFinite, Zenon
<1> HIDE DEF a, b, c, d
<1>4. a - (IF f = g THEN 1 ELSE 0) = b /\ c >= 1
  BY <1>3
<1> QED
  BY <1>4, Zenon DEF a, b, c, d

\* A child gets the descriptors of its parent.
Held(o, p, f) == Cardinality({fd \in Slot : o[p][fd] = f})
Copies(oo, o, p, c) == o[c] = NoFiles /\ \A q \in Proc : oo[q] = IF q = c THEN o[p] ELSE o[q]

LEMMA ForkedUsers ==
    ASSUME NEW o \in Ofile, NEW oo \in Ofile, NEW p \in Proc, NEW c \in Proc, Copies(oo, o, p, c), NEW f \in File
    PROVE  /\ Held(o, p, f) \in Nat
           /\ Cardinality(UsersIn(oo, f)) = Cardinality(UsersIn(o, f)) + Held(o, p, f)
           /\ Held(o, p, f) > 0 => Cardinality(UsersIn(o, f)) > 0
<1> DEFINE N == {fd \in Slot : o[p][fd] = f}
           U == UsersIn(o, f)
           V == {c} \X N
<1>1. f # None
  BY SetsFinite, Zenon DEF None
<1>2. IsFiniteSet(N) /\ Cardinality(N) \in Nat
  BY SetsFinite, FS_Subset, FS_CardinalityType, Zenon
<1>3. IsFiniteSet(V) /\ Cardinality(V) = Cardinality(N)
  <2>1. IsFiniteSet({c}) /\ Cardinality({c}) = 1
    BY FS_Singleton, Zenon
  <2> HIDE DEF N
  <2>2. IsFiniteSet(V) /\ Cardinality(V) = Cardinality({c}) * Cardinality(N)
    BY <1>2, <2>1, FS_Product, Zenon
  <2> QED
    BY <1>2, <2>1, <2>2
<1>4. U \cap V = {} /\ UsersIn(oo, f) = U \cup V
  <2>1. ASSUME NEW u \in U PROVE u \notin V
    BY <1>1 DEF UsersIn, NoFiles, Copies
  <2>2. ASSUME NEW u \in Proc \X Slot PROVE u \in UsersIn(oo, f) <=> u \in U \/ u \in V
    BY <1>1 DEF UsersIn, NoFiles, Copies
  <2>3. UsersIn(oo, f) \subseteq Proc \X Slot /\ U \subseteq Proc \X Slot /\ V \subseteq Proc \X Slot
    BY Zenon DEF UsersIn
  <2> QED
    BY <2>1, <2>2, <2>3, Zenon
<1>5. IsFiniteSet(U) /\ Cardinality(U) \in Nat
  BY UsersFinite, Zenon
<1>6. N # {} => U # {}
  <2> SUFFICES ASSUME NEW fd \in N PROVE <<p, fd>> \in U
    BY Zenon
  <2> QED
    BY Zenon DEF UsersIn
<1> HIDE DEF N, U, V
<1>7. Cardinality(U \cup V) = Cardinality(U) + Cardinality(N)
  <2>1. Cardinality(U \cup V) = Cardinality(U) + Cardinality(V) - Cardinality(U \cap V)
    BY <1>3, <1>5, FS_Union, Zenon
  <2>2. Cardinality(U \cap V) = 0
    BY <1>4, FS_EmptySet, Zenon
  <2> QED
    BY <1>2, <1>3, <1>5, <2>1, <2>2
<1>8. Cardinality(N) > 0 => Cardinality(U) > 0
  BY <1>2, <1>5, <1>6, FS_EmptySet
<1> QED
  BY <1>2, <1>4, <1>7, <1>8, Zenon DEF N, U, Held

-------------------------------------------------------------------------------
(* Counting the ends of pipes                                              *)

IsEnd(e, x, w) == e.ref > 0 /\ e.type = "FD_PIPE" /\ e.pipe = x /\ e.writable = w
IsClosing(q, x, w) == q.closing = [pipe |-> x, writable |-> w]

\* Two subsets of a finite set that differ in at most one element.
LEMMA CountOne ==
    ASSUME NEW S, IsFiniteSet(S), NEW A \in SUBSET S, NEW B \in SUBSET S, NEW a \in S,
           \A y \in S : y # a => (y \in A <=> y \in B)
    PROVE  /\ Cardinality(A) \in Nat /\ Cardinality(B) \in Nat
           /\ Cardinality(B) + (IF a \in A THEN 1 ELSE 0) = Cardinality(A) + (IF a \in B THEN 1 ELSE 0)
<1>1. IsFiniteSet(A) /\ IsFiniteSet(B)
  BY FS_Subset, Zenon
<1>2. Cardinality(A) \in Nat /\ Cardinality(B) \in Nat
  BY <1>1, FS_CardinalityType, Zenon
<1>3. CASE a \in A /\ a \notin B
  <2>1. A = B \cup {a}
    BY <1>3, Zenon
  <2> QED
    BY <1>1, <1>2, <1>3, <2>1, FS_AddElement
<1>4. CASE a \notin A /\ a \in B
  <2>1. B = A \cup {a}
    BY <1>4, Zenon
  <2> QED
    BY <1>1, <1>2, <1>4, <2>1, FS_AddElement
<1>5. CASE a \in A <=> a \in B
  <2>1. A = B
    BY <1>5
  <2> QED
    BY <1>2, <1>5, <2>1, Zenon
<1> QED
  BY <1>3, <1>4, <1>5, Zenon

\* The table of files changes in one entry.
LEMMA OneEntry ==
    ASSUME NEW f \in File, \A h \in File : h # f => ftable'[h] = ftable[h], NEW x, NEW w
    PROVE  /\ Cardinality(Ends(x, w)) \in Nat /\ Cardinality(Ends(x, w)') \in Nat
           /\ Cardinality(Ends(x, w)') + (IF IsEnd(ftable[f], x, w) THEN 1 ELSE 0)
                = Cardinality(Ends(x, w)) + (IF IsEnd(ftable'[f], x, w) THEN 1 ELSE 0)
<1> DEFINE A == Ends(x, w)
           B == Ends(x, w)'
<1>1. /\ A \in SUBSET File /\ B \in SUBSET File
      /\ \A h \in File : h # f => (h \in A <=> h \in B)
      /\ f \in A <=> IsEnd(ftable[f], x, w)
      /\ f \in B <=> IsEnd(ftable'[f], x, w)
  BY Zenon DEF Ends, IsEnd
<1> HIDE DEF A, B
<1>2. /\ Cardinality(A) \in Nat /\ Cardinality(B) \in Nat
      /\ Cardinality(B) + (IF f \in A THEN 1 ELSE 0) = Cardinality(A) + (IF f \in B THEN 1 ELSE 0)
  BY <1>1, CountOne, SetsFinite
<1>3. Cardinality(B) + (IF IsEnd(ftable[f], x, w) THEN 1 ELSE 0) = Cardinality(A) + (IF IsEnd(ftable'[f], x, w) THEN 1 ELSE 0)
  BY <1>1, <1>2, Zenon
<1> QED
  BY <1>2, <1>3, Zenon DEF A, B

\* The closes that are under way change in one process.
LEMMA OneProcess ==
    ASSUME NEW p \in Proc, \A q \in Proc : q # p => ptable'[q] = ptable[q], NEW x, NEW w
    PROVE  /\ Cardinality(Closing(x, w)) \in Nat /\ Cardinality(Closing(x, w)') \in Nat
           /\ Cardinality(Closing(x, w)') + (IF IsClosing(ptable[p], x, w) THEN 1 ELSE 0)
                = Cardinality(Closing(x, w)) + (IF IsClosing(ptable'[p], x, w) THEN 1 ELSE 0)
<1> DEFINE A == Closing(x, w)
           B == Closing(x, w)'
<1>1. /\ A \in SUBSET Proc /\ B \in SUBSET Proc
      /\ \A q \in Proc : q # p => (q \in A <=> q \in B)
      /\ p \in A <=> IsClosing(ptable[p], x, w)
      /\ p \in B <=> IsClosing(ptable'[p], x, w)
  BY Zenon DEF Closing, IsClosing
<1> HIDE DEF A, B
<1>2. /\ Cardinality(A) \in Nat /\ Cardinality(B) \in Nat
      /\ Cardinality(B) + (IF p \in A THEN 1 ELSE 0) = Cardinality(A) + (IF p \in B THEN 1 ELSE 0)
  BY <1>1, CountOne, SetsFinite
<1>3. Cardinality(B) + (IF IsClosing(ptable[p], x, w) THEN 1 ELSE 0)
        = Cardinality(A) + (IF IsClosing(ptable'[p], x, w) THEN 1 ELSE 0)
  BY <1>1, <1>2, Zenon
<1> QED
  BY <1>2, <1>3, Zenon DEF A, B

LEMMA CountsAreNat ==
    ASSUME NEW x, NEW w
    PROVE  Cardinality(Ends(x, w)) \in Nat /\ Cardinality(Closing(x, w)) \in Nat
<1>1. Ends(x, w) \in SUBSET File /\ Closing(x, w) \in SUBSET Proc
  BY Zenon DEF Ends, Closing
<1> QED
  BY <1>1, SetsFinite, FS_Subset, FS_CardinalityType, Zenon

\* A step that leaves every entry, every close under way and every pipe as they are, for the ends.
LEMMA SameEnds ==
    ASSUME PipeEndsExact,
           \A f \in File, x \in PipeId, w \in BOOLEAN : IsEnd(ftable'[f], x, w) <=> IsEnd(ftable[f], x, w),
           \A p \in Proc : ptable'[p].closing = ptable[p].closing,
           \A x \in PipeId, w \in BOOLEAN : IsOpen(x, w)' = IsOpen(x, w)
    PROVE  PipeEndsExact'
<1> SUFFICES ASSUME NEW x \in PipeId, NEW w \in BOOLEAN
             PROVE  Ends(x, w)' = Ends(x, w) /\ Closing(x, w)' = Closing(x, w)
  BY Zenon DEF PipeEndsExact
<1>1. Ends(x, w)' = Ends(x, w)
  BY Zenon DEF Ends, IsEnd
<1>2. Closing(x, w)' = Closing(x, w)
  BY Zenon DEF Closing
<1> QED
  BY <1>1, <1>2, Zenon

-------------------------------------------------------------------------------
(* The calls                                                               *)

LEMMA SameRefs ==
    ASSUME FileRefsExact, ftable' = ftable, ofile' = ofile
    PROVE  FileRefsExact'
<1>1. ASSUME NEW f \in File PROVE Users(f)' = Users(f)
  BY Zenon DEF Users
<1> QED
  BY <1>1, Zenon DEF FileRefsExact

\* The invariant is about the descriptors, the entries, the pipes and the processes, not about the data on disk.
LEMMA Same ==
    ASSUME IInv, ftable' = ftable, ofile' = ofile, pipes' = pipes, ptable' = ptable
    PROVE  IInv'
<1>1. TypeOK' /\ Dormant' /\ Named' /\ Freed'
  BY DEF IInv, TypeOK, Dormant, Named, Freed
<1>2. FileRefsExact'
  BY SameRefs, Zenon DEF IInv
<1>3. PipeEndsExact'
  BY DEF IInv, PipeEndsExact, Ends, Closing, IsOpen
<1> QED
  BY <1>1, <1>2, <1>3, Zenon DEF IInv

LEMMA Stutter == IInv /\ UNCHANGED kernel => IInv'
BY Same, Zenon DEF kernel

\* What a descriptor in use, or a local, says of its entry.
LEMMA UsedEntry ==
    ASSUME IInv, NEW p \in Proc, NEW fd \in Slot, ofile[p][fd] # None
    PROVE  /\ ofile[p][fd] \in File /\ ftable[ofile[p][fd]] \in Entry
           /\ ftable[ofile[p][fd]].ref >= 1
<1> DEFINE f == ofile[p][fd]
<1>1. f \in File /\ ftable[f] \in Entry
  BY DEF IInv, TypeOK, Ofile
<1>2. ftable[f].ref = Cardinality(UsersIn(ofile, f))
  BY <1>1, Zenon DEF IInv, FileRefsExact, Users, UsersIn
<1>3. <<p, fd>> \in UsersIn(ofile, f)
  BY Zenon DEF UsersIn
<1>4. Cardinality(UsersIn(ofile, f)) # 0
  BY <1>3, UsersFinite, FS_EmptySet, Zenon
<1>5. ftable[f].ref \in Nat
  BY <1>1, Zenon DEF Entry
<1> QED
  BY <1>1, <1>2, <1>4, <1>5

\* A descriptor has an entry with a type.
LEMMA TypedEntry ==
    ASSUME IInv, NEW p \in Proc, NEW fd \in Fd, ofile[p][fd] # None
    PROVE  ftable[ofile[p][fd]].type # "FD_NONE"
<1>1. ofile[p][fd] \in File
  BY UsedEntry, SetsFinite, Zenon
<1> QED
  BY <1>1, Zenon DEF IInv, FileRefsExact

\* The counts of one entry before a step.
LEMMA Counted ==
    ASSUME IInv, NEW h \in File
    PROVE  /\ ftable[h].ref = Cardinality(UsersIn(ofile, h)) /\ ftable[h].ref \in Nat
           /\ ftable[h].ref = 0 => ftable[h].type = "FD_NONE"
           /\ ftable[h].type = "FD_NONE" => \A q \in Proc, n \in Fd : ofile[q][n] # h
           /\ ftable[h].ref = 0 => \A q \in Proc, n \in Slot : ofile[q][n] # h
<1>1. /\ ftable[h].ref = Cardinality(UsersIn(ofile, h)) /\ ftable[h].ref \in Nat
      /\ ftable[h].ref = 0 => ftable[h].type = "FD_NONE"
      /\ ftable[h].type = "FD_NONE" => \A q \in Proc, n \in Fd : ofile[q][n] # h
  BY Zenon DEF IInv, TypeOK, Entry, FileRefsExact, Users, UsersIn
<1>2. ASSUME ftable[h].ref = 0, NEW q \in Proc, NEW n \in Slot PROVE ofile[q][n] # h
  <2>1. UsersIn(ofile, h) = {}
    BY <1>1, <1>2, UsersFinite, FS_EmptySet, Zenon
  <2>2. ofile[q][n] = h => <<q, n>> \in UsersIn(ofile, h)
    BY Zenon DEF UsersIn
  <2> QED
    BY <2>1, <2>2, Zenon
<1> QED
  BY <1>1, <1>2, Zenon

\* The counts after a step that clears a descriptor or a local.
LEMMA RefsAfterClose ==
    ASSUME IInv, NEW p \in Proc, NEW fd \in Slot, NEW f \in File, ofile[p][fd] = f,
           ofile' \in Ofile,
           Sets(ofile', ofile, p, fd, None),
           ftable' \in [File -> Entry],
           \A h \in File : h # f => ftable'[h] = ftable[h],
           ftable'[f].ref = ftable[f].ref - 1,
           IF ftable'[f].ref = 0 THEN ftable'[f].type = "FD_NONE" ELSE ftable'[f].type = ftable[f].type
    PROVE  FileRefsExact'
<1>1. ofile \in Ofile
  BY Zenon DEF IInv, TypeOK
<1> SUFFICES ASSUME NEW h \in File
             PROVE  /\ ftable'[h].ref = Cardinality(UsersIn(ofile', h))
                    /\ ftable'[h].ref = 0 => ftable'[h].type = "FD_NONE"
                    /\ ftable'[h].type = "FD_NONE" => \A q \in Proc, n \in Fd : ofile'[q][n] # h
  BY Zenon DEF FileRefsExact, Users, UsersIn
<1>2. Cardinality(UsersIn(ofile', h)) = Cardinality(UsersIn(ofile, h)) - IF h = f THEN 1 ELSE 0
  BY <1>1, OneLessUser
<1>3. ftable[h].ref = Cardinality(UsersIn(ofile, h)) /\ ftable[h].ref \in Nat
  BY Counted, Zenon
<1>4. ftable'[h].ref = Cardinality(UsersIn(ofile', h))
  BY <1>2, <1>3
<1>5. ftable'[h].ref = 0 => ftable'[h].type = "FD_NONE"
  BY Counted, Zenon
<1>6. ASSUME ftable'[h].type = "FD_NONE", NEW q \in Proc, NEW n \in Fd PROVE ofile'[q][n] # h
  <2>1. n \in Slot /\ h # None
    BY SetsFinite, Zenon DEF None
  <2>2. CASE ftable'[h].ref = 0
    <3>1. UsersIn(ofile', h) = {}
      BY <2>2, <1>4, UsersFinite, FS_EmptySet, Zenon
    <3>2. ofile'[q][n] = h => <<q, n>> \in UsersIn(ofile', h)
      BY <2>1, Zenon DEF UsersIn
    <3> QED
      BY <3>1, <3>2, Zenon
  <2>3. CASE ftable'[h].ref # 0
    <3>1. ftable[h].type = "FD_NONE"
      BY <2>3, <1>6, Zenon
    <3>2. ofile[q][n] # h
      BY <3>1, Counted, Zenon
    <3>3. ofile'[q][n] = IF q = p /\ n = fd THEN None ELSE ofile[q][n]
      BY <2>1, Zenon DEF Sets
    <3> QED
      BY <3>2, <3>3, <2>1, Zenon
  <2> QED
    BY <2>2, <2>3, Zenon
<1> QED
  BY <1>4, <1>5, <1>6, Zenon

\* fileclose() of the entry that a descriptor or a local names.
LEMMA SlotClosed ==
    ASSUME IInv, NEW p \in Proc, NEW fd \in Slot, ptable[p].state = "RUN", ptable[p].closing = NoEnd,
           ofile[p][fd] # None,
           ofile' = [ofile EXCEPT ![p][fd] = None],
           fileclose(p, ofile[p][fd]),
           pipes' = pipes
    PROVE  IInv'
<1> DEFINE f == ofile[p][fd]
           a == ftable[f]
           q == ptable[p]
<1>1. /\ q.state = "RUN" /\ q.closing = NoEnd /\ f # None
      /\ ofile' = [ofile EXCEPT ![p][fd] = None]
      /\ fileclose(p, f)
      /\ pipes' = pipes
  BY Zenon
<1>2. f \in File /\ a \in Entry /\ a.ref >= 1
  BY <1>1, UsedEntry, Zenon
<1>3. /\ ftable \in [File -> Entry] /\ ptable \in [Proc -> Process] /\ pipes' \in [PipeId -> Pipe]
      /\ q \in Process /\ q.state = "RUN" /\ q.closing = NoEnd
  BY <1>1, Zenon DEF IInv, TypeOK
<1>3a. /\ ofile' \in Ofile /\ ofile[p][fd] = f
       /\ Sets(ofile', ofile, p, fd, None)
  <2>1. ofile \in Ofile
    BY Zenon DEF IInv, TypeOK
  <2> QED
    BY <1>1, <2>1 DEF Ofile, Sets
<1>4. Freed'
  BY <1>1, Zenon DEF IInv, Freed
<1>5. a.type = "FD_PIPE" => a.pipe \in PipeId
  BY <1>2, Zenon DEF IInv, Named
<1>6. ASSUME ftable' \in [File -> Entry], ptable' \in [Proc -> Process],
             \A h \in File : h # f => ftable'[h] = ftable[h],
             \A r \in Proc : r # p => ptable'[r] = ptable[r],
             ftable'[f].type \in {"FD_NONE", a.type}, ftable'[f].pipe = a.pipe,
             ptable'[p].state = "RUN",
             FileRefsExact'
      PROVE  TypeOK' /\ Dormant' /\ Named' /\ Freed' /\ FileRefsExact'
  <2>1. Dormant'
    <3> SUFFICES ASSUME NEW r \in Proc, ptable'[r].state # "RUN"
                 PROVE  ofile'[r] = NoFiles /\ ptable'[r].closing = NoEnd
      BY Zenon DEF Dormant
    <3>1. r # p
      BY <1>6, Zenon
    <3>2. ofile'[r] = ofile[r] /\ ptable'[r] = ptable[r]
      BY <3>1, <1>1, <1>6, Zenon DEF IInv, TypeOK, Ofile
    <3> QED
      BY <3>2, Zenon DEF IInv, Dormant
  <2>2. Named'
    <3> SUFFICES ASSUME NEW h \in File, ftable'[h].type = "FD_PIPE" PROVE ftable'[h].pipe \in PipeId
      BY Zenon DEF Named
    <3>1. CASE h = f
      BY <3>1, <1>5, <1>6, Zenon
    <3>2. CASE h # f
      BY <3>2, <1>6, Zenon DEF IInv, Named
    <3> QED
      BY <3>1, <3>2, Zenon
  <2> QED
    BY <2>1, <2>2, <1>3, <1>4, <1>6, <1>3a, Zenon DEF TypeOK
<1>7. \A x \in PipeId, w \in BOOLEAN : IsOpen(x, w)' = IsOpen(x, w)
  BY <1>1, Zenon DEF IsOpen
<1>8. CASE a.ref > 1
  <2>1. ftable' = [ftable EXCEPT ![f].ref = @ - 1] /\ ptable' = ptable
    BY <1>1, <1>8, Zenon DEF fileclose
  <2>2. /\ ftable' \in [File -> Entry]
        /\ \A h \in File : h # f => ftable'[h] = ftable[h]
        /\ a.ref > 0 /\ ftable'[f].ref = a.ref - 1 /\ ftable'[f].ref > 0 /\ ftable'[f].type = a.type
        /\ ftable'[f].pipe = a.pipe /\ ftable'[f].writable = a.writable
    BY <2>1, <1>2, <1>3, <1>8 DEF Entry
  <2>3. FileRefsExact'
    <3>1. /\ ftable'[f].ref = ftable[f].ref - 1
          /\ IF ftable'[f].ref = 0 THEN ftable'[f].type = "FD_NONE" ELSE ftable'[f].type = ftable[f].type
      BY <2>2
    <3> HIDE DEF f, a, q
    <3> QED
      BY <3>1, <2>2, <1>1, <1>2, <1>3a, RefsAfterClose, Zenon
  <2>4. PipeEndsExact'
    <3>1. \A h \in File, x \in PipeId, w \in BOOLEAN : IsEnd(ftable'[h], x, w) <=> IsEnd(ftable[h], x, w)
      <4> SUFFICES ASSUME NEW h \in File, NEW x \in PipeId, NEW w \in BOOLEAN
                   PROVE  IsEnd(ftable'[h], x, w) <=> IsEnd(ftable[h], x, w)
        OBVIOUS
      <4>1. CASE h = f
        BY <4>1, <2>2, Zenon DEF IsEnd
      <4>2. CASE h # f
        BY <4>2, <2>2, Zenon
      <4> QED
        BY <4>1, <4>2, Zenon
    <3> QED
      BY <3>1, <2>1, <1>7, SameEnds, Zenon DEF IInv
  <2> QED
    BY <2>1, <2>2, <2>3, <2>4, <1>3, <1>6, <1>3a, Zenon DEF IInv
<1>9. CASE ~(a.ref > 1)
  <2>1. /\ ftable' = [ftable EXCEPT ![f] = Forgotten(f)]
        /\ ptable' = IF a.type # "FD_PIPE" THEN ptable
                     ELSE [ptable EXCEPT ![p].closing = [pipe |-> a.pipe, writable |-> a.writable]]
    BY <1>1, <1>9, Zenon DEF fileclose
  <2>2. a.ref = 1
    BY <1>2, <1>9 DEF Entry
  <2>3. /\ ftable' \in [File -> Entry]
        /\ \A h \in File : h # f => ftable'[h] = ftable[h]
        /\ ftable'[f].ref = 0 /\ ftable'[f].type = "FD_NONE"
        /\ ftable'[f].pipe = a.pipe /\ ftable'[f].writable = a.writable
    BY <2>1, <1>2, <1>3, Zenon DEF Entry, Forgotten
  <2>4. /\ ptable' \in [Proc -> Process] /\ ptable'[p].state = "RUN"
        /\ \A r \in Proc : r # p => ptable'[r] = ptable[r]
        /\ ptable'[p].closing = IF a.type # "FD_PIPE" THEN NoEnd ELSE [pipe |-> a.pipe, writable |-> a.writable]
    <3>1. CASE a.type # "FD_PIPE"
      BY <3>1, <2>1, <1>3, Zenon
    <3>2. CASE a.type = "FD_PIPE"
      <4>1. [pipe |-> a.pipe, writable |-> a.writable] \in PipeEnd
        BY <3>2, <1>2, <1>5, Zenon DEF PipeEnd, Entry
      <4> QED
        BY <4>1, <3>2, <2>1, <1>3, Zenon DEF Process
    <3> QED
      BY <3>1, <3>2, Zenon
  <2>5. FileRefsExact'
    <3>1. /\ ftable'[f].ref = ftable[f].ref - 1
          /\ IF ftable'[f].ref = 0 THEN ftable'[f].type = "FD_NONE" ELSE ftable'[f].type = ftable[f].type
      BY <2>2, <2>3
    <3> HIDE DEF f, a, q
    <3> QED
      BY <3>1, <2>3, <1>1, <1>2, <1>3a, RefsAfterClose, Zenon
  <2>6. PipeEndsExact'
    <3> SUFFICES ASSUME NEW x \in PipeId, NEW w \in BOOLEAN
                 PROVE  Cardinality(Ends(x, w)') + Cardinality(Closing(x, w)') = IF IsOpen(x, w)' THEN 1 ELSE 0
      BY Zenon DEF PipeEndsExact
    <3>1. Cardinality(Ends(x, w)) + Cardinality(Closing(x, w)) = IF IsOpen(x, w) THEN 1 ELSE 0
      BY Zenon DEF IInv, PipeEndsExact
    <3>2. ~IsEnd(ftable'[f], x, w) /\ ~IsClosing(ptable[p], x, w)
      BY <2>3, <1>3, SetsFinite DEF IsEnd, IsClosing, NoEnd, None
    <3>3. IsEnd(ftable[f], x, w) <=> IsClosing(ptable'[p], x, w)
      <4>1. CASE a.type # "FD_PIPE"
        BY <4>1, <2>4, SetsFinite DEF IsEnd, IsClosing, NoEnd, None
      <4>2. CASE a.type = "FD_PIPE"
        BY <4>2, <2>2, <2>4 DEF IsEnd, IsClosing
      <4> QED
        BY <4>1, <4>2, Zenon
    <3>4. /\ Cardinality(Ends(x, w)) \in Nat /\ Cardinality(Ends(x, w)') \in Nat
          /\ Cardinality(Ends(x, w)') + (IF IsEnd(ftable[f], x, w) THEN 1 ELSE 0)
              = Cardinality(Ends(x, w)) + (IF IsEnd(ftable'[f], x, w) THEN 1 ELSE 0)
      BY <2>3, <1>2, OneEntry
    <3>5. /\ Cardinality(Closing(x, w)) \in Nat /\ Cardinality(Closing(x, w)') \in Nat
          /\ Cardinality(Closing(x, w)') + (IF IsClosing(ptable[p], x, w) THEN 1 ELSE 0)
              = Cardinality(Closing(x, w)) + (IF IsClosing(ptable'[p], x, w) THEN 1 ELSE 0)
      BY <2>4, OneProcess
    <3>6. IsOpen(x, w)' = IsOpen(x, w)
      BY <1>7, Zenon
    <3> HIDE DEF f, a, q
    <3> QED
      BY <3>1, <3>2, <3>3, <3>4, <3>5, <3>6
  <2> QED
    BY <2>3, <2>4, <2>5, <2>6, <1>6, <1>3a, Zenon DEF IInv
<1> QED
  BY <1>8, <1>9, Zenon

LEMMA CloseStep ==
    ASSUME IInv, NEW p \in Proc, NEW fd, sys_close(p, fd)
    PROVE  IInv'
<1>1. CASE argfd(p, fd) = None
  BY <1>1, Stutter, Zenon DEF sys_close
<1>2. CASE argfd(p, fd) # None
  <2>1. /\ fd \in Slot /\ Running(p) /\ ofile[p][fd] # None
        /\ ofile' = [ofile EXCEPT ![p][fd] = None]
        /\ fileclose(p, ofile[p][fd])
        /\ pipes' = pipes
    BY <1>2, SetsFinite, Zenon DEF sys_close, argfd
  <2> QED
    BY <2>1, SlotClosed, Zenon DEF Running
<1> QED
  BY <1>1, <1>2, Zenon

LEMMA GivebackStep ==
    ASSUME IInv, NEW p \in Proc, giveback(p)
    PROVE  IInv'
<1>1. PICK l \in Local : /\ ptable[p].state = "RUN" /\ ptable[p].closing = NoEnd
                         /\ ofile[p][l] # None
                         /\ ofile' = [ofile EXCEPT ![p][l] = None]
                         /\ fileclose(p, ofile[p][l])
                         /\ pipes' = pipes
  BY Zenon DEF giveback, IsFirst
<1>2. l \in Slot
  BY Zenon DEF Slot
<1> QED
  BY <1>1, <1>2, SlotClosed, Zenon

\* The counts after a step that sets a descriptor or a local: only a local may have an entry without a type.
LEMMA RefsAfterOpen ==
    ASSUME IInv, NEW p \in Proc, NEW fd \in Slot, NEW f \in File, ofile[p][fd] = None,
           ofile' \in Ofile,
           Sets(ofile', ofile, p, fd, f),
           \A h \in File : h # f => ftable'[h] = ftable[h],
           ftable'[f].ref = ftable[f].ref + 1,
           ftable'[f].type = "FD_NONE" => fd \notin Fd /\ ftable[f].type = "FD_NONE"
    PROVE  FileRefsExact'
<1>1. ofile \in Ofile
  BY Zenon DEF IInv, TypeOK
<1> SUFFICES ASSUME NEW h \in File
             PROVE  /\ ftable'[h].ref = Cardinality(UsersIn(ofile', h))
                    /\ ftable'[h].ref = 0 => ftable'[h].type = "FD_NONE"
                    /\ ftable'[h].type = "FD_NONE" => \A q \in Proc, n \in Fd : ofile'[q][n] # h
  BY Zenon DEF FileRefsExact, Users, UsersIn
<1>2. Cardinality(UsersIn(ofile', h)) = Cardinality(UsersIn(ofile, h)) + IF h = f THEN 1 ELSE 0
  BY <1>1, OneMoreUser
<1>3. /\ ftable[h].ref = Cardinality(UsersIn(ofile, h)) /\ ftable[h].ref \in Nat
      /\ ftable[h].ref = 0 => ftable[h].type = "FD_NONE"
  BY Counted, Zenon
<1>4. /\ ftable'[h].ref = Cardinality(UsersIn(ofile', h))
      /\ ftable'[h].ref = 0 => ftable'[h].type = "FD_NONE"
  BY <1>2, <1>3
<1>5. ASSUME ftable'[h].type = "FD_NONE", NEW q \in Proc, NEW n \in Fd PROVE ofile'[q][n] # h
  <2>1. n \in Slot /\ ftable[h].type = "FD_NONE" /\ (h = f => fd \notin Fd)
    BY <1>5, SetsFinite, Zenon
  <2>2. ofile[q][n] # h
    BY <2>1, Counted, Zenon
  <2>3. ofile'[q][n] = IF q = p /\ n = fd THEN f ELSE ofile[q][n]
    BY <2>1, Zenon DEF Sets
  <2> QED
    BY <2>1, <2>2, <2>3, Zenon
<1> QED
  BY <1>4, <1>5, Zenon

\* A call of a running process leaves the others' descriptors alone.
LEMMA StillDormant ==
    ASSUME IInv, NEW p \in Proc, Running(p), \A q \in Proc : q # p => ofile'[q] = ofile[q], ptable' = ptable
    PROVE  Dormant'
BY Zenon DEF IInv, Dormant, Running

LEMMA DupStep ==
    ASSUME IInv, NEW p \in Proc, NEW fd, NEW r, sys_dup(p, fd, r)
    PROVE  IInv'
<1>1. CASE argfd(p, fd) = None \/ FreeFds(p) = {}
  BY <1>1, Stutter, Zenon DEF sys_dup
<1>2. CASE ~(argfd(p, fd) = None \/ FreeFds(p) = {})
  <2> DEFINE f == ofile[p][fd]
             a == ftable[f]
  <2>1. /\ fd \in Fd /\ Running(p) /\ f # None
        /\ r \in Fd /\ ofile[p][r] = None
        /\ ofile' = [ofile EXCEPT ![p][r] = f]
        /\ ftable' = [ftable EXCEPT ![f].ref = @ + 1]
        /\ pipes' = pipes /\ ptable' = ptable
    BY <1>2, Zenon DEF sys_dup, argfd, IsFirst, FreeFds, filedup
  <2>2. fd \in Slot /\ r \in Slot /\ f \in File /\ a \in Entry /\ a.ref >= 1 /\ a.type # "FD_NONE"
    BY <2>1, UsedEntry, TypedEntry, SetsFinite, Zenon
  <2>3. /\ ofile' \in Ofile
        /\ Sets(ofile', ofile, p, r, f)
        /\ \A q \in Proc : q # p => ofile'[q] = ofile[q]
    BY <2>1, <2>2, Zenon DEF IInv, TypeOK, Ofile, Sets
  <2>4. /\ ftable' \in [File -> Entry]
        /\ \A h \in File : h # f => ftable'[h] = ftable[h]
        /\ a.ref > 0 /\ ftable'[f].ref = a.ref + 1 /\ ftable'[f].ref > 0 /\ ftable'[f].type = a.type
        /\ ftable'[f].pipe = a.pipe /\ ftable'[f].writable = a.writable
    BY <2>1, <2>2 DEF IInv, TypeOK, Entry
  <2>5. FileRefsExact'
    <3>1. ftable'[f].ref = ftable[f].ref + 1 /\ ftable'[f].type # "FD_NONE"
      BY <2>2, <2>4, Zenon
    <3> HIDE DEF f, a
    <3> QED
      BY <3>1, <2>1, <2>2, <2>3, <2>4, RefsAfterOpen, Zenon
  <2>6. TypeOK' /\ Freed'
    BY <2>1, <2>3, <2>4, Zenon DEF IInv, TypeOK, Freed
  <2>7. Dormant'
    BY <2>1, <2>3, StillDormant, Zenon
  <2>8. Named'
    BY <2>4, Zenon DEF IInv, Named
  <2>9. PipeEndsExact'
    <3>1. ASSUME NEW h \in File, NEW x \in PipeId, NEW w \in BOOLEAN
          PROVE  IsEnd(ftable'[h], x, w) <=> IsEnd(ftable[h], x, w)
      <4>1. CASE h = f
        BY <4>1, <2>4, Zenon DEF IsEnd
      <4>2. CASE h # f
        BY <4>2, <2>4, Zenon
      <4> QED
        BY <4>1, <4>2, Zenon
    <3>2. \A x \in PipeId, w \in BOOLEAN : IsOpen(x, w)' = IsOpen(x, w)
      BY <2>1, Zenon DEF IsOpen
    <3> QED
      BY <3>1, <3>2, <2>1, SameEnds, Zenon DEF IInv
  <2> QED
    BY <2>5, <2>6, <2>7, <2>8, <2>9, Zenon DEF IInv
<1> QED
  BY <1>1, <1>2, Zenon

\* An entry of no use is no end, before the step and after it.
LEMMA EndsNotTouched ==
    ASSUME IInv, NEW f \in File, ftable[f].ref = 0, ftable'[f].type # "FD_PIPE",
           \A h \in File : h # f => ftable'[h] = ftable[h],
           pipes' = pipes, ptable' = ptable
    PROVE  Named' /\ Freed' /\ PipeEndsExact'
<1>1. Named'
  BY Zenon DEF IInv, Named
<1>2. Freed'
  BY Zenon DEF IInv, Freed
<1>3. ASSUME NEW h \in File, NEW x \in PipeId, NEW w \in BOOLEAN
      PROVE  IsEnd(ftable'[h], x, w) <=> IsEnd(ftable[h], x, w)
  BY DEF IsEnd
<1>4. \A x \in PipeId, w \in BOOLEAN : IsOpen(x, w)' = IsOpen(x, w)
  BY Zenon DEF IsOpen
<1> QED
  BY <1>1, <1>2, <1>3, <1>4, SameEnds, Zenon DEF IInv

LEMMA TakenEntry ==
    ASSUME NEW f \in File, ftable[f] \in Entry
    PROVE  Taken(f) \in Entry /\ Taken(f).ref = 1 /\ Taken(f).type = ftable[f].type
BY DEF Taken, Entry

\* A call takes an entry, and has to give it back.
LEMMA OneTaken ==
    ASSUME IInv, NEW p \in Proc, Running(p), NEW f \in File, ftable[f].ref = 0,
           ftable' = [ftable EXCEPT ![f] = Taken(f)], ofile' = [ofile EXCEPT ![p][rf] = f],
           pipes' = pipes, ptable' = ptable
    PROVE  IInv'
<1>1. ftable \in [File -> Entry] /\ ftable[f] \in Entry /\ ftable[f].type = "FD_NONE"
  BY Counted, Zenon DEF IInv, TypeOK
<1>2. Taken(f) \in Entry /\ Taken(f).ref = 1 /\ Taken(f).type = "FD_NONE"
  BY <1>1, TakenEntry, Zenon
<1>3. /\ ftable' \in [File -> Entry] /\ ftable'[f] = Taken(f)
      /\ \A h \in File : h # f => ftable'[h] = ftable[h]
  BY <1>1, <1>2, Zenon
<1>4. rf \in Slot /\ rf \notin Fd /\ ofile[p][rf] = None
  BY SetsFinite, Zenon DEF Running, Local
<1>5. /\ ofile' \in Ofile
      /\ Sets(ofile', ofile, p, rf, f)
      /\ \A q \in Proc : q # p => ofile'[q] = ofile[q]
  BY <1>4, Zenon DEF IInv, TypeOK, Ofile, Sets
<1>6. ftable'[f].ref = ftable[f].ref + 1 /\ ftable'[f].type = "FD_NONE"
  BY <1>2, <1>3
<1>7. FileRefsExact'
  BY <1>1, <1>3, <1>4, <1>5, <1>6, RefsAfterOpen, Zenon
<1>8. Named' /\ Freed' /\ PipeEndsExact'
  BY <1>3, <1>6, EndsNotTouched
<1>9. TypeOK' /\ Dormant'
  BY <1>3, <1>5, StillDormant, Zenon DEF IInv, TypeOK
<1> QED
  BY <1>7, <1>8, <1>9, Zenon DEF IInv

LEMMA OpenStep ==
    ASSUME IInv, NEW p \in Proc, NEW name \in STRING, NEW create, NEW rd \in BOOLEAN, NEW wr \in BOOLEAN, NEW r,
           sys_open(p, name, create, rd, wr, r)
    PROVE  IInv'
<1>1. Running(p) /\ pipes' = pipes /\ ptable' = ptable
  BY Zenon DEF sys_open, files
<1>2. CASE ftable' = ftable /\ ofile' = ofile
  BY <1>1, <1>2, Same, Zenon
<1>3. CASE ~(ftable' = ftable /\ ofile' = ofile)
  <2>1. FreeFiles # {} /\ openfile(p, name, rd, wr, r)
    BY <1>3, Zenon DEF sys_open, files, openfile
  <2>2. PICK f \in FreeFiles :
            IF FreeFds(p) = {}
            THEN ftable' = [ftable EXCEPT ![f] = Taken(f)] /\ ofile' = [ofile EXCEPT ![p][rf] = f]
            ELSE /\ IsFirst(r, FreeFds(p))
                 /\ ofile' = [ofile EXCEPT ![p][r] = f]
                 /\ ftable' = [ftable EXCEPT ![f] = [ref |-> 1, type |-> "FD_INODE", pipe |-> ftable[f].pipe,
                                                     ip |-> name, readable |-> rd, writable |-> wr]]
    BY <2>1, Zenon DEF openfile
  <2>3. f \in File /\ ftable[f] \in Entry /\ ftable[f].ref = 0
    BY Zenon DEF FreeFiles, IInv, TypeOK
  <2>4. CASE FreeFds(p) = {}
    <3>1. /\ ftable' = [ftable EXCEPT ![f] = Taken(f)] /\ ofile' = [ofile EXCEPT ![p][rf] = f]
      BY <2>2, <2>4, Zenon
    <3> QED
      BY <3>1, <2>3, <1>1, OneTaken, Zenon
  <2>5. CASE FreeFds(p) # {}
    <3>1. /\ r \in Slot /\ ofile[p][r] = None
          /\ ofile' = [ofile EXCEPT ![p][r] = f]
          /\ ftable' = [ftable EXCEPT ![f] = [ref |-> 1, type |-> "FD_INODE", pipe |-> ftable[f].pipe,
                                              ip |-> name, readable |-> rd, writable |-> wr]]
      BY <2>2, <2>5, SetsFinite, Zenon DEF IsFirst, FreeFds
    <3>2. /\ ftable' \in [File -> Entry]
          /\ \A h \in File : h # f => ftable'[h] = ftable[h]
          /\ ftable'[f].ref = ftable[f].ref + 1 /\ ftable'[f].type = "FD_INODE"
      BY <3>1, <2>3 DEF Entry, IInv, TypeOK
    <3>3. /\ ofile' \in Ofile
          /\ Sets(ofile', ofile, p, r, f)
          /\ \A q \in Proc : q # p => ofile'[q] = ofile[q]
      BY <3>1, <2>3, Zenon DEF IInv, TypeOK, Ofile, Sets
    <3>4. FileRefsExact'
      BY <3>1, <3>2, <3>3, <2>3, RefsAfterOpen, Zenon
    <3>5. Named' /\ Freed' /\ PipeEndsExact'
      BY <3>2, <2>3, <1>1, EndsNotTouched, Zenon
    <3>6. TypeOK'
      BY <3>2, <3>3, <1>1, Zenon DEF IInv, TypeOK
    <3>7. Dormant'
      BY <3>3, <1>1, StillDormant, Zenon
    <3> QED
      BY <3>4, <3>5, <3>6, <3>7, Zenon DEF IInv
  <2> QED
    BY <2>4, <2>5, Zenon
<1> QED
  BY <1>2, <1>3, Zenon

LEMMA EndFields ==
    ASSUME NEW x \in PipeId, NEW w \in BOOLEAN
    PROVE  /\ End(x, w) \in Entry /\ End(x, w).ref = 1 /\ End(x, w).type = "FD_PIPE"
           /\ End(x, w).pipe = x /\ End(x, w).writable = w
BY Zenon DEF End, Entry

\* Two descriptors, or the two locals, get entries that were free.
SetsTwo(p, f, g, m, n) ==
    /\ ofile' \in Ofile /\ \A q \in Proc : q # p => ofile'[q] = ofile[q]
    /\ \A l \in Slot : ofile'[p][l] = IF l = m THEN f ELSE IF l = n THEN g ELSE ofile[p][l]
    /\ \A h \in File : h # f /\ h # g => ftable'[h] = ftable[h]

LEMMA RefsAfterTwo ==
    ASSUME IInv, NEW p \in Proc,
           NEW f \in File, NEW g \in File, f # g, ftable[f].ref = 0, ftable[g].ref = 0,
           NEW m \in Slot, NEW n \in Slot, m # n, ofile[p][m] = None, ofile[p][n] = None,
           SetsTwo(p, f, g, m, n),
           ftable'[f].ref = 1, ftable'[f].type = "FD_NONE" => m \notin Fd,
           ftable'[g].ref = 1, ftable'[g].type = "FD_NONE" => n \notin Fd
    PROVE  FileRefsExact'
<1> DEFINE o == [ofile EXCEPT ![p][m] = f]
<1>1. ofile \in Ofile /\ o \in Ofile /\ Sets(o, ofile, p, m, f) /\ o[p][n] = None
  BY Zenon DEF IInv, TypeOK, Ofile, Sets
<1>2. ofile' \in Ofile /\ Sets(ofile', o, p, n, g)
  BY <1>1 DEF Sets, SetsTwo
<1> HIDE DEF o
<1> SUFFICES ASSUME NEW h \in File
             PROVE  /\ ftable'[h].ref = Cardinality(UsersIn(ofile', h))
                    /\ ftable'[h].ref = 0 => ftable'[h].type = "FD_NONE"
                    /\ ftable'[h].type = "FD_NONE" => \A q \in Proc, l \in Fd : ofile'[q][l] # h
  BY Zenon DEF FileRefsExact, Users, UsersIn
<1>3. Cardinality(UsersIn(o, h)) = Cardinality(UsersIn(ofile, h)) + IF h = f THEN 1 ELSE 0
  BY <1>1, OneMoreUser
<1>4. Cardinality(UsersIn(ofile', h)) = Cardinality(UsersIn(o, h)) + IF h = g THEN 1 ELSE 0
  BY <1>1, <1>2, OneMoreUser
<1>5. /\ ftable[h].ref = Cardinality(UsersIn(ofile, h)) /\ ftable[h].ref \in Nat
      /\ ftable[h].ref = 0 => ftable[h].type = "FD_NONE"
  BY Counted, Zenon
<1>6. Cardinality(UsersIn(o, h)) \in Nat
  BY UsersFinite, Zenon
<1>7. h # f /\ h # g => ftable'[h] = ftable[h]
  BY Zenon DEF SetsTwo
<1>8. ftable'[h].ref = Cardinality(UsersIn(ofile', h)) /\ (ftable'[h].ref = 0 => ftable'[h].type = "FD_NONE")
  <2>1. CASE h = f
    BY <2>1, <1>3, <1>4, <1>5
  <2>2. CASE h = g
    BY <2>2, <1>3, <1>4, <1>5
  <2>3. CASE h # f /\ h # g
    BY <2>3, <1>3, <1>4, <1>5, <1>6, <1>7
  <2> QED
    BY <2>1, <2>2, <2>3, Zenon
<1>9. ASSUME ftable'[h].type = "FD_NONE", NEW q \in Proc, NEW l \in Fd PROVE ofile'[q][l] # h
  <2>1. l \in Slot /\ ofile[q][l] # h
    <3>1. l \in Slot
      BY SetsFinite, Zenon
    <3>2. CASE h = f \/ h = g
      BY <3>1, <3>2, Counted, Zenon
    <3>3. CASE h # f /\ h # g
      <4>1. ftable[h].type = "FD_NONE"
        BY <3>3, <1>7, <1>9, Zenon
      <4> QED
        BY <3>1, <4>1, Counted, Zenon
    <3> QED
      BY <3>1, <3>2, <3>3, Zenon
  <2>2. CASE q # p
    BY <2>1, <2>2, Zenon DEF SetsTwo
  <2>3. CASE q = p
    <3>1. ofile'[q][l] = IF l = m THEN f ELSE IF l = n THEN g ELSE ofile[q][l]
      BY <2>1, <2>3, Zenon DEF SetsTwo
    <3> QED
      BY <3>1, <2>1, <1>9, Zenon
  <2> QED
    BY <2>2, <2>3, Zenon
<1> QED
  BY <1>8, <1>9, Zenon

\* pipealloc() has two entries, but no memory for the pipe.
LEMMA TwoTaken ==
    ASSUME IInv, NEW p \in Proc, Running(p),
           NEW f \in File, NEW g \in File, f # g, ftable[f].ref = 0, ftable[g].ref = 0,
           ftable' = [ftable EXCEPT ![f] = Taken(f), ![g] = Taken(g)],
           ofile' = [ofile EXCEPT ![p] = [@ EXCEPT ![rf] = f, ![wf] = g]],
           pipes' = pipes, ptable' = ptable
    PROVE  IInv'
<1>1. /\ ftable \in [File -> Entry] /\ ftable[f] \in Entry /\ ftable[g] \in Entry
      /\ ftable[f].type = "FD_NONE" /\ ftable[g].type = "FD_NONE"
  BY Counted, Zenon DEF IInv, TypeOK
<1>2. /\ Taken(f) \in Entry /\ Taken(f).ref = 1 /\ Taken(f).type = "FD_NONE"
      /\ Taken(g) \in Entry /\ Taken(g).ref = 1 /\ Taken(g).type = "FD_NONE"
  BY <1>1, TakenEntry, Zenon
<1>3. /\ ftable' \in [File -> Entry] /\ ftable'[f] = Taken(f) /\ ftable'[g] = Taken(g)
      /\ \A h \in File : h # f /\ h # g => ftable'[h] = ftable[h]
  BY <1>1, <1>2, Zenon
<1>4. rf \in Slot /\ wf \in Slot /\ rf # wf /\ rf \notin Fd /\ wf \notin Fd /\ ofile[p][rf] = None /\ ofile[p][wf] = None
  BY SetsFinite, Zenon DEF Running, Local
<1>5. SetsTwo(p, f, g, rf, wf)
  BY <1>3, <1>4, Zenon DEF SetsTwo, IInv, TypeOK, Ofile
<1>6. FileRefsExact'
  <2>1. ftable'[f].ref = 1 /\ ftable'[g].ref = 1
    BY <1>2, <1>3, Zenon
  <2> QED
    BY <2>1, <1>4, <1>5, RefsAfterTwo, Zenon
<1>7. TypeOK' /\ Dormant'
  BY <1>3, <1>5, StillDormant, Zenon DEF IInv, TypeOK, SetsTwo
<1>8. Freed' /\ Named'
  BY <1>2, <1>3, Zenon DEF IInv, Freed, Named
<1>9. PipeEndsExact'
  <2>1. ASSUME NEW h \in File, NEW x \in PipeId, NEW w \in BOOLEAN
        PROVE  IsEnd(ftable'[h], x, w) <=> IsEnd(ftable[h], x, w)
    BY <1>1, <1>2, <1>3, Zenon DEF IsEnd
  <2>2. \A x \in PipeId, w \in BOOLEAN : IsOpen(x, w)' = IsOpen(x, w)
    BY Zenon DEF IsOpen
  <2> QED
    BY <2>1, <2>2, SameEnds, Zenon DEF IInv
<1> QED
  BY <1>6, <1>7, <1>8, <1>9, Zenon DEF IInv

\* A pipe that is made: two descriptors or locals more, and the two ends that the pipe has open.
Made(p, f, g, x, m, n) ==
    /\ SetsTwo(p, f, g, m, n)
    /\ ftable' \in [File -> Entry] /\ ftable'[f] = End(x, FALSE) /\ ftable'[g] = End(x, TRUE)
    /\ pipes' \in [PipeId -> Pipe] /\ pipes'[x].readopen /\ pipes'[x].writeopen
    /\ \A y \in PipeId : y # x => pipes'[y] = pipes[y]
    /\ ptable' = ptable

LEMMA PipeMade ==
    ASSUME IInv, NEW p \in Proc, Running(p),
           NEW f \in File, NEW g \in File, f # g, ftable[f].ref = 0, ftable[g].ref = 0,
           NEW x \in PipeId, pipes[x] = FreePipe,
           NEW m \in Slot, NEW n \in Slot, m # n, ofile[p][m] = None, ofile[p][n] = None,
           Made(p, f, g, x, m, n)
    PROVE  IInv'
<1> DEFINE a == End(x, FALSE)
           b == End(x, TRUE)
<1>1. a \in Entry /\ a.ref = 1 /\ a.type = "FD_PIPE" /\ a.pipe = x /\ a.writable = FALSE
  BY EndFields, Zenon
<1>2. b \in Entry /\ b.ref = 1 /\ b.type = "FD_PIPE" /\ b.pipe = x /\ b.writable = TRUE
  BY EndFields, Zenon
<1>4. ftable'[f] = a /\ ftable'[g] = b /\ \A h \in File : h # f /\ h # g => ftable'[h] = ftable[h]
  BY Zenon DEF Made, SetsTwo
<1> HIDE DEF a, b
<1>7. /\ ~pipes[x].readopen /\ ~pipes[x].writeopen /\ pipes'[x].readopen /\ pipes'[x].writeopen
      /\ \A y \in PipeId : y # x => pipes'[y] = pipes[y]
  BY DEF FreePipe, Made
<1>8. TypeOK'
  BY Zenon DEF IInv, TypeOK, Made, SetsTwo
<1>9. Dormant'
  BY StillDormant, Zenon DEF Made, SetsTwo
<1>10. Freed'
  BY <1>7, Zenon DEF IInv, Freed, BothClosed
<1>11. Named'
  BY <1>1, <1>2, <1>4, Zenon DEF IInv, Named
<1>12. FileRefsExact'
  <2>1. ftable'[f].ref = 1 /\ ftable'[g].ref = 1 /\ ftable'[f].type # "FD_NONE" /\ ftable'[g].type # "FD_NONE"
    BY <1>1, <1>2, <1>4, Zenon
  <2>2. SetsTwo(p, f, g, m, n)
    BY Zenon DEF Made
  <2> QED
    BY <2>1, <2>2, RefsAfterTwo, Zenon
<1>13. PipeEndsExact'
  <2> SUFFICES ASSUME NEW y \in PipeId, NEW w \in BOOLEAN
               PROVE  Cardinality(Ends(y, w)') + Cardinality(Closing(y, w)') = IF IsOpen(y, w)' THEN 1 ELSE 0
    BY Zenon DEF PipeEndsExact
  <2>1. Cardinality(Ends(y, w)) + Cardinality(Closing(y, w)) = IF IsOpen(y, w) THEN 1 ELSE 0
    BY Zenon DEF IInv, PipeEndsExact
  <2>2. Closing(y, w)' = Closing(y, w)
    BY Zenon DEF Closing, Made
  <2> DEFINE e == IF w THEN g ELSE f
             A == Ends(y, w)
             B == Ends(y, w)'
  <2>3. /\ e \in File /\ A \in SUBSET File /\ B \in SUBSET File
        /\ \A h \in File : h # e => (h \in A <=> h \in B)
        /\ e \notin A /\ (e \in B <=> y = x)
    <3>1. A \in SUBSET File /\ B \in SUBSET File
      BY Zenon DEF Ends
    <3>2. ASSUME NEW h \in File, h # e
          PROVE  h \in A <=> h \in B
      <4>1. CASE h = f \/ h = g
        <5>1. h \notin A
          BY <4>1 DEF Ends
        <5>2. h \notin B
          BY <3>2, <4>1, <1>1, <1>2, <1>4, Zenon DEF Ends
        <5> QED
          BY <5>1, <5>2, Zenon
      <4>2. CASE h # f /\ h # g
        BY <4>2, <1>4, Zenon DEF Ends
      <4> QED
        BY <4>1, <4>2, Zenon
    <3>3. e \notin A
      BY DEF Ends
    <3>4. e \in B <=> y = x
      <4>1. ftable'[e].ref > 0 /\ ftable'[e].type = "FD_PIPE" /\ ftable'[e].pipe = x /\ ftable'[e].writable = w
        <5>1. CASE w = TRUE
          <6>1. ftable'[e] = b
            BY <5>1, <1>4, Zenon
          <6> HIDE DEF e
          <6>2. ftable'[e].ref > 0 /\ ftable'[e].type = "FD_PIPE" /\ ftable'[e].pipe = x
            BY <6>1, <1>2
          <6>3. ftable'[e].writable = w
            BY <6>1, <5>1, <1>2, Zenon
          <6> QED
            BY <6>2, <6>3, Zenon
        <5>2. CASE w = FALSE
          <6>1. ftable'[e] = a
            BY <5>2, <1>4, Zenon
          <6> HIDE DEF e
          <6>2. ftable'[e].ref > 0 /\ ftable'[e].type = "FD_PIPE" /\ ftable'[e].pipe = x
            BY <6>1, <1>1
          <6>3. ftable'[e].writable = w
            BY <6>1, <5>2, <1>1, Zenon
          <6> QED
            BY <6>2, <6>3, Zenon
        <5> QED
          BY <5>1, <5>2, Zenon
      <4>2. e \in File
        OBVIOUS
      <4> HIDE DEF e
      <4> QED
        BY <4>1, <4>2, Zenon DEF Ends
    <3> QED
      BY <3>1, <3>2, <3>3, <3>4, Zenon
  <2>4. IsOpen(y, w)' = IF y = x THEN TRUE ELSE IsOpen(y, w)
    BY <1>7, Zenon DEF IsOpen
  <2>5. y = x => ~IsOpen(y, w)
    BY <1>7, Zenon DEF IsOpen
  <2> HIDE DEF e, A, B
  <2>6. /\ Cardinality(A) \in Nat /\ Cardinality(B) \in Nat
        /\ Cardinality(B) + (IF e \in A THEN 1 ELSE 0) = Cardinality(A) + (IF e \in B THEN 1 ELSE 0)
    BY <2>3, CountOne, SetsFinite
  <2>7. Cardinality(Closing(y, w)) \in Nat
    BY CountsAreNat, Zenon
  <2>8. Cardinality(A) + Cardinality(Closing(y, w)) = IF IsOpen(y, w) THEN 1 ELSE 0
    BY <2>1, Zenon DEF A
  <2>9. Cardinality(B) + Cardinality(Closing(y, w)) = IF IsOpen(y, w)' THEN 1 ELSE 0
    BY <2>3, <2>4, <2>5, <2>6, <2>7, <2>8
  <2> QED
    BY <2>2, <2>9, Zenon DEF B
<1> QED
  BY <1>8, <1>9, <1>10, <1>11, <1>12, <1>13, Zenon DEF IInv

LEMMA PipeStep ==
    ASSUME IInv, NEW p \in Proc, NEW r, sys_pipe(p, r)
    PROVE  IInv'
<1> DEFINE free == {x \in PipeId : pipes[x] = FreePipe}
<1>1. Running(p) /\ ptable' = ptable /\ off' = off /\ disk' = disk
  BY Zenon DEF sys_pipe
<1>2. CASE ftable' = ftable /\ ofile' = ofile /\ pipes' = pipes
  BY <1>1, <1>2, Same, Zenon
<1>3. ASSUME NEW f \in FreeFiles,
             ftable' = [ftable EXCEPT ![f] = Taken(f)], ofile' = [ofile EXCEPT ![p][rf] = f], pipes' = pipes
      PROVE  IInv'
  <2>1. f \in File /\ ftable[f].ref = 0
    BY Zenon DEF FreeFiles
  <2> QED
    BY <2>1, <1>1, <1>3, OneTaken, Zenon
<1>4. ASSUME NEW f \in FreeFiles, NEW g \in FreeFiles, IsFirst(g, FreeFiles \ {f}),
             ftable' = [ftable EXCEPT ![f] = Taken(f), ![g] = Taken(g)],
             ofile' = [ofile EXCEPT ![p] = [@ EXCEPT ![rf] = f, ![wf] = g]], pipes' = pipes
      PROVE  IInv'
  <2>1. f \in File /\ ftable[f].ref = 0 /\ g \in File /\ ftable[g].ref = 0 /\ f # g
    BY <1>4, Zenon DEF FreeFiles, IsFirst
  <2> QED
    BY <2>1, <1>1, <1>4, TwoTaken, Zenon
<1>5. ASSUME NEW f \in FreeFiles, NEW g \in FreeFiles, IsFirst(g, FreeFiles \ {f}), NEW x \in free,
             ftable' = [ftable EXCEPT ![f] = End(x, FALSE), ![g] = End(x, TRUE)],
             pipes' = [pipes EXCEPT ![x] = [readopen |-> TRUE, writeopen |-> TRUE, data |-> <<>>]],
             fdpair(p, f, g, r)
      PROVE  IInv'
  <2>1. /\ f \in File /\ g \in File /\ f # g /\ ftable[f].ref = 0 /\ ftable[g].ref = 0
        /\ x \in PipeId /\ pipes[x] = FreePipe
    BY <1>5, Zenon DEF FreeFiles, IsFirst
  <2>2. End(x, FALSE) \in Entry /\ End(x, TRUE) \in Entry
    BY <2>1, EndFields, Zenon
  <2>3. /\ ftable' \in [File -> Entry] /\ ftable'[f] = End(x, FALSE) /\ ftable'[g] = End(x, TRUE)
        /\ \A h \in File : h # f /\ h # g => ftable'[h] = ftable[h]
    BY <1>5, <2>1, <2>2, Zenon DEF IInv, TypeOK
  <2>4. /\ pipes' \in [PipeId -> Pipe] /\ pipes'[x].readopen /\ pipes'[x].writeopen
        /\ \A y \in PipeId : y # x => pipes'[y] = pipes[y]
    BY <1>5, <2>1 DEF IInv, TypeOK, Pipe
  <2>5. ofile \in Ofile
    BY Zenon DEF IInv, TypeOK
  <2>6. CASE Cardinality(FreeFds(p)) < 2
    <3>1. PICK fd0 \in Fd \cup {-1} :
             /\ IF FreeFds(p) = {} THEN fd0 = -1 ELSE IsFirst(fd0, FreeFds(p))
             /\ LET o == [l \in Slot |-> IF l = rf \/ l = fd0 THEN f ELSE IF l = wf THEN g ELSE ofile[p][l]]
                IN  ofile' = [ofile EXCEPT ![p] = ClearFd(o, fd0)]
      BY <1>5, <2>6, Zenon DEF fdpair
    <3> DEFINE o == [l \in Slot |-> IF l = rf \/ l = fd0 THEN f ELSE IF l = wf THEN g ELSE ofile[p][l]]
    <3>2. /\ rf \in Slot /\ wf \in Slot /\ rf # wf /\ ofile[p][rf] = None /\ ofile[p][wf] = None
          /\ fd0 # rf /\ fd0 # wf
      <4>1. rf # -1 /\ wf # -1
        BY FilesAssumption DEF rf, wf
      <4> QED
        BY <4>1, <1>1, SetsFinite, Zenon DEF Running, Local
    <3>3. \A l \in Slot : l = fd0 => ofile[p][l] = None
      <4>1. -1 \notin Slot
        BY FilesAssumption DEF Slot, Fd, Local, rf, wf
      <4> QED
        BY <4>1, <3>1, Zenon DEF IsFirst, FreeFds
    <3>4. ofile' = [ofile EXCEPT ![p] = [l \in Slot |-> IF l = fd0 THEN None ELSE o[l]]]
      BY <3>1, Zenon DEF ClearFd
    <3>5. \A l \in Slot : ofile'[p][l] = IF l = rf THEN f ELSE IF l = wf THEN g ELSE ofile[p][l]
      BY <3>2, <3>3, <3>4, <2>5, Zenon DEF Ofile
    <3>6. ofile' \in Ofile /\ \A q \in Proc : q # p => ofile'[q] = ofile[q]
      BY <2>1, <3>4, <2>5, Zenon DEF Ofile
    <3>7. Made(p, f, g, x, rf, wf)
      BY <3>5, <3>6, <2>3, <2>4, <1>1, Zenon DEF Made, SetsTwo
    <3> QED
      BY <3>2, <3>7, <2>1, <1>1, PipeMade, Zenon
  <2>7. CASE ~(Cardinality(FreeFds(p)) < 2)
    <3> DEFINE m == r[1]
               n == r[2]
    <3>1. ofile' = [ofile EXCEPT ![p] = [@ EXCEPT ![m] = f, ![n] = g]]
      BY <1>5, <2>7, Zenon DEF fdpair
    <3>2. m \in Slot /\ n \in Slot /\ m # n /\ ofile[p][m] = None /\ ofile[p][n] = None
      BY <1>5, <2>7, SetsFinite, Zenon DEF fdpair, IsFirst, FreeFds
    <3> HIDE DEF m, n
    <3>3. /\ ofile' \in Ofile /\ \A q \in Proc : q # p => ofile'[q] = ofile[q]
          /\ \A l \in Slot : ofile'[p][l] = IF l = m THEN f ELSE IF l = n THEN g ELSE ofile[p][l]
      BY <3>1, <3>2, <2>1, <2>5, Zenon DEF Ofile
    <3>4. Made(p, f, g, x, m, n)
      BY <3>3, <2>3, <2>4, <1>1, Zenon DEF Made, SetsTwo
    <3> QED
      BY <3>2, <3>4, <2>1, <1>1, PipeMade, Zenon
  <2> QED
    BY <2>6, <2>7, Zenon
<1> QED
  BY <1>2, <1>3, <1>4, <1>5, Zenon DEF sys_pipe

-------------------------------------------------------------------------------

LEMMA PipecloseStep ==
    ASSUME IInv, NEW p \in Proc, pipeclose(p)
    PROVE  IInv'
<1> DEFINE x == ptable[p].closing.pipe
           v == ptable[p].closing.writable
           q == IF v THEN [pipes[x] EXCEPT !.writeopen = FALSE] ELSE [pipes[x] EXCEPT !.readopen = FALSE]
<1>1. /\ ptable[p].state = "RUN" /\ ptable[p].closing # NoEnd
      /\ pipes' = [pipes EXCEPT ![x] = IF BothClosed(q) THEN FreePipe ELSE q]
      /\ ptable' = [ptable EXCEPT ![p].closing = NoEnd]
      /\ ftable' = ftable /\ ofile' = ofile
  BY Zenon DEF pipeclose
<1>2. ptable[p] \in Process /\ ptable[p].closing \in PipeEnd
  BY Zenon DEF IInv, TypeOK, Process
<1>3. x \in PipeId /\ v \in BOOLEAN /\ ptable[p].closing = [pipe |-> x, writable |-> v]
  BY <1>1, <1>2, Zenon DEF PipeEnd
<1>4. /\ ptable' \in [Proc -> Process] /\ ptable'[p].closing = NoEnd /\ ptable'[p].state = "RUN"
      /\ \A r \in Proc : r # p => ptable'[r] = ptable[r]
  BY <1>1, <1>2, Zenon DEF IInv, TypeOK, Process, PipeEnd
<1>5. pipes[x] \in Pipe /\ q \in Pipe
  BY <1>3, Zenon DEF IInv, TypeOK, Pipe
<1>6. /\ q.writeopen = IF v THEN FALSE ELSE pipes[x].writeopen
      /\ q.readopen = IF v THEN pipes[x].readopen ELSE FALSE
  BY <1>3, <1>5, Zenon DEF Pipe
<1> HIDE DEF q
<1>7. /\ pipes' \in [PipeId -> Pipe]
      /\ pipes'[x] = IF BothClosed(q) THEN FreePipe ELSE q
      /\ \A y \in PipeId : y # x => pipes'[y] = pipes[y]
  BY <1>1, <1>3, <1>5 DEF IInv, TypeOK, Pipe, FreePipe
<1>8. pipes'[x].writeopen = q.writeopen /\ pipes'[x].readopen = q.readopen
  <2>1. CASE BothClosed(q)
    <3>1. pipes'[x].writeopen = FALSE /\ pipes'[x].readopen = FALSE
      BY <2>1, <1>7 DEF FreePipe
    <3>2. q.writeopen = FALSE /\ q.readopen = FALSE
      BY <2>1, <1>5, Zenon DEF BothClosed, Pipe
    <3> QED
      BY <3>1, <3>2, Zenon
  <2>2. CASE ~BothClosed(q)
    BY <2>2, <1>7, Zenon
  <2> QED
    BY <2>1, <2>2, Zenon
<1>9. TypeOK' /\ Dormant' /\ Named' /\ FileRefsExact'
  BY <1>1, <1>4, <1>7, SameRefs, Zenon DEF IInv, TypeOK, Dormant, Named
<1>10. Freed'
  BY <1>3, <1>7, Zenon DEF IInv, Freed, BothClosed, FreePipe
<1>11. PipeEndsExact'
  <2> SUFFICES ASSUME NEW y \in PipeId, NEW w \in BOOLEAN
               PROVE  Cardinality(Ends(y, w)') + Cardinality(Closing(y, w)') = IF IsOpen(y, w)' THEN 1 ELSE 0
    BY Zenon DEF PipeEndsExact
  <2>1. Cardinality(Ends(y, w)) + Cardinality(Closing(y, w)) = IF IsOpen(y, w) THEN 1 ELSE 0
    BY Zenon DEF IInv, PipeEndsExact
  <2>2. Ends(y, w)' = Ends(y, w) /\ Cardinality(Ends(y, w)) \in Nat
    <3>1. Ends(y, w)' = Ends(y, w)
      BY <1>1, Zenon DEF Ends
    <3> QED
      BY <3>1, CountsAreNat, Zenon
  <2>3. /\ Cardinality(Closing(y, w)) \in Nat /\ Cardinality(Closing(y, w)') \in Nat
        /\ Cardinality(Closing(y, w)') + (IF IsClosing(ptable[p], y, w) THEN 1 ELSE 0)
             = Cardinality(Closing(y, w)) + (IF IsClosing(ptable'[p], y, w) THEN 1 ELSE 0)
    BY <1>4, OneProcess, Zenon
  <2>4. ~IsClosing(ptable'[p], y, w)
    BY <1>4, SetsFinite DEF IsClosing, NoEnd, None
  <2>5. CASE y = x /\ w = v
    <3>1. IsClosing(ptable[p], y, w)
      BY <1>3, <2>5, Zenon DEF IsClosing
    <3>2. ~IsOpen(y, w)'
      BY <1>3, <1>6, <1>8, <2>5, Zenon DEF IsOpen
    <3> QED
      BY <3>1, <3>2, <2>1, <2>2, <2>3, <2>4
  <2>6. CASE ~(y = x /\ w = v)
    <3>1. ~IsClosing(ptable[p], y, w)
      BY <1>3, <2>6 DEF IsClosing
    <3>2. IsOpen(y, w)' = IsOpen(y, w)
      <4>1. CASE y # x
        BY <4>1, <1>7, Zenon DEF IsOpen
      <4>2. CASE y = x /\ w = TRUE /\ v = FALSE
        BY <4>2, <1>6, <1>8, Zenon DEF IsOpen
      <4>3. CASE y = x /\ w = FALSE /\ v = TRUE
        BY <4>3, <1>6, <1>8, Zenon DEF IsOpen
      <4> QED
        BY <4>1, <4>2, <4>3, <2>6, <1>3, Zenon
    <3> QED
      BY <3>1, <3>2, <2>1, <2>2, <2>3, <2>4
  <2> QED
    BY <2>5, <2>6, Zenon
<1> QED
  BY <1>9, <1>10, <1>11, Zenon DEF IInv

\* Data goes through a pipe that has an end.
LEMMA DataStep ==
    ASSUME IInv, ftable' = ftable, ofile' = ofile, ptable' = ptable,
           NEW f \in File, ftable[f].ref > 0, ftable[f].type = "FD_PIPE", NEW d \in Seq(STRING),
           pipes' = [pipes EXCEPT ![ftable[f].pipe].data = d]
    PROVE  IInv'
<1> DEFINE x == ftable[f].pipe
           w == ftable[f].writable
<1>1. x \in PipeId /\ w \in BOOLEAN /\ pipes[x] \in Pipe
  BY Zenon DEF IInv, TypeOK, Named, Entry
<1>2. /\ pipes' \in [PipeId -> Pipe]
      /\ pipes'[x].readopen = pipes[x].readopen /\ pipes'[x].writeopen = pipes[x].writeopen
      /\ \A y \in PipeId : y # x => pipes'[y] = pipes[y]
  BY <1>1, Zenon DEF IInv, TypeOK, Pipe
<1>3. IsOpen(x, w)
  <2>1. f \in Ends(x, w) /\ IsFiniteSet(Ends(x, w))
    <3>1. Ends(x, w) \in SUBSET File
      BY Zenon DEF Ends
    <3> QED
      BY <3>1, SetsFinite, FS_Subset, Zenon DEF Ends
  <2>2. Cardinality(Ends(x, w)) # 0
    BY <2>1, FS_EmptySet, Zenon
  <2>3. Cardinality(Ends(x, w)) + Cardinality(Closing(x, w)) = IF IsOpen(x, w) THEN 1 ELSE 0
    BY <1>1, Zenon DEF IInv, PipeEndsExact
  <2> QED
    BY <2>2, <2>3, CountsAreNat
<1>4. ~BothClosed(pipes[x])
  BY <1>3, Zenon DEF IsOpen, BothClosed
<1> HIDE DEF x, w
<1>5. \A y \in PipeId, u \in BOOLEAN : IsOpen(y, u)' = IsOpen(y, u)
  BY <1>2 DEF IsOpen
<1>6. Freed'
  BY <1>2, <1>4, Zenon DEF IInv, Freed, BothClosed
<1>7. PipeEndsExact'
  BY <1>5, SameEnds, Zenon DEF IInv
<1> QED
  BY <1>2, <1>6, <1>7, SameRefs, Zenon DEF IInv, TypeOK, Dormant, Named

LEMMA ReadStep ==
    ASSUME IInv, NEW p \in Proc, NEW fd, sys_read(p, fd)
    PROVE  IInv'
<1> DEFINE f == argfd(p, fd)
<1>1. ftable' = ftable /\ ofile' = ofile /\ ptable' = ptable /\ f # None
  BY Zenon DEF sys_read
<1>2. f \in File /\ ftable[f].ref > 0
  <2>1. fd \in Fd /\ f = ofile[p][fd]
    BY <1>1, Zenon DEF argfd
  <2>2. f \in File /\ ftable[f] \in Entry /\ ftable[f].ref >= 1
    BY <1>1, <2>1, UsedEntry, SetsFinite, Zenon
  <2> HIDE DEF f
  <2> QED
    BY <2>2 DEF Entry
<1>3. CASE pipes' = pipes
  BY <1>1, <1>3, Same, Zenon
<1>4. CASE pipes' # pipes
  <2>1. ftable[f].type = "FD_PIPE" /\ pipes' = [pipes EXCEPT ![ftable[f].pipe].data = <<>>]
    BY <1>4, Zenon DEF sys_read, fileread
  <2>2. <<>> \in Seq(STRING)
    OBVIOUS
  <2> HIDE DEF f
  <2> QED
    BY <1>1, <1>2, <2>1, <2>2, DataStep, Zenon
<1> QED
  BY <1>3, <1>4, Zenon

LEMMA WriteStep ==
    ASSUME IInv, NEW p \in Proc, NEW fd, NEW data \in Seq(STRING), sys_write(p, fd, data)
    PROVE  IInv'
<1> DEFINE f == argfd(p, fd)
<1>1. ftable' = ftable /\ ofile' = ofile /\ ptable' = ptable /\ f # None
  BY Zenon DEF sys_write
<1>2. f \in File /\ ftable[f].ref > 0 /\ ftable[f] \in Entry
  <2>1. fd \in Fd /\ f = ofile[p][fd]
    BY <1>1, Zenon DEF argfd
  <2>2. f \in File /\ ftable[f] \in Entry /\ ftable[f].ref >= 1
    BY <1>1, <2>1, UsedEntry, SetsFinite, Zenon
  <2> HIDE DEF f
  <2> QED
    BY <2>2 DEF Entry
<1>3. CASE pipes' = pipes
  BY <1>1, <1>3, Same, Zenon
<1>4. CASE pipes' # pipes
  <2> DEFINE x == ftable[f].pipe
             n == Written(f, data)
             d == pipes[x].data \o Upto(n, data)
  <2>1. ftable[f].type = "FD_PIPE" /\ pipes' = [pipes EXCEPT ![x].data = d]
    BY <1>4, Zenon DEF sys_write, filewrite
  <2>2. d \in Seq(STRING)
    <3>1. x \in PipeId
      BY <1>2, <2>1, Zenon DEF IInv, Named
    <3>2. pipes[x].data \in Seq(STRING) /\ Len(pipes[x].data) \in Nat
      BY <3>1 DEF IInv, TypeOK, Pipe
    <3>3. n \in 0..Len(data)
      <4>1. Room(pipes[x]) \in Int
        BY <3>2, FilesAssumption DEF Room
      <4>2. Len(data) \in Nat
        OBVIOUS
      <4> QED
        BY <4>1, <4>2 DEF Written
    <3> HIDE DEF n, x
    <3>4. Upto(n, data) \in Seq(STRING)
      BY <3>3 DEF Upto
    <3> QED
      BY <3>2, <3>4
  <2> HIDE DEF f, d
  <2> QED
    BY <1>1, <1>2, <2>1, <2>2, DataStep, Zenon
<1> QED
  BY <1>3, <1>4, Zenon

LEMMA ForkStep ==
    ASSUME IInv, NEW p \in Proc, NEW c, sys_fork(p, c)
    PROVE  IInv'
<1> DEFINE free == {q \in Proc : ptable[q].state = "UNUSED"}
           N(f) == Held(ofile, p, f)
<1>1. CASE free = {}
  BY <1>1, Stutter, Zenon DEF sys_fork
<1>2. CASE free # {}
  <2>1. /\ c \in Proc /\ ptable[c].state = "UNUSED"
        /\ ofile' = [ofile EXCEPT ![c] = ofile[p]]
        /\ Running(p)
        /\ ftable' = [f \in File |-> [ftable[f] EXCEPT !.ref = @ + Cardinality({fd \in Fd : ofile[p][fd] = f})]]
        /\ ptable' = [ptable EXCEPT ![c] = [state |-> "RUN", parent |-> p, closing |-> NoEnd]]
        /\ pipes' = pipes
    BY <1>2, Zenon DEF sys_fork, IsFirst
  <2>2. ofile[c] = NoFiles /\ ptable[c].closing = NoEnd
    BY <2>1, Zenon DEF IInv, Dormant
  <2>3. /\ ofile \in Ofile /\ ofile' \in Ofile
        /\ \A q \in Proc : ofile'[q] = IF q = c THEN ofile[p] ELSE ofile[q]
    BY <2>1, Zenon DEF IInv, TypeOK, Ofile
  <2>3a. Copies(ofile', ofile, p, c)
    BY <2>2, <2>3, Zenon DEF Copies
  <2>4. ASSUME NEW f \in File
        PROVE  /\ N(f) \in Nat
               /\ Cardinality(UsersIn(ofile', f)) = Cardinality(UsersIn(ofile, f)) + N(f)
               /\ N(f) > 0 => Cardinality(UsersIn(ofile, f)) > 0
    BY <2>1, <2>3, <2>3a, ForkedUsers, Zenon
  <2>5. \A f \in File : ftable'[f] = [ftable[f] EXCEPT !.ref = @ + N(f)]
    <3>1. ASSUME NEW f \in File PROVE {fd \in Fd : ofile[p][fd] = f} = {l \in Slot : ofile[p][l] = f}
      BY <2>1, SetsFinite, Zenon DEF Running, Slot, None
    <3> QED
      BY <2>1, <3>1, Zenon DEF Held
  <2> HIDE DEF N
  <2>6. ASSUME NEW f \in File
        PROVE  /\ ftable[f] \in Entry /\ ftable[f].ref \in Nat
               /\ ftable[f].ref = Cardinality(UsersIn(ofile, f))
               /\ ftable[f].ref = 0 => ftable[f].type = "FD_NONE"
               /\ ftable[f].type = "FD_NONE" => \A q \in Proc, fd \in Fd : ofile[q][fd] # f
    BY Counted, Zenon DEF IInv, TypeOK
  <2>7. ASSUME NEW f \in File
        PROVE  /\ ftable'[f] \in Entry
               /\ ftable'[f].ref = ftable[f].ref + N(f)
               /\ ftable'[f].type = ftable[f].type /\ ftable'[f].pipe = ftable[f].pipe
               /\ ftable'[f].writable = ftable[f].writable
    <3> DEFINE a == ftable[f]
               n == ftable[f].ref + N(f)
    <3>1. a \in Entry /\ n \in Nat /\ ftable'[f] = [a EXCEPT !.ref = n]
      BY <2>4, <2>5, <2>6
    <3> HIDE DEF a, n
    <3>2. /\ ftable'[f] \in Entry /\ ftable'[f].ref = n
          /\ ftable'[f].type = a.type /\ ftable'[f].pipe = a.pipe
          /\ ftable'[f].writable = a.writable
      BY <3>1, Zenon DEF Entry
    <3> QED
      BY <3>2, Zenon DEF a, n
  <2>8. ftable' \in [File -> Entry]
    <3>1. DOMAIN ftable' = File /\ ftable' = [f \in File |-> ftable'[f]]
      BY <2>1, Zenon
    <3> QED
      BY <3>1, <2>7, Zenon
  <2>9. ASSUME NEW f \in File PROVE ftable'[f].ref = 0 <=> ftable[f].ref = 0
    BY <2>4, <2>6, <2>7
  <2>10. FileRefsExact'
    <3> SUFFICES ASSUME NEW f \in File
                 PROVE  /\ ftable'[f].ref = Cardinality(UsersIn(ofile', f))
                        /\ ftable'[f].ref = 0 => ftable'[f].type = "FD_NONE"
                        /\ ftable'[f].type = "FD_NONE" => \A q \in Proc, fd \in Fd : ofile'[q][fd] # f
      BY Zenon DEF FileRefsExact, Users, UsersIn
    <3>1. ftable'[f].ref = Cardinality(UsersIn(ofile', f))
      <4>1. ftable[f].ref = Cardinality(UsersIn(ofile, f)) /\ ftable'[f].ref = ftable[f].ref + N(f)
        BY <2>6, <2>7, Zenon
      <4>2. Cardinality(UsersIn(ofile', f)) = Cardinality(UsersIn(ofile, f)) + N(f)
        BY <2>4, Zenon
      <4> QED
        BY <4>1, <4>2, Zenon
    <3>2. ftable'[f].ref = 0 => ftable'[f].type = "FD_NONE"
      BY <2>6, <2>7, <2>9, Zenon
    <3>3. ftable'[f].type = "FD_NONE" => \A q \in Proc, fd \in Fd : ofile'[q][fd] # f
      <4> SUFFICES ASSUME ftable'[f].type = "FD_NONE", NEW q \in Proc, NEW fd \in Fd PROVE ofile'[q][fd] # f
        OBVIOUS
      <4>1. ftable[f].type = "FD_NONE"
        BY <2>7, Zenon
      <4>2. ofile[q][fd] # f /\ ofile[p][fd] # f
        BY <4>1, <2>6, Zenon
      <4> QED
        BY <4>2, <2>3, Zenon
    <3> QED
      BY <3>1, <3>2, <3>3, Zenon
  <2>11. /\ ptable' \in [Proc -> Process] /\ ptable'[c].closing = NoEnd /\ ptable'[c].state = "RUN"
         /\ \A q \in Proc : q # c => ptable'[q] = ptable[q]
    BY <2>1, Zenon DEF IInv, TypeOK, Process, PipeEnd
  <2>12. TypeOK' /\ Freed'
    BY <2>1, <2>3, <2>8, <2>11, Zenon DEF IInv, TypeOK, Freed
  <2>13. Dormant'
    BY <2>3, <2>11, Zenon DEF IInv, Dormant
  <2>14. Named'
    BY <2>7, Zenon DEF IInv, Named
  <2>15. PipeEndsExact'
    <3>1. ASSUME NEW f \in File, NEW x \in PipeId, NEW w \in BOOLEAN
          PROVE  IsEnd(ftable'[f], x, w) <=> IsEnd(ftable[f], x, w)
      <4>1. ftable'[f].ref > 0 <=> ftable[f].ref > 0
        BY <2>4, <2>6, <2>7, <2>9
      <4> QED
        BY <4>1, <2>7, Zenon DEF IsEnd
    <3>2. \A q \in Proc : ptable'[q].closing = ptable[q].closing
      BY <2>1, <2>2, <2>11, Zenon
    <3>3. \A x \in PipeId, w \in BOOLEAN : IsOpen(x, w)' = IsOpen(x, w)
      BY <2>1, Zenon DEF IsOpen
    <3> QED
      BY <3>1, <3>2, <3>3, SameEnds, Zenon DEF IInv
  <2> QED
    BY <2>10, <2>12, <2>13, <2>14, <2>15, Zenon DEF IInv
<1> QED
  BY <1>1, <1>2, Zenon

LEMMA ExitStep ==
    ASSUME IInv, NEW p \in Proc, sys_exit(p)
    PROVE  IInv'
<1> DEFINE fds == {fd \in Fd : ofile[p][fd] # None}
<1>1. CASE fds # {}
  <2>1. PICK fd \in fds : sys_close(p, fd)
    BY <1>1, Zenon DEF sys_exit
  <2> QED
    BY <2>1, CloseStep, Zenon
<1>2. CASE fds = {}
  <2>1. /\ Running(p)
        /\ ptable' = [q \in Proc |-> IF q = p THEN [ptable[q] EXCEPT !.state = "ZOMBIE"]
                                     ELSE IF ptable[q].parent = p THEN [ptable[q] EXCEPT !.parent = initproc]
                                     ELSE ptable[q]]
        /\ ftable' = ftable /\ ofile' = ofile /\ pipes' = pipes
    BY <1>2, Zenon DEF sys_exit, files
  <2>2. ofile[p] = NoFiles
    <3>1. ofile[p] \in [Slot -> File \cup {None}] /\ \A l \in Slot : ofile[p][l] = None
      BY <1>2, <2>1, Zenon DEF IInv, TypeOK, Ofile, Running, Slot
    <3> QED
      BY <3>1, Zenon DEF NoFiles
  <2>3. ASSUME NEW q \in Proc
        PROVE  /\ ptable'[q] \in Process /\ ptable'[q].closing = ptable[q].closing
               /\ q # p => ptable'[q].state = ptable[q].state
    <3> DEFINE a == ptable[q]
    <3>1. a \in Process
      BY Zenon DEF IInv, TypeOK
    <3>2. ptable'[q] \in {[a EXCEPT !.state = "ZOMBIE"], [a EXCEPT !.parent = initproc], a}
      BY <2>1, Zenon
    <3>3. q # p => ptable'[q] \in {[a EXCEPT !.parent = initproc], a}
      BY <2>1, Zenon
    <3> HIDE DEF a
    <3>4. ptable'[q] \in Process /\ ptable'[q].closing = a.closing
      BY <3>1, <3>2, SetsFinite, Zenon DEF Process
    <3>5. q # p => ptable'[q].state = a.state
      BY <3>1, <3>3, Zenon DEF Process
    <3> QED
      BY <3>4, <3>5, Zenon DEF a
  <2>4. ptable' \in [Proc -> Process]
    <3>1. ptable' = [q \in Proc |-> ptable'[q]]
      BY <2>1, Zenon
    <3> QED
      BY <3>1, <2>3, Zenon
  <2>5. Dormant'
    <3> SUFFICES ASSUME NEW q \in Proc, ptable'[q].state # "RUN"
                 PROVE  ofile'[q] = NoFiles /\ ptable'[q].closing = NoEnd
      BY Zenon DEF Dormant
    <3>1. CASE q = p
      BY <3>1, <2>1, <2>2, <2>3, Zenon DEF Running
    <3>2. CASE q # p
      BY <3>2, <2>1, <2>3, Zenon DEF IInv, Dormant
    <3> QED
      BY <3>1, <3>2, Zenon
  <2>6. \A x \in PipeId, w \in BOOLEAN : IsOpen(x, w)' = IsOpen(x, w)
    BY <2>1, Zenon DEF IsOpen
  <2>7. PipeEndsExact'
    BY <2>1, <2>3, <2>6, SameEnds, Zenon DEF IInv
  <2>8. TypeOK' /\ Named' /\ Freed' /\ FileRefsExact'
    BY <2>1, <2>4, SameRefs, Zenon DEF IInv, TypeOK, Named, Freed
  <2> QED
    BY <2>5, <2>7, <2>8, Zenon DEF IInv
<1> QED
  BY <1>1, <1>2, Zenon

LEMMA WaitStep ==
    ASSUME IInv, NEW p \in Proc, NEW c, sys_wait(p, c)
    PROVE  IInv'
<1>1. UNCHANGED files
  BY Zenon DEF sys_wait
<1>2. CASE ptable' = ptable
  BY <1>1, <1>2, Stutter, Zenon DEF files, kernel
<1>3. CASE ptable' # ptable
  <2>1. /\ c \in Proc /\ ptable[c].state = "ZOMBIE" /\ ptable' = [ptable EXCEPT ![c] = UnusedProc]
        /\ ftable' = ftable /\ ofile' = ofile /\ pipes' = pipes
    BY <1>1, <1>3, Zenon DEF sys_wait, IsFirst, files
  <2>2. ofile[c] = NoFiles /\ ptable[c].closing = NoEnd
    BY <2>1, Zenon DEF IInv, Dormant
  <2>3. /\ ptable' \in [Proc -> Process] /\ ptable'[c].closing = NoEnd
        /\ \A q \in Proc : q # c => ptable'[q] = ptable[q]
    BY <2>1, Zenon DEF IInv, TypeOK, Process, UnusedProc, PipeEnd
  <2>4. Dormant'
    BY <2>1, <2>2, <2>3, Zenon DEF IInv, Dormant
  <2>5. \A x \in PipeId, w \in BOOLEAN : IsOpen(x, w)' = IsOpen(x, w)
    BY <2>1, Zenon DEF IsOpen
  <2>6. \A q \in Proc : ptable'[q].closing = ptable[q].closing
    BY <2>1, <2>2, <2>3, Zenon
  <2>7. PipeEndsExact'
    BY <2>1, <2>5, <2>6, SameEnds, Zenon DEF IInv
  <2>8. TypeOK' /\ Named' /\ Freed' /\ FileRefsExact'
    BY <2>1, <2>3, SameRefs, Zenon DEF IInv, TypeOK, Named, Freed
  <2> QED
    BY <2>4, <2>7, <2>8, Zenon DEF IInv
<1> QED
  BY <1>2, <1>3, Zenon

-------------------------------------------------------------------------------
(* The theorems                                                            *)

LEMMA InitIInv == FilesInit => IInv
<1> SUFFICES ASSUME FilesInit PROVE IInv
  OBVIOUS
<1>1. \A f \in File : ftable[f] = FreeFile /\ FreeFile \in Entry
  BY Zenon DEF FilesInit, FreeFile, Entry
<1>2. ofile \in Ofile /\ \A p \in Proc : ofile[p] = NoFiles
  BY Zenon DEF FilesInit, Ofile, NoFiles
<1>3. \A x \in PipeId : pipes[x] = FreePipe /\ FreePipe \in Pipe
  BY DEF FilesInit, FreePipe, Pipe
<1>4. \A p \in Proc : ptable[p] \in Process /\ ptable[p].closing = NoEnd
  BY Zenon DEF FilesInit, Process, UnusedProc, PipeEnd
<1>5. TypeOK
  BY <1>1, <1>2, <1>3, <1>4, Zenon DEF TypeOK, FilesInit
<1>6. Dormant /\ Freed
  BY <1>2, <1>3, <1>4, Zenon DEF Dormant, Freed
<1>7. Named
  BY <1>1 DEF Named, FreeFile
<1>8. FileRefsExact
  <2> SUFFICES ASSUME NEW f \in File
               PROVE  /\ ftable[f].ref = Cardinality(Users(f))
                      /\ ftable[f].ref = 0 => ftable[f].type = "FD_NONE"
                      /\ ftable[f].type = "FD_NONE" => \A p \in Proc, fd \in Fd : ofile[p][fd] # f
    BY Zenon DEF FileRefsExact
  <2>1. Users(f) = {}
    BY <1>2, SetsFinite DEF Users, NoFiles, None
  <2>2. ftable[f].ref = 0 /\ ftable[f].type = "FD_NONE"
    BY <1>1 DEF FreeFile
  <2>3. \A p \in Proc, fd \in Fd : ofile[p][fd] # f
    BY <1>2, SetsFinite DEF NoFiles, None
  <2> QED
    BY <2>1, <2>2, <2>3, FS_EmptySet, Zenon
<1>9. PipeEndsExact
  <2> SUFFICES ASSUME NEW x \in PipeId, NEW w \in BOOLEAN
               PROVE  Ends(x, w) = {} /\ Closing(x, w) = {} /\ ~IsOpen(x, w)
    BY FS_EmptySet DEF PipeEndsExact
  <2>1. Ends(x, w) = {}
    BY <1>1 DEF Ends, FreeFile
  <2>2. Closing(x, w) = {}
    BY <1>4, SetsFinite DEF Closing, NoEnd, None
  <2>3. ~IsOpen(x, w)
    BY <1>3 DEF IsOpen, FreePipe
  <2> QED
    BY <2>1, <2>2, <2>3, Zenon
<1> QED
  BY <1>5, <1>6, <1>7, <1>8, <1>9, Zenon DEF IInv

LEMMA NextIInv == IInv /\ [FilesNext]_kernel => IInv'
<1> SUFFICES ASSUME IInv, [FilesNext]_kernel PROVE IInv'
  OBVIOUS
<1>1. CASE UNCHANGED kernel
  BY <1>1, Stutter, Zenon
<1>2. ASSUME NEW p \in Proc, NEW fd \in Fd, sys_close(p, fd) PROVE IInv'
  BY <1>2, CloseStep, Zenon
<1>3. ASSUME NEW p \in Proc, NEW fd \in Fd, sys_read(p, fd) PROVE IInv'
  BY <1>3, ReadStep, Zenon
<1>4. ASSUME NEW p \in Proc, NEW fd \in Fd, NEW r, sys_dup(p, fd, r) PROVE IInv'
  BY <1>4, DupStep, Zenon
<1>5. ASSUME NEW p \in Proc, NEW fd \in Fd, NEW data \in Seq(STRING), sys_write(p, fd, data) PROVE IInv'
  BY <1>5, WriteStep, Zenon
<1>6. ASSUME NEW p \in Proc, NEW name \in STRING, NEW create \in BOOLEAN, NEW rd \in BOOLEAN, NEW wr \in BOOLEAN,
             NEW r, sys_open(p, name, create, rd, wr, r)
      PROVE  IInv'
  BY <1>6, OpenStep, Zenon
<1>7. ASSUME NEW p \in Proc, NEW r, sys_pipe(p, r) PROVE IInv'
  BY <1>7, PipeStep, Zenon
<1>8. ASSUME NEW p \in Proc, NEW c, sys_fork(p, c) PROVE IInv'
  BY <1>8, ForkStep, Zenon
<1>9. ASSUME NEW p \in Proc, NEW c, sys_wait(p, c) PROVE IInv'
  BY <1>9, WaitStep, Zenon
<1>10. ASSUME NEW p \in Proc, sys_exit(p) PROVE IInv'
  BY <1>10, ExitStep, Zenon
<1>11. ASSUME NEW p \in Proc, pipeclose(p) PROVE IInv'
  BY <1>11, PipecloseStep, Zenon
<1>12. ASSUME NEW p \in Proc, giveback(p) PROVE IInv'
  BY <1>12, GivebackStep, Zenon
<1> QED
  BY <1>1, <1>2, <1>3, <1>4, <1>5, <1>6, <1>7, <1>8, <1>9, <1>10, <1>11, <1>12, Zenon DEF FilesNext

\* IInv is an invariant of the calls on descriptors, in any order and by any processes.
THEOREM Invariance == FilesSpec => []IInv
BY InitIInv, NextIInv, PTL DEF FilesSpec

\* The reference count of every entry of the file table is the number of descriptors that name it and of failing
\* calls that hold it, whatever the processes do (filedup(), fileclose(), fork(), exit() and the failures of
\* sys_open(), pipealloc() and sys_pipe(), which give back what they took one fileclose() at a time).
THEOREM CountsExact == FilesSpec => []FileRefsExact
<1>1. IInv => FileRefsExact
  BY Zenon DEF IInv
<1> QED
  BY <1>1, Invariance, PTL

\* The end of a pipe is open as long as one entry stands for it or one fileclose() has still to call
\* pipeclose(): the lock that fileclose() gives up before the call loses no end and closes none twice.
THEOREM EndsExact == FilesSpec => []PipeEndsExact
<1>1. IInv => PipeEndsExact
  BY Zenon DEF IInv
<1> QED
  BY <1>1, Invariance, PTL
===============================================================================
