------------------------------ MODULE PipeProofs ------------------------------
(***************************************************************************)
(* For any number of readers and writers, any PIPESIZE and any word size   *)
(* that is a multiple of it: a pipe is a queue of bytes, and nobody sleeps *)
(* on one without a reason.  The counters are compared modulo UintMod and  *)
(* the buffer is indexed modulo PIPESIZE, so the proof starts with what    *)
(* remainders do.                                                          *)
(***************************************************************************)
EXTENDS Pipe, Sequences, Integers, TLAPS

-------------------------------------------------------------------------------
(* Remainders                                                              *)

\* Division with remainder of unsigned integers.
LEMMA DivMod ==
    ASSUME NEW n \in Nat \ {0}, NEW a \in Nat
    PROVE  a = n * (a \div n) + (a % n) /\ a \div n \in Nat /\ a % n \in 0..n - 1
OBVIOUS

\* The remainder is unique.
LEMMA ModUnique ==
    ASSUME NEW n \in Nat \ {0}, NEW q \in Int, NEW r \in 0..n - 1
    PROVE  (n * q + r) % n = r
OBVIOUS

\* An unsigned counter that has gone round at most once.
LEMMA ModOnce ==
    ASSUME NEW n \in Nat \ {0}, NEW a \in 0..2 * n - 1
    PROVE  a % n = IF a < n THEN a ELSE a - n
OBVIOUS

\* A counter that wraps around at a multiple of the size of the buffer points to
\* the same place of the buffer as one that does not.
LEMMA ModMultiple ==
    ASSUME NEW n \in Nat \ {0}, NEW u \in Nat, u % n = 0, NEW a \in Nat, a >= u
    PROVE  (a - u) % n = a % n
<1> DEFINE k == u \div n
           q == a \div n
           r == a % n
<1>1. u = n * k /\ k \in Nat
  <2>1. u = n * (u \div n) + (u % n) /\ u \div n \in Nat
    BY DivMod
  <2> QED
    BY <2>1
<1>2. a = n * q + r /\ q \in Nat /\ r \in 0..n - 1
  BY DivMod
<1> HIDE DEF k, q, r
<1>3. a - u = n * (q - k) + r /\ q - k \in Int
  BY <1>1, <1>2
<1>4. (n * (q - k) + r) % n = r
  BY <1>2, <1>3, ModUnique
<1> QED
  BY <1>3, <1>4 DEF r

\* Bytes less than the size of the buffer apart are in different places of it.
LEMMA ModDistinct ==
    ASSUME NEW n \in Nat \ {0}, NEW a \in Nat, NEW i \in 1..n - 1
    PROVE  (a + i) % n # a % n
<1> DEFINE q == a \div n
           r == a % n
<1>1. a = n * q + r /\ q \in Nat /\ r \in 0..n - 1
  BY DivMod
<1> HIDE DEF q, r
<1>2. CASE r + i < n
  <2>1. (n * q + (r + i)) % n = r + i
    BY <1>1, <1>2, ModUnique
  <2>2. n * q + (r + i) = a + i
    BY <1>1
  <2> QED
    BY <2>1, <2>2, <1>1 DEF r
<1>3. CASE r + i >= n
  <2>1. r + i - n \in 0..n - 1 /\ q + 1 \in Int
    BY <1>1, <1>3
  <2>2. (n * (q + 1) + (r + i - n)) % n = r + i - n
    BY <2>1, ModUnique
  <2>3. n * (q + 1) + (r + i - n) = a + i
    BY <1>1
  <2> QED
    BY <2>2, <2>3, <1>1 DEF r
<1> QED
  BY <1>1, <1>2, <1>3

-------------------------------------------------------------------------------
(* The counters of a pipe                                                  *)

Counters == nread \in 0..UintMod - 1 /\ nwrite \in 0..UintMod - 1

\* How many bytes there are, whichever of the counters has wrapped around.
LEMMA Difference ==
    ASSUME NEW r \in 0..UintMod - 1, NEW w \in 0..UintMod - 1
    PROVE  (w + UintMod - r) % UintMod = IF w >= r THEN w - r ELSE w + UintMod - r
<1> DEFINE a == w + UintMod - r
<1>1. UintMod \in Nat \ {0} /\ a \in 0..2 * UintMod - 1
  BY SizeAssumption
<1> HIDE DEF a
<1>2. a % UintMod = IF a < UintMod THEN a ELSE a - UintMod
  BY <1>1, ModOnce, Zenon
<1> QED
  BY <1>1, <1>2 DEF a

LEMMA CountIs ==
    ASSUME Counters
    PROVE  /\ Count = IF nwrite >= nread THEN nwrite - nread ELSE nwrite + UintMod - nread
           /\ Count \in 0..UintMod - 1
<1>1. Count = IF nwrite >= nread THEN nwrite - nread ELSE nwrite + UintMod - nread
  BY Difference DEF Counters, Count
<1> QED
  BY <1>1, SizeAssumption DEF Counters

\* The tests of pipewrite() and piperead() are right about the number of bytes.
LEMMA TestsAreExact ==
    ASSUME Counters
    PROVE  (Full <=> Count = PIPESIZE) /\ (Empty <=> Count = 0)
<1> DEFINE a == nread + PIPESIZE
<1>1. UintMod \in Nat \ {0} /\ a \in 0..2 * UintMod - 1 /\ (Full <=> nwrite = a % UintMod)
  BY SizeAssumption DEF Counters, Full
<1> HIDE DEF a
<1>2. a % UintMod = IF a < UintMod THEN a ELSE a - UintMod
  BY <1>1, ModOnce, Zenon
<1> QED
  BY <1>1, <1>2, CountIs, SizeAssumption DEF Counters, Empty, a

\* p->nread++ and p->nwrite++.
LEMMA IncIs ==
    ASSUME NEW n \in 0..UintMod - 1
    PROVE  Inc(n) = (IF n + 1 = UintMod THEN 0 ELSE n + 1) /\ Inc(n) \in 0..UintMod - 1
<1> DEFINE a == n + 1
<1>1. UintMod \in Nat \ {0} /\ a \in 0..2 * UintMod - 1 /\ Inc(n) = a % UintMod
  BY SizeAssumption DEF Inc
<1> HIDE DEF a
<1>2. a % UintMod = IF a < UintMod THEN a ELSE a - UintMod
  BY <1>1, ModOnce, Zenon
<1> QED
  BY <1>1, <1>2 DEF a

\* The place of a byte, as if the counters did not wrap around.
LEMMA PlaceIs ==
    ASSUME NEW n \in 0..UintMod - 1, NEW i \in Nat
    PROVE  (Inc(n) + i) % PIPESIZE = (n + 1 + i) % PIPESIZE
<1> DEFINE a == n + 1 + i
<1>1. PIPESIZE \in Nat \ {0} /\ UintMod \in Nat /\ UintMod % PIPESIZE = 0 /\ a \in Nat
  BY SizeAssumption
<1>2. CASE n + 1 = UintMod
  <2>1. a >= UintMod /\ a - UintMod = Inc(n) + i
    BY <1>1, <1>2, IncIs
  <2> HIDE DEF a
  <2>2. (a - UintMod) % PIPESIZE = a % PIPESIZE
    BY <1>1, <2>1, ModMultiple, Zenon
  <2> QED
    BY <2>1, <2>2, Zenon DEF a
<1>3. CASE n + 1 # UintMod
  BY <1>3, IncIs
<1> QED
  BY <1>2, <1>3

\* The place that pipewrite() writes to is the one after the last byte.
LEMMA WritePlace ==
    ASSUME Counters
    PROVE  nwrite % PIPESIZE = (nread + Count) % PIPESIZE
<1> DEFINE a == nread + Count
<1>1. PIPESIZE \in Nat \ {0} /\ UintMod \in Nat /\ UintMod % PIPESIZE = 0 /\ a \in Nat
  BY SizeAssumption, CountIs DEF Counters
<1>2. CASE nwrite >= nread
  <2>1. a = nwrite
    BY <1>2, CountIs DEF Counters
  <2> QED
    BY <2>1
<1>3. CASE nwrite < nread
  <2>1. a >= UintMod /\ a - UintMod = nwrite
    BY <1>1, <1>3, CountIs DEF Counters
  <2> HIDE DEF a
  <2>2. (a - UintMod) % PIPESIZE = a % PIPESIZE
    BY <1>1, <2>1, ModMultiple, Zenon
  <2> QED
    BY <2>1, <2>2, Zenon DEF a
<1> QED
  BY <1>2, <1>3 DEF Counters

-------------------------------------------------------------------------------
(* The inductive invariant                                                 *)

\* p->lock belongs to the process that is inside, and each end has its places.
Inside ==
    \A p \in Process :
        /\ lock = p <=> pc[p] \in {"read", "copy", "write"}
        /\ p \in Reader => pc[p] # "write"
        /\ p \in Writer => pc[p] \notin {"read", "copy"}

\* An end is shut when all who had it have closed it.
Shut ==
    /\ ~readopen => \A p \in Reader : pc[p] = "closed"
    /\ ~writeopen => \A p \in Writer : pc[p] = "closed"

\* The pipe is as a sleeper found it, or the process inside will wake the sleeper.
Asleep ==
    /\ \A p \in Reader :
          pc[p] = "asleep" => writeopen /\ (Empty \/ \E q \in Writer : pc[q] = "write")
    /\ \A p \in Writer :
          pc[p] = "asleep" => readopen /\ (Full \/ \E q \in Reader : pc[q] = "copy")

\* The pipe holds no more bytes than it has room for.
Fits == Count <= PIPESIZE

IInv == TypeOK /\ Fits /\ Inside /\ Shut /\ Asleep

\* The counters of a pipe in the invariant.
LEMMA CountersOK == IInv => Counters /\ Count \in Nat
BY CountIs, SizeAssumption DEF IInv, TypeOK, Counters

\* A pipe is not full and empty at once.
LEMMA NotBoth == IInv => ~(Full /\ Empty)
BY CountersOK, TestsAreExact, SizeAssumption

\* The bytes in the pipe are a sequence.
LEMMA ContentsType == TypeOK /\ Count \in Nat => Contents \in [1..Count -> Byte]
<1> SUFFICES ASSUME TypeOK, Count \in Nat, NEW i \in 1..Count
             PROVE  data[(nread + i - 1) % PIPESIZE] \in Byte
  BY DEF Contents
<1> DEFINE a == nread + i - 1
<1>1. a \in Nat /\ PIPESIZE \in Nat \ {0}
  BY SizeAssumption DEF TypeOK
<1> HIDE DEF a
<1>2. a % PIPESIZE \in 0..PIPESIZE - 1
  BY <1>1, DivMod
<1> QED
  BY <1>2 DEF TypeOK, a

LEMMA ContentsTypeNext == (TypeOK /\ Count \in Nat => Contents \in [1..Count -> Byte])'
BY ContentsType, PTL

\* Adding a last element to a sequence, and dropping the first.
LEMMA AppendIs ==
    ASSUME NEW S, NEW n \in Nat, NEW s \in [1..n -> S], NEW t \in [1..n + 1 -> S],
           \A i \in 1..n : t[i] = s[i]
    PROVE  t = Append(s, t[n + 1])
OBVIOUS

LEMMA TailIs ==
    ASSUME NEW S, NEW n \in Nat \ {0}, NEW s \in [1..n -> S], NEW t \in [1..n - 1 -> S],
           \A i \in 1..n - 1 : t[i] = s[i + 1]
    PROVE  s # <<>> /\ t = Tail(s)
OBVIOUS

\* The state that pipealloc() leaves.
LEMMA InitIInv == Init => IInv /\ Contents = <<>>
<1> SUFFICES ASSUME Init PROVE IInv /\ Contents = <<>>
  OBVIOUS
<1>1. Counters /\ nread = nwrite
  BY SizeAssumption DEF Init, Counters
<1>2. TypeOK
  BY SizeAssumption DEF Init, TypeOK
<1>3. Count = 0
  BY <1>1, CountIs DEF Counters
<1>4. Fits
  BY <1>3, SizeAssumption DEF Fits
<1>5. Inside /\ Shut /\ Asleep
  BY EndsAssumption DEF Init, Inside, Shut, Asleep, Process
<1>6. Contents = <<>>
  BY <1>3 DEF Contents
<1> QED
  BY <1>2, <1>4, <1>5, <1>6 DEF IInv

-------------------------------------------------------------------------------
(* Bytes go in and come out                                                *)

\* pipewrite() appends a byte.
LEMMA PutStep ==
    ASSUME IInv, NEW p \in Process, NEW b \in Byte, write_byte(p, b)
    PROVE  /\ TypeOK' /\ Fits'
           /\ Count < PIPESIZE /\ Contents' = Append(Contents, b) /\ addr' = addr
<1>1. Counters /\ Count \in Nat /\ Count <= PIPESIZE /\ PIPESIZE \in Nat \ {0}
  BY CountersOK, SizeAssumption DEF IInv, Fits
<1>2. Count < PIPESIZE
  BY <1>1, TestsAreExact DEF write_byte
<1>3. nread' = nread /\ nwrite' = Inc(nwrite) /\ data' = [data EXCEPT ![nwrite % PIPESIZE] = b]
  BY DEF write_byte
<1>4. /\ Inc(nwrite) = (IF nwrite + 1 = UintMod THEN 0 ELSE nwrite + 1)
      /\ Inc(nwrite) \in 0..UintMod - 1
  BY <1>1, IncIs DEF Counters
<1>5. Counters'
  BY <1>1, <1>3, <1>4 DEF Counters
<1>6. Count' = Count + 1
  <2>1. Count' = IF nwrite' >= nread' THEN nwrite' - nread' ELSE nwrite' + UintMod - nread'
    BY <1>5, Difference DEF Counters, Count
  <2> QED
    BY <2>1, <1>1, <1>2, <1>3, <1>4, CountIs, SizeAssumption DEF Counters
<1>11. TypeOK'
  <2>1. left' \in [Process -> 0..MaxCount]
    BY SizeAssumption DEF IInv, TypeOK, write_byte
  <2>2. data' \in [0..PIPESIZE - 1 -> Byte]
    BY <1>3 DEF IInv, TypeOK
  <2> QED
    BY <2>1, <2>2, <1>5 DEF IInv, TypeOK, write_byte, Counters
<1>7. ASSUME NEW i \in 1..Count
      PROVE  Contents'[i] = Contents[i]
  <2> DEFINE a == nread + i - 1
             d == Count - (i - 1)
  <2>1. a \in Nat /\ d \in 1..PIPESIZE
    BY <1>1, <1>2 DEF Counters
  <2>2. a + d = nread + Count
    BY <1>1 DEF Counters
  <2>3. d \in 1..PIPESIZE - 1
    BY <1>1, <1>2
  <2> HIDE DEF a, d
  <2>4. (a + d) % PIPESIZE # a % PIPESIZE
    BY <1>1, <2>1, <2>3, ModDistinct, Zenon
  <2>5. a % PIPESIZE # nwrite % PIPESIZE
    BY <2>4, <2>2, <1>1, WritePlace
  <2>6. data'[a % PIPESIZE] = data[a % PIPESIZE]
    BY <2>5, <1>3 DEF IInv, TypeOK
  <2> QED
    BY <2>6, <1>1, <1>3, <1>6 DEF Contents, a
<1>8. Contents'[Count + 1] = b
  <2> DEFINE a == nread + Count
  <2>1. nwrite % PIPESIZE = a % PIPESIZE
    BY <1>1, WritePlace
  <2>2. nwrite % PIPESIZE \in 0..PIPESIZE - 1
    BY <1>1, DivMod DEF Counters
  <2>3. data'[a % PIPESIZE] = b
    BY <2>1, <2>2, <1>3 DEF IInv, TypeOK
  <2>4. a = nread + (Count + 1) - 1 /\ Count + 1 \in 1..Count + 1
    BY <1>1 DEF Counters
  <2> HIDE DEF a
  <2> QED
    BY <2>3, <2>4, <1>3, <1>6 DEF Contents
<1>9. Contents' = Append(Contents, b)
  <2>1. Contents \in [1..Count -> Byte] /\ Count \in Nat
    BY <1>1, ContentsType DEF IInv
  <2>2. Contents' \in [1..Count + 1 -> Byte]
    BY <1>1, <1>6, <1>11, ContentsTypeNext
  <2>3. Contents' = Append(Contents, Contents'[Count + 1])
    BY <1>7, <2>1, <2>2, AppendIs, Zenon
  <2> QED
    BY <1>8, <2>3
<1>10. Fits'
  BY <1>1, <1>2, <1>6 DEF Fits
<1> QED
  BY <1>2, <1>11, <1>9, <1>10 DEF write_byte

\* piperead() takes the first byte and gives it to its caller.
LEMMA GetStep ==
    ASSUME IInv, NEW p \in Process, read_byte(p)
    PROVE  /\ TypeOK' /\ Fits' /\ p \in Reader
           /\ Contents # <<>> /\ Contents' = Tail(Contents)
           /\ addr' = [addr EXCEPT ![p] = Head(Contents)]
<1>1. Counters /\ Count \in Nat /\ Count <= PIPESIZE /\ PIPESIZE \in Nat \ {0}
  BY CountersOK, SizeAssumption DEF IInv, Fits
<1>2. Count > 0
  BY <1>1, TestsAreExact DEF read_byte
<1>3. nwrite' = nwrite /\ nread' = Inc(nread) /\ data' = data
  BY DEF read_byte
<1>4. /\ Inc(nread) = (IF nread + 1 = UintMod THEN 0 ELSE nread + 1)
      /\ Inc(nread) \in 0..UintMod - 1
  BY <1>1, IncIs DEF Counters
<1>5. Counters'
  BY <1>1, <1>3, <1>4 DEF Counters
<1>6. Count' = Count - 1
  <2>1. Count' = IF nwrite' >= nread' THEN nwrite' - nread' ELSE nwrite' + UintMod - nread'
    BY <1>5, Difference DEF Counters, Count
  <2> QED
    BY <2>1, <1>1, <1>2, <1>3, <1>4, CountIs, SizeAssumption DEF Counters
<1>7. ASSUME NEW i \in 1..Count - 1
      PROVE  Contents'[i] = Contents[i + 1]
  <2> DEFINE j == i - 1
  <2>1. j \in Nat /\ nread \in 0..UintMod - 1
    BY <1>1 DEF Counters
  <2>2. (Inc(nread) + j) % PIPESIZE = (nread + 1 + j) % PIPESIZE
    BY <2>1, PlaceIs
  <2>3. Inc(nread) + j = nread' + i - 1 /\ nread + 1 + j = nread + (i + 1) - 1
    BY <1>1, <1>3, <1>4 DEF Counters
  <2> HIDE DEF j
  <2>4. data[(nread' + i - 1) % PIPESIZE] = data[(nread + (i + 1) - 1) % PIPESIZE]
    BY <2>2, <2>3
  <2>5. i + 1 \in 1..Count /\ i \in 1..Count'
    BY <1>1, <1>6
  <2> QED
    BY <2>4, <2>5, <1>3 DEF Contents
<1>8. /\ data[nread % PIPESIZE] \in Byte
      /\ data[nread % PIPESIZE] = Contents[1]
      /\ addr' = [addr EXCEPT ![p] = data[nread % PIPESIZE]]
  <2>1. nread % PIPESIZE \in 0..PIPESIZE - 1
    BY <1>1, DivMod DEF Counters
  <2>2. nread + 1 - 1 = nread /\ 1 \in 1..Count
    BY <1>1, <1>2 DEF Counters
  <2>3. Contents[1] = data[(nread + 1 - 1) % PIPESIZE]
    BY <2>2 DEF Contents
  <2> QED
    BY <2>1, <2>2, <2>3 DEF IInv, TypeOK, read_byte
<1>11. TypeOK'
  <2>1. left' \in [Process -> 0..MaxCount]
    BY SizeAssumption DEF IInv, TypeOK, read_byte
  <2>2. data' \in [0..PIPESIZE - 1 -> Byte]
    BY <1>3 DEF IInv, TypeOK
  <2>3. addr' \in [Reader -> Byte]
    BY <1>8 DEF IInv, TypeOK
  <2> QED
    BY <2>1, <2>2, <2>3, <1>5 DEF IInv, TypeOK, read_byte, Counters
<1>9. Contents # <<>> /\ Contents' = Tail(Contents)
  <2>1. Contents \in [1..Count -> Byte] /\ Count \in Nat \ {0}
    BY <1>1, <1>2, ContentsType DEF IInv
  <2>2. Contents' \in [1..Count - 1 -> Byte]
    BY <1>1, <1>2, <1>6, <1>11, ContentsTypeNext
  <2> QED
    BY <1>7, <2>1, <2>2, TailIs, Zenon
<1>10. Fits'
  BY <1>1, <1>2, <1>6 DEF Fits
<1>12. Head(Contents) = Contents[1]
  BY DEF Head
<1>13. p \in Reader
  BY DEF IInv, Inside, Process, read_byte
<1> QED
  BY <1>8, <1>11, <1>9, <1>10, <1>12, <1>13

\* A step that moves no byte.
LEMMA NoByte ==
    ASSUME UNCHANGED <<data, nread, nwrite>>
    PROVE  /\ Contents' = Contents /\ Count' = Count
           /\ (Full' <=> Full) /\ (Empty' <=> Empty)
BY DEF Contents, Count, Full, Empty

-------------------------------------------------------------------------------
(* The invariant, one lemma per action                                     *)

\* There is one process inside; a reader there is not a writer.
LEMMA AloneInside ==
    ASSUME IInv, NEW p \in Process, pc[p] \in {"read", "copy", "write"}
    PROVE  /\ lock = p
           /\ \A q \in Process \ {p} : pc[q] \notin {"read", "copy", "write"}
           /\ pc[p] = "write" <=> p \in Writer
           /\ pc[p] # "write" <=> p \in Reader
BY EndsAssumption DEF IInv, Inside, Process

\* Nobody is inside while p->lock is free.
LEMMA NobodyInside ==
    ASSUME IInv, lock = Nobody
    PROVE  \A q \in Process : pc[q] \notin {"read", "copy", "write"}
BY EndsAssumption DEF IInv, Inside, Process

\* read() and write() take p->lock, and so does a sleeper that was woken.
LEMMA EnterStep ==
    ASSUME IInv, NEW p \in Process, (\E n \in 0..MaxCount : call(p, n)) \/ relock(p)
    PROVE  IInv' /\ Contents' = Contents /\ addr' = addr
<1>1. /\ pc[p] \in {"user", "relock"} /\ lock = Nobody /\ lock' = p
      /\ pc' = [pc EXCEPT ![p] = IF p \in Reader THEN "read" ELSE "write"]
      /\ UNCHANGED <<data, nread, nwrite, readopen, writeopen, addr, killed>>
      /\ left' \in [Process -> 0..MaxCount]
  BY DEF call, relock, pipe, IInv, TypeOK
<1>2. Contents' = Contents /\ Count' = Count /\ (Full' <=> Full) /\ (Empty' <=> Empty)
  BY <1>1, NoByte
<1>3. \A q \in Process : pc'[q] = IF q = p THEN (IF p \in Reader THEN "read" ELSE "write") ELSE pc[q]
  BY <1>1 DEF IInv, TypeOK
<1>4. TypeOK'
  BY <1>1 DEF IInv, TypeOK
<1>5. Inside'
  BY <1>1, <1>3, NobodyInside, EndsAssumption DEF Inside, Process
<1>6. Shut'
  BY <1>1, <1>3, EndsAssumption DEF IInv, Shut, Process
<1>7. Asleep'
  BY <1>1, <1>2, <1>3, NobodyInside, EndsAssumption DEF IInv, Asleep, Process
<1> QED
  BY <1>1, <1>2, <1>4, <1>5, <1>6, <1>7 DEF IInv, Fits

\* A process inside leaves with p->lock, and wakes the sleepers of one end or of none.
LEMMA LeaveStep ==
    ASSUME IInv, NEW p \in Process, pc[p] \in {"read", "copy", "write"},
           NEW End \in {Reader, Writer, {}}, NEW l \in {"user", "asleep"},
           pc' = [Wake(End) EXCEPT ![p] = l], lock' = Nobody,
           UNCHANGED <<data, nread, nwrite, readopen, writeopen, addr, killed>>,
           left' \in [Process -> 0..MaxCount],
           pc[p] = "write" => End = Reader \/ Empty \/ ~readopen,
           pc[p] = "copy" => End = Writer \/ Full,
           l = "asleep" => IF p \in Reader THEN writeopen /\ Empty ELSE readopen /\ Full
    PROVE  IInv' /\ Contents' = Contents /\ addr' = addr
<1>1. Contents' = Contents /\ Count' = Count /\ (Full' <=> Full) /\ (Empty' <=> Empty)
  BY NoByte
<1>2. \A q \in Process :
         pc'[q] = IF q = p THEN l ELSE IF q \in End /\ pc[q] = "asleep" THEN "relock" ELSE pc[q]
  BY DEF Wake
<1>3. TypeOK'
  <2>1. pc' \in [Process -> {"user", "closed", "write", "read", "copy", "asleep", "relock"}]
    BY DEF IInv, TypeOK, Wake
  <2> QED
    BY <2>1 DEF IInv, TypeOK
<1>4. Inside'
  BY <1>2, AloneInside, EndsAssumption DEF IInv, Inside, Process
<1>5. Shut'
  BY <1>2, AloneInside, EndsAssumption DEF IInv, Shut, Process
<1>6. Asleep'
  <2>1. ASSUME NEW q \in Reader, pc'[q] = "asleep" PROVE writeopen /\ Empty
    <3>1. CASE q = p
      BY <2>1, <3>1, <1>2 DEF Process
    <3>2. CASE q # p
      <4>1. pc[q] = "asleep" /\ q \notin End
        BY <2>1, <3>2, <1>2 DEF Process
      <4>2. readopen
        BY <4>1 DEF IInv, Shut
      <4>3. writeopen /\ (Empty \/ pc[p] = "write")
        BY <4>1, AloneInside DEF IInv, Asleep, Process
      <4> QED
        BY <4>1, <4>2, <4>3
    <3> QED
      BY <3>1, <3>2
  <2>2. ASSUME NEW q \in Writer, pc'[q] = "asleep" PROVE readopen /\ Full
    <3>1. CASE q = p
      BY <2>2, <3>1, <1>2, EndsAssumption DEF Process
    <3>2. CASE q # p
      <4>1. pc[q] = "asleep" /\ q \notin End
        BY <2>2, <3>2, <1>2 DEF Process
      <4>2. readopen /\ (Full \/ pc[p] = "copy")
        BY <4>1, AloneInside DEF IInv, Asleep, Process
      <4> QED
        BY <4>1, <4>2
    <3> QED
      BY <3>1, <3>2
  <2> QED
    BY <2>1, <2>2, <1>1 DEF Asleep
<1> QED
  BY <1>1, <1>3, <1>4, <1>5, <1>6 DEF IInv, Fits

\* The ways out of pipewrite() and piperead().
LEMMA ExitStep ==
    ASSUME IInv, NEW p \in Process,
           write_full(p) \/ write_done(p) \/ read_empty(p) \/ read_done(p)
    PROVE  IInv' /\ Contents' = Contents /\ addr' = addr
<1>1. pc = Wake({})
  BY DEF Wake, IInv, TypeOK
<1>2. [left EXCEPT ![p] = 0] \in [Process -> 0..MaxCount] /\ left \in [Process -> 0..MaxCount]
  BY SizeAssumption DEF IInv, TypeOK
<1>3. CASE write_full(p)
  <2>1. CASE ~readopen /\ pc' = [pc EXCEPT ![p] = "user"] /\ left' = [left EXCEPT ![p] = 0]
    <3>1. pc' = [Wake({}) EXCEPT ![p] = "user"]
      BY <2>1, <1>1
    <3> QED
      BY <3>1, <2>1, <1>2, <1>3, LeaveStep DEF write_full, pipe
  <2>2. CASE readopen /\ pc' = [Wake(Reader) EXCEPT ![p] = "asleep"] /\ left' = left
    <3>1. p \notin Reader
      BY <1>3, AloneInside DEF write_full
    <3> QED
      BY <3>1, <2>2, <1>2, <1>3, LeaveStep DEF write_full, pipe
  <2> QED
    BY <1>3, <2>1, <2>2 DEF write_full
<1>4. CASE write_done(p)
  BY <1>2, <1>4, LeaveStep DEF write_done, pipe
<1>5. CASE read_empty(p)
  <2>1. CASE pc' = [pc EXCEPT ![p] = "user"] /\ left' = [left EXCEPT ![p] = 0]
    <3>1. pc' = [Wake({}) EXCEPT ![p] = "user"]
      BY <2>1, <1>1
    <3> QED
      BY <3>1, <2>1, <1>2, <1>5, LeaveStep DEF read_empty, pipe
  <2>2. CASE pc' = [pc EXCEPT ![p] = "asleep"] /\ left' = left
    <3>1. pc' = [Wake({}) EXCEPT ![p] = "asleep"] /\ p \in Reader
      BY <2>2, <1>1, <1>5, AloneInside DEF read_empty
    <3> QED
      BY <3>1, <2>2, <1>2, <1>5, LeaveStep DEF read_empty, pipe
  <2> QED
    BY <1>5, <2>1, <2>2 DEF read_empty
<1>6. CASE read_done(p)
  BY <1>2, <1>6, LeaveStep DEF read_done, pipe
<1> QED
  BY <1>3, <1>4, <1>5, <1>6

\* A byte is moved by a process that stays inside: the other end's sleepers keep
\* their reason, since it will wake them, and its own have none, since they would
\* have been woken.
LEMMA ByteStep ==
    ASSUME IInv, NEW p \in Process, (\E b \in Byte : write_byte(p, b)) \/ read_byte(p)
    PROVE  IInv' /\ Queue!Next
<1>1. CASE \E b \in Byte : write_byte(p, b)
  <2>1. PICK b \in Byte : write_byte(p, b)
    BY <1>1
  <2>2. TypeOK' /\ Fits' /\ Count < PIPESIZE /\ Contents' = Append(Contents, b) /\ addr' = addr
    BY <2>1, PutStep
  <2>3. pc' = pc /\ lock' = lock /\ readopen' = readopen /\ writeopen' = writeopen
    BY <2>1 DEF write_byte
  <2>4. pc[p] = "write" /\ ~Full
    BY <2>1 DEF write_byte
  <2>5. Inside' /\ Shut'
    BY <2>3 DEF IInv, Inside, Shut
  <2>6. Asleep'
    BY <2>3, <2>4, AloneInside, EndsAssumption DEF IInv, Asleep, Process
  <2>7. Len(Contents) = Count
    BY CountersOK DEF Contents
  <2> QED
    BY <2>2, <2>5, <2>6, <2>7 DEF IInv, Queue!Next, Queue!put
<1>2. CASE read_byte(p)
  <2>1. /\ TypeOK' /\ Fits' /\ p \in Reader
        /\ Contents # <<>> /\ Contents' = Tail(Contents)
        /\ addr' = [addr EXCEPT ![p] = Head(Contents)]
    BY <1>2, GetStep
  <2>2. pc' = pc /\ lock' = lock /\ readopen' = readopen /\ writeopen' = writeopen
    BY <1>2 DEF read_byte
  <2>3. pc[p] = "copy" /\ ~Empty
    BY <1>2 DEF read_byte
  <2>4. Inside' /\ Shut'
    BY <2>2 DEF IInv, Inside, Shut
  <2>5. Asleep'
    BY <2>2, <2>3, AloneInside, EndsAssumption DEF IInv, Asleep, Process
  <2> QED
    BY <2>1, <2>4, <2>5 DEF IInv, Queue!Next, Queue!get
<1> QED
  BY <1>1, <1>2

\* piperead() finds something to read or nobody who could write.
LEMMA StartStep ==
    ASSUME IInv, NEW p \in Process, read_start(p)
    PROVE  IInv' /\ Contents' = Contents /\ addr' = addr
<1>1. /\ pc[p] = "read" /\ pc' = [pc EXCEPT ![p] = "copy"]
      /\ UNCHANGED <<data, nread, nwrite, readopen, writeopen, addr, lock, killed, left>>
  BY DEF read_start, pipe
<1>2. Contents' = Contents /\ Count' = Count /\ (Full' <=> Full) /\ (Empty' <=> Empty)
  BY <1>1, NoByte
<1>3. \A q \in Process : pc'[q] = IF q = p THEN "copy" ELSE pc[q]
  BY <1>1 DEF IInv, TypeOK
<1>4. TypeOK'
  BY <1>1 DEF IInv, TypeOK
<1>5. Inside' /\ Shut'
  BY <1>1, <1>3, EndsAssumption DEF IInv, Inside, Shut, Process
<1>6. Asleep'
  BY <1>1, <1>2, <1>3, AloneInside, EndsAssumption DEF IInv, Asleep, Process
<1> QED
  BY <1>1, <1>2, <1>4, <1>5, <1>6 DEF IInv, Fits

\* The last process to close an end wakes those who sleep at the other.
LEMMA CloseStep ==
    ASSUME IInv, NEW p \in Process, close(p)
    PROVE  IInv' /\ Contents' = Contents /\ addr' = addr
<1> DEFINE own == IF p \in Reader THEN Reader ELSE Writer
           last == \A q \in own \ {p} : pc[q] = "closed"
<1>1. /\ pc[p] = "user" /\ lock = Nobody
      /\ pc' = [(IF last THEN Wake(Process \ own) ELSE pc) EXCEPT ![p] = "closed"]
      /\ readopen' = (readopen /\ ~(last /\ own = Reader))
      /\ writeopen' = (writeopen /\ ~(last /\ own = Writer))
      /\ UNCHANGED <<data, nread, nwrite, addr, lock, killed, left>>
  BY DEF close, WakeOnClose
<1>2. Contents' = Contents /\ Count' = Count /\ (Full' <=> Full) /\ (Empty' <=> Empty)
  BY <1>1, NoByte
<1>3. \A q \in Process :
         pc'[q] = IF q = p THEN "closed"
                  ELSE IF last /\ q \notin own /\ pc[q] = "asleep" THEN "relock" ELSE pc[q]
  BY <1>1 DEF IInv, TypeOK, Wake
<1>4. TypeOK'
  <2>1. pc' \in [Process -> {"user", "closed", "write", "read", "copy", "asleep", "relock"}]
    BY <1>1 DEF IInv, TypeOK, Wake
  <2>2. readopen' \in BOOLEAN /\ writeopen' \in BOOLEAN
    BY <1>1, Zenon
  <2> QED
    BY <2>1, <2>2, <1>1 DEF IInv, TypeOK
<1>5. /\ p \in own
      /\ own = Reader <=> p \in Reader
      /\ own = Writer <=> p \in Writer
  BY EndsAssumption DEF Process
<1>6. Inside'
  BY <1>1, <1>3, NobodyInside DEF IInv, Inside
<1>7. Shut'
  <2>1. ASSUME ~readopen' PROVE \A q \in Reader : pc'[q] = "closed"
    <3>1. CASE ~readopen
      BY <3>1, <1>3 DEF IInv, Shut, Process
    <3>2. CASE last /\ own = Reader
      BY <3>2, <1>3 DEF Process
    <3> QED
      BY <2>1, <1>1, <3>1, <3>2
  <2>2. ASSUME ~writeopen' PROVE \A q \in Writer : pc'[q] = "closed"
    <3>1. CASE ~writeopen
      BY <3>1, <1>3 DEF IInv, Shut, Process
    <3>2. CASE last /\ own = Writer
      BY <3>2, <1>3 DEF Process
    <3> QED
      BY <2>2, <1>1, <3>1, <3>2
  <2> QED
    BY <2>1, <2>2 DEF Shut
<1>8. Asleep'
  <2>1. ASSUME NEW q \in Reader, pc'[q] = "asleep" PROVE writeopen' /\ Empty
    <3>1. pc[q] = "asleep" /\ ~(last /\ q \notin own)
      BY <2>1, <1>3 DEF Process
    <3>2. ~(last /\ own = Writer)
      BY <3>1, EndsAssumption
    <3> QED
      BY <3>1, <3>2, <1>1, NobodyInside DEF IInv, Asleep, Process
  <2>2. ASSUME NEW q \in Writer, pc'[q] = "asleep" PROVE readopen' /\ Full
    <3>1. pc[q] = "asleep" /\ ~(last /\ q \notin own)
      BY <2>2, <1>3 DEF Process
    <3>2. ~(last /\ own = Reader)
      BY <3>1, EndsAssumption
    <3> QED
      BY <3>1, <3>2, <1>1, NobodyInside DEF IInv, Asleep, Process
  <2> QED
    BY <2>1, <2>2, <1>2 DEF Asleep
<1> QED
  BY <1>1, <1>2, <1>4, <1>6, <1>7, <1>8 DEF IInv, Fits

\* kill() makes a sleeper try again.
LEMMA KillStep ==
    ASSUME IInv, NEW p \in Process, kill(p)
    PROVE  IInv' /\ Contents' = Contents /\ addr' = addr
<1>1. /\ pc[p] # "closed" /\ killed' = killed \cup ({p} \cap Reader)
      /\ pc' = [pc EXCEPT ![p] = IF @ = "asleep" THEN "relock" ELSE @]
      /\ UNCHANGED <<data, nread, nwrite, readopen, writeopen, addr, lock, left>>
  BY DEF kill, pipe
<1>2. Contents' = Contents /\ Count' = Count /\ (Full' <=> Full) /\ (Empty' <=> Empty)
  BY <1>1, NoByte
<1>3. \A q \in Process : pc'[q] = IF q = p /\ pc[q] = "asleep" THEN "relock" ELSE pc[q]
  BY <1>1 DEF IInv, TypeOK
<1>4. TypeOK'
  BY <1>1 DEF IInv, TypeOK
<1>5. Inside'
  BY <1>1, <1>3 DEF IInv, Inside
<1>6. Shut' /\ Asleep'
  BY <1>1, <1>2, <1>3 DEF IInv, Shut, Asleep, Process
<1> QED
  BY <1>1, <1>2, <1>4, <1>5, <1>6 DEF IInv, Fits

-------------------------------------------------------------------------------
(* The theorems                                                            *)

\* No step leaves the invariant, and each is a step of the queue or none.
LEMMA NextStep ==
    ASSUME IInv, [Next]_vars
    PROVE  IInv' /\ [Queue!Next]_<<Contents, addr>>
<1>1. CASE UNCHANGED vars
  <2>1. Contents' = Contents /\ Count' = Count /\ (Full' <=> Full) /\ (Empty' <=> Empty)
    BY <1>1, NoByte DEF vars
  <2>2. TypeOK' /\ Inside' /\ Shut' /\ Asleep'
    BY <1>1, <2>1 DEF vars, IInv, TypeOK, Inside, Shut, Asleep
  <2> QED
    BY <1>1, <2>1, <2>2 DEF IInv, Fits, vars
<1>2. ASSUME NEW p \in Process,
             (\E n \in 0..MaxCount : call(p, n)) \/ relock(p) \/ Locked(p) \/ close(p) \/ kill(p)
      PROVE  IInv' /\ [Queue!Next]_<<Contents, addr>>
  <2>1. CASE (\E n \in 0..MaxCount : call(p, n)) \/ relock(p)
    BY <2>1, EnterStep
  <2>2. CASE Locked(p)
    <3>1. CASE (\E b \in Byte : write_byte(p, b)) \/ read_byte(p)
      BY <3>1, ByteStep
    <3>2. CASE write_full(p) \/ write_done(p) \/ read_empty(p) \/ read_done(p)
      BY <3>2, ExitStep
    <3>3. CASE read_start(p)
      BY <3>3, StartStep
    <3> QED
      BY <2>2, <3>1, <3>2, <3>3 DEF Locked
  <2>3. CASE close(p) \/ kill(p)
    BY <2>3, CloseStep, KillStep
  <2> QED
    BY <1>2, <2>1, <2>2, <2>3
<1> QED
  BY <1>1, <1>2 DEF Next

\* No wakeup of pipe.c is missed, however many processes share the ends, read,
\* write, close them and are killed.
THEOREM NoMissedWakeup == Spec => []SleepersHaveReason
<1>1. IInv /\ [Next]_vars => IInv'
  BY NextStep
<1>2. IInv => SleepersHaveReason
  BY NobodyInside DEF IInv, Asleep, SleepersHaveReason, Process
<1> QED
  BY InitIInv, <1>1, <1>2, PTL DEF Spec

\* A pipe is a bounded queue of bytes, from which each byte is given to one reader in
\* the order in which they were written, for any PIPESIZE, any number of readers
\* and writers, and however often the counters wrap around.
THEOREM PipeIsQueue == Spec => ImplementsByteQueue
<1>1. Init => Queue!Init
  BY InitIInv DEF Init, Queue!Init
<1>2. IInv /\ [Next]_vars => IInv' /\ [Queue!Next]_<<Contents, addr>>
  BY NextStep
<1> QED
  BY InitIInv, <1>1, <1>2, PTL DEF Spec, ImplementsByteQueue, Queue!Spec
===============================================================================
