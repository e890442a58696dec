------------------------------ MODULE TrapProofs ------------------------------
(***************************************************************************)
(* The console, for any number of readers, any INPUT_BUF and any word size *)
(* that is a multiple of it: nobody sleeps while there is something to     *)
(* read, and the ring buffer with its three indices is a queue of complete *)
(* lines with a line being edited behind it.  The indices are compared     *)
(* modulo UintMod and point into the buffer modulo INPUT_BUF: the proof    *)
(* starts with what remainders do, and goes on with stretches of the ring. *)
(***************************************************************************)
EXTENDS Trap, Integers, WellFoundedInduction, TLAPS

-------------------------------------------------------------------------------
(* Remainders                                                              *)

\* Division with remainder of unsigned integers.
LEMMA DivMod ==
    ASSUME NEW n \in Nat \ {0}, NEW a \in Nat
    PROVE  a = n * (a \div n) + (a % n) /\ a \div n \in Nat /\ a % n \in 0..n - 1
OBVIOUS

\* The remainder is unique.
LEMMA ModUnique ==
    ASSUME NEW n \in Nat \ {0}, NEW q \in Int, NEW r \in 0..n - 1
    PROVE  (n * q + r) % n = r
OBVIOUS

\* An unsigned counter that has gone round at most once.
LEMMA ModOnce ==
    ASSUME NEW n \in Nat \ {0}, NEW a \in 0..2 * n - 1
    PROVE  a % n = IF a < n THEN a ELSE a - n
OBVIOUS

\* A counter that wraps around at a multiple of the size of the buffer points to
\* the same place of the buffer as one that does not.
LEMMA ModMultiple ==
    ASSUME NEW n \in Nat \ {0}, NEW u \in Nat, u % n = 0, NEW a \in Nat, a >= u
    PROVE  (a - u) % n = a % n
<1> DEFINE k == u \div n
           q == a \div n
           r == a % n
<1>1. u = n * k /\ k \in Nat
  <2>1. u = n * (u \div n) + (u % n) /\ u \div n \in Nat
    BY DivMod
  <2> QED
    BY <2>1
<1>2. a = n * q + r /\ q \in Nat /\ r \in 0..n - 1
  BY DivMod
<1> HIDE DEF k, q, r
<1>3. a - u = n * (q - k) + r /\ q - k \in Int
  BY <1>1, <1>2
<1>4. (n * (q - k) + r) % n = r
  BY <1>2, <1>3, ModUnique
<1> QED
  BY <1>3, <1>4 DEF r

\* Bytes less than the size of the buffer apart are in different places of it.
LEMMA ModDistinct ==
    ASSUME NEW n \in Nat \ {0}, NEW a \in Nat, NEW i \in 1..n - 1
    PROVE  (a + i) % n # a % n
<1> DEFINE q == a \div n
           r == a % n
<1>1. a = n * q + r /\ q \in Nat /\ r \in 0..n - 1
  BY DivMod
<1> HIDE DEF q, r
<1>2. CASE r + i < n
  <2>1. (n * q + (r + i)) % n = r + i
    BY <1>1, <1>2, ModUnique
  <2>2. n * q + (r + i) = a + i
    BY <1>1
  <2> QED
    BY <2>1, <2>2, <1>1 DEF r
<1>3. CASE r + i >= n
  <2>1. r + i - n \in 0..n - 1 /\ q + 1 \in Int
    BY <1>1, <1>3
  <2>2. (n * (q + 1) + (r + i - n)) % n = r + i - n
    BY <2>1, ModUnique
  <2>3. n * (q + 1) + (r + i - n) = a + i
    BY <1>1
  <2> QED
    BY <2>2, <2>3, <1>1 DEF r
<1> QED
  BY <1>1, <1>2, <1>3

-------------------------------------------------------------------------------
(* Indices                                                                 *)

Word == 0..UintMod - 1

\* input.e + 1 and the like, once around at most.
LEMMA PlusIs ==
    ASSUME NEW x \in Word, NEW n \in Word
    PROVE  Plus(x, n) = (IF x + n < UintMod THEN x + n ELSE x + n - UintMod) /\ Plus(x, n) \in Word
<1> DEFINE a == x + n
<1>1. UintMod \in Nat \ {0} /\ a \in 0..2 * UintMod - 1 /\ Plus(x, n) = a % UintMod
  BY ConsoleAssumption DEF Word, Plus
<1> HIDE DEF a
<1>2. a % UintMod = IF a < UintMod THEN a ELSE a - UintMod
  BY <1>1, ModOnce, Zenon
<1> QED
  BY <1>1, <1>2 DEF a, Word

\* The distance between two indices, whichever of them has wrapped around.
LEMMA MinusIs ==
    ASSUME NEW x \in Word, NEW y \in Word
    PROVE  Minus(y, x) = (IF y >= x THEN y - x ELSE y - x + UintMod) /\ Minus(y, x) \in Word
<1> DEFINE a == y - x + UintMod
<1>1. UintMod \in Nat \ {0} /\ a \in 0..2 * UintMod - 1 /\ Minus(y, x) = a % UintMod
  BY ConsoleAssumption DEF Word, Minus
<1> HIDE DEF a
<1>2. a % UintMod = IF a < UintMod THEN a ELSE a - UintMod
  BY <1>1, ModOnce, Zenon
<1> QED
  BY <1>1, <1>2 DEF a, Word

\* Going as far as the distance leads there, and going n places leads n places away.
LEMMA ThereAndBack ==
    ASSUME NEW x \in Word, NEW y \in Word
    PROVE  Plus(x, Minus(y, x)) = y /\ Minus(Plus(x, y), x) = y
<1> DEFINE d == Minus(y, x)
           s == Plus(x, y)
<1>1. d = (IF y >= x THEN y - x ELSE y - x + UintMod) /\ d \in Word
  BY MinusIs
<1>2. s = (IF x + y < UintMod THEN x + y ELSE x + y - UintMod) /\ s \in Word
  BY PlusIs
<1> HIDE DEF d, s
<1>3. Plus(x, d) = IF x + d < UintMod THEN x + d ELSE x + d - UintMod
  BY <1>1, PlusIs, Zenon
<1>4. Minus(s, x) = IF s >= x THEN s - x ELSE s - x + UintMod
  BY <1>2, MinusIs, Zenon
<1>5. Plus(x, d) = y
  BY <1>1, <1>3, ConsoleAssumption DEF Word
<1>6. Minus(s, x) = y
  BY <1>2, <1>4, ConsoleAssumption DEF Word
<1> QED
  BY <1>5, <1>6 DEF d, s

\* Distances add up as long as they do not go round.
LEMMA DistancesAdd ==
    ASSUME NEW x \in Word, NEW y \in Word, NEW z \in Word, Minus(y, x) + Minus(z, y) < UintMod
    PROVE  Minus(z, x) = Minus(y, x) + Minus(z, y)
<1>1. /\ Minus(y, x) = IF y >= x THEN y - x ELSE y - x + UintMod
      /\ Minus(z, y) = IF z >= y THEN z - y ELSE z - y + UintMod
      /\ Minus(z, x) = IF z >= x THEN z - x ELSE z - x + UintMod
  BY MinusIs, Zenon
<1> QED
  BY <1>1, ConsoleAssumption DEF Word

\* Two legs are one.
LEMMA PlusPlus ==
    ASSUME NEW x \in Word, NEW m \in Word, NEW n \in Word, m + n \in Word
    PROVE  Plus(Plus(x, m), n) = Plus(x, m + n)
<1> DEFINE s == Plus(x, m)
           k == m + n
<1>1. s = (IF x + m < UintMod THEN x + m ELSE x + m - UintMod) /\ s \in Word
  BY PlusIs
<1>2. k \in Word /\ k = m + n
  OBVIOUS
<1> HIDE DEF s, k
<1>3. /\ Plus(s, n) = IF s + n < UintMod THEN s + n ELSE s + n - UintMod
      /\ Plus(x, k) = IF x + k < UintMod THEN x + k ELSE x + k - UintMod
  BY <1>1, <1>2, PlusIs, Zenon
<1>4. Plus(s, n) = Plus(x, k)
  BY <1>1, <1>2, <1>3, ConsoleAssumption DEF Word
<1> QED
  BY <1>4 DEF s, k

\* The place in the buffer is the same as if the index had not wrapped around.
LEMMA PlaceIs ==
    ASSUME NEW x \in Word, NEW n \in Word
    PROVE  At(Plus(x, n)) = (x + n) % INPUT_BUF /\ At(Plus(x, n)) \in 0..INPUT_BUF - 1
<1> DEFINE a == x + n
<1>1. /\ INPUT_BUF \in Nat \ {0} /\ UintMod \in Nat /\ UintMod % INPUT_BUF = 0 /\ a \in Nat
      /\ Plus(x, n) = (IF a < UintMod THEN a ELSE a - UintMod)
  BY ConsoleAssumption, PlusIs DEF Word
<1>2. a % INPUT_BUF \in 0..INPUT_BUF - 1
  BY <1>1, DivMod
<1> HIDE DEF a
<1>3. a >= UintMod => (a - UintMod) % INPUT_BUF = a % INPUT_BUF
  BY <1>1, ModMultiple, Zenon
<1>4. At(Plus(x, n)) = a % INPUT_BUF
  BY <1>1, <1>3 DEF At
<1> QED
  BY <1>2, <1>4 DEF a

\* Indices less than the size of the buffer apart point to different places.
LEMMA PlacesDiffer ==
    ASSUME NEW x \in Word, NEW m \in Word, NEW n \in Word, m < n, n - m < INPUT_BUF
    PROVE  At(Plus(x, m)) # At(Plus(x, n))
<1> DEFINE a == x + m
           i == n - m
<1>1. INPUT_BUF \in Nat \ {0} /\ a \in Nat /\ i \in 1..INPUT_BUF - 1 /\ x + n = a + i
  BY ConsoleAssumption DEF Word
<1>2. At(Plus(x, m)) = a % INPUT_BUF /\ At(Plus(x, n)) = (a + i) % INPUT_BUF
  BY <1>1, PlaceIs
<1> HIDE DEF a, i
<1>3. (a + i) % INPUT_BUF # a % INPUT_BUF
  BY <1>1, ModDistinct, Zenon
<1> QED
  BY <1>2, <1>3

-------------------------------------------------------------------------------
(* Sequences, element by element                                           *)

LEMMA AppendIs ==
    ASSUME NEW S, NEW n \in Nat, NEW s \in [1..n -> S], NEW t \in [1..n + 1 -> S],
           \A i \in 1..n : t[i] = s[i]
    PROVE  t = Append(s, t[n + 1])
OBVIOUS

LEMMA SameSeq ==
    ASSUME NEW S, NEW s \in Seq(S), NEW t \in Seq(S), Len(s) = Len(t),
           \A i \in 1..Len(s) : s[i] = t[i]
    PROVE  s = t
OBVIOUS

LEMMA ConcatIs ==
    ASSUME NEW S, NEW s \in Seq(S), NEW t \in Seq(S), NEW u \in Seq(S), Len(u) = Len(s) + Len(t),
           \A i \in 1..Len(s) : u[i] = s[i], \A i \in 1..Len(t) : u[Len(s) + i] = t[i]
    PROVE  u = s \o t
<1> DEFINE v == s \o t
           m == Len(s)
           n == Len(t)
<1>1. m \in Nat /\ n \in Nat
  OBVIOUS
<1>2. /\ v \in Seq(S) /\ Len(v) = m + n
      /\ \A i \in 1..m + n : v[i] = IF i <= m THEN s[i] ELSE t[i - m]
  OBVIOUS
<1> HIDE DEF v, m, n
<1>3. ASSUME NEW i \in 1..m + n PROVE u[i] = v[i]
  <2>1. CASE i <= m
    BY <1>1, <1>2, <2>1 DEF m
  <2>2. CASE i > m
    <3>1. i - m \in 1..n /\ i = m + (i - m)
      BY <1>1, <2>2
    <3>2. u[m + (i - m)] = t[i - m]
      BY <3>1 DEF m, n
    <3> QED
      BY <1>1, <1>2, <2>2, <3>1, <3>2
  <2> QED
    BY <1>1, <2>1, <2>2
<1>4. Len(u) = Len(v) /\ \A i \in 1..Len(u) : u[i] = v[i]
  BY <1>2, <1>3 DEF m, n
<1>5. u = v
  BY <1>2, <1>4, SameSeq
<1> QED
  BY <1>5 DEF v

LEMMA FrontIs ==
    ASSUME NEW S, NEW n \in Nat \ {0}, NEW s \in [1..n -> S], NEW t \in [1..n - 1 -> S],
           \A i \in 1..n - 1 : t[i] = s[i]
    PROVE  s # <<>> /\ t = SubSeq(s, 1, Len(s) - 1)
OBVIOUS

LEMMA DropIs ==
    ASSUME NEW S, NEW s \in Seq(S), NEW k \in 0..Len(s), NEW t \in Seq(S), Len(t) = Len(s) - k,
           \A i \in 1..Len(t) : t[i] = s[k + i]
    PROVE  t = SubSeq(s, k + 1, Len(s))
OBVIOUS

\* A set of natural numbers has a least element.
LEMMA LeastNat ==
    ASSUME NEW T \in SUBSET Nat, T # {}
    PROVE  \E x \in T : \A y \in T : x <= y
<1> DEFINE R == OpToRel(<, Nat)
<1>1. \E x \in T : \A y \in T : ~(<<y, x>> \in R)
  BY NatLessThanWellFounded, WFMin, Zenon
<1>2. ASSUME NEW x \in Nat, NEW y \in Nat, y < x PROVE <<y, x>> \in R
  BY <1>2 DEF OpToRel
<1>3. PICK x \in T : \A y \in T : ~(<<y, x>> \in R)
  BY <1>1
<1>4. ASSUME NEW y \in T PROVE ~(y < x)
  BY <1>2, <1>3, Zenon
<1>5. \A y \in T : x <= y
  BY <1>4
<1> QED
  BY <1>5

-------------------------------------------------------------------------------
(* Stretches of the ring                                                   *)

Chars == Key \cup {NoChar}
Buf == [0..INPUT_BUF - 1 -> Chars]
Stretch(b, x, y) == [i \in 1..Minus(y, x) |-> b[At(Plus(x, i - 1))]]

\* A stretch is a sequence as long as the distance between its ends.
LEMMA StretchType ==
    ASSUME NEW b \in Buf, NEW x \in Word, NEW y \in Word
    PROVE  /\ Stretch(b, x, y) \in [1..Minus(y, x) -> Chars]
           /\ Minus(y, x) \in Nat /\ Len(Stretch(b, x, y)) = Minus(y, x)
<1> DEFINE d == Minus(y, x)
<1>1. d \in Word /\ d \in Nat
  BY MinusIs DEF Word
<1> HIDE DEF d
<1>2. ASSUME NEW i \in 1..d PROVE b[At(Plus(x, i - 1))] \in Chars
  <2>1. i - 1 \in Word
    BY <1>1, ConsoleAssumption DEF Word
  <2>2. At(Plus(x, i - 1)) \in 0..INPUT_BUF - 1
    BY <2>1, PlaceIs
  <2> QED
    BY <2>2 DEF Buf
<1>3. [i \in 1..d |-> b[At(Plus(x, i - 1))]] \in [1..d -> Chars]
  BY <1>2
<1>4. Stretch(b, x, y) = [i \in 1..d |-> b[At(Plus(x, i - 1))]]
  BY DEF Stretch, d
<1>5. Len([i \in 1..d |-> b[At(Plus(x, i - 1))]]) = d
  BY <1>1
<1> QED
  BY <1>1, <1>3, <1>4, <1>5 DEF d

\* Two stretches one after the other.
LEMMA StretchConcat ==
    ASSUME NEW b \in Buf, NEW x \in Word, NEW y \in Word, NEW z \in Word,
           Minus(y, x) + Minus(z, y) < UintMod
    PROVE  Stretch(b, x, z) = Stretch(b, x, y) \o Stretch(b, y, z)
<1> DEFINE m == Minus(y, x)
           n == Minus(z, y)
<1>1. m \in Word /\ n \in Word /\ m + n \in Word /\ Minus(z, x) = m + n /\ Plus(x, m) = y
  BY MinusIs, DistancesAdd, ThereAndBack, ConsoleAssumption DEF Word
<1>2. ASSUME NEW i \in 1..n PROVE Plus(x, m + i - 1) = Plus(y, i - 1)
  <2> HIDE DEF m, n
  <2>1. i - 1 \in Word /\ m + (i - 1) \in Word /\ m + i - 1 = m + (i - 1)
    BY <1>1, ConsoleAssumption DEF Word
  <2> QED
    BY <1>1, <2>1, PlusPlus
<1>3. /\ Stretch(b, x, y) \in [1..m -> Chars] /\ Stretch(b, y, z) \in [1..n -> Chars]
      /\ Stretch(b, x, z) \in [1..m + n -> Chars]
  BY <1>1, StretchType
<1>4. m \in Nat /\ n \in Nat
  BY <1>1 DEF Word
<1>5. /\ \A i \in 1..m : Stretch(b, x, y)[i] = b[At(Plus(x, i - 1))]
      /\ \A i \in 1..n : Stretch(b, y, z)[i] = b[At(Plus(y, i - 1))]
      /\ \A i \in 1..m + n : Stretch(b, x, z)[i] = b[At(Plus(x, i - 1))]
  BY <1>1 DEF Stretch
<1> HIDE DEF m, n
<1>6. \A i \in 1..m : Stretch(b, x, z)[i] = Stretch(b, x, y)[i]
  BY <1>4, <1>5
<1>7. ASSUME NEW i \in 1..n PROVE Stretch(b, x, z)[m + i] = Stretch(b, y, z)[i]
  <2>1. m + i \in 1..m + n
    BY <1>4
  <2> QED
    BY <2>1, <1>2, <1>4, <1>5
<1>8. \A i \in 1..n : Stretch(b, x, z)[m + i] = Stretch(b, y, z)[i]
  BY <1>7
<1> DEFINE s == Stretch(b, x, y)
           t == Stretch(b, y, z)
           u == Stretch(b, x, z)
<1>9. /\ s \in [1..m -> Chars] /\ t \in [1..n -> Chars] /\ u \in [1..m + n -> Chars]
      /\ \A i \in 1..m : u[i] = s[i]
      /\ \A i \in 1..n : u[m + i] = t[i]
  BY <1>3, <1>6, <1>8
<1> HIDE DEF s, t, u
<1>10. /\ s \in Seq(Chars) /\ t \in Seq(Chars) /\ u \in Seq(Chars)
       /\ Len(s) = m /\ Len(t) = n /\ Len(u) = Len(s) + Len(t)
  BY <1>4, <1>9
<1>11. u = s \o t
  BY <1>9, <1>10, ConcatIs
<1> QED
  BY <1>11 DEF s, t, u

\* What is written beyond a stretch, and not so far as to come round, does not change it.
LEMMA StretchKept ==
    ASSUME NEW b \in Buf, NEW bb \in Buf, NEW x \in Word, NEW y \in Word, NEW e \in Word,
           \A i \in 0..INPUT_BUF - 1 : i # At(e) => bb[i] = b[i],
           Minus(y, x) <= Minus(e, x), Minus(e, x) < INPUT_BUF
    PROVE  Stretch(bb, x, y) = Stretch(b, x, y)
<1> DEFINE d == Minus(y, x)
           k == Minus(e, x)
<1>1. d \in Word /\ k \in Word /\ Plus(x, k) = e /\ d <= k /\ k < INPUT_BUF
  BY MinusIs, ThereAndBack
<1> HIDE DEF k
<1>2. ASSUME NEW i \in 1..d
      PROVE  bb[At(Plus(x, i - 1))] = b[At(Plus(x, i - 1))]
  <2>1. i - 1 \in Word /\ i - 1 < k /\ k - (i - 1) < INPUT_BUF
    BY <1>1, ConsoleAssumption DEF Word
  <2>2. At(Plus(x, i - 1)) # At(e)
    BY <1>1, <2>1, PlacesDiffer
  <2>3. At(Plus(x, i - 1)) \in 0..INPUT_BUF - 1
    BY <2>1, PlaceIs
  <2> QED
    BY <2>2, <2>3
<1> QED
  BY <1>2 DEF Stretch

\* A character written at the end of a stretch that leaves room for it.
LEMMA StretchAppend ==
    ASSUME NEW b \in Buf, NEW c \in Chars, NEW x \in Word, NEW e \in Word, Minus(e, x) < INPUT_BUF
    PROVE  /\ Stretch([b EXCEPT ![At(e)] = c], x, Plus(e, 1)) = Append(Stretch(b, x, e), c)
           /\ Minus(Plus(e, 1), x) = Minus(e, x) + 1 /\ Plus(e, 1) \in Word
<1> DEFINE d == Minus(e, x)
           bb == [b EXCEPT ![At(e)] = c]
           f == Plus(e, 1)
<1>1. d \in Word /\ Plus(x, d) = e /\ d < INPUT_BUF
  BY MinusIs, ThereAndBack
<1>2. d + 1 \in Word /\ 1 \in Word /\ d \in Nat
  BY <1>1, ConsoleAssumption DEF Word
<1> HIDE DEF d
<1>3. f = Plus(x, d + 1)
  BY <1>1, <1>2, PlusPlus
<1>4. Minus(f, x) = d + 1 /\ f \in Word
  BY <1>2, <1>3, ThereAndBack, PlusIs
<1>5. /\ bb \in Buf /\ bb[At(e)] = c
      /\ \A i \in 0..INPUT_BUF - 1 : i # At(e) => bb[i] = b[i]
  BY <1>1, PlaceIs DEF Buf
<1> HIDE DEF f, bb
<1>6. Stretch(bb, x, e) = Stretch(b, x, e)
  BY <1>1, <1>5, StretchKept DEF d, Word
<1>7. Stretch(bb, x, e) \in [1..d -> Chars] /\ Stretch(bb, x, f) \in [1..d + 1 -> Chars]
  BY <1>4, <1>5, StretchType DEF d
<1>8. /\ \A i \in 1..d : Stretch(bb, x, e)[i] = bb[At(Plus(x, i - 1))]
      /\ \A i \in 1..d + 1 : Stretch(bb, x, f)[i] = bb[At(Plus(x, i - 1))]
  BY <1>4 DEF Stretch, d
<1>9. \A i \in 1..d : Stretch(bb, x, f)[i] = Stretch(bb, x, e)[i]
  BY <1>2, <1>8
<1>10. Stretch(bb, x, f)[d + 1] = c
  BY <1>1, <1>2, <1>5, <1>8
<1>11. Stretch(bb, x, f) = Append(Stretch(bb, x, e), Stretch(bb, x, f)[d + 1])
  BY <1>2, <1>7, <1>9, AppendIs, Zenon
<1> QED
  BY <1>4, <1>6, <1>10, <1>11 DEF bb, d, f

\* A stretch without its last character.
LEMMA StretchFront ==
    ASSUME NEW b \in Buf, NEW x \in Word, NEW e \in Word, e # x
    PROVE  /\ Stretch(b, x, e) # <<>>
           /\ Stretch(b, x, Minus(e, 1)) = SubSeq(Stretch(b, x, e), 1, Len(Stretch(b, x, e)) - 1)
           /\ Minus(Minus(e, 1), x) = Minus(e, x) - 1 /\ Minus(e, 1) \in Word
<1> DEFINE d == Minus(e, x)
           f == Minus(e, 1)
<1>1. 1 \in Word
  BY ConsoleAssumption DEF Word
<1>2. f = (IF e >= 1 THEN e - 1 ELSE e - 1 + UintMod) /\ f \in Word
  BY <1>1, MinusIs
<1>3. d = (IF e >= x THEN e - x ELSE e - x + UintMod) /\ d \in Word
  BY MinusIs
<1> HIDE DEF d, f
<1>4. Minus(f, x) = IF f >= x THEN f - x ELSE f - x + UintMod
  BY <1>2, MinusIs
<1>5. Minus(f, x) = d - 1 /\ d \in Nat \ {0}
  BY <1>2, <1>3, <1>4, ConsoleAssumption DEF Word
<1> DEFINE s == Stretch(b, x, e)
           t == Stretch(b, x, f)
<1>6. s \in [1..d -> Chars] /\ t \in [1..d - 1 -> Chars]
  BY <1>2, <1>5, StretchType DEF d
<1>7. /\ \A i \in 1..d : s[i] = b[At(Plus(x, i - 1))]
      /\ \A i \in 1..d - 1 : t[i] = b[At(Plus(x, i - 1))]
  BY <1>5 DEF Stretch, d
<1> HIDE DEF s, t
<1>8. \A i \in 1..d - 1 : t[i] = s[i]
  BY <1>5, <1>7
<1>9. s # <<>> /\ t = SubSeq(s, 1, Len(s) - 1)
  BY <1>5, <1>6, <1>8, FrontIs, Zenon
<1> QED
  BY <1>2, <1>5, <1>9 DEF d, f, s, t

\* A stretch without its first n characters.
LEMMA StretchDrop ==
    ASSUME NEW b \in Buf, NEW x \in Word, NEW y \in Word, NEW n \in Nat, n <= Minus(y, x)
    PROVE  /\ Stretch(b, Plus(x, n), y) = SubSeq(Stretch(b, x, y), n + 1, Len(Stretch(b, x, y)))
           /\ Minus(y, Plus(x, n)) = Minus(y, x) - n /\ Plus(x, n) \in Word
<1> DEFINE d == Minus(y, x)
           z == Plus(x, n)
<1>1. d = (IF y >= x THEN y - x ELSE y - x + UintMod) /\ d \in Word
  BY MinusIs
<1>2. n \in Word
  BY <1>1, ConsoleAssumption DEF Word
<1>3. z = (IF x + n < UintMod THEN x + n ELSE x + n - UintMod) /\ z \in Word
  BY <1>2, PlusIs
<1>4. n <= d
  OBVIOUS
<1> HIDE DEF d, z
<1>5. Minus(y, z) = IF y >= z THEN y - z ELSE y - z + UintMod
  BY <1>3, MinusIs
<1>6. Minus(y, z) = d - n /\ d \in Nat /\ n \in 0..d
  BY <1>1, <1>2, <1>3, <1>4, <1>5, ConsoleAssumption DEF Word
<1>7. ASSUME NEW i \in 1..d - n PROVE Plus(z, i - 1) = Plus(x, n + i - 1)
  <2>1. i - 1 \in Word /\ n + (i - 1) \in Word /\ n + i - 1 = n + (i - 1)
    BY <1>1, <1>6, ConsoleAssumption DEF Word
  <2> QED
    BY <1>2, <2>1, PlusPlus DEF z
<1> DEFINE s == Stretch(b, x, y)
           t == Stretch(b, z, y)
<1>8. s \in [1..d -> Chars] /\ t \in [1..d - n -> Chars]
  BY <1>3, <1>6, StretchType DEF d
<1>9. /\ \A i \in 1..d : s[i] = b[At(Plus(x, i - 1))]
      /\ \A i \in 1..d - n : t[i] = b[At(Plus(z, i - 1))]
  BY <1>6 DEF Stretch, d
<1> HIDE DEF s, t
<1>10. ASSUME NEW i \in 1..d - n PROVE t[i] = s[n + i]
  <2>1. n + i \in 1..d
    BY <1>6
  <2> QED
    BY <2>1, <1>6, <1>7, <1>9
<1>11. \A i \in 1..d - n : t[i] = s[n + i]
  BY <1>10
<1>12. s \in Seq(Chars) /\ t \in Seq(Chars) /\ Len(s) = d /\ Len(t) = d - n
  BY <1>6, <1>8
<1>13. t = SubSeq(s, n + 1, Len(s))
  BY <1>6, <1>11, <1>12, DropIs
<1> QED
  BY <1>3, <1>6, <1>13 DEF d, s, t, z

-------------------------------------------------------------------------------
(* The inductive invariant                                                 *)

Labels == {"user", "read", "rsleep", "test", "tosleep", "tsleep"}

TypeOK ==
    /\ input \in [r : Word, w : Word, e : Word, buf : Buf]
    /\ proc \in [Process -> [pc : Labels, n : Nat, got : Nat, ticks0 : Nat, killed : BOOLEAN]]
    /\ ticks \in Nat

\* The complete lines and the line being edited are in the buffer together.
Room == Minus(input.w, input.r) + Minus(input.e, input.w) <= INPUT_BUF

\* A read never has more than it asked for.
Asked == \A p \in Process : proc[p].pc \in {"read", "rsleep"} => proc[p].got <= proc[p].n

IInv == TypeOK /\ Room /\ Asked /\ NoMissedInput

\* The state the kernel boots with.
LEMMA InitIInv == Init => IInv /\ Lines!Init
<1> SUFFICES ASSUME Init PROVE IInv /\ Lines!Init
  OBVIOUS
<1>1. 0 \in Word
  BY ConsoleAssumption DEF Word
<1>2. Minus(0, 0) = 0
  BY <1>1, MinusIs DEF Word
<1>3. input.r = 0 /\ input.w = 0 /\ input.e = 0 /\ input.buf \in Buf
  BY DEF Init, ConsoleInit, Buf, Chars
<1>4. TypeOK
  <2>1. input \in [r : Word, w : Word, e : Word, buf : Buf]
    BY <1>1 DEF Init, ConsoleInit, Buf, Chars
  <2>2. proc \in [Process -> [pc : Labels, n : Nat, got : Nat, ticks0 : Nat, killed : BOOLEAN]]
    BY DEF Init, Idle, Labels
  <2> QED
    BY <2>1, <2>2 DEF Init, TypeOK
<1>5. Room
  BY <1>2, <1>3, ConsoleAssumption DEF Room
<1>6. Asked /\ NoMissedInput
  BY DEF Init, Idle, Asked, NoMissedInput
<1>7. Lines!Init
  BY <1>2, <1>3 DEF Lines!Init, Ring
<1> QED
  BY <1>4, <1>5, <1>6, <1>7 DEF IInv

\* What TypeOK says of the four parts of input.
LEMMA InputType ==
    ASSUME TypeOK
    PROVE  /\ input = [r |-> input.r, w |-> input.w, e |-> input.e, buf |-> input.buf]
           /\ input.r \in Word /\ input.w \in Word /\ input.e \in Word /\ input.buf \in Buf
BY DEF TypeOK

\* The three distances on the ring.
LEMMA Distances ==
    ASSUME TypeOK, Room
    PROVE  /\ Minus(input.w, input.r) \in Nat /\ Minus(input.e, input.w) \in Nat
           /\ Minus(input.e, input.r) = Minus(input.w, input.r) + Minus(input.e, input.w)
           /\ (input.w = input.r <=> Minus(input.w, input.r) = 0)
           /\ (input.e = input.w <=> Minus(input.e, input.w) = 0)
<1> DEFINE r == input.r
           w == input.w
           e == input.e
<1>1. r \in Word /\ w \in Word /\ e \in Word
  BY InputType
<1> HIDE DEF r, w, e
<1>2. /\ Minus(w, r) = (IF w >= r THEN w - r ELSE w - r + UintMod) /\ Minus(w, r) \in Word
      /\ Minus(e, w) = (IF e >= w THEN e - w ELSE e - w + UintMod) /\ Minus(e, w) \in Word
  BY <1>1, MinusIs, Zenon
<1>3. Minus(w, r) + Minus(e, w) < UintMod
  BY <1>2, ConsoleAssumption DEF Room, Word, r, w, e
<1>4. Minus(e, r) = Minus(w, r) + Minus(e, w)
  BY <1>1, <1>3, DistancesAdd
<1>5. (w = r <=> Minus(w, r) = 0) /\ (e = w <=> Minus(e, w) = 0)
  BY <1>1, <1>2, ConsoleAssumption DEF Word
<1>6. Minus(w, r) \in Nat /\ Minus(e, w) \in Nat
  BY <1>2 DEF Word
<1> QED
  BY <1>4, <1>5, <1>6 DEF r, w, e

\* The queue and the line of the refinement.
LEMMA RingIs ==
    /\ Ring(input.r, input.w) = Stretch(input.buf, input.r, input.w)
    /\ Ring(input.w, input.e) = Stretch(input.buf, input.w, input.e)
BY DEF Ring, Stretch, Char

LEMMA RingIsNext ==
    (/\ Ring(input.r, input.w) = Stretch(input.buf, input.r, input.w)
     /\ Ring(input.w, input.e) = Stretch(input.buf, input.w, input.e))'
BY RingIs, PTL

\* An empty stretch.
LEMMA StretchEmpty ==
    ASSUME NEW b, NEW x \in Word
    PROVE  Stretch(b, x, x) = <<>> /\ Minus(x, x) = 0
<1>1. Minus(x, x) = 0
  BY MinusIs DEF Word
<1> QED
  BY <1>1 DEF Stretch

-------------------------------------------------------------------------------
(* A character arrives                                                     *)

\* C('U') and backspace.
LEMMA EditStep ==
    ASSUME IInv, UNCHANGED <<proc, ticks>>,
           \/ input' = [input EXCEPT !.e = input.w]
           \/ Erases(input) /\ input' = [input EXCEPT !.e = Minus(@, 1)]
    PROVE  IInv' /\ Lines!Next
<1> USE DEF IInv
<1> DEFINE b == input.buf
           r == input.r
           w == input.w
           e == input.e
           f == input'.e
<1>1. r \in Word /\ w \in Word /\ e \in Word /\ b \in Buf
  BY InputType
<1>2. Minus(w, r) \in Nat /\ Minus(e, w) \in Nat /\ Minus(w, r) + Minus(e, w) <= INPUT_BUF
  BY Distances DEF Room
<1>3. input'.r = r /\ input'.w = w /\ input'.buf = b
  BY InputType
<1>4. f = w \/ (e # w /\ f = Minus(e, 1))
  BY InputType DEF Erases
<1> HIDE DEF b, r, w, e, f
<1>5. /\ f \in Word /\ Minus(f, w) \in Nat /\ Minus(f, w) <= Minus(e, w)
      /\ \/ Stretch(b, w, f) = <<>>
         \/ /\ Stretch(b, w, e) # <<>>
            /\ Stretch(b, w, f) = SubSeq(Stretch(b, w, e), 1, Len(Stretch(b, w, e)) - 1)
  <2>1. CASE f = w
    BY <1>1, <1>2, <2>1, StretchEmpty
  <2>2. CASE e # w /\ f = Minus(e, 1)
    <3>1. /\ Stretch(b, w, e) # <<>>
          /\ Stretch(b, w, f) = SubSeq(Stretch(b, w, e), 1, Len(Stretch(b, w, e)) - 1)
          /\ Minus(f, w) = Minus(e, w) - 1 /\ f \in Word
      BY <1>1, <2>2, StretchFront
    <3>2. Minus(f, w) \in Word
      BY <1>1, <3>1, MinusIs
    <3> QED
      BY <1>2, <3>1, <3>2 DEF Word
  <2> QED
    BY <1>4, <2>1, <2>2
<1>6. TypeOK'
  <2>1. input' \in [r : Word, w : Word, e : Word, buf : Buf]
    BY <1>5 DEF TypeOK, f, w
  <2> QED
    BY <2>1 DEF TypeOK
<1>7. Room'
  <2>1. Minus(w, r) + Minus(f, w) <= INPUT_BUF
    BY <1>2, <1>5, ConsoleAssumption
  <2> QED
    BY <2>1, <1>3 DEF Room, f
<1>8. Asked' /\ NoMissedInput'
  BY <1>3 DEF Asked, NoMissedInput, r, w
<1>9. /\ Ring(input.r, input.w) = Stretch(b, r, w) /\ Ring(input.w, input.e) = Stretch(b, w, e)
      /\ Ring(input.r, input.w)' = Stretch(b, r, w) /\ Ring(input.w, input.e)' = Stretch(b, w, f)
  BY <1>3, RingIs, RingIsNext DEF b, r, w, e, f
<1>10. Lines!Next
  BY <1>5, <1>9 DEF Lines!Next, Lines!Kill, Lines!Erase
<1> QED
  BY <1>6, <1>7, <1>8, <1>10

\* Any other character that fits: it is stored, and may complete the line.
LEMMA PutStep ==
    ASSUME IInv, NEW c \in Plain \cup {"newline", "eof"}, Fits(input), UNCHANGED ticks,
           LET e == Plus(input.e, 1)
           IN  /\ input' = [input EXCEPT !.buf[At(input.e)] = c, !.e = e,
                                         !.w = IF Completes(c, e) THEN e ELSE @]
               /\ proc' = IF Completes(c, e) THEN Wake(proc) ELSE proc
    PROVE  IInv' /\ Lines!Next
<1> USE DEF IInv
<1> DEFINE b == input.buf
           r == input.r
           w == input.w
           e == input.e
           bb == [b EXCEPT ![At(e)] = c]
           f == Plus(e, 1)
           full == c \in {"newline", "eof"} \/ f = Plus(r, INPUT_BUF)
<1>1. r \in Word /\ w \in Word /\ e \in Word /\ b \in Buf /\ c \in Chars
  BY InputType DEF Chars, Key
<1>2. /\ Minus(w, r) \in Nat /\ Minus(e, w) \in Nat /\ Minus(e, r) = Minus(w, r) + Minus(e, w)
      /\ Minus(w, r) + Minus(e, w) < INPUT_BUF
  BY Distances DEF Fits
<1>3. full <=> Completes(c, f)
  BY DEF Completes
<1>4. /\ input'.buf = bb /\ input'.r = r /\ input'.e = f /\ input'.w = IF full THEN f ELSE w
      /\ input' = [r |-> input'.r, w |-> input'.w, e |-> input'.e, buf |-> input'.buf]
      /\ proc' = IF full THEN Wake(proc) ELSE proc
  BY <1>3, InputType
<1>5. /\ Ring(input.r, input.w) = Stretch(b, r, w) /\ Ring(input.w, input.e) = Stretch(b, w, e)
      /\ Ring(input.r, input.w)' = Stretch(bb, r, input'.w)
      /\ Ring(input.w, input.e)' = Stretch(bb, input'.w, f)
  BY <1>4, RingIs, RingIsNext
<1> HIDE DEF b, r, w, e
<1>6. /\ bb \in Buf /\ f \in Word
      /\ Minus(f, w) = Minus(e, w) + 1 /\ Minus(f, r) = Minus(e, r) + 1
      /\ (f = Plus(r, INPUT_BUF) <=> Minus(e, r) + 1 = INPUT_BUF)
      /\ Stretch(bb, r, w) = Stretch(b, r, w)
      /\ Stretch(bb, w, f) = Append(Stretch(b, w, e), c)
      /\ Stretch(bb, r, f) = Stretch(b, r, w) \o Append(Stretch(b, w, e), c)
  <2> DEFINE m == Minus(w, r)
             n == Minus(e, w)
             k == Minus(e, r)
  <2>1. m \in Nat /\ n \in Nat /\ k = m + n /\ k < INPUT_BUF /\ INPUT_BUF \in Word
    BY <1>2, ConsoleAssumption DEF Word
  <2>2. bb \in Buf /\ \A i \in 0..INPUT_BUF - 1 : i # At(e) => bb[i] = b[i]
    BY <1>1 DEF Buf
  <2>3. m <= k /\ n < INPUT_BUF
    <3> HIDE DEF m, n, k
    <3> QED
      BY <2>1, ConsoleAssumption
  <2>4. Stretch(bb, r, w) = Stretch(b, r, w)
    <3> HIDE DEF bb
    <3> QED
      BY <1>1, <2>1, <2>2, <2>3, StretchKept
  <2>5. Stretch(bb, w, f) = Append(Stretch(b, w, e), c) /\ Minus(f, w) = n + 1 /\ f \in Word
    BY <1>1, <2>3, StretchAppend
  <2>6. Minus(f, r) = k + 1
    BY <1>1, <2>1, StretchAppend
  <2>7. f = Plus(r, INPUT_BUF) <=> k + 1 = INPUT_BUF
    <3>1. Plus(r, Minus(f, r)) = f /\ Minus(Plus(r, INPUT_BUF), r) = INPUT_BUF
      BY <1>1, <2>1, <2>5, ThereAndBack
    <3> QED
      BY <3>1, <2>6
  <2>8. m + Minus(f, w) < UintMod
    <3> HIDE DEF m, n, k, f
    <3> QED
      BY <2>1, <2>5, ConsoleAssumption
  <2> HIDE DEF bb, f
  <2>9. Stretch(bb, r, f) = Stretch(bb, r, w) \o Stretch(bb, w, f)
    BY <1>1, <2>2, <2>5, <2>8, StretchConcat
  <2> QED
    BY <2>2, <2>4, <2>5, <2>6, <2>7, <2>9
<1> HIDE DEF bb, f
<1>7. Stretch(bb, f, f) = <<>> /\ Minus(f, f) = 0
  BY <1>6, StretchEmpty
<1>8. /\ Stretch(b, w, e) \in Seq(Chars) /\ Len(Stretch(b, w, e)) = Minus(e, w)
      /\ Len(Stretch(b, r, w)) = Minus(w, r)
  <2>1. /\ Stretch(b, w, e) \in [1..Minus(e, w) -> Chars] /\ Len(Stretch(b, w, e)) = Minus(e, w)
        /\ Len(Stretch(b, r, w)) = Minus(w, r)
    BY <1>1, StretchType, Zenon
  <2> QED
    BY <1>2, <2>1
<1>9. TypeOK'
  <2>1. input' \in [r : Word, w : Word, e : Word, buf : Buf]
    BY <1>1, <1>4, <1>6
  <2>2. proc' \in [Process -> [pc : Labels, n : Nat, got : Nat, ticks0 : Nat, killed : BOOLEAN]]
    BY <1>4 DEF TypeOK, Wake, Labels
  <2> QED
    BY <2>1, <2>2 DEF TypeOK
<1>10. Room'
  <2>1. CASE full
    BY <1>2, <1>4, <1>6, <1>7, <2>1, ConsoleAssumption DEF Room
  <2>2. CASE ~full
    BY <1>2, <1>4, <1>6, <2>2, ConsoleAssumption DEF Room
  <2> QED
    BY <2>1, <2>2
<1>11. Asked'
  BY <1>4 DEF TypeOK, Asked, Wake
<1>12. NoMissedInput'
  BY <1>4 DEF TypeOK, NoMissedInput, Wake, r, w
<1>13. Lines!Type(c)
  <2> DEFINE q == Stretch(b, r, w)
             l == Append(Stretch(b, w, e), c)
  <2>1. Len(l) = Minus(e, w) + 1 /\ Len(q) = Minus(w, r)
    BY <1>1, <1>8
  <2>2. full <=> c \in {"newline", "eof"} \/ Len(q) + Len(l) = INPUT_BUF
    BY <2>1, <1>2, <1>6, ConsoleAssumption
  <2>3. Len(q) + Len(Stretch(b, w, e)) # INPUT_BUF
    BY <2>1, <1>2, <1>8, ConsoleAssumption
  <2> HIDE DEF full
  <2>4. /\ full => Ring(input.r, input.w)' = q \o l /\ Ring(input.w, input.e)' = <<>>
        /\ ~full => Ring(input.r, input.w)' = q /\ Ring(input.w, input.e)' = l
    <3>1. (full => input'.w = f) /\ (~full => input'.w = w)
      BY <1>4
    <3> QED
      BY <3>1, <1>5, <1>6, <1>7, Zenon
  <2> HIDE DEF q
  <2> QED
    BY <2>2, <2>3, <2>4, <1>5 DEF Lines!Type, Lines!Full, q
<1> QED
  BY <1>9, <1>10, <1>11, <1>12, <1>13 DEF Lines!Next

\* miniuartintr().
LEMMA KeyStep ==
    ASSUME IInv, NEW c \in Key, miniuartintr(c)
    PROVE  IInv' /\ [Lines!Next]_<<Ring(input.r, input.w), Ring(input.w, input.e)>>
<1>1. CASE UNCHANGED <<input, proc>>
  <2>1. UNCHANGED <<input, proc, ticks>>
    BY <1>1 DEF miniuartintr
  <2> QED
    BY <2>1 DEF IInv, TypeOK, Room, Asked, NoMissedInput, Ring, Char
<1>2. CASE \/ input' = [input EXCEPT !.e = input.w] /\ UNCHANGED proc
           \/ Erases(input) /\ input' = [input EXCEPT !.e = Minus(@, 1)] /\ UNCHANGED proc
  BY <1>2, EditStep DEF miniuartintr
<1>3. CASE /\ c \notin {"kill", "erase"} /\ Fits(input)
           /\ LET e == Plus(input.e, 1)
              IN  /\ input' = [input EXCEPT !.buf[At(input.e)] = c, !.e = e,
                                            !.w = IF Completes(c, e) THEN e ELSE @]
                  /\ proc' = IF Completes(c, e) THEN Wake(proc) ELSE proc
  <2>1. c \in Plain \cup {"newline", "eof"}
    BY <1>3 DEF Key
  <2> QED
    BY <2>1, <1>3, PutStep DEF miniuartintr
<1> QED
  BY <1>1, <1>2, <1>3 DEF miniuartintr, consoleintr

-------------------------------------------------------------------------------
(* A process reads                                                         *)

\* The number of characters that a read takes exists: the least at which its loop may end.
LEMMA TakenIs ==
    ASSUME TypeOK, NEW n \in Nat
    PROVE  /\ Taken(n) \in 0..n /\ Taken(n) <= Minus(input.w, input.r)
           /\ \A y \in 1..Taken(n) - 1 : ~Stops(y)
           /\ \/ Taken(n) = n
              \/ Taken(n) = Minus(input.w, input.r)
              \/ Taken(n) > 0 /\ Stops(Taken(n))
<1> DEFINE d == Minus(input.w, input.r)
           Ends(y) == y = n \/ y = d \/ (y > 0 /\ Stops(y))
           T == {y \in 0..n : y <= d /\ Ends(y)}
<1>1. d \in Nat
  BY InputType, MinusIs DEF Word
<1> HIDE DEF d
<1>2. T \in SUBSET Nat /\ T # {}
  <2>1. CASE n <= d
    BY <1>1, <2>1
  <2>2. CASE d <= n
    BY <1>1, <2>2
  <2> QED
    BY <1>1, <2>1, <2>2
<1> HIDE DEF T
<1>3. PICK x \in T : \A y \in T : x <= y
  BY <1>2, LeastNat, Zenon
<1>4. x \in 0..n /\ x <= d /\ Ends(x)
  BY DEF T
<1>5. ASSUME NEW y \in 1..x - 1 PROVE ~Stops(y)
  <2> SUFFICES ASSUME Stops(y) PROVE FALSE
    OBVIOUS
  <2>1. y \in 0..n /\ y <= d /\ Ends(y) /\ ~(x <= y)
    BY <1>1, <1>4
  <2> QED
    BY <1>3, <2>1 DEF T
<1>6. \E z \in 0..n : z <= d /\ (\A y \in 1..z - 1 : ~Stops(y)) /\ (z = n \/ z = d \/ (z > 0 /\ Stops(z)))
  BY <1>4, <1>5
<1>7. Taken(n) = CHOOSE z \in 0..n : z <= d /\ (\A y \in 1..z - 1 : ~Stops(y)) /\ (z = n \/ z = d \/ (z > 0 /\ Stops(z)))
  BY DEF Taken, d
<1>8. /\ Taken(n) \in 0..n /\ Taken(n) <= d
      /\ \A y \in 1..Taken(n) - 1 : ~Stops(y)
      /\ Taken(n) = n \/ Taken(n) = d \/ (Taken(n) > 0 /\ Stops(Taken(n)))
  BY <1>6, <1>7, Zenon
<1> QED
  BY <1>8 DEF d

\* Giving back the mark of the end of the file.
LEMMA GiveBack ==
    ASSUME NEW x \in Word, NEW n \in Word, NEW s \in {0, 1}, s <= n
    PROVE  Minus(Plus(x, n), s) = Plus(x, n - s)
<1> DEFINE z == Plus(x, n)
           k == n - s
<1>1. z = (IF x + n < UintMod THEN x + n ELSE x + n - UintMod) /\ z \in Word
  BY PlusIs
<1>2. k \in Word /\ s \in Word /\ k = n - s
  BY ConsoleAssumption DEF Word
<1> HIDE DEF z, k
<1>3. /\ Minus(z, s) = IF z >= s THEN z - s ELSE z - s + UintMod
      /\ Plus(x, k) = IF x + k < UintMod THEN x + k ELSE x + k - UintMod
  BY <1>1, <1>2, MinusIs, PlusIs, Zenon
<1>4. Minus(z, s) = Plus(x, k)
  BY <1>1, <1>2, <1>3, ConsoleAssumption DEF Word
<1> QED
  BY <1>4 DEF z, k

\* consoleread(), up to where it gives the lock away: what it leaves is the queue without what it
\* took, and if it goes to sleep there was nothing more.
LEMMA ReadStep ==
    ASSUME IInv, NEW p \in Process, consoleread(p), UNCHANGED ticks
    PROVE  IInv' /\ [Lines!Next]_<<Ring(input.r, input.w), Ring(input.w, input.e)>>
<1> USE DEF IInv
<1> DEFINE b == input.buf
           r == input.r
           w == input.w
           e == input.e
           q == Stretch(b, r, w)
           d == Minus(w, r)
           had == proc[p].got
           want == proc[p].n - had
           x == Taken(want)
           last == IF x = 0 THEN NoChar ELSE Char(Plus(r, x - 1))
           got == had + x - IF last = "eof" THEN 1 ELSE 0
           over == x = want \/ last \in {"newline", "eof"}
           s == SavesEof(last, got)
           k == x - s
<1>1. r \in Word /\ w \in Word /\ e \in Word /\ b \in Buf
  BY InputType
<1>2. had \in Nat /\ want \in Nat /\ had + want = proc[p].n
  BY DEF TypeOK, Asked, consoleread
<1>3. d \in Nat /\ d \in Word /\ Minus(e, w) \in Nat /\ d + Minus(e, w) <= INPUT_BUF /\ (w = r <=> d = 0)
  BY <1>1, Distances, MinusIs DEF Room
<1>4. /\ x \in 0..want /\ x <= d
      /\ \A y \in 1..x - 1 : ~Stops(y)
      /\ x = want \/ x = d \/ (x > 0 /\ Stops(x))
  <2> HIDE DEF want
  <2> QED
    BY <1>2, TakenIs
<1>5. /\ input' = [input EXCEPT !.r = Minus(Plus(@, x), s)]
      /\ proc' = [proc EXCEPT ![p] = IF over \/ @.killed THEN Return(p) ELSE [@ EXCEPT !.pc = "rsleep", !.got = got]]
  BY DEF consoleread
<1>6. /\ input'.r = Minus(Plus(r, x), s) /\ input'.w = w /\ input'.e = e /\ input'.buf = b
      /\ input' = [r |-> input'.r, w |-> w, e |-> e, buf |-> b]
  BY <1>5, InputType
<1>7. q \in Seq(Chars) /\ Len(q) = d /\ \A y \in 1..d : Stops(y) <=> q[y] \in {"newline", "eof"}
  <2>1. q \in [1..d -> Chars] /\ Len(q) = d
    BY <1>1, StretchType, Zenon
  <2> QED
    BY <1>3, <2>1 DEF Stops, Stretch, Char
<1>8. x > 0 => last = q[x]
  BY <1>3, <1>4 DEF Stretch, Char
<1>9. x = 0 => last = NoChar
  OBVIOUS
<1>10. /\ got = had + x - (IF last = "eof" THEN 1 ELSE 0)
       /\ s = IF last = "eof" /\ got > 0 THEN 1 ELSE 0
       /\ over <=> (x = want \/ last \in {"newline", "eof"})
  BY DEF SavesEof
<1>11. k = x - s
  OBVIOUS
<1> HIDE DEF b, r, w, e, q, d, had, want, x, last, got, over, s, k
<1>12. x \in Nat /\ (last = "eof" => x > 0) /\ got \in Nat /\ s \in {0, 1} /\ s <= x /\ k \in 0..d
  BY <1>2, <1>3, <1>4, <1>9, <1>10, <1>11 DEF NoChar
<1>13. input'.r = Plus(r, k)
  <2>1. x \in Word
    BY <1>3, <1>4, <1>12, ConsoleAssumption DEF Word
  <2> QED
    BY <1>1, <1>6, <1>11, <1>12, <2>1, GiveBack
<1>14. /\ Stretch(b, Plus(r, k), w) = SubSeq(q, k + 1, Len(q))
       /\ Minus(w, Plus(r, k)) = d - k /\ Plus(r, k) \in Word
  BY <1>1, <1>12, StretchDrop DEF q, d
<1>15. k = 0 => Plus(r, k) = r
  BY <1>1, PlusIs, ConsoleAssumption DEF Word
<1>16. k = d => Plus(r, k) = w
  BY <1>1, ThereAndBack DEF d
<1>17. ~over => k = d
  <2> SUFFICES ASSUME ~over PROVE k = d
    OBVIOUS
  <2>1. x # want /\ last \notin {"newline", "eof"} /\ s = 0
    BY <1>10
  <2>2. x = d
    BY <1>3, <1>4, <1>7, <1>8, <2>1
  <2> QED
    BY <1>3, <1>11, <2>1, <2>2
<1>18. TypeOK'
  <2>1. input' \in [r : Word, w : Word, e : Word, buf : Buf]
    BY <1>1, <1>6, <1>13, <1>14
  <2>2. proc' \in [Process -> [pc : Labels, n : Nat, got : Nat, ticks0 : Nat, killed : BOOLEAN]]
    BY <1>5, <1>12 DEF TypeOK, Return, Idle, Labels
  <2> QED
    BY <2>1, <2>2 DEF TypeOK
<1>19. Room'
  BY <1>3, <1>6, <1>12, <1>13, <1>14, ConsoleAssumption DEF Room
<1>20. Asked'
  <2>1. had = proc[p].got /\ got <= proc[p].n
    BY <1>2, <1>4, <1>10, <1>12 DEF had
  <2> QED
    BY <1>5, <2>1 DEF TypeOK, Asked, Return, Idle
<1>21. NoMissedInput'
  <2> SUFFICES ASSUME NEW z \in Process, proc'[z].pc = "rsleep" PROVE input'.r = w
    BY <1>6 DEF NoMissedInput
  <2>1. CASE z = p
    <3>1. ~over
      BY <1>5, <2>1 DEF TypeOK, Return, Idle
    <3> QED
      BY <3>1, <1>13, <1>16, <1>17
  <2>2. CASE z # p
    <3>1. proc[z].pc = "rsleep"
      BY <1>5, <2>2 DEF TypeOK
    <3>2. r = w
      BY <3>1 DEF NoMissedInput, r, w
    <3>3. k = 0 /\ k = d
      BY <3>2, <1>3, <1>12
    <3> QED
      BY <3>3, <1>13, <1>16
  <2> QED
    BY <2>1, <2>2
<1>22. /\ Ring(input.r, input.w) = q /\ Ring(input.w, input.e) = Stretch(b, w, e)
       /\ Ring(input.r, input.w)' = Stretch(b, Plus(r, k), w) /\ Ring(input.w, input.e)' = Stretch(b, w, e)
  BY <1>6, <1>13, RingIs, RingIsNext DEF b, r, w, e, q
<1>23. CASE k = 0
  BY <1>15, <1>18, <1>19, <1>20, <1>21, <1>22, <1>23 DEF q
<1>24. CASE k > 0
  <2>1. ASSUME NEW i \in 1..k, q[i] \in {"newline", "eof"} PROVE i = k /\ k = x
    <3>1. i \in 1..d /\ Stops(i)
      BY <1>3, <1>7, <1>12, <2>1
    <3>2. i \in 1..x
      BY <1>11, <1>12
    <3>3. ~(i \in 1..x - 1)
      BY <1>4, <3>1
    <3> QED
      BY <3>2, <3>3, <1>11, <1>12
  <2>2. ASSUME NEW i \in 1..k, q[i] = "eof" PROVE k = 1
    <3>1. i = k /\ k = x
      BY <2>1, <2>2
    <3>2. last = "eof" /\ s = 0
      BY <3>1, <2>2, <1>8, <1>11, <1>12, <1>24
    <3> QED
      BY <3>1, <3>2, <1>2, <1>10, <1>12, <1>24
  <2>3. /\ k \in 1..Len(q) /\ SubSeq(q, k + 1, Len(q)) = Ring(input.r, input.w)'
        /\ \A i \in 1..k : q[i] = "newline" => i = k
        /\ \A i \in 1..k : q[i] = "eof" => k = 1
    BY <2>1, <2>2, <1>7, <1>12, <1>14, <1>22, <1>24
  <2>4. Lines!Read
    BY <2>3, <1>22 DEF Lines!Read
  <2> QED
    BY <2>4, <1>18, <1>19, <1>20, <1>21 DEF Lines!Next
<1> QED
  BY <1>12, <1>23, <1>24

-------------------------------------------------------------------------------
(* The other steps leave the ring alone                                    *)

\* The beginning of a read, sleep() for ticks, the timer and kill(): none puts a reader to sleep.
LEMMA OtherStep ==
    ASSUME IInv,
           \/ timer3intr
           \/ \E p \in Process : sleep_test(p) \/ sleep_mark(p) \/ sys_sleep(p) \/ kill(p)
           \/ \E p \in Process : sys_read(p) /\ UNCHANGED ticks
    PROVE  IInv' /\ UNCHANGED <<Ring(input.r, input.w), Ring(input.w, input.e)>>
<1> USE DEF IInv
<1> DEFINE P == [pc : Labels, n : Nat, got : Nat, ticks0 : Nat, killed : BOOLEAN]
           Right(v) == v \in P /\ (v.pc \in {"read", "rsleep"} => v.got <= v.n)
           Good == /\ UNCHANGED input /\ ticks' \in Nat /\ proc' \in [Process -> P]
                   /\ \A p \in Process : Right(proc'[p]) /\ (proc'[p].pc = "rsleep" => proc[p].pc = "rsleep")
<1>1. proc \in [Process -> P] /\ ticks \in Nat /\ \A p \in Process : Right(proc[p])
  BY DEF TypeOK, Asked
<1>2. ASSUME NEW p \in Process, NEW v \in P, Right(v), v.pc # "rsleep", proc' = [proc EXCEPT ![p] = v],
             UNCHANGED <<input, ticks>>
      PROVE  Good
  BY <1>1, <1>2
<1>3. ASSUME timer3intr PROVE Good
  <2>1. ticks' \in Nat /\ UNCHANGED input
    BY <1>1, <1>3, TrapAssumption DEF timer3intr
  <2>2. ASSUME NEW p \in Process PROVE Right(proc'[p]) /\ (proc'[p].pc = "rsleep" => proc[p].pc = "rsleep")
    BY <1>1, <1>3 DEF timer3intr, WakeAll, Labels
  <2>3. proc' \in [Process -> P]
    BY <1>1, <1>3 DEF timer3intr, WakeAll, Labels
  <2> QED
    BY <2>1, <2>2, <2>3
<1>4. ASSUME NEW p \in Process, sleep_test(p) \/ sleep_mark(p) \/ sys_sleep(p) \/ kill(p)
                                \/ (sys_read(p) /\ UNCHANGED ticks)
      PROVE  Good
  <2> DEFINE u == proc[p]
  <2>1. /\ u \in P /\ u = [pc |-> u.pc, n |-> u.n, got |-> u.got, ticks0 |-> u.ticks0, killed |-> u.killed]
        /\ Right(u)
    BY <1>1
  <2>2. CASE sleep_test(p)
    <3> DEFINE v == IF ~TooEarly(p) \/ u.killed THEN Return(p) ELSE [u EXCEPT !.pc = "tosleep"]
    <3>1. v \in P /\ Right(v) /\ v.pc # "rsleep"
      BY <2>1 DEF Return, Idle, Labels
    <3>2. proc' = [proc EXCEPT ![p] = v] /\ UNCHANGED <<input, ticks>>
      BY <2>2 DEF sleep_test
    <3> QED
      BY <3>1, <3>2, <1>2
  <2>3. CASE sleep_mark(p)
    <3> DEFINE v == [u EXCEPT !.pc = "tsleep"]
    <3>1. v \in P /\ Right(v) /\ v.pc # "rsleep"
      BY <2>1 DEF Labels
    <3>2. proc' = [proc EXCEPT ![p] = v] /\ UNCHANGED <<input, ticks>>
      BY <2>3 DEF sleep_mark
    <3> QED
      BY <3>1, <3>2, <1>2
  <2>4. CASE sys_sleep(p)
    <3>1. PICK n \in SleepTimes : proc' = [proc EXCEPT ![p] = [@ EXCEPT !.pc = "test", !.n = n, !.ticks0 = ticks]]
      BY <2>4 DEF sys_sleep
    <3> DEFINE v == [u EXCEPT !.pc = "test", !.n = n, !.ticks0 = ticks]
    <3>2. v \in P /\ Right(v) /\ v.pc # "rsleep"
      <4> DEFINE a == [u EXCEPT !.pc = "test"]
                 c == [a EXCEPT !.n = n]
                 z == [c EXCEPT !.ticks0 = ticks]
      <4>1. a \in P /\ a.pc = "test"
        BY <2>1 DEF Labels
      <4> HIDE DEF a
      <4>2. c \in P /\ c.pc = "test"
        BY <4>1, TrapAssumption
      <4> HIDE DEF c
      <4>3. z \in P /\ z.pc = "test"
        BY <1>1, <4>2
      <4> HIDE DEF z
      <4>4. Right(z)
        BY <4>3
      <4> QED
        BY <4>3, <4>4 DEF a, c, z
    <3>3. proc' = [proc EXCEPT ![p] = v] /\ UNCHANGED <<input, ticks>>
      BY <1>1, <2>1, <2>4, <3>1 DEF sys_sleep
    <3> QED
      BY <3>2, <3>3, <1>2
  <2>5. CASE kill(p)
    <3> DEFINE c == Runnable(u.pc)
               v == [u EXCEPT !.killed = TRUE, !.pc = c]
    <3>1. c \in Labels /\ c # "rsleep" /\ (c = "read" => u.pc \in {"read", "rsleep"})
      BY <2>1 DEF Labels, Runnable
    <3>2. v \in P /\ Right(v) /\ v.pc # "rsleep"
      BY <2>1, <3>1
    <3>3. proc' = [proc EXCEPT ![p] = v] /\ UNCHANGED <<input, ticks>>
      BY <1>1, <2>1, <2>5 DEF kill
    <3> QED
      BY <3>2, <3>3, <1>2
  <2>6. CASE sys_read(p) /\ UNCHANGED ticks
    <3>1. PICK n \in ReadSizes : proc' = [proc EXCEPT ![p] = [@ EXCEPT !.pc = "read", !.n = n, !.got = 0]]
      BY <2>6 DEF sys_read
    <3> DEFINE v == [u EXCEPT !.pc = "read", !.n = n, !.got = 0]
    <3>2. v \in P /\ Right(v) /\ v.pc # "rsleep"
      <4> DEFINE a == [u EXCEPT !.pc = "read"]
                 c == [a EXCEPT !.n = n]
                 z == [c EXCEPT !.got = 0]
      <4>1. a \in P /\ a.pc = "read"
        BY <2>1 DEF Labels
      <4> HIDE DEF a
      <4>2. c \in P /\ c.pc = "read"
        BY <4>1, ConsoleAssumption
      <4> HIDE DEF c
      <4>3. z \in P /\ z.pc = "read" /\ z.got = 0
        BY <1>1, <4>2
      <4> HIDE DEF z
      <4>4. Right(z)
        BY <4>3
      <4> QED
        BY <4>3, <4>4 DEF a, c, z
    <3>3. proc' = [proc EXCEPT ![p] = v] /\ UNCHANGED <<input, ticks>>
      BY <1>1, <2>1, <2>6, <3>1 DEF sys_read
    <3> QED
      BY <3>2, <3>3, <1>2
  <2> QED
    BY <1>4, <2>2, <2>3, <2>4, <2>5, <2>6
<1>5. Good
  BY <1>3, <1>4
<1>6. TypeOK' /\ Room' /\ Asked' /\ NoMissedInput'
  BY <1>5 DEF TypeOK, Room, Asked, NoMissedInput
<1>7. UNCHANGED <<Ring(input.r, input.w), Ring(input.w, input.e)>>
  BY <1>5 DEF Ring, Char
<1> QED
  BY <1>6, <1>7

LEMMA NextStep ==
    ASSUME IInv, [Next]_vars
    PROVE  IInv' /\ [Lines!Next]_<<Ring(input.r, input.w), Ring(input.w, input.e)>>
<1>1. CASE UNCHANGED vars
  BY <1>1 DEF vars, IInv, TypeOK, Room, Asked, NoMissedInput, Ring, Char
<1>2. CASE \E p \in Process : consoleread(p) /\ UNCHANGED ticks
  BY <1>2, ReadStep
<1>3. CASE \E c \in Key : miniuartintr(c)
  BY <1>3, KeyStep
<1>4. CASE \/ timer3intr
           \/ \E p \in Process : sleep_test(p) \/ sleep_mark(p) \/ sys_sleep(p) \/ kill(p)
           \/ \E p \in Process : sys_read(p) /\ UNCHANGED ticks
  BY <1>4, OtherStep
<1> QED
  BY <1>1, <1>2, <1>3, <1>4 DEF Next, Run, irq_handler

-------------------------------------------------------------------------------

\* The indices stay words, and the complete lines and the line being edited never need more than the buffer.
THEOREM RingFits == Spec => []IInv
<1>1. Init => IInv
  BY InitIInv
<1>2. IInv /\ [Next]_vars => IInv'
  BY NextStep
<1> QED
  BY <1>1, <1>2, PTL DEF Spec

\* A reader sleeps only while there is nothing complete to read (console.c:357, 384): for any number of readers,
\* whatever is typed, and across the overflow of the indices.
THEOREM NoReaderMissesInput == Spec => []NoMissedInput
<1>1. IInv => NoMissedInput
  BY DEF IInv
<1> QED
  BY <1>1, RingFits, PTL

\* The ring buffer and its indices, counted modulo a word that is a multiple of its size, are a queue of
\* complete lines and a line being edited (console.c:319-404).
THEOREM ConsoleIsLineQueue == Spec => ImplementsLineQueue
<1>1. Init => Lines!Init
  BY InitIInv
<1>2. IInv /\ [Next]_vars => [Lines!Next]_<<Ring(input.r, input.w), Ring(input.w, input.e)>>
  BY NextStep
<1> QED
  BY <1>1, <1>2, RingFits, PTL DEF Spec, ImplementsLineQueue, Lines!Spec
===============================================================================
