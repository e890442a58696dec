----------------------------- MODULE BcacheProofs -----------------------------
(***************************************************************************)
(* For any number of processes, buffers and sectors, and whatever the      *)
(* callers hold: a buffer has one holder and a sector one buffer, a        *)
(* process sleeps only for a buffer that is held, the cache is             *)
(* transparent, and bget() panics only when every buffer is held or        *)
(* pinned.  IInv adds to HeldAlone and CleanIsOnDisk what a process in     *)
(* bget() knows of the buffer it sleeps on.                                *)
(***************************************************************************)
EXTENDS Bcache, TLAPS

\* A process sleeps on the busy buffer of the sector it wants.
Sleepers ==
    \A p \in Process :
        chan[p] # NoBuf =>
            /\ want[p] # NoSector
            /\ sector[chan[p]] = want[p]
            /\ Busy(chan[p])

\* What has been read or pinned is the block of some sector.
Filled == \A b \in Buf : Valid(b) => sector[b] \in Sector

IInv == TypeOK /\ HeldAlone /\ CleanIsOnDisk /\ Sleepers /\ Filled

-------------------------------------------------------------------------------
(* Lemmas                                                                  *)

\* A process that has a buffer (bread() returned it) asked for the sector that the buffer has.
LEMMA HasSector ==
    ASSUME IInv, NEW p \in Process, NEW b \in Buf, Has(p, b)
    PROVE  sector[b] \in Sector /\ <<b, sector[b]>> \in held[p] /\ Busy(b)
<1>1. PICK s \in Sector : <<b, s>> \in held[p]
  BY DEF Has
<1>2. <<b, s>>[1] = b /\ <<b, s>>[2] = s
  OBVIOUS
<1>3. sector[b] = s
  BY <1>1, <1>2 DEF IInv, HeldAlone
<1> QED
  BY <1>1, <1>3 DEF IInv, HeldAlone

\* bread() returns the data of the valid buffer of a sector, if there is one.
LEMMA ContentsCached ==
    ASSUME IInv, NEW b \in Buf, Valid(b), sector[b] \in Sector
    PROVE  Contents[sector[b]] = data[b]
<1> DEFINE c == CHOOSE c \in Buf : sector[c] = sector[b] /\ Valid(c)
<1>1. c \in Buf /\ sector[c] = sector[b] /\ Valid(c)
  OBVIOUS
<1>2. sector[b] # NoSector
  BY BcacheAssumption
<1>3. c = b
  BY <1>1, <1>2 DEF IInv, HeldAlone, OneBufferPerSector
<1>4. Contents[sector[b]] = data[c]
  BY DEF Contents
<1> QED
  BY <1>3, <1>4

\* bread() returns what is on the disk otherwise.
LEMMA ContentsOnDisk ==
    ASSUME NEW s \in Sector, ~ \E b \in Buf : sector[b] = s /\ Valid(b)
    PROVE  Contents[s] = disk[s]
BY DEF Contents

\* A step that leaves the buffers and their holders alone.
LEMMA BuffersAlone ==
    ASSUME IInv, UNCHANGED <<sector, flags, data, disk, held>>
    PROVE  HeldAlone' /\ CleanIsOnDisk' /\ Filled' /\ Contents' = Contents
<1>1. \A b \in Buf : (Busy(b)' <=> Busy(b)) /\ (Valid(b)' <=> Valid(b)) /\ (Dirty(b)' <=> Dirty(b))
  BY Zenon DEF Busy, Valid, Dirty
<1>2. \A p \in Process, b \in Buf : Has(p, b)' <=> Has(p, b)
  BY Zenon DEF Has
<1>3. HeldAlone'
  <2>1. OneBufferPerSector'
    BY Zenon DEF IInv, HeldAlone, OneBufferPerSector
  <2>2. \A b \in Buf : Busy(b)' <=> \E p \in Process : Has(p, b)'
    BY <1>1, <1>2, Zenon DEF IInv, HeldAlone
  <2>3. \A p, q \in Process : \A h \in held'[p] : Has(q, h[1])' => p = q
    BY Zenon DEF IInv, HeldAlone, Has
  <2>4. \A p \in Process : \A h \in held'[p] : sector'[h[1]] = h[2]
    BY Zenon DEF IInv, HeldAlone
  <2> QED
    BY <2>1, <2>2, <2>3, <2>4 DEF HeldAlone
<1>4. CleanIsOnDisk' /\ Filled'
  BY <1>1 DEF IInv, CleanIsOnDisk, Filled
<1>5. Contents' = Contents
  BY DEF Contents, Valid
<1> QED
  BY <1>3, <1>4, <1>5

\* The initial state of binit().
LEMMA InitIInv == Init => IInv
<1> SUFFICES ASSUME Init PROVE IInv
  OBVIOUS
<1>1. TypeOK
  BY DEF Init, TypeOK
<1>2. HeldAlone
  BY DEF Init, HeldAlone, OneBufferPerSector, Busy, Has
<1>3. CleanIsOnDisk /\ Sleepers /\ Filled
  BY DEF Init, CleanIsOnDisk, Sleepers, Filled, Valid
<1> QED
  BY <1>1, <1>2, <1>3 DEF IInv

-------------------------------------------------------------------------------
(* The invariant, one lemma per action                                     *)

\* A call of bread().
LEMMA BreadStep ==
    ASSUME IInv, panic' \in BOOLEAN, NEW p \in Process, NEW s \in Sector, bread(p, s)
    PROVE  IInv' /\ Contents' = Contents
<1> USE DEF buffers
<1>1. TypeOK'
  BY DEF bread, IInv, TypeOK
<1>2. HeldAlone' /\ CleanIsOnDisk' /\ Filled' /\ Contents' = Contents
  BY BuffersAlone DEF bread
<1>3. chan[p] = NoBuf
  BY DEF bread, IInv, Sleepers
<1>4. Sleepers'
  BY <1>3 DEF bread, IInv, TypeOK, Sleepers, Busy
<1> QED
  BY <1>1, <1>2, <1>4 DEF IInv

\* bget() finds the buffer of the sector, and it is not busy.
LEMMA HitStep ==
    ASSUME IInv, panic' \in BOOLEAN, NEW p \in Process, bget_hit(p)
    PROVE  IInv' /\ Contents' = Contents
<1> DEFINE s == want[p]
<1>1. PICK b \in Buf : /\ sector[b] = s /\ ~Busy(b)
                       /\ flags' = [flags EXCEPT ![b] = @ \cup {"B_BUSY"}]
                       /\ held' = [held EXCEPT ![p] = @ \cup {<<b, s>>}]
                       /\ want' = [want EXCEPT ![p] = NoSector]
  BY DEF bget_hit, Cached, Take
<1>2. s \in Sector /\ chan[p] = NoBuf /\ UNCHANGED <<head, sector, data, disk, chan>>
  BY DEF bget_hit, IInv, TypeOK
<1> HIDE DEF s
<1>3. TypeOK'
  BY <1>1, <1>2 DEF IInv, TypeOK
<1>4. /\ \A c \in Buf : (Valid(c)' <=> Valid(c)) /\ (Dirty(c)' <=> Dirty(c))
      /\ \A c \in Buf : Busy(c)' <=> Busy(c) \/ c = b
  BY <1>1 DEF IInv, TypeOK, Valid, Dirty, Busy
<1>5. \A q \in Process, c \in Buf : Has(q, c)' <=> Has(q, c) \/ (q = p /\ c = b)
  BY <1>1, <1>2 DEF Has, IInv, TypeOK
<1>6. HeldAlone'
  <2>1. OneBufferPerSector'
    BY <1>2 DEF IInv, HeldAlone, OneBufferPerSector
  <2>2. \A c \in Buf : Busy(c)' <=> \E q \in Process : Has(q, c)'
    BY <1>4, <1>5 DEF IInv, HeldAlone
  <2>3. \A q \in Process : ~Has(q, b)
    BY <1>1 DEF IInv, HeldAlone
  <2>4. \A q \in Process : \A h \in held'[q] : h \in held[q] \/ (q = p /\ h = <<b, s>>)
    BY <1>1 DEF IInv, TypeOK
  <2>5. \A q \in Process : \A h \in held[q] : h[1] \in Buf
    BY DEF IInv, TypeOK
  <2>6. ASSUME NEW q \in Process, NEW r \in Process, NEW h \in held'[q], Has(r, h[1])'
        PROVE  q = r
    <3>1. CASE h \in held[q]
      <4>1. PICK c \in Buf, t \in Sector : h = <<c, t>>
        BY <3>1 DEF IInv, TypeOK
      <4>2. h[1] # b
        BY <4>1, <3>1, <2>3 DEF Has
      <4>3. Has(r, h[1])
        BY <2>6, <1>5, <4>2, <2>5, <3>1
      <4> QED
        BY <4>3, <3>1 DEF IInv, HeldAlone
    <3>2. CASE q = p /\ h = <<b, s>>
      BY <3>2, <2>6, <1>5, <2>3
    <3> QED
      BY <2>4, <3>1, <3>2
  <2>7. \A q \in Process : \A h \in held'[q] : sector'[h[1]] = h[2]
    BY <2>4, <1>1, <1>2 DEF IInv, HeldAlone
  <2> QED
    BY <2>1, <2>2, <2>6, <2>7 DEF HeldAlone
<1>7. CleanIsOnDisk' /\ Filled'
  BY <1>4, <1>2 DEF IInv, CleanIsOnDisk, Filled
<1>8. Sleepers'
  BY <1>1, <1>2, <1>4 DEF IInv, TypeOK, Sleepers
<1>10. Contents' = Contents
  BY <1>4, <1>2 DEF Contents
<1> QED
  BY <1>3, <1>6, <1>7, <1>8, <1>10 DEF IInv

\* bget() finds the buffer of the sector busy.
LEMMA SleepStep ==
    ASSUME IInv, panic' \in BOOLEAN, NEW p \in Process, bget_sleep(p)
    PROVE  IInv' /\ Contents' = Contents
<1>1. PICK b \in Buf : sector[b] = want[p] /\ Busy(b) /\ chan' = [chan EXCEPT ![p] = b]
  BY DEF bget_sleep, Cached
<1>2. want[p] # NoSector /\ UNCHANGED <<head, sector, flags, data, disk, want, held>>
  BY DEF bget_sleep, buffers
<1>3. TypeOK'
  BY <1>1, <1>2 DEF IInv, TypeOK
<1>4. HeldAlone' /\ CleanIsOnDisk' /\ Filled' /\ Contents' = Contents
  BY <1>2, BuffersAlone
<1>5. Sleepers'
  BY <1>1, <1>2 DEF IInv, TypeOK, Sleepers, Busy
<1> QED
  BY <1>3, <1>4, <1>5 DEF IInv

\* bget() gives a buffer that is neither busy nor pinned to another sector.
LEMMA RecycleStep ==
    ASSUME IInv, panic' \in BOOLEAN, NEW p \in Process, bget_recycle(p)
    PROVE  IInv' /\ \A t \in Sector : Contents'[t] = Contents[t]
<1> DEFINE s == want[p]
<1>1. PICK b \in Buf : /\ ~Busy(b) /\ ~Dirty(b)
                       /\ sector' = [sector EXCEPT ![b] = s]
                       /\ flags' = [flags EXCEPT ![b] = {"B_BUSY"}]
                       /\ held' = [held EXCEPT ![p] = @ \cup {<<b, s>>}]
                       /\ want' = [want EXCEPT ![p] = NoSector]
  BY DEF bget_recycle, Recyclable, Take
<1>2. s \in Sector /\ chan[p] = NoBuf /\ UNCHANGED <<head, data, disk, chan>>
  BY DEF bget_recycle, IInv, TypeOK
<1>3. \A c \in Buf : sector[c] # s
  BY DEF bget_recycle, Cached
<1> HIDE DEF s
<1>4. TypeOK'
  BY <1>1, <1>2 DEF IInv, TypeOK
<1>5. /\ \A c \in Buf \ {b} : (Valid(c)' <=> Valid(c)) /\ (Dirty(c)' <=> Dirty(c)) /\ (Busy(c)' <=> Busy(c))
      /\ ~Valid(b)' /\ ~Dirty(b)' /\ Busy(b)'
  BY <1>1 DEF IInv, TypeOK, Valid, Dirty, Busy
<1>6. \A q \in Process, c \in Buf : Has(q, c)' <=> Has(q, c) \/ (q = p /\ c = b)
  BY <1>1, <1>2 DEF Has, IInv, TypeOK
<1>7. sector'[b] = s /\ \A c \in Buf \ {b} : sector'[c] = sector[c]
  BY <1>1 DEF IInv, TypeOK
<1>8. \A q \in Process : ~Has(q, b)
  BY <1>1 DEF IInv, HeldAlone
<1>9. HeldAlone'
  <2>1. OneBufferPerSector'
    BY <1>7, <1>3 DEF IInv, HeldAlone, OneBufferPerSector
  <2>2. \A c \in Buf : Busy(c)' <=> \E q \in Process : Has(q, c)'
    BY <1>5, <1>6 DEF IInv, HeldAlone
  <2>4. \A q \in Process : \A h \in held'[q] : h \in held[q] \/ (q = p /\ h = <<b, s>>)
    BY <1>1 DEF IInv, TypeOK
  <2>5. \A q \in Process : \A h \in held[q] : h[1] \in Buf /\ Has(q, h[1]) /\ h[1] # b
    <3> TAKE q \in Process
    <3> TAKE h \in held[q]
    <3>1. PICK c \in Buf, t \in Sector : h = <<c, t>>
      BY DEF IInv, TypeOK
    <3>2. Has(q, c)
      BY <3>1 DEF Has
    <3> QED
      BY <3>1, <3>2, <1>8
  <2>6. ASSUME NEW q \in Process, NEW r \in Process, NEW h \in held'[q], Has(r, h[1])'
        PROVE  q = r
    <3>1. CASE h \in held[q]
      <4>1. Has(r, h[1])
        BY <2>6, <1>6, <2>5, <3>1
      <4> QED
        BY <4>1, <3>1 DEF IInv, HeldAlone
    <3>2. CASE q = p /\ h = <<b, s>>
      BY <3>2, <2>6, <1>6, <1>8
    <3> QED
      BY <2>4, <3>1, <3>2
  <2>7. ASSUME NEW q \in Process, NEW h \in held'[q]
        PROVE  sector'[h[1]] = h[2]
    <3>1. CASE h \in held[q]
      BY <3>1, <2>5, <1>7 DEF IInv, HeldAlone
    <3>2. CASE h = <<b, s>>
      BY <3>2, <1>7
    <3> QED
      BY <2>4, <3>1, <3>2
  <2> QED
    BY <2>1, <2>2, <2>6, <2>7 DEF HeldAlone
<1>10. CleanIsOnDisk' /\ Filled'
  BY <1>5, <1>7, <1>2 DEF IInv, CleanIsOnDisk, Filled
<1>11. Sleepers'
  BY <1>1, <1>2, <1>5, <1>7 DEF IInv, TypeOK, Sleepers
<1>13. ASSUME NEW t \in Sector PROVE Contents'[t] = Contents[t]
  <2>1. CASE \E c \in Buf \ {b} : sector[c] = t /\ Valid(c)
    <3>1. PICK c \in Buf \ {b} : sector[c] = t /\ Valid(c)
      BY <2>1
    <3>2. Contents[t] = data[c]
      BY <3>1, ContentsCached
    <3>3. \A d \in Buf : sector'[d] = t /\ Valid(d)' <=> d = c
      BY <3>1, <1>3, <1>5, <1>7, BcacheAssumption DEF IInv, HeldAlone, OneBufferPerSector
    <3>4. Contents'[t] = data'[c]
      BY <3>3, Zenon DEF Contents
    <3> QED
      BY <3>2, <3>4, <1>2
  <2>2. CASE ~ \E c \in Buf \ {b} : sector[c] = t /\ Valid(c)
    <3>1. ~ \E c \in Buf : sector'[c] = t /\ Valid(c)'
      BY <2>2, <1>5, <1>7
    <3>2. Contents'[t] = disk'[t]
      BY <3>1, Zenon DEF Contents
    <3>3. Contents[t] = disk[t]
      <4>1. CASE sector[b] = t /\ Valid(b)
        BY <4>1, ContentsCached, <1>1 DEF IInv, CleanIsOnDisk
      <4>2. CASE ~(sector[b] = t /\ Valid(b))
        BY <4>2, <2>2, ContentsOnDisk
      <4> QED
        BY <4>1, <4>2
    <3> QED
      BY <3>2, <3>3, <1>2
  <2> QED
    BY <2>1, <2>2
<1> QED
  BY <1>4, <1>9, <1>10, <1>11, <1>13 DEF IInv

\* What the holder does to a buffer it has leaves the other buffers as they are.
LEMMA HolderStep ==
    ASSUME IInv, panic' \in BOOLEAN, NEW p \in Process, NEW b \in Buf, Has(p, b),
           UNCHANGED <<head, sector, want, chan, held>>,
           NEW d \in Value, data' = [data EXCEPT ![b] = d],
           disk' = disk \/ disk' = [disk EXCEPT ![sector[b]] = d],
           NEW F \in SUBSET {"B_BUSY", "B_VALID", "B_DIRTY"},
           "B_BUSY" \in F, "B_VALID" \in F, flags' = [flags EXCEPT ![b] = F],
           "B_DIRTY" \in F \/ disk'[sector[b]] = d
    PROVE  IInv' /\ \A t \in Sector \ {sector[b]} : Contents'[t] = Contents[t]
<1>1. sector[b] \in Sector /\ Busy(b)
  BY HasSector
<1>2. TypeOK'
  BY <1>1 DEF IInv, TypeOK
<1>3. /\ \A c \in Buf \ {b} : (Valid(c)' <=> Valid(c)) /\ (Dirty(c)' <=> Dirty(c)) /\ data'[c] = data[c]
      /\ \A c \in Buf : Busy(c)' <=> Busy(c)
      /\ Valid(b)' /\ data'[b] = d /\ (Dirty(b)' \/ disk'[sector[b]] = d)
  BY <1>1 DEF IInv, TypeOK, Valid, Dirty, Busy
<1>4. \A t \in Sector \ {sector[b]} : disk'[t] = disk[t]
  BY <1>1 DEF IInv, TypeOK
<1>5. \A c \in Buf \ {b} : sector[c] # sector[b]
  BY <1>1, BcacheAssumption DEF IInv, HeldAlone, OneBufferPerSector
<1>6. HeldAlone'
  BY <1>3 DEF IInv, HeldAlone, OneBufferPerSector, Has
<1>7. Filled' /\ Sleepers'
  <2>1. Filled'
    BY <1>1, <1>3 DEF IInv, Filled
  <2>2. Sleepers'
    BY <1>3 DEF IInv, TypeOK, Sleepers
  <2> QED
    BY <2>1, <2>2
<1>8. CleanIsOnDisk'
  <2> SUFFICES ASSUME NEW c \in Buf, Valid(c)', ~Dirty(c)' PROVE data'[c] = disk'[sector[c]]
    BY DEF CleanIsOnDisk
  <2>1. CASE c = b
    BY <2>1, <1>3
  <2>2. CASE c # b
    BY <2>2, <1>3, <1>4, <1>5 DEF IInv, CleanIsOnDisk, Filled
  <2> QED
    BY <2>1, <2>2
<1>9. ASSUME NEW t \in Sector \ {sector[b]} PROVE Contents'[t] = Contents[t]
  <2>1. \A c \in Buf : sector[c] = t => c # b /\ data'[c] = data[c] /\ (Valid(c)' <=> Valid(c))
    BY <1>3
  <2>2. CASE \E c \in Buf : sector[c] = t /\ Valid(c)
    <3>1. PICK c \in Buf : sector[c] = t /\ Valid(c)
      BY <2>2
    <3>2. Contents[t] = data[c]
      BY <3>1, ContentsCached
    <3>3. \A e \in Buf : sector'[e] = t /\ Valid(e)' <=> e = c
      BY <3>1, <2>1, BcacheAssumption DEF IInv, HeldAlone, OneBufferPerSector
    <3>4. Contents'[t] = data'[c]
      BY <3>3, Zenon DEF Contents
    <3> QED
      BY <3>1, <3>2, <3>4, <2>1
  <2>3. CASE ~ \E c \in Buf : sector[c] = t /\ Valid(c)
    <3>1. ~ \E c \in Buf : sector'[c] = t /\ Valid(c)'
      BY <2>3, <2>1
    <3>2. Contents'[t] = disk'[t]
      BY <3>1, Zenon DEF Contents
    <3> QED
      BY <3>2, <2>3, <1>4, ContentsOnDisk
  <2> QED
    BY <2>2, <2>3
<1> QED
  BY <1>2, <1>6, <1>7, <1>8, <1>9 DEF IInv

\* bread() fills a buffer: its block is then in the cache as it was on the disk.
LEMMA IderwStep ==
    ASSUME IInv, panic' \in BOOLEAN, NEW p \in Process, NEW b \in Buf, iderw(p, b)
    PROVE  IInv' /\ \A t \in Sector : Contents'[t] = Contents[t]
<1> DEFINE F == flags[b] \cup {"B_VALID"}
<1> DEFINE d == disk[sector[b]]
<1>1. Has(p, b) /\ ~Valid(b)
  BY DEF iderw
<1>2. sector[b] \in Sector /\ Busy(b)
  BY <1>1, HasSector
<1>3. /\ F \in SUBSET {"B_BUSY", "B_VALID", "B_DIRTY"} /\ "B_BUSY" \in F /\ "B_VALID" \in F
      /\ d \in Value
  BY <1>2 DEF IInv, TypeOK, Busy
<1>4. /\ UNCHANGED <<head, sector, disk, want, chan, held>>
      /\ data' = [data EXCEPT ![b] = d] /\ flags' = [flags EXCEPT ![b] = F]
  BY DEF iderw, IInv, TypeOK
<1>5. disk'[sector[b]] = d
  BY <1>4
<1> HIDE DEF F, d
<1>6. IInv' /\ \A t \in Sector \ {sector[b]} : Contents'[t] = Contents[t]
  BY <1>1, <1>3, <1>4, <1>5, HolderStep
<1>7. Contents[sector[b]] = disk[sector[b]]
  <2>1. ~ \E c \in Buf : sector[c] = sector[b] /\ Valid(c)
    BY <1>1, <1>2, BcacheAssumption DEF IInv, HeldAlone, OneBufferPerSector
  <2> QED
    BY <2>1, <1>2, ContentsOnDisk
<1>8. Contents'[sector[b]] = d
  <2>1. \A e \in Buf : sector'[e] = sector[b] /\ Valid(e)' <=> e = b
    BY <1>2, <1>3, <1>4, BcacheAssumption DEF IInv, TypeOK, HeldAlone, OneBufferPerSector, Valid
  <2>2. Contents'[sector[b]] = data'[b]
    BY <2>1, <1>2, Zenon DEF Contents
  <2> QED
    BY <2>2, <1>4 DEF IInv, TypeOK
<1> QED
  BY <1>6, <1>7, <1>8, <1>2 DEF d

\* bwrite() and log_write() change the block of a buffer that p holds.
LEMMA WriteStep ==
    ASSUME IInv, panic' \in BOOLEAN, NEW p \in Process, NEW b \in Buf, NEW v \in Value,
           bwrite(p, b, v) \/ log_write(p, b, v)
    PROVE  /\ IInv' /\ held' = held
           /\ \A t \in Sector : Contents'[t] # Contents[t] => <<b, t>> \in held[p]
<1>1. Has(p, b) /\ UNCHANGED <<head, sector, want, chan, held>>
  BY DEF bwrite, log_write
<1>2. sector[b] \in Sector /\ Busy(b) /\ <<b, sector[b]>> \in held[p]
  BY <1>1, HasSector
<1>3. IInv' /\ \A t \in Sector \ {sector[b]} : Contents'[t] = Contents[t]
  <2>1. CASE bwrite(p, b, v)
    <3> DEFINE F == (flags[b] \ {"B_DIRTY"}) \cup {"B_VALID"}
    <3>1. /\ F \in SUBSET {"B_BUSY", "B_VALID", "B_DIRTY"} /\ "B_BUSY" \in F /\ "B_VALID" \in F
          /\ flags' = [flags EXCEPT ![b] = F] /\ data' = [data EXCEPT ![b] = v]
          /\ disk' = [disk EXCEPT ![sector[b]] = v]
      BY <2>1, <1>2 DEF bwrite, Written, IInv, TypeOK, Busy
    <3>2. disk'[sector[b]] = v
      BY <3>1, <1>2 DEF IInv, TypeOK
    <3> HIDE DEF F
    <3> QED
      BY <3>1, <3>2, <1>1, HolderStep
  <2>2. CASE log_write(p, b, v)
    <3> DEFINE F == flags[b] \cup {"B_DIRTY"}
    <3>1. /\ F \in SUBSET {"B_BUSY", "B_VALID", "B_DIRTY"}
          /\ "B_BUSY" \in F /\ "B_VALID" \in F /\ "B_DIRTY" \in F
          /\ flags' = [flags EXCEPT ![b] = F] /\ data' = [data EXCEPT ![b] = v]
          /\ disk' = disk
      BY <2>2, <1>2 DEF log_write, IInv, TypeOK, Busy, Valid
    <3> HIDE DEF F
    <3> QED
      BY <3>1, <1>1, HolderStep
  <2> QED
    BY <2>1, <2>2
<1> QED
  BY <1>1, <1>2, <1>3

\* brelse() gives a buffer up and wakes those who sleep on it.
LEMMA BrelseStep ==
    ASSUME IInv, panic' \in BOOLEAN, NEW p \in Process, NEW b \in Buf, brelse(p, b)
    PROVE  IInv' /\ Contents' = Contents
<1>1. /\ want[p] = NoSector /\ Has(p, b)
      /\ flags' = [flags EXCEPT ![b] = @ \ {"B_BUSY"}]
      /\ chan' = [q \in Process |-> IF chan[q] = b THEN NoBuf ELSE chan[q]]
      /\ held' = [held EXCEPT ![p] = {h \in @ : h[1] # b}]
      /\ UNCHANGED <<sector, data, disk, want>>
  BY DEF brelse, ClearBusy, wakeup
<1>2. TypeOK'
  BY <1>1 DEF IInv, TypeOK
<1>3. /\ \A c \in Buf : (Valid(c)' <=> Valid(c)) /\ (Dirty(c)' <=> Dirty(c))
      /\ \A c \in Buf : Busy(c)' <=> Busy(c) /\ c # b
  BY <1>1 DEF IInv, TypeOK, Valid, Dirty, Busy
<1>4. \A q \in Process : held'[q] = {h \in held[q] : q = p => h[1] # b}
  BY <1>1 DEF IInv, TypeOK
<1>5. \A q \in Process \ {p} : ~Has(q, b)
  <2>1. <<b, sector[b]>> \in held[p]
    BY <1>1, HasSector
  <2> QED
    BY <2>1 DEF IInv, HeldAlone
<1>6. \A q \in Process, c \in Buf : Has(q, c)' <=> Has(q, c) /\ c # b
  <2> TAKE q \in Process, c \in Buf
  <2>1. ASSUME NEW s \in Sector PROVE <<c, s>> \in held'[q] <=> <<c, s>> \in held[q] /\ (q = p => c # b)
    <3>1. held'[q] = {h \in held[q] : q = p => h[1] # b} /\ <<c, s>>[1] = c
      BY <1>4
    <3> QED
      BY <3>1, Zenon
  <2> QED
    BY <2>1, <1>5 DEF Has
<1>7. HeldAlone'
  <2>1. OneBufferPerSector' /\ \A c \in Buf : Busy(c)' <=> \E q \in Process : Has(q, c)'
    BY <1>1, <1>3, <1>6 DEF IInv, HeldAlone, OneBufferPerSector
  <2>2. \A q \in Process : \A h \in held'[q] : h \in held[q] /\ h[1] \in Buf
    BY <1>4 DEF IInv, TypeOK
  <2>3. \A q, r \in Process : \A h \in held'[q] : Has(r, h[1])' => q = r
    BY <2>2, <1>6 DEF IInv, HeldAlone
  <2>4. \A q \in Process : \A h \in held'[q] : sector'[h[1]] = h[2]
    BY <2>2, <1>1 DEF IInv, HeldAlone
  <2> QED
    BY <2>1, <2>3, <2>4 DEF HeldAlone
<1>8. CleanIsOnDisk' /\ Filled'
  BY <1>1, <1>3 DEF IInv, CleanIsOnDisk, Filled
<1>9. Sleepers'
  BY <1>1, <1>3 DEF IInv, TypeOK, Sleepers
<1>11. Contents' = Contents
  BY <1>1, <1>3 DEF Contents
<1> QED
  BY <1>2, <1>7, <1>8, <1>9, <1>11 DEF IInv

\* No step leaves the invariant, and only a holder changes a block.
LEMMA NextStep ==
    ASSUME IInv, [Next]_vars
    PROVE  /\ IInv'
           /\ \A s \in Sector :
                 Contents'[s] # Contents[s] =>
                     \E p \in Process, b \in Buf : <<b, s>> \in held[p] /\ held' = held
<1>1. CASE UNCHANGED vars
  <2>1. HeldAlone' /\ CleanIsOnDisk' /\ Filled' /\ Contents' = Contents
    BY <1>1, BuffersAlone DEF vars
  <2>2. TypeOK' /\ Sleepers'
    BY <1>1 DEF vars, IInv, TypeOK, Sleepers, Busy
  <2> QED
    BY <2>1, <2>2 DEF IInv
<1>2. CASE Next
  <2>1. PICK p \in Process : (Step(p) /\ UNCHANGED panic) \/ bget_panic(p)
    BY <1>2 DEF Next
  <2>0. panic' \in BOOLEAN
    BY <2>1 DEF bget_panic, IInv, TypeOK
  <2>2. CASE bget_panic(p)
    <3>1. HeldAlone' /\ CleanIsOnDisk' /\ Filled' /\ Contents' = Contents
      BY <2>2, BuffersAlone DEF bget_panic, buffers
    <3>2. TypeOK' /\ Sleepers'
      BY <2>0, <2>2 DEF bget_panic, buffers, IInv, TypeOK, Sleepers, Busy
    <3> QED
      BY <3>1, <3>2 DEF IInv
  <2>3. CASE \E s \in Sector : bread(p, s)
    BY <2>0, <2>3, BreadStep
  <2>4. CASE bget(p)
    BY <2>0, <2>4, HitStep, SleepStep, RecycleStep DEF bget
  <2>5. CASE \E b \in Buf : iderw(p, b) \/ brelse(p, b)
    BY <2>0, <2>5, IderwStep, BrelseStep
  <2>6. CASE \E b \in Buf : \E v \in Value : bwrite(p, b, v) \/ log_write(p, b, v)
    <3>1. PICK b \in Buf, v \in Value : bwrite(p, b, v) \/ log_write(p, b, v)
      BY <2>6
    <3>2. /\ IInv' /\ held' = held
          /\ \A t \in Sector : Contents'[t] # Contents[t] => <<b, t>> \in held[p]
      BY <2>0, <3>1, WriteStep
    <3> QED
      BY <3>2
  <2> QED
    BY <2>1, <2>2, <2>3, <2>4, <2>5, <2>6, ZenonT(30) DEF Step
<1> QED
  BY <1>1, <1>2

-------------------------------------------------------------------------------
(* bget() passes no buffer over                                            *)

\* Every buffer is in the list.
Linked == head \in [1..NBUF -> Buf] /\ \A b \in Buf : \E i \in 1..NBUF : head[i] = b

\* brelse() keeps every buffer in the list.
LEMMA ListStep ==
    ASSUME Linked, NEW b \in Buf, head' = ToFront(b)
    PROVE  Linked'
<1>1. PICK n \in 1..NBUF : /\ head[n] = b
                           /\ head' = [i \in 1..NBUF |-> IF i = 1 THEN b ELSE IF i <= n THEN head[i - 1] ELSE head[i]]
  BY DEF Linked, ToFront
<1>2. head' \in [1..NBUF -> Buf]
  <2>1. ASSUME NEW i \in 1..NBUF PROVE head'[i] \in Buf
    <3>1. i # 1 => i - 1 \in 1..NBUF
      BY BcacheAssumption
    <3> QED
      BY <1>1, <3>1 DEF Linked
  <2> QED
    BY <1>1, <2>1
<1>3. ASSUME NEW c \in Buf PROVE \E i \in 1..NBUF : head'[i] = c
  <2>1. PICK j \in 1..NBUF : head[j] = c
    BY DEF Linked
  <2>2. CASE j < n
    <3>1. j + 1 \in 1..NBUF /\ j + 1 # 1 /\ j + 1 <= n /\ (j + 1) - 1 = j
      BY <2>2, BcacheAssumption
    <3>2. head'[j + 1] = c
      BY <1>1, <2>1, <3>1
    <3> QED
      BY <3>1, <3>2
  <2>3. CASE j = n
    BY <1>1, <2>1, <2>3, BcacheAssumption
  <2>4. CASE j > n
    BY <1>1, <2>1, <2>4, BcacheAssumption
  <2> QED
    BY <2>2, <2>3, <2>4, BcacheAssumption
<1> QED
  BY <1>2, <1>3 DEF Linked

\* The list keeps its buffers, and the panic is that of a bget() that walked over all of them.
LEMMA WalkStep ==
    ASSUME Linked, PanicsOnlyWhenFull, [Next]_vars
    PROVE  Linked' /\ PanicsOnlyWhenFull'
<1>1. CASE UNCHANGED vars
  BY <1>1 DEF vars, Linked, PanicsOnlyWhenFull, Busy, Dirty
<1>2. ASSUME NEW p \in Process, Step(p), ~panic, UNCHANGED panic PROVE Linked' /\ PanicsOnlyWhenFull'
  <2>1. head' = head \/ \E b \in Buf : head' = ToFront(b)
    BY <1>2 DEF Step, bread, bget, bget_hit, bget_sleep, bget_recycle, iderw, bwrite, log_write, brelse
  <2>2. Linked'
    BY <2>1, ListStep DEF Linked
  <2> QED
    BY <1>2, <2>2 DEF PanicsOnlyWhenFull
<1>3. ASSUME NEW p \in Process, bget_panic(p) PROVE Linked' /\ PanicsOnlyWhenFull'
  <2>1. UNCHANGED <<head, flags>> /\ \A i \in 1..NBUF : head[i] \notin Recyclable
    BY <1>3 DEF bget_panic, buffers
  <2>2. \A b \in Buf : Busy(b)' \/ Dirty(b)'
    BY <2>1 DEF Linked, Recyclable, Busy, Dirty
  <2> QED
    BY <2>1, <2>2 DEF Linked, PanicsOnlyWhenFull
<1> QED
  BY <1>1, <1>2, <1>3 DEF Next

-------------------------------------------------------------------------------
(* The theorems                                                            *)

\* "bget: no buffers" (bio.c:93) means what it says, in whatever order brelse() has left the list: every buffer
\* is then held or pinned.  It does not say that this never happens: NBUF is 10 and nothing bounds the holders.
THEOREM PanicMeansFull == Spec => []PanicsOnlyWhenFull
<1>1. Init => Linked /\ PanicsOnlyWhenFull
  <2> SUFFICES ASSUME Init PROVE Linked /\ PanicsOnlyWhenFull
    OBVIOUS
  <2>1. ASSUME NEW b \in Buf PROVE NBUF + 1 - b \in 1..NBUF /\ head[NBUF + 1 - b] = b
    BY BcacheAssumption DEF Init, Buf
  <2>2. head \in [1..NBUF -> Buf]
    BY BcacheAssumption DEF Init, Buf
  <2>3. PanicsOnlyWhenFull
    BY DEF Init, PanicsOnlyWhenFull
  <2> QED
    BY <2>1, <2>2, <2>3 DEF Linked
<1>2. Linked /\ PanicsOnlyWhenFull /\ [Next]_vars => Linked' /\ PanicsOnlyWhenFull'
  BY WalkStep
<1> QED
  BY <1>1, <1>2, PTL DEF Spec

\* A buffer of bio.c has one holder at a time, which asked for the sector it
\* has, and a sector is in one buffer, for any number of buffers and processes.
THEOREM BuffersHeldAlone == Spec => []HeldAlone
<1>1. IInv /\ [Next]_vars => IInv'
  BY NextStep
<1>2. IInv => HeldAlone
  BY DEF IInv
<1> QED
  BY InitIInv, <1>1, <1>2, PTL DEF Spec

\* A process sleeps in bget() (bio.c:77) for a buffer that is held and has its sector, however many callers hold
\* buffers while they wait: a brelse() wakes every sleeper, and no buffer is recycled under one.
THEOREM SleepersAwaitBrelse == Spec => []SleepersWaitForHolders
<1>1. IInv /\ [Next]_vars => IInv'
  BY NextStep
<1>2. IInv => SleepersWaitForHolders
  BY DEF IInv, TypeOK, Sleepers, HeldAlone, SleepersWaitForHolders
<1> QED
  BY InitIInv, <1>1, <1>2, PTL DEF Spec

\* The cache is transparent: bread() returns what the last holder of the sector's
\* buffer left in it, whatever was recycled, read in or released since.
THEOREM CacheTransparent == Spec => OnlyHoldersChangeBlocks
<1>1. IInv /\ [Next]_vars => IInv'
  BY NextStep
<1>2. IInv /\ [Next]_vars =>
        [\A s \in Sector :
            Contents'[s] # Contents[s] =>
                \E p \in Process, b \in Buf : <<b, s>> \in held[p] /\ held' = held]_vars
  BY NextStep
<1> QED
  BY InitIInv, <1>1, <1>2, PTL DEF Spec, OnlyHoldersChangeBlocks
===============================================================================
