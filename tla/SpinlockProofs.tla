---------------------------- MODULE SpinlockProofs ----------------------------
(***************************************************************************)
(* Proofs about Spinlock, for any number of cores and locks.  One lemma    *)
(* per step of the code shows that it preserves the inductive invariant    *)
(* IInv, one step per conjunct.  The properties follow from IInv, and so   *)
(* does the refinement of AtomicLock.                                      *)
(***************************************************************************)
EXTENDS Spinlock, FiniteSetTheorems, TLAPS

\* Where interrupts are on, the core has no lock and is taking none.
LEMMA Unmasked ==
  ASSUME IInv, NEW c \in Cpu, irqon[c]
  PROVE  ncli[c] = 0 /\ held[c] = {} /\ pc[c] \in {"run", "cli"}
<1>1. ncli[c] = 0
  BY DEF IInv, TypeOK, Nesting
<1>2. IsFiniteSet(held[c]) /\ Cardinality(held[c]) \in Nat
  BY FS_CardinalityType DEF IInv, Argument
<1>3. Cardinality(held[c]) = 0 /\ pc[c] \in {"run", "cli"}
  BY <1>1, <1>2 DEF IInv, Nesting
<1>. QED BY <1>1, <1>2, <1>3, FS_EmptySet

\* Outside acquire() and release() and without a lock, nothing is nested.
LEMMA NotNested ==
  ASSUME IInv, NEW c \in Cpu, pc[c] = "run", held[c] = {}
  PROVE  ncli[c] = 0
BY FS_EmptySet DEF IInv, Nesting

\* The invariant is preserved when acquire() is called.
LEMMA Inv_acquire ==
  ASSUME IInv, NEW c \in Cpu, NEW l \in Lock, acquire(c, l)
  PROVE  IInv'
<1> USE DEF IInv, acquire
<1>1. TypeOK'
  BY DEF TypeOK, Labels, Modes
<1>2. Argument'
  BY DEF TypeOK, Argument
<1>3. LockWord'
  <2>1. \A d \in Cpu : Occupied(d)' = Occupied(d)
    BY DEF TypeOK, Occupied
  <2>. QED BY <2>1 DEF TypeOK, LockWord
<1>4. Reservation'
  BY DEF TypeOK, Reservation
<1>5. Ownership'
  BY DEF TypeOK, Ownership
<1>6. Suspended'
  BY DEF TypeOK, Suspended
<1>7. Nesting'
  BY DEF TypeOK, Nesting
<1>8. Masking'
  BY DEF TypeOK, Caller, Masking
<1>. QED BY <1>1, <1>2, <1>3, <1>4, <1>5, <1>6, <1>7, <1>8

\* The invariant is preserved when pushcli() masks interrupts and counts the nesting.
LEMMA Inv_pushcli ==
  ASSUME IInv, NEW c \in Cpu, pushcli(c)
  PROVE  IInv'
<1> USE DEF IInv, pushcli, cli
<1>1. TypeOK'
  BY DEF TypeOK, Labels, Modes
<1>2. Argument'
  BY DEF TypeOK, Argument
<1>3. LockWord'
  <2>1. \A d \in Cpu : Occupied(d)' = Occupied(d)
    BY DEF TypeOK, Occupied
  <2>. QED BY <2>1 DEF TypeOK, LockWord
<1>4. Reservation'
  BY DEF TypeOK, Reservation
<1>5. Ownership'
  BY DEF TypeOK, Ownership
<1>6. Suspended'
  BY DEF TypeOK, Suspended
<1>7. Nesting'
  <2>1. Cardinality(held[c]) \in Nat
    BY FS_CardinalityType DEF Argument
  <2>. QED BY <2>1 DEF TypeOK, Nesting
<1>8. Masking'
  <2>1. ~(mode[c] = "user" /\ ~inirq[c])
    BY DEF Masking
  <2>2. inirq[c] \/ mode[c] = "sys" => ~enabled[c] /\ (ncli[c] > 0 => ~intena[c])
    BY DEF Nesting, Masking
  <2>3. intena'[c] = IF ncli[c] = 0 THEN enabled[c] ELSE intena[c]
    BY DEF TypeOK
  <2>4. ncli[c] \in Nat
    BY DEF TypeOK
  <2>5. /\ ~irqon'[c] /\ mode'[c] = mode[c] /\ inirq'[c] = inirq[c]
        /\ saved' = saved
    BY DEF TypeOK
  <2>6. \A d \in Cpu \ {c} : /\ irqon'[d] = irqon[d] /\ ncli'[d] = ncli[d]
                             /\ intena'[d] = intena[d] /\ inirq'[d] = inirq[d]
                             /\ mode'[d] = mode[d] /\ pc'[d] = pc[d]
    BY DEF TypeOK
  <2>7. inirq[c] \/ mode[c] = "sys" => ~intena'[c]
    BY <2>2, <2>3, <2>4
  <2>8. Masking
    OBVIOUS
  <2> HIDE DEF IInv, pushcli
  <2>. QED BY <2>1, <2>5, <2>6, <2>7, <2>8 DEF Masking
<1>. QED BY <1>1, <1>2, <1>3, <1>4, <1>5, <1>6, <1>7, <1>8

\* The invariant is preserved when LDREX takes a reservation.
LEMMA Inv_ldrex ==
  ASSUME IInv, NEW c \in Cpu, ldrex(c)
  PROVE  IInv'
<1> USE DEF IInv, ldrex
<1>1. TypeOK'
  BY DEF TypeOK, Labels, Modes
<1>2. Argument'
  BY DEF TypeOK, Argument
<1>3. LockWord'
  <2>1. \A d \in Cpu : Occupied(d)' = Occupied(d)
    BY DEF TypeOK, Occupied
  <2>. QED BY <2>1 DEF TypeOK, LockWord
<1>4. Reservation'
  BY DEF TypeOK, Reservation
<1>5. Ownership'
  BY DEF TypeOK, Ownership
<1>6. Suspended'
  BY DEF TypeOK, Suspended
<1>7. Nesting'
  BY DEF TypeOK, Nesting
<1>8. Masking'
  BY ZenonT(40) DEF TypeOK, Suspended, Nesting, Masking
<1>. QED BY <1>1, <1>2, <1>3, <1>4, <1>5, <1>6, <1>7, <1>8

\* The invariant is preserved when WFE returns on an event.
LEMMA Inv_wfe ==
  ASSUME IInv, NEW c \in Cpu, wfe(c)
  PROVE  IInv'
<1> USE DEF IInv, wfe
<1>1. TypeOK'
  BY DEF TypeOK, Labels, Modes
<1>2. Argument'
  BY DEF TypeOK, Argument
<1>3. LockWord'
  <2>1. \A d \in Cpu : Occupied(d)' = Occupied(d)
    BY DEF TypeOK, Occupied
  <2>. QED BY <2>1 DEF TypeOK, LockWord
<1>4. Reservation'
  BY DEF TypeOK, Reservation
<1>5. Ownership'
  BY DEF TypeOK, Ownership
<1>6. Suspended'
  BY DEF TypeOK, Suspended
<1>7. Nesting'
  BY DEF TypeOK, Nesting
<1>8. Masking'
  BY ZenonT(40) DEF TypeOK, Suspended, Nesting, Masking
<1>. QED BY <1>1, <1>2, <1>3, <1>4, <1>5, <1>6, <1>7, <1>8

\* The invariant is preserved when STREX takes the lock or fails.
LEMMA Inv_strex ==
  ASSUME IInv, NEW c \in Cpu, strex(c)
  PROVE  IInv'
<1> USE DEF IInv, strex, Exclusive, Invalidate
<1>1. TypeOK'
  BY DEF TypeOK, Labels, Argument
<1>2. Argument'
  BY DEF TypeOK, Argument
<1>3. LockWord'
  <2>1. CASE monitor[c] = lk[c]
    <3>1. locked[lk[c]] = 0 /\ lk[c] \in Lock
      BY <2>1 DEF Reservation, Argument
    <3>2. \A d \in Cpu : lk[c] \notin Occupied(d)
      BY <3>1 DEF LockWord
    <3>3. /\ pc' = [pc EXCEPT ![c] = "own"]
          /\ locked' = [locked EXCEPT ![lk[c]] = 1]
      BY <2>1
    <3>4. /\ Occupied(c)' = Occupied(c) \cup {lk[c]}
          /\ \A d \in Cpu \ {c} : Occupied(d)' = Occupied(d)
      BY <3>3 DEF TypeOK, Occupied
    <3>. QED BY <3>1, <3>2, <3>3, <3>4 DEF TypeOK, LockWord, Occupied
  <2>2. CASE monitor[c] # lk[c]
    <3>1. \A d \in Cpu : Occupied(d)' = Occupied(d)
      BY <2>2 DEF TypeOK, Occupied
    <3>. QED BY <2>2, <3>1 DEF TypeOK, LockWord
  <2>. QED BY <2>1, <2>2
<1>4. Reservation'
  BY NoLockAssumption DEF TypeOK, Argument, Reservation
<1>5. Ownership'
  BY DEF TypeOK, Ownership
<1>6. Suspended'
  BY DEF TypeOK, Suspended
<1>7. Nesting'
  BY DEF TypeOK, Nesting
<1>8. Masking'
  BY ZenonT(40) DEF TypeOK, Suspended, Nesting, Masking
<1>. QED BY <1>1, <1>2, <1>3, <1>4, <1>5, <1>6, <1>7, <1>8

\* The invariant is preserved when acquire() records the core and returns.
LEMMA Inv_own ==
  ASSUME IInv, NEW c \in Cpu, own(c)
  PROVE  IInv'
<1> USE DEF IInv, own, Recorded
<1>1. TypeOK'
  <2>1. lk[c] \in Lock
    BY DEF Argument
  <2>. QED BY <2>1 DEF TypeOK, Labels, Modes
<1>2. Argument'
  <2>1. IsFiniteSet(held[c] \cup {lk[c]})
    BY FS_AddElement DEF Argument
  <2>. QED BY <2>1 DEF TypeOK, Argument
<1>3. LockWord'
  <2>1. \A d \in Cpu : Occupied(d)' = Occupied(d)
    BY DEF TypeOK, Occupied
  <2>. QED BY <2>1 DEF TypeOK, LockWord
<1>4. Reservation'
  BY DEF TypeOK, Reservation
<1>5. Ownership'
  BY DEF TypeOK, Argument, LockWord, Occupied, Ownership
<1>6. Suspended'
  BY DEF TypeOK, Suspended
<1>7. Nesting'
  <2>1. IsFiniteSet(held[c]) /\ lk[c] \in Lock /\ lk[c] \notin held[c]
    BY DEF Argument, LockWord
  <2>2. Cardinality(held[c] \cup {lk[c]}) = Cardinality(held[c]) + 1
    BY <2>1, FS_AddElement
  <2>3. Cardinality(held[c]) \in Nat
    BY <2>1, FS_CardinalityType
  <2>. QED BY <2>2, <2>3 DEF TypeOK, Nesting
<1>8. Masking'
  BY ZenonT(40) DEF TypeOK, Suspended, Nesting, Masking
<1>. QED BY <1>1, <1>2, <1>3, <1>4, <1>5, <1>6, <1>7, <1>8

\* The invariant is preserved when release() clears lk->cpu.
LEMMA Inv_release ==
  ASSUME IInv, NEW c \in Cpu, NEW l \in Lock, release(c, l)
  PROVE  IInv'
<1> USE DEF IInv, release, Cleared
<1>1. TypeOK'
  BY DEF TypeOK, Labels, Modes
<1>2. Argument'
  <2>1. IsFiniteSet(held[c] \ {l})
    BY FS_RemoveElement DEF Argument
  <2>. QED BY <2>1 DEF TypeOK, Argument
<1>3. LockWord'
  <2>1. \A d \in Cpu : Occupied(d)' = Occupied(d)
    BY DEF TypeOK, Occupied
  <2>. QED BY <2>1 DEF TypeOK, LockWord
<1>4. Reservation'
  BY DEF TypeOK, Reservation
<1>5. Ownership'
  BY NoCpuAssumption DEF TypeOK, Occupied, LockWord, Ownership
<1>6. Suspended'
  BY DEF TypeOK, Suspended
<1>7. Nesting'
  <2>1. IsFiniteSet(held[c])
    BY DEF Argument
  <2>2. Cardinality(held[c] \ {l}) = Cardinality(held[c]) - 1
    BY <2>1, FS_RemoveElement
  <2>3. Cardinality(held[c]) \in Nat
    BY <2>1, FS_CardinalityType
  <2>. QED BY <2>2, <2>3 DEF TypeOK, Nesting
<1>8. Masking'
  <2>1. ~irqon[c]
    BY Unmasked
  <2>. QED BY <2>1 DEF TypeOK, Masking
<1>. QED BY <1>1, <1>2, <1>3, <1>4, <1>5, <1>6, <1>7, <1>8

\* The invariant is preserved when release() clears the lock word.
LEMMA Inv_unlock ==
  ASSUME IInv, NEW c \in Cpu, unlock(c)
  PROVE  IInv'
<1> USE DEF IInv, unlock, Invalidate
<1>1. TypeOK'
  BY DEF TypeOK, Labels, Argument
<1>2. Argument'
  BY DEF TypeOK, Argument
<1>3. LockWord'
  <2>1. lk[c] \in Lock /\ lk[c] \notin held[c] /\ lk[c] \in Occupied(c)
    BY DEF Argument, LockWord, Occupied
  <2>2. /\ Occupied(c)' = Occupied(c) \ {lk[c]}
        /\ \A d \in Cpu \ {c} : Occupied(d)' = Occupied(d)
    BY <2>1 DEF TypeOK, Occupied
  <2>3. \A d \in Cpu \ {c} : lk[c] \notin Occupied(d)
    BY <2>1 DEF LockWord
  <2>4. ASSUME NEW l \in Lock
        PROVE  locked'[l] = 1 <=> \E d \in Cpu : l \in Occupied(d)'
    <3>1. CASE l = lk[c]
      <4>1. locked'[l] = 0
        BY <3>1 DEF TypeOK
      <4>2. \A d \in Cpu : l \notin Occupied(d)'
        BY <2>2, <2>3, <3>1
      <4>. QED BY <4>1, <4>2
    <3>2. CASE l # lk[c]
      <4>1. locked'[l] = locked[l]
        BY <3>2 DEF TypeOK
      <4>2. \A d \in Cpu : l \in Occupied(d)' <=> l \in Occupied(d)
        BY <2>2, <3>2
      <4>. QED BY <4>1, <4>2 DEF LockWord
    <3>. QED BY <3>1, <3>2
  <2>5. \A d, e \in Cpu : d # e => Occupied(d)' \cap Occupied(e)' = {}
    BY <2>2 DEF LockWord
  <2>6. \A d \in Cpu : pc'[d] \in {"own", "unlock"} => lk'[d] \notin held'[d]
    BY DEF TypeOK, LockWord
  <2>. QED BY <2>4, <2>5, <2>6 DEF LockWord
<1>4. Reservation'
  BY NoLockAssumption DEF TypeOK, Argument, Reservation
<1>5. Ownership'
  BY DEF TypeOK, Ownership
<1>6. Suspended'
  BY DEF TypeOK, Suspended
<1>7. Nesting'
  BY DEF TypeOK, Nesting
<1>8. Masking'
  BY ZenonT(40) DEF TypeOK, Suspended, Nesting, Masking
<1>. QED BY <1>1, <1>2, <1>3, <1>4, <1>5, <1>6, <1>7, <1>8

\* The invariant is preserved when SEV wakes the waiters.
LEMMA Inv_sev ==
  ASSUME IInv, NEW c \in Cpu, sev(c)
  PROVE  IInv'
<1> USE DEF IInv, sev, Signalled
<1>1. TypeOK'
  BY DEF TypeOK, Labels, Modes
<1>2. Argument'
  BY DEF TypeOK, Argument
<1>3. LockWord'
  <2>1. \A d \in Cpu : Occupied(d)' = Occupied(d)
    BY DEF TypeOK, Occupied
  <2>. QED BY <2>1 DEF TypeOK, LockWord
<1>4. Reservation'
  BY DEF TypeOK, Reservation
<1>5. Ownership'
  BY DEF TypeOK, Ownership
<1>6. Suspended'
  BY DEF TypeOK, Suspended
<1>7. Nesting'
  BY DEF TypeOK, Nesting
<1>8. Masking'
  BY ZenonT(40) DEF TypeOK, Suspended, Nesting, Masking
<1>. QED BY <1>1, <1>2, <1>3, <1>4, <1>5, <1>6, <1>7, <1>8

\* The invariant is preserved when popcli() counts down and may unmask interrupts.
LEMMA Inv_popcli ==
  ASSUME IInv, NEW c \in Cpu, popcli(c)
  PROVE  IInv'
<1> USE DEF IInv, popcli, PopcliPanics
<1>1. TypeOK'
  <2>1. ncli' \in [Cpu -> Nat]
    <3>1. ncli[c] \in Nat /\ ncli[c] # 0
      BY DEF TypeOK
    <3>2. ncli[c] - 1 \in Nat
      BY <3>1
    <3>. QED BY <3>2 DEF TypeOK
  <2>2. irqon' \in [Cpu -> BOOLEAN]
    BY DEF TypeOK
  <2>. QED BY <2>1, <2>2 DEF TypeOK, Labels, Modes
<1>2. Argument'
  BY DEF TypeOK, Argument
<1>3. LockWord'
  <2>1. \A d \in Cpu : Occupied(d)' = Occupied(d)
    BY DEF TypeOK, Occupied
  <2>. QED BY <2>1 DEF TypeOK, LockWord
<1>4. Reservation'
  BY DEF TypeOK, Reservation
<1>5. Ownership'
  BY DEF TypeOK, Ownership
<1>6. Suspended'
  BY DEF TypeOK, Suspended
<1>7. Nesting'
  <2>1. Cardinality(held[c]) \in Nat /\ ncli[c] \in Nat
    BY FS_CardinalityType DEF TypeOK, Argument
  <2>2. ncli[c] = Cardinality(held[c]) + 1
    BY DEF Nesting
  <2>3. /\ ncli'[c] = Cardinality(held[c]) /\ pc'[c] = "run"
        /\ irqon'[c] <=> ncli'[c] = 0 /\ intena[c]
    BY <2>1, <2>2 DEF TypeOK
  <2>. QED BY <2>1, <2>2, <2>3 DEF TypeOK, Nesting
<1>8. Masking'
  <2>1. ncli[c] \in Nat /\ ncli[c] > 0
    BY DEF TypeOK
  <2>2. ncli'[c] = ncli[c] - 1 /\ (irqon'[c] <=> ncli[c] = 1 /\ intena[c])
    BY DEF TypeOK
  <2>. QED BY <2>1, <2>2 DEF TypeOK, Masking
<1>. QED BY <1>1, <1>2, <1>3, <1>4, <1>5, <1>6, <1>7, <1>8


\* The invariant is preserved when an interrupt is taken.
LEMMA Inv_trap_irq ==
  ASSUME IInv, NEW c \in Cpu, trap_irq(c)
  PROVE  IInv'
<1> USE DEF IInv, trap_irq
<1>0. ncli[c] = 0 /\ held[c] = {} /\ pc[c] \in {"run", "cli"}
  BY Unmasked
<1>1. TypeOK'
  <2>1. [pc |-> pc[c], lk |-> lk[c], enabled |-> enabled[c], held |-> held[c]]
           \in [pc : Labels, lk : Lock \cup {NoLock}, enabled : BOOLEAN, held : SUBSET Lock]
    BY DEF TypeOK
  <2>2. frame' \in [Cpu -> [pc : Labels, lk : Lock \cup {NoLock},
                              enabled : BOOLEAN, held : SUBSET Lock]]
    BY <2>1 DEF TypeOK
  <2>3. pc' \in [Cpu -> Labels]
    BY DEF TypeOK, Labels, Modes
  <2>. QED BY <2>2, <2>3 DEF TypeOK
<1>2. Argument'
  BY FS_EmptySet DEF TypeOK, Argument
<1>3. LockWord'
  <2>1. \A d \in Cpu : Occupied(d)' = Occupied(d)
    BY <1>0 DEF TypeOK, Occupied
  <2>. QED BY <2>1 DEF TypeOK, LockWord
<1>4. Reservation'
  BY DEF TypeOK, Reservation
<1>5. Ownership'
  BY <1>0 DEF TypeOK, Ownership
<1>6. Suspended'
  BY <1>0 DEF TypeOK, Suspended, Nesting, Masking
<1>7. Nesting'
  <2>2. Cardinality({}) = 0
    BY FS_EmptySet
  <2>. QED BY <1>0, <2>2 DEF TypeOK, Nesting
<1>8. Masking'
  <2>1. mode[c] # "sys"
    BY DEF Masking
  <2>2. /\ ~irqon'[c] /\ inirq'[c] /\ ~(ncli'[c] > 0)
        /\ mode'[c] = mode[c] /\ saved' = saved
    BY <1>0 DEF TypeOK
  <2>3. \A d \in Cpu \ {c} : /\ irqon'[d] = irqon[d] /\ ncli'[d] = ncli[d]
                             /\ intena'[d] = intena[d] /\ inirq'[d] = inirq[d]
                             /\ mode'[d] = mode[d] /\ pc'[d] = pc[d]
    BY DEF TypeOK
  <2>4. Masking
    OBVIOUS
  <2> HIDE DEF IInv, trap_irq
  <2>. QED BY <2>1, <2>2, <2>3, <2>4 DEF Masking
<1>. QED BY <1>1, <1>2, <1>3, <1>4, <1>5, <1>6, <1>7, <1>8

\* The invariant is preserved when an interrupt handler returns.
LEMMA Inv_irq_return ==
  ASSUME IInv, NEW c \in Cpu, irq_return(c)
  PROVE  IInv'
<1> USE DEF IInv, irq_return
<1>1. TypeOK'
  BY DEF TypeOK, Labels, Modes, NoFrame
<1>2. Argument'
  BY FS_EmptySet DEF TypeOK, Argument, Suspended, NoFrame
<1>3. LockWord'
  <2>1. \A d \in Cpu : Occupied(d)' = Occupied(d)
    BY DEF TypeOK, Occupied, Suspended
  <2>. QED BY <2>1 DEF TypeOK, LockWord, Suspended
<1>4. Reservation'
  BY DEF TypeOK, Reservation, Suspended
<1>5. Ownership'
  BY DEF TypeOK, Ownership, Suspended
<1>6. Suspended'
  BY DEF TypeOK, Suspended, NoFrame
<1>7. Nesting'
  <2>1. held'[c] = {} /\ pc'[c] \in {"run", "cli"}
    BY DEF TypeOK, Suspended
  <2>2. Cardinality(held[c]) = 0 /\ Cardinality(held'[c]) = 0
    BY <2>1, FS_EmptySet
  <2>3. ncli[c] = 0
    <3>1. pc[c] = "run" /\ ncli[c] = Cardinality(held[c]) + 0
      BY DEF Nesting
    <3>. QED BY <2>2, <3>1
  <2>4. ~inirq'[c] /\ irqon'[c]
    BY DEF TypeOK, Suspended
  <2>5. pc'[c] = "cli" => enabled'[c]
    BY DEF TypeOK, Suspended
  <2>6. \A d \in Cpu \ {c} : /\ held'[d] = held[d] /\ pc'[d] = pc[d]
                             /\ enabled'[d] = enabled[d] /\ inirq'[d] = inirq[d]
                             /\ irqon'[d] = irqon[d]
    BY DEF TypeOK
  <2>. QED BY <2>1, <2>2, <2>3, <2>4, <2>5, <2>6 DEF Nesting
<1>8. Masking'
  BY ZenonT(40) DEF TypeOK, Suspended, Nesting, Masking
<1>. QED BY <1>1, <1>2, <1>3, <1>4, <1>5, <1>6, <1>7, <1>8

\* The invariant is preserved when a system call starts.
LEMMA Inv_trap_swi ==
  ASSUME IInv, NEW c \in Cpu, trap_swi(c)
  PROVE  IInv'
<1> USE DEF IInv, trap_swi
<1>1. TypeOK'
  BY DEF TypeOK, Labels, Modes
<1>2. Argument'
  BY DEF TypeOK, Argument
<1>3. LockWord'
  <2>1. \A d \in Cpu : Occupied(d)' = Occupied(d)
    BY DEF TypeOK, Occupied
  <2>. QED BY <2>1 DEF TypeOK, LockWord
<1>4. Reservation'
  BY DEF TypeOK, Reservation
<1>5. Ownership'
  BY DEF TypeOK, Ownership
<1>6. Suspended'
  BY DEF TypeOK, Suspended
<1>7. Nesting'
  <2>1. ncli[c] = 0 /\ pc[c] = "run"
    BY Unmasked DEF Masking
  <2>. QED BY <2>1 DEF TypeOK, Nesting
<1>8. Masking'
  <2>1. ncli[c] = 0
    BY Unmasked DEF Masking
  <2>2. /\ ~irqon'[c] /\ ~inirq'[c] /\ ~(ncli'[c] > 0)
        /\ mode'[c] = "sys" /\ saved' = saved
    BY <2>1 DEF TypeOK, Modes
  <2>3. \A d \in Cpu \ {c} : /\ irqon'[d] = irqon[d] /\ ncli'[d] = ncli[d]
                             /\ intena'[d] = intena[d] /\ inirq'[d] = inirq[d]
                             /\ mode'[d] = mode[d] /\ pc'[d] = pc[d]
    BY DEF TypeOK
  <2>4. Masking
    OBVIOUS
  <2> HIDE DEF IInv, trap_swi
  <2>. QED BY <2>2, <2>3, <2>4 DEF Masking
<1>. QED BY <1>1, <1>2, <1>3, <1>4, <1>5, <1>6, <1>7, <1>8

\* The invariant is preserved when a system call ends.
LEMMA Inv_trapret ==
  ASSUME IInv, NEW c \in Cpu, trapret(c)
  PROVE  IInv'
<1> USE DEF IInv, trapret
<1>1. TypeOK'
  BY DEF TypeOK, Labels, Modes
<1>2. Argument'
  BY DEF TypeOK, Argument
<1>3. LockWord'
  <2>1. \A d \in Cpu : Occupied(d)' = Occupied(d)
    BY DEF TypeOK, Occupied
  <2>. QED BY <2>1 DEF TypeOK, LockWord
<1>4. Reservation'
  BY DEF TypeOK, Reservation
<1>5. Ownership'
  BY DEF TypeOK, Ownership
<1>6. Suspended'
  BY DEF TypeOK, Suspended
<1>7. Nesting'
  <2>1. ncli[c] = 0
    BY NotNested
  <2>. QED BY <2>1 DEF TypeOK, Nesting
<1>8. Masking'
  BY ZenonT(40) DEF TypeOK, Suspended, Nesting, Masking
<1>. QED BY <1>1, <1>2, <1>3, <1>4, <1>5, <1>6, <1>7, <1>8

\* The invariant is preserved when scheduler() unmasks interrupts.
LEMMA Inv_sti ==
  ASSUME IInv, NEW c \in Cpu, sti(c)
  PROVE  IInv'
<1> USE DEF IInv, sti
<1>1. TypeOK'
  BY DEF TypeOK, Modes
<1>2. Argument'
  BY DEF TypeOK, Argument
<1>3. LockWord'
  <2>1. \A d \in Cpu : Occupied(d)' = Occupied(d)
    BY DEF TypeOK, Occupied
  <2>. QED BY <2>1 DEF TypeOK, LockWord
<1>4. Reservation'
  BY DEF TypeOK, Reservation
<1>5. Ownership'
  BY DEF TypeOK, Ownership
<1>6. Suspended'
  BY DEF TypeOK, Suspended
<1>7. Nesting'
  <2>1. ncli[c] = 0
    BY NotNested
  <2>. QED BY <2>1 DEF TypeOK, Nesting
<1>8. Masking'
  BY ZenonT(40) DEF TypeOK, Suspended, Nesting, Masking
<1>. QED BY <1>1, <1>2, <1>3, <1>4, <1>5, <1>6, <1>7, <1>8

\* The invariant is preserved when a process switches to the scheduler.
LEMMA Inv_sched ==
  ASSUME IInv, NEW c \in Cpu, sched(c)
  PROVE  IInv'
<1> USE DEF IInv, sched, CallsSched, SchedPanics
<1>1. TypeOK'
  BY DEF TypeOK, Modes
<1>2. Argument'
  BY DEF TypeOK, Argument
<1>3. LockWord'
  <2>1. \A d \in Cpu : Occupied(d)' = Occupied(d)
    BY DEF TypeOK, Occupied
  <2>. QED BY <2>1 DEF TypeOK, LockWord
<1>4. Reservation'
  BY DEF TypeOK, Reservation
<1>5. Ownership'
  BY DEF TypeOK, Ownership
<1>6. Suspended'
  BY DEF TypeOK, Suspended
<1>7. Nesting'
  BY DEF TypeOK, Nesting
<1>8. Masking'
  <2>1. ~intena[c]
    <3>1. Masking /\ mode[c] = "sys" /\ ncli[c] = 1
      OBVIOUS
    <3>2. ncli[c] > 0
      BY <3>1
    <3> HIDE DEF IInv, sched
    <3>. QED BY <3>1, <3>2 DEF Masking
  <2>2. saved' \subseteq {FALSE}
    BY <2>1 DEF TypeOK, Masking
  <2>. QED BY <2>2 DEF TypeOK, Masking
<1>. QED BY <1>1, <1>2, <1>3, <1>4, <1>5, <1>6, <1>7, <1>8

\* The invariant is preserved when the scheduler switches to a process.
LEMMA Inv_swtch ==
  ASSUME IInv, NEW c \in Cpu, swtch(c)
  PROVE  IInv'
<1> USE DEF IInv, swtch, Restored
<1>1. TypeOK'
  BY DEF TypeOK, Modes
<1>2. Argument'
  BY DEF TypeOK, Argument
<1>3. LockWord'
  <2>1. \A d \in Cpu : Occupied(d)' = Occupied(d)
    BY DEF TypeOK, Occupied
  <2>. QED BY <2>1 DEF TypeOK, LockWord
<1>4. Reservation'
  BY DEF TypeOK, Reservation
<1>5. Ownership'
  BY DEF TypeOK, Ownership
<1>6. Suspended'
  BY DEF TypeOK, Suspended
<1>7. Nesting'
  BY DEF TypeOK, Nesting
<1>8. Masking'
  <2>1. ~irqon[c]
    BY Unmasked
  <2>2. mode'[c] = "sys" => ~intena'[c]
    BY DEF TypeOK, Masking
  <2>3. /\ ~irqon'[c] /\ ~inirq'[c] /\ mode'[c] # "user" /\ saved' = saved
    BY <2>1 DEF TypeOK, Modes
  <2>4. \A d \in Cpu \ {c} : /\ irqon'[d] = irqon[d] /\ ncli'[d] = ncli[d]
                             /\ intena'[d] = intena[d] /\ inirq'[d] = inirq[d]
                             /\ mode'[d] = mode[d] /\ pc'[d] = pc[d]
    BY DEF TypeOK
  <2>5. Masking
    OBVIOUS
  <2> HIDE DEF IInv, swtch
  <2>. QED BY <2>2, <2>3, <2>4, <2>5 DEF Masking
<1>. QED BY <1>1, <1>2, <1>3, <1>4, <1>5, <1>6, <1>7, <1>8

-------------------------------------------------------------------------------

\* The initial state, with no lock taken and interrupts on, satisfies the invariant.
LEMMA InitInv == Init => IInv
<1> SUFFICES ASSUME Init PROVE IInv
  OBVIOUS
<1>1. TypeOK
  BY NoCpuAssumption, NoLockAssumption DEF Init, TypeOK, NoFrame, Labels, Modes
<1>2. \A c \in Cpu : Occupied(c) = {}
  BY DEF Init, Occupied
<1>3. LockWord
  BY <1>2 DEF Init, LockWord
<1>4. Argument /\ Nesting
  BY FS_EmptySet DEF Init, Argument, Nesting, NoFrame
<1>5. Reservation /\ Ownership
  BY NoCpuAssumption DEF Init, Reservation, Ownership
<1>6. Suspended /\ Masking
  BY DEF Init, Suspended, Masking, NoFrame
<1>. QED BY <1>1, <1>3, <1>4, <1>5, <1>6 DEF IInv

\* Every step of every core preserves it.
LEMMA NextInv == IInv /\ [Next]_vars => IInv'
<1> SUFFICES ASSUME IInv, [Next]_vars PROVE IInv'
  OBVIOUS
<1>1. ASSUME NEW c \in Cpu, Step(c) PROVE IInv'
  BY <1>1, Inv_pushcli, Inv_ldrex, Inv_wfe, Inv_strex, Inv_own, Inv_unlock,
     Inv_sev, Inv_popcli DEF Step
<1>2. ASSUME NEW c \in Cpu, Trap(c) PROVE IInv'
  BY <1>2, Inv_trap_irq, Inv_irq_return, Inv_trap_swi, Inv_trapret DEF Trap
<1>3. ASSUME NEW c \in Cpu, Switch(c) PROVE IInv'
  BY <1>3, Inv_sti, Inv_sched, Inv_swtch DEF Switch
<1>4. CASE UNCHANGED vars
  <2> USE <1>4 DEF vars, IInv
  <2>1. TypeOK' /\ Argument' /\ Suspended'
    BY DEF TypeOK, Argument, Suspended
  <2>2. LockWord'
    BY DEF LockWord, Occupied
  <2>3. Reservation' /\ Ownership'
    BY DEF Reservation, Ownership
  <2>4. Nesting' /\ Masking'
    BY DEF Nesting, Masking
  <2>. QED BY <2>1, <2>2, <2>3, <2>4
<1>. QED BY <1>1, <1>2, <1>3, <1>4, Inv_acquire, Inv_release DEF Next

\* For any number of cores and locks, every reachable state satisfies the
\* inductive invariant of spinlock.c and of pushcli/popcli.
THEOREM Invariance == Spec => []IInv
BY InitInv, NextInv, PTL DEF Spec

\* Reachable states are well typed.
THEOREM TypeCorrect == Spec => []TypeOK
<1>1. IInv => TypeOK
  BY DEF IInv
<1>. QED BY <1>1, Invariance, PTL

\* acquire()/release(): no lock is ever in two hands, on two cores or in a
\* handler and the thread under it.
THEOREM LocksExclude == Spec => []MutualExclusion
<1>1. IInv => MutualExclusion
  <2> SUFFICES ASSUME IInv PROVE MutualExclusion
    OBVIOUS
  <2>1. \A c \in Cpu : HeldOn(c) = held[c] /\ held[c] \subseteq Occupied(c)
    BY DEF IInv, Suspended, HeldOn, Occupied
  <2>2. \A c, d \in Cpu : c # d => held[c] \cap held[d] = {}
    BY <2>1 DEF IInv, TypeOK, LockWord
  <2>3. \A c \in Cpu : held[c] \cap frame[c].held = {}
    BY DEF IInv, Suspended
  <2>. QED BY <2>1, <2>2, <2>3 DEF MutualExclusion
<1>. QED BY <1>1, Invariance, PTL

\* The interrupt trap never lands on code that has a lock: no handler waits for
\* the code it interrupted.
THEOREM HandlersAreSafe == Spec => []HandlerNeverOverHolder
<1>1. IInv => HandlerNeverOverHolder
  BY DEF IInv, Suspended, HandlerNeverOverHolder
<1>. QED BY <1>1, Invariance, PTL

\* holding() is exact, so the check at the head of sched() is.
THEOREM HoldingCorrect == Spec => []HoldingIsExact
<1>1. IInv => HoldingIsExact
  <2> SUFFICES ASSUME IInv, NEW c \in Cpu, NEW l \in Lock
               PROVE  holding(c, l) <=> l \in HeldOn(c)
    BY DEF HoldingIsExact
  <2>1. HeldOn(c) = held[c] /\ held[c] \subseteq Occupied(c)
    BY DEF IInv, Suspended, HeldOn, Occupied
  <2>2. holding(c, l) => l \in held[c]
    BY DEF IInv, LockWord, Ownership, holding
  <2>3. l \in held[c] => holding(c, l)
    BY <2>1 DEF IInv, LockWord, Ownership, holding
  <2>. QED BY <2>1, <2>2, <2>3
<1>. QED BY <1>1, Invariance, PTL

\* popcli() panics in no reachable state.
THEOREM PopcliSafe == Spec => []PopcliNeverPanics
<1>1. IInv => PopcliNeverPanics
  <2> SUFFICES ASSUME IInv, NEW c \in Cpu, pc[c] = "popcli"
               PROVE  ~PopcliPanics(c)
    BY DEF PopcliNeverPanics
  <2>1. Cardinality(held[c]) \in Nat
    BY FS_CardinalityType DEF IInv, Argument
  <2>2. ncli[c] = Cardinality(held[c]) + 1
    BY DEF IInv, Nesting
  <2>3. ncli[c] > 0
    BY <2>1, <2>2
  <2>. QED BY <2>3 DEF IInv, Nesting, PopcliPanics
<1>. QED BY <1>1, Invariance, PTL

\* sched() panics neither for the lock, nor for the nesting count, nor for the
\* interrupts.
THEOREM SchedSafe == Spec => []SchedNeverPanics
<1>1. IInv => SchedNeverPanics
  <2> SUFFICES ASSUME IInv, NEW c \in Cpu, CallsSched(c)
               PROVE  ~SchedPanics(c)
    BY DEF SchedNeverPanics
  <2>1. holding(c, ptable)
    <3>1. ptable \in Lock /\ ptable \in held[c] /\ held[c] \subseteq Occupied(c)
      BY PtableAssumption DEF CallsSched, Occupied
    <3>. QED BY <3>1 DEF IInv, LockWord, Ownership, holding
  <2>2. Cardinality(held[c]) = 1
    BY FS_Singleton DEF CallsSched
  <2>3. ncli[c] = 1
    BY <2>2, SMTT(20) DEF CallsSched, IInv, Nesting
  <2>4. ~irqon[c]
    BY <2>3 DEF IInv, Nesting
  <2>. QED BY <2>1, <2>3, <2>4 DEF SchedPanics
<1>. QED BY <1>1, Invariance, PTL

\* A system call is masked from its trap to its return, whichever cores it runs
\* on; user code never is.
THEOREM SystemCallsStayMasked == Spec => []SystemCallsMasked
<1>1. IInv => SystemCallsMasked
  BY DEF IInv, Masking, SystemCallsMasked
<1>. QED BY <1>1, Invariance, PTL

-------------------------------------------------------------------------------

\* In the states the invariant allows, a core's locks change only when
\* acquire() returns and when release() is called, one lock at a time.
LEMMA StepSimulation ==
  ASSUME IInv, IInv', [Next]_vars
  PROVE  [Atomic!Next]_([c \in Cpu |-> HeldOn(c)])
<1>0. held \in [Cpu -> SUBSET Lock]
  BY DEF IInv, TypeOK
<1>1. /\ \A c \in Cpu : HeldOn(c) = held[c]
      /\ \A c \in Cpu : HeldOn(c)' = held'[c]
  BY DEF IInv, Suspended, HeldOn
<1>2. ASSUME held' = held
      PROVE  [c \in Cpu |-> HeldOn(c)]' = [c \in Cpu |-> HeldOn(c)]
  BY <1>1, <1>2
<1>3. ASSUME NEW c \in Cpu, own(c)
      PROVE  Atomic!acquire(c, lk[c]) /\ lk[c] \in Lock
  <2>1. lk[c] \in Lock /\ lk[c] \in Occupied(c) /\ lk[c] \notin held[c]
    <3>1. pc[c] = "own" /\ lk[c] \in Lock
      BY <1>3 DEF own, IInv, Argument
    <3>2. lk[c] \notin held[c]
      BY <3>1 DEF IInv, LockWord
    <3>. QED BY <3>1, <3>2 DEF Occupied
  <2>2. \A d \in Cpu : lk[c] \notin HeldOn(d)
    <3>1. \A d \in Cpu : held[d] \subseteq Occupied(d)
      BY DEF Occupied
    <3>2. \A d \in Cpu \ {c} : lk[c] \notin Occupied(d)
      BY <2>1 DEF IInv, LockWord
    <3>. QED BY <1>1, <2>1, <3>1, <3>2
  <2>3. \A d \in Cpu : HeldOn(d)' = IF d = c THEN HeldOn(c) \cup {lk[c]} ELSE HeldOn(d)
    <3>1. held' = [held EXCEPT ![c] = @ \cup {lk[c]}]
      BY <1>3 DEF own
    <3>. QED BY <1>0, <1>1, <3>1
  <2>. QED BY <2>1, <2>2, <2>3 DEF Atomic!acquire
<1>4. ASSUME NEW c \in Cpu, NEW l \in Lock, release(c, l)
      PROVE  Atomic!release(c, l)
  <2>1. \A d \in Cpu : HeldOn(d)' = IF d = c THEN HeldOn(c) \ {l} ELSE HeldOn(d)
    <3>1. held' = [held EXCEPT ![c] = @ \ {l}]
      BY <1>4 DEF release
    <3>. QED BY <1>0, <1>1, <3>1
  <2>2. l \in HeldOn(c)
    BY <1>1, <1>4 DEF release
  <2>. QED BY <2>1, <2>2 DEF Atomic!release
<1>5. ASSUME NEW c \in Cpu, NEW l \in Lock, acquire(c, l) PROVE held' = held
  BY <1>5 DEF acquire
<1>6. ASSUME NEW c \in Cpu, Step(c) PROVE held' = held \/ own(c)
  BY <1>6 DEF Step, pushcli, ldrex, wfe, strex, unlock, sev, popcli
<1>7. ASSUME NEW c \in Cpu, Trap(c) PROVE held' = held
  <2>1. ASSUME trap_irq(c) PROVE held' = held
    <3>1. held[c] = {}
      BY <2>1, Unmasked DEF trap_irq
    <3>2. held' = [held EXCEPT ![c] = {}]
      BY <2>1 DEF trap_irq
    <3>. QED BY <1>0, <3>1, <3>2
  <2>2. ASSUME irq_return(c) PROVE held' = held
    <3>1. held[c] = {} /\ frame[c].held = {}
      BY <2>2 DEF irq_return, IInv, Suspended
    <3>2. held' = [held EXCEPT ![c] = frame[c].held]
      BY <2>2 DEF irq_return
    <3>. QED BY <1>0, <3>1, <3>2
  <2>. QED BY <1>7, <2>1, <2>2 DEF Trap, trap_swi, trapret
<1>8. ASSUME NEW c \in Cpu, Switch(c) PROVE held' = held
  BY <1>8 DEF Switch, sti, sched, swtch
<1>9. CASE UNCHANGED vars
  BY <1>2, <1>9 DEF vars
<1>. QED BY <1>2, <1>3, <1>4, <1>5, <1>6, <1>7, <1>8, <1>9 DEF Next, Atomic!Next

\* spinlock.c implements the atomic lock that the rest of the kernel relies on:
\* for any number of cores and locks, every step of the LDREX/STREX algorithm
\* is a step of AtomicLock or leaves it unchanged.
THEOREM Refinement == Spec => ImplementsAtomicLock
<1>1. Init => Atomic!Init
  BY DEF Init, Atomic!Init, HeldOn, NoFrame
<1>. QED BY <1>1, Invariance, StepSimulation, PTL DEF Spec, ImplementsAtomicLock, Atomic!Spec
===============================================================================
