---------------------------- MODULE MutexProofs ----------------------------
(***************************************************************************)
(* Mutual exclusion, the queue, the recursion count and the spinlock of    *)
(* the mutex of the new C library, for any set of threads, built for the   *)
(* Z80 family, and for the 8080 if the program calls no mtx_trylock().     *)
(***************************************************************************)
EXTENDS Mutex, SequenceTheorems, FiniteSetTheorems, TLAPS

(* No thread has the id that stands for "no owner". *)
LEMMA IdsAreNotZero == NoOwner \notin Threads
BY ThreadsAssumption DEF NoOwner

(***************************************************************************)
(* What taking an element out of a sequence leaves.                        *)
(***************************************************************************)
LEMMA RemoveAtElements ==
    ASSUME NEW S, NEW s \in Seq(S), NEW i \in 1 .. Len(s)
    PROVE  /\ RemoveAt(s, i) \in Seq(S)
           /\ Len(RemoveAt(s, i)) = Len(s) - 1
           /\ \A j \in 1 .. Len(s) - 1 :
                 RemoveAt(s, i)[j] = IF j < i THEN s[j] ELSE s[j + 1]
<1> DEFINE a == SubSeq(s, 1, i - 1)
           b == SubSeq(s, i + 1, Len(s))
<1>1. a \in Seq(S) /\ Len(a) = i - 1 /\ \A j \in 1 .. i - 1 : a[j] = s[j]
  OBVIOUS
<1>2. b \in Seq(S) /\ Len(b) = Len(s) - i /\ \A j \in 1 .. Len(s) - i : b[j] = s[i + j]
  OBVIOUS
<1>3. RemoveAt(s, i) = a \o b
  BY DEF RemoveAt
<1> HIDE DEF a, b
<1>4. /\ a \o b \in Seq(S) /\ Len(a \o b) = Len(a) + Len(b)
      /\ \A j \in 1 .. Len(a) + Len(b) :
            (a \o b)[j] = IF j <= Len(a) THEN a[j] ELSE b[j - Len(a)]
  BY <1>1, <1>2, ConcatProperties
<1> QED
  BY <1>1, <1>2, <1>3, <1>4

(* The zeroed mutex of a program that has not called mtx_init(). *)
LEMMA InitCore == Init => CoreInv
BY CountAssumption
   DEF Init, CoreInv, TypeOK, Called, SpinExclusion, OwnerKnown, CountExact,
       QueueExact, FreeMeansEmpty, NoStrandedWaiter, InSpin, SpinPCs, PCs, Out,
       Ops, Results, NoOwner

-----------------------------------------------------------------------------
(***************************************************************************)
(* How many count on the byte of the 8080.                                 *)
(***************************************************************************)
LEMMA CountedIs ==
    /\ IsFiniteSet(Threads) /\ IsFiniteSet(Counted)
    /\ Cardinality(Counted) \in 0 .. 255
    /\ Cardinality(Counted) = 0 <=> Counted = {}
    /\ Cardinality(Threads) \in 0 .. 255
<1>1. IsFiniteSet(Threads) /\ Cardinality(Threads) <= 255
  <2>1. \A a, b \in Int :
           /\ IsFiniteSet(a .. b)
           /\ Cardinality(a .. b) = IF a > b THEN 0 ELSE b - a + 1
    BY FS_Interval
  <2>2. PICK n \in Int : n = 255
    OBVIOUS
  <2>3. IsFiniteSet(1 .. n) /\ Cardinality(1 .. n) = n
    <3>1. 1 \in Int /\ n - 1 + 1 = n /\ ~ (1 > n)
      BY <2>2
    <3>2. IsFiniteSet(1 .. n) /\ Cardinality(1 .. n) = IF 1 > n THEN 0 ELSE n - 1 + 1
      BY <2>1, <3>1, Zenon
    <3> QED
      BY <3>1, <3>2
  <2>4. Threads \in SUBSET (1 .. n)
    BY <2>2, ThreadsAssumption
  <2>5. IsFiniteSet(Threads) /\ Cardinality(Threads) <= Cardinality(1 .. n)
    BY <2>3, <2>4, FS_Subset
  <2> QED
    BY <2>2, <2>3, <2>5
<1>2. Cardinality(Threads) \in Nat
  BY <1>1, FS_CardinalityType
<1>3. Counted \in SUBSET Threads
  BY DEF Counted
<1>4. IsFiniteSet(Counted) /\ Cardinality(Counted) <= Cardinality(Threads)
  BY <1>1, <1>3, FS_Subset
<1>5. Cardinality(Counted) \in Nat /\ (Cardinality(Counted) = 0 <=> Counted = {})
  BY <1>4, FS_CardinalityType, FS_EmptySet
<1> QED
  BY <1>1, <1>2, <1>4, <1>5

(* Who finds the spinlock free is alone. *)
LEMMA TakenAlone ==
    ASSUME MInv, type # 0, Takes
    PROVE  \A u \in Threads : ~ InSpin(u)
<1>1. CASE Intel
  <2>1. Cardinality(Counted) = 0
    BY <1>1 DEF MInv, SpinByte, IntelByte, Takes, Taken
  <2> QED
    BY <2>1, CountedIs DEF Counted
<1>2. CASE ~ Intel
  BY <1>2 DEF MInv, SpinByte, Z80Byte, Takes
<1> QED
  BY <1>1, <1>2

-----------------------------------------------------------------------------
(***************************************************************************)
(* Steps that leave the queue and the set of blocked threads alone.        *)
(***************************************************************************)
LEMMA QueueKept ==
    ASSUME MInv, q' = q,
           \A u \in Threads : pc'[u] = "blocked" <=> pc[u] = "blocked"
    PROVE  QueueExact'
BY DEF MInv, CoreInv, QueueExact

(* mtx_lock, mtx_timedlock and mtx_trylock up to the spinlock keep the invariant. *)
LEMMA LockPreserves ==
    ASSUME MInv, NEW t \in Threads, NEW o \in Ops \ {"unlock"}, Lock(t, o)
    PROVE  CoreInv'
<1> USE IdsAreNotZero DEF MInv, CoreInv, InSpin, SpinPCs, Out, NoOwner
<1>1. TypeOK'
  <2>1. lock_count' \in 0 .. CountMax /\ depth' \in [Threads -> 0 .. CountMax]
    <3>1. owner = t => depth[t] = lock_count
      BY DEF Lock, CountExact, OwnerKnown
    <3>2. CASE UNCHANGED <<lock_count, depth>>
      BY <3>2 DEF TypeOK
    <3>3. CASE /\ owner = t /\ lock_count < CountMax /\ lock_count' = lock_count + 1
               /\ depth' = [depth EXCEPT ![t] = @ + 1]
      BY <3>1, <3>3, CountAssumption DEF TypeOK
    <3> QED
      BY <3>2, <3>3 DEF Lock, Owned
  <2>2. pc' \in [Threads -> PCs] /\ op' \in [Threads -> Ops]
    BY DEF Lock, Owned, Return, Goto, TypeOK, PCs, Ops
  <2>3. hl' \in Results /\ carry' \in {0, 1}
    BY DEF Lock, Owned, Return, result, TypeOK, Results
  <2> QED
    BY <2>1, <2>2, <2>3 DEF Lock, TypeOK
<1>2. Called' /\ SpinExclusion'
  <2>1. \E p \in {Out, "spin"} : pc' = [pc EXCEPT ![t] = p]
    BY DEF Lock, Owned, Return, Goto
  <2>2. pc[t] = Out /\ UNCHANGED <<type, spinlock>>
    BY DEF Lock
  <2>3. type = 0 => pc' = [pc EXCEPT ![t] = Out]
    BY DEF Lock, Return, Goto
  <2> QED
    BY <2>1, <2>2, <2>3 DEF TypeOK, Called, SpinExclusion
<1>3. OwnerKnown' /\ CountExact'
  BY CountAssumption
     DEF Lock, MayCall, Owned, IsRecursive, Return, Goto, fields, result, TypeOK, SpinExclusion, OwnerKnown, CountExact
<1>4. QueueExact'
  BY QueueKept DEF Lock, MayCall, Owned, IsRecursive, Return, Goto, fields, result, TypeOK
<1>5. FreeMeansEmpty' /\ NoStrandedWaiter'
  BY DEF Lock, MayCall, Owned, IsRecursive, Return, Goto, fields, result, TypeOK, SpinExclusion, OwnerKnown,
         FreeMeansEmpty, NoStrandedWaiter, Called
<1> QED
  BY <1>1, <1>2, <1>3, <1>4, <1>5

(* mtx_unlock up to the spinlock keeps the invariant. *)
LEMMA UnlockPreserves ==
    ASSUME MInv, NEW t \in Threads, mtx_unlock(t)
    PROVE  CoreInv'
<1> USE IdsAreNotZero DEF MInv, CoreInv, InSpin, SpinPCs, Out, NoOwner
<1>1. TypeOK'
  <2>1. lock_count' \in 0 .. CountMax /\ depth' \in [Threads -> 0 .. CountMax]
    <3>1. owner = t => depth[t] = lock_count /\ depth[t] > 0
      BY DEF mtx_unlock, CountExact, OwnerKnown
    <3>2. CASE UNCHANGED <<lock_count, depth>>
      BY <3>2 DEF TypeOK
    <3>3. CASE /\ owner = t /\ lock_count' = lock_count - 1
               /\ depth' = [depth EXCEPT ![t] = @ - 1]
      BY <3>1, <3>3, CountAssumption DEF TypeOK
    <3> QED
      BY <3>2, <3>3 DEF mtx_unlock
  <2>2. pc' \in [Threads -> PCs] /\ op' \in [Threads -> Ops]
    BY DEF mtx_unlock, Return, Goto, TypeOK, PCs, Ops
  <2>3. hl' \in Results /\ carry' \in {0, 1}
    BY DEF mtx_unlock, Return, result, TypeOK, Results
  <2> QED
    BY <2>1, <2>2, <2>3 DEF mtx_unlock, TypeOK
<1>2. Called' /\ SpinExclusion'
  <2>1. \E p \in {Out, "spin"} : pc' = [pc EXCEPT ![t] = p]
    BY DEF mtx_unlock, Return, Goto, result
  <2>2. pc[t] = Out /\ UNCHANGED <<type, spinlock>>
    BY DEF mtx_unlock
  <2>3. type = 0 => pc' = [pc EXCEPT ![t] = Out]
    BY DEF mtx_unlock, Return, Goto
  <2> QED
    BY <2>1, <2>2, <2>3 DEF TypeOK, Called, SpinExclusion
<1>3. OwnerKnown' /\ CountExact'
  BY CountAssumption
     DEF mtx_unlock, Return, Goto, fields, result, TypeOK, SpinExclusion, OwnerKnown, CountExact
<1>4. QueueExact'
  BY QueueKept DEF mtx_unlock, Return, Goto, fields, result, TypeOK
<1>5. FreeMeansEmpty' /\ NoStrandedWaiter'
  BY DEF mtx_unlock, Return, Goto, fields, result, TypeOK, SpinExclusion, OwnerKnown,
         FreeMeansEmpty, NoStrandedWaiter, Called
<1> QED
  BY <1>1, <1>2, <1>3, <1>4, <1>5

(* The byte of the spinlock is a byte, whatever is done to it. *)
LEMMA BytesStay ==
    ASSUME spinlock \in 0 .. 255
    PROVE  Taken \in 0 .. 255 /\ Released \in 0 .. 255 /\ (spinlock - 1) % 256 \in 0 .. 255
<1>1. spinlock + 1 \in Int /\ spinlock - 1 \in Int /\ 128 + spinlock \div 2 \in 0 .. 255
  OBVIOUS
<1>2. (spinlock + 1) % 256 \in 0 .. 255 /\ (spinlock - 1) % 256 \in 0 .. 255
  BY <1>1
<1> QED
  BY <1>1, <1>2 DEF Taken, Released

(* asm_spinlock_acquire keeps the invariant. *)
LEMMA AcquirePreserves ==
    ASSUME MInv, NEW t \in Threads, asm_spinlock_acquire(t)
    PROVE  CoreInv'
<1> USE IdsAreNotZero DEF MInv, CoreInv, InSpin, SpinPCs, Out, NoOwner
<1>1. TypeOK'
  <2>1. spinlock' \in 0 .. 255
    BY BytesStay DEF asm_spinlock_acquire, TypeOK
  <2>2. pc' \in [Threads -> PCs]
    BY DEF asm_spinlock_acquire, Goto, TypeOK, PCs
  <2> QED
    BY <2>1, <2>2 DEF asm_spinlock_acquire, TypeOK, fields, result
<1>2. Called' /\ SpinExclusion'
  <2>1. pc[t] = "spin" /\ type # 0
    BY DEF asm_spinlock_acquire, Called
  <2>2. Takes => \A u \in Threads : ~ InSpin(u)
    BY <2>1, TakenAlone
  <2> QED
    BY <2>1, <2>2 DEF asm_spinlock_acquire, Goto, fields, result, TypeOK, Called, SpinExclusion
<1>3. OwnerKnown' /\ CountExact'
  BY CountAssumption
     DEF asm_spinlock_acquire, Goto, fields, result, TypeOK, OwnerKnown, CountExact
<1>4. QueueExact'
  BY QueueKept DEF asm_spinlock_acquire, Goto, fields, result, TypeOK
<1>5. FreeMeansEmpty' /\ NoStrandedWaiter'
  BY DEF asm_spinlock_acquire, Goto, fields, result, TypeOK, OwnerKnown,
         FreeMeansEmpty, NoStrandedWaiter
<1> QED
  BY <1>1, <1>2, <1>3, <1>4, <1>5

(* A failed attempt that is undone keeps the invariant. *)
LEMMA UndoPreserves ==
    ASSUME MInv, NEW t \in Threads, acquisition_failed(t)
    PROVE  CoreInv'
<1> USE IdsAreNotZero DEF MInv, CoreInv, InSpin, SpinPCs, Out, NoOwner
<1>1. TypeOK'
  <2>1. spinlock' \in 0 .. 255
    BY BytesStay DEF acquisition_failed, TypeOK
  <2>2. pc' \in [Threads -> PCs]
    BY DEF acquisition_failed, Goto, TypeOK, PCs
  <2> QED
    BY <2>1, <2>2 DEF acquisition_failed, TypeOK, fields, result
<1>2. Called' /\ SpinExclusion'
  BY DEF acquisition_failed, Goto, fields, result, TypeOK, Called, SpinExclusion
<1>3. OwnerKnown' /\ CountExact'
  BY CountAssumption
     DEF acquisition_failed, Goto, fields, result, TypeOK, OwnerKnown, CountExact
<1>4. QueueExact'
  BY QueueKept DEF acquisition_failed, Goto, fields, result, TypeOK
<1>5. FreeMeansEmpty' /\ NoStrandedWaiter'
  BY DEF acquisition_failed, Goto, fields, result, TypeOK, OwnerKnown,
         FreeMeansEmpty, NoStrandedWaiter
<1> QED
  BY <1>1, <1>2, <1>3, <1>4, <1>5

(* Testing the owner under the spinlock keeps the invariant. *)
LEMMA TestPreserves ==
    ASSUME MInv, NEW t \in Threads, test_owner(t)
    PROVE  CoreInv'
<1> USE IdsAreNotZero DEF MInv, CoreInv, InSpin, SpinPCs, Out, NoOwner
<1>1. TypeOK'
  BY CountAssumption DEF test_owner, Goto, fields, result, TypeOK, PCs, Ops, Results, CountExact, OwnerKnown, Called
<1>2. Called' /\ SpinExclusion'
  BY DEF test_owner, Goto, fields, result, TypeOK, Called, SpinExclusion
<1>3. OwnerKnown' /\ CountExact'
  BY CountAssumption
     DEF test_owner, Goto, fields, result, TypeOK, SpinExclusion, OwnerKnown, CountExact
<1>4. QueueExact'
  BY QueueKept DEF test_owner, Goto, fields, result, TypeOK
<1>5. FreeMeansEmpty' /\ NoStrandedWaiter'
  BY DEF test_owner, Goto, fields, result, TypeOK, SpinExclusion, OwnerKnown,
         FreeMeansEmpty, NoStrandedWaiter, Called
<1> QED
  BY <1>1, <1>2, <1>3, <1>4, <1>5

(* The failure path of mtx_trylock keeps the invariant. *)
LEMMA BusyPreserves ==
    ASSUME MInv, NEW t \in Threads, trylock_failed(t)
    PROVE  CoreInv'
<1> USE IdsAreNotZero DEF MInv, CoreInv, InSpin, SpinPCs, Out, NoOwner
<1>1. TypeOK'
  BY CountAssumption DEF trylock_failed, Return, Goto, fields, result, TypeOK, PCs, Ops, Results, CountExact, OwnerKnown, Called
<1>2. Called' /\ SpinExclusion'
  BY DEF trylock_failed, Return, Goto, fields, result, TypeOK, Called, SpinExclusion
<1>3. OwnerKnown' /\ CountExact'
  BY CountAssumption
     DEF trylock_failed, Return, Goto, fields, result, TypeOK, SpinExclusion, OwnerKnown, CountExact
<1>4. QueueExact'
  BY QueueKept DEF trylock_failed, Return, Goto, fields, result, TypeOK
<1>5. FreeMeansEmpty' /\ NoStrandedWaiter'
  BY DEF trylock_failed, Return, Goto, fields, result, TypeOK, SpinExclusion, OwnerKnown,
         FreeMeansEmpty, NoStrandedWaiter, Called
<1> QED
  BY <1>1, <1>2, <1>3, <1>4, <1>5

(* Claiming the ownership keeps the invariant. *)
LEMMA ClaimPreserves ==
    ASSUME MInv, NEW t \in Threads, claim_owner(t)
    PROVE  CoreInv'
<1> USE IdsAreNotZero DEF MInv, CoreInv, InSpin, SpinPCs, Out, NoOwner
<1>1. TypeOK'
  BY CountAssumption DEF claim_owner, Goto, fields, result, TypeOK, PCs, Ops, Results, CountExact, OwnerKnown, Called
<1>2. Called' /\ SpinExclusion'
  BY DEF claim_owner, Goto, fields, result, TypeOK, Called, SpinExclusion
<1>3. OwnerKnown' /\ CountExact'
  BY CountAssumption
     DEF claim_owner, Goto, fields, result, TypeOK, SpinExclusion, OwnerKnown, CountExact
<1>4. QueueExact'
  BY QueueKept DEF claim_owner, Goto, fields, result, TypeOK
<1>5. FreeMeansEmpty' /\ NoStrandedWaiter'
  BY DEF claim_owner, Goto, fields, result, TypeOK, SpinExclusion, OwnerKnown,
         FreeMeansEmpty, NoStrandedWaiter, Called
<1> QED
  BY <1>1, <1>2, <1>3, <1>4, <1>5

(* Setting the lock count keeps the invariant. *)
LEMMA CountPreserves ==
    ASSUME MInv, NEW t \in Threads, claim_count(t)
    PROVE  CoreInv'
<1> USE IdsAreNotZero DEF MInv, CoreInv, InSpin, SpinPCs, Out, NoOwner
<1>1. TypeOK'
  BY CountAssumption DEF claim_count, Goto, fields, result, TypeOK, PCs, Ops, Results, CountExact, OwnerKnown, Called
<1>2. Called' /\ SpinExclusion'
  BY DEF claim_count, Goto, fields, result, TypeOK, Called, SpinExclusion
<1>3. OwnerKnown' /\ CountExact'
  BY CountAssumption
     DEF claim_count, Goto, fields, result, TypeOK, SpinExclusion, OwnerKnown, CountExact
<1>4. QueueExact'
  BY QueueKept DEF claim_count, Goto, fields, result, TypeOK
<1>5. FreeMeansEmpty' /\ NoStrandedWaiter'
  BY DEF claim_count, Goto, fields, result, TypeOK, SpinExclusion, OwnerKnown,
         FreeMeansEmpty, NoStrandedWaiter, Called
<1> QED
  BY <1>1, <1>2, <1>3, <1>4, <1>5

(* Releasing the spinlock after a claim keeps the invariant. *)
LEMMA ReleasePreserves ==
    ASSUME MInv, NEW t \in Threads, claim_release(t)
    PROVE  CoreInv'
<1> USE IdsAreNotZero DEF MInv, CoreInv, InSpin, SpinPCs, Out, NoOwner
<1>1. TypeOK'
  <2>1. spinlock' \in 0 .. 255
    BY BytesStay DEF claim_release, TypeOK
  <2> QED
    BY <2>1, CountAssumption DEF claim_release, Return, Goto, fields, TypeOK, PCs, Results
<1>2. Called' /\ SpinExclusion'
  BY DEF claim_release, Return, Goto, fields, result, TypeOK, Called, SpinExclusion
<1>3. OwnerKnown' /\ CountExact'
  BY CountAssumption
     DEF claim_release, Return, Goto, fields, result, TypeOK, SpinExclusion, OwnerKnown, CountExact
<1>4. QueueExact'
  BY QueueKept DEF claim_release, Return, Goto, fields, result, TypeOK
<1>5. FreeMeansEmpty' /\ NoStrandedWaiter'
  BY DEF claim_release, Return, Goto, fields, result, TypeOK, SpinExclusion, OwnerKnown,
         FreeMeansEmpty, NoStrandedWaiter, Called
<1> QED
  BY <1>1, <1>2, <1>3, <1>4, <1>5

(* Giving the ownership up keeps the invariant. *)
LEMMA DisownPreserves ==
    ASSUME MInv, NEW t \in Threads, relinquish_ownership(t)
    PROVE  CoreInv'
<1> USE IdsAreNotZero DEF MInv, CoreInv, InSpin, SpinPCs, Out, NoOwner
<1>1. TypeOK'
  BY CountAssumption DEF relinquish_ownership, Goto, fields, result, TypeOK, PCs, Ops, Results, CountExact, OwnerKnown, Called
<1>2. Called' /\ SpinExclusion'
  BY DEF relinquish_ownership, Goto, fields, result, TypeOK, Called, SpinExclusion
<1>3. OwnerKnown' /\ CountExact'
  BY CountAssumption
     DEF relinquish_ownership, Goto, fields, result, TypeOK, SpinExclusion, OwnerKnown, CountExact
<1>4. QueueExact'
  BY QueueKept DEF relinquish_ownership, Goto, fields, result, TypeOK
<1>5. FreeMeansEmpty' /\ NoStrandedWaiter'
  BY DEF relinquish_ownership, Goto, fields, result, TypeOK, SpinExclusion, OwnerKnown,
         FreeMeansEmpty, NoStrandedWaiter, Called
<1> QED
  BY <1>1, <1>2, <1>3, <1>4, <1>5

(* Releasing the spinlock in mtx_unlock keeps the invariant. *)
LEMMA FreePreserves ==
    ASSUME MInv, NEW t \in Threads, unlock_release(t)
    PROVE  CoreInv'
<1> USE IdsAreNotZero DEF MInv, CoreInv, InSpin, SpinPCs, Out, NoOwner
<1>1. TypeOK'
  <2>1. spinlock' \in 0 .. 255
    BY BytesStay DEF unlock_release, TypeOK
  <2> QED
    BY <2>1 DEF unlock_release, Return, Goto, fields, TypeOK, PCs, Results
<1>2. Called' /\ SpinExclusion'
  BY DEF unlock_release, Return, Goto, fields, result, TypeOK, Called, SpinExclusion
<1>3. OwnerKnown' /\ CountExact'
  BY CountAssumption
     DEF unlock_release, Return, Goto, fields, result, TypeOK, SpinExclusion, OwnerKnown, CountExact
<1>4. QueueExact'
  BY QueueKept DEF unlock_release, Return, Goto, fields, result, TypeOK
<1>5. FreeMeansEmpty' /\ NoStrandedWaiter'
  BY DEF unlock_release, Return, Goto, fields, result, TypeOK, SpinExclusion, OwnerKnown,
         FreeMeansEmpty, NoStrandedWaiter, Called
<1> QED
  BY <1>1, <1>2, <1>3, <1>4, <1>5

(***************************************************************************)
(* Steps that change the queue.                                            *)
(***************************************************************************)
LEMMA BlockPreserves ==
    ASSUME MInv, NEW t \in Threads, thread_block_timeout(t)
    PROVE  CoreInv'
<1> USE IdsAreNotZero DEF MInv, CoreInv, InSpin, SpinPCs, Out, NoOwner
<1>0. /\ pc[t] = "block" /\ spinlock' \in 0 .. 255 /\ q' = Append(q, t)
      /\ pc' = [pc EXCEPT ![t] = "blocked"]
      /\ UNCHANGED <<build, owner, type, lock_count, op, hl, carry, depth>>
  BY BytesStay DEF thread_block_timeout, Goto, fields, result, TypeOK
<1>1. /\ q' \in Seq(Threads) /\ Len(q') = Len(q) + 1 /\ Len(q) \in Nat
      /\ \A i \in 1 .. Len(q) : q'[i] = q[i]
      /\ q'[Len(q) + 1] = t
  BY <1>0, AppendProperties DEF TypeOK
<1>2. TypeOK'
  BY <1>0, <1>1 DEF TypeOK, PCs
<1>3. Called' /\ SpinExclusion'
  BY <1>0 DEF TypeOK, Called, SpinExclusion
<1>4. OwnerKnown' /\ CountExact'
  BY <1>0 DEF TypeOK, OwnerKnown, CountExact
<1>5. QueueExact'
  <2>1. \A i \in 1 .. Len(q) : q[i] \in Threads /\ pc[q[i]] = "blocked" /\ q[i] # t
    BY <1>0 DEF QueueExact, TypeOK
  <2>2. \A i, j \in 1 .. Len(q') : q'[i] = q'[j] => i = j
    BY <1>1, <2>1 DEF QueueExact
  <2>3. \A u \in Threads : pc'[u] = "blocked" <=> \E i \in 1 .. Len(q') : q'[i] = u
    <3> TAKE u \in Threads
    <3>1. CASE u = t
      BY <1>0, <1>1, <3>1 DEF TypeOK
    <3>2. CASE u # t
      <4>1. pc'[u] = pc[u]
        BY <1>0, <3>2 DEF TypeOK
      <4>2. (\E i \in 1 .. Len(q') : q'[i] = u) <=> (\E i \in 1 .. Len(q) : q[i] = u)
        BY <1>1, <3>2
      <4> QED
        BY <4>1, <4>2 DEF QueueExact
    <3> QED
      BY <3>1, <3>2
  <2> QED
    BY <2>2, <2>3 DEF QueueExact
<1>6. FreeMeansEmpty' /\ NoStrandedWaiter'
  BY <1>0 DEF TypeOK, SpinExclusion, OwnerKnown, FreeMeansEmpty, NoStrandedWaiter
<1> QED
  BY <1>2, <1>3, <1>4, <1>5, <1>6

(* The expiry of a time limit keeps the invariant. *)
LEMMA ExpiryPreserves ==
    ASSUME MInv, NEW t \in Threads, time_expires(t)
    PROVE  CoreInv'
<1> USE IdsAreNotZero DEF MInv, CoreInv, InSpin, SpinPCs, Out, NoOwner
<1>0. PICK k \in 1 .. Len(q) : q[k] = t /\ q' = RemoveAt(q, k)
  BY DEF time_expires
<1>1. /\ pc[t] = "blocked" /\ pc' = [pc EXCEPT ![t] = Out]
      /\ hl' = "thrd_error" /\ carry' = 1
      /\ UNCHANGED <<build, owner, type, lock_count, spinlock, op, depth>>
  BY DEF time_expires, Return, Goto, fields
<1>2. /\ q' \in Seq(Threads) /\ Len(q') = Len(q) - 1 /\ Len(q) \in Nat
      /\ \A j \in 1 .. Len(q) - 1 : q'[j] = IF j < k THEN q[j] ELSE q[j + 1]
  <2>1. q \in Seq(Threads) /\ Len(q) \in Nat
    BY DEF TypeOK
  <2>2. /\ RemoveAt(q, k) \in Seq(Threads)
        /\ Len(RemoveAt(q, k)) = Len(q) - 1
        /\ \A j \in 1 .. Len(q) - 1 :
              RemoveAt(q, k)[j] = IF j < k THEN q[j] ELSE q[j + 1]
    BY ONLY <2>1, k \in 1 .. Len(q), RemoveAtElements
  <2> QED
    BY ONLY <1>0, <2>1, <2>2
<1>3. TypeOK'
  <2>1. pc' \in [Threads -> PCs]
    BY <1>1 DEF TypeOK, PCs
  <2>2. hl' \in Results /\ carry' \in {0, 1}
    BY <1>1 DEF TypeOK, Results
  <2> QED
    BY <1>1, <1>2, <2>1, <2>2 DEF TypeOK
<1>4. Called' /\ SpinExclusion'
  BY <1>1 DEF TypeOK, Called, SpinExclusion
<1>5. OwnerKnown' /\ CountExact'
  BY <1>1 DEF TypeOK, OwnerKnown, CountExact
<1>6. QueueExact'
  <2>1. \A i \in 1 .. Len(q) : i # k => q[i] # t
    BY <1>0 DEF QueueExact
  <2>2. \A i, j \in 1 .. Len(q') : q'[i] = q'[j] => i = j
    BY <1>2 DEF QueueExact
  <2>3. \A u \in Threads : pc'[u] = "blocked" <=> \E i \in 1 .. Len(q') : q'[i] = u
    <3> TAKE u \in Threads
    <3>1. CASE u = t
      <4>1. \A i \in 1 .. Len(q') : q'[i] # t
        BY <1>2, <2>1
      <4> QED
        BY <1>1, <3>1, <4>1 DEF TypeOK
    <3>2. CASE u # t
      <4>1. pc'[u] = pc[u]
        BY <1>1, <3>2 DEF TypeOK
      <4>2. ASSUME NEW i \in 1 .. Len(q), q[i] = u
            PROVE  \E j \in 1 .. Len(q') : q'[j] = u
        <5>1. CASE i < k
          BY <1>2, <4>2, <5>1
        <5>2. CASE i > k
          <6>1. i - 1 \in 1 .. Len(q') /\ q'[i - 1] = q[i]
            BY <1>2, <5>2
          <6> QED
            BY <4>2, <6>1
        <5> QED
          BY <1>0, <3>2, <4>2, <5>1, <5>2
      <4>3. ASSUME NEW j \in 1 .. Len(q'), q'[j] = u
            PROVE  \E i \in 1 .. Len(q) : q[i] = u
        BY <1>2, <4>3
      <4> QED
        BY <4>1, <4>2, <4>3 DEF QueueExact
    <3> QED
      BY <3>1, <3>2
  <2> QED
    BY <2>2, <2>3 DEF QueueExact
<1>7. q # <<>>
  BY <1>0, <1>2
<1>8. FreeMeansEmpty' /\ NoStrandedWaiter'
  BY <1>1, <1>7 DEF TypeOK, FreeMeansEmpty, NoStrandedWaiter
<1> QED
  BY <1>3, <1>4, <1>5, <1>6, <1>8

(* __thread_unblock with the hand-over keeps the invariant. *)
LEMMA UnblockPreserves ==
    ASSUME MInv, NEW t \in Threads, thread_unblock(t)
    PROVE  CoreInv'
<1> USE IdsAreNotZero DEF MInv, CoreInv, InSpin, SpinPCs, Out, NoOwner
<1>0. /\ pc[t] = "unblock"
      /\ UNCHANGED <<build, owner, type, lock_count, spinlock, op, depth>>
  BY DEF thread_unblock, fields
<1>1. CASE q = <<>> /\ pc' = [pc EXCEPT ![t] = "free"] /\ UNCHANGED <<q, hl, carry>>
  <2>1. TypeOK'
    BY <1>0, <1>1 DEF TypeOK, PCs
  <2>2. Called' /\ SpinExclusion' /\ OwnerKnown' /\ CountExact'
    BY <1>0, <1>1 DEF TypeOK, Called, SpinExclusion, OwnerKnown, CountExact
  <2>3. QueueExact'
    BY <1>0, <1>1, QueueKept DEF TypeOK
  <2>4. FreeMeansEmpty' /\ NoStrandedWaiter'
    BY <1>1 DEF FreeMeansEmpty, NoStrandedWaiter
  <2> QED
    BY <2>1, <2>2, <2>3, <2>4
<1>2. CASE /\ q # <<>> /\ q' = Tail(q)
           /\ pc' = [pc EXCEPT ![t] = Out, ![Head(q)] = "claim"]
           /\ hl' = "thrd_success"
           /\ carry' = 0
  <2> DEFINE h == Head(q)
  <2>1. /\ q' \in Seq(Threads) /\ Len(q') = Len(q) - 1
        /\ \A i \in 1 .. Len(q') : q'[i] = q[i + 1]
    BY <1>2, HeadTailProperties DEF TypeOK
  <2>2. h \in Threads /\ h = q[1] /\ Len(q) \in Nat \ {0}
    BY <1>2, HeadTailProperties DEF TypeOK
  <2>3. pc[h] = "blocked" /\ h # t
    BY <1>0, <2>2 DEF QueueExact
  <2>4. /\ pc' \in [Threads -> PCs] /\ pc'[t] = Out /\ pc'[h] = "claim"
        /\ \A u \in Threads \ {t, h} : pc'[u] = pc[u]
    BY <1>2, <2>2, <2>3 DEF TypeOK, PCs
  <2> HIDE DEF h
  <2>5. TypeOK'
    BY <1>0, <1>2, <2>1, <2>4 DEF TypeOK, Results
  <2>6. Called' /\ SpinExclusion'
    BY <1>0, <2>2, <2>3, <2>4 DEF Called, SpinExclusion
  <2>7. OwnerKnown' /\ CountExact'
    BY <1>0, <2>2, <2>3, <2>4 DEF OwnerKnown, CountExact
  <2>8. QueueExact'
    <3>1. \A i, j \in 1 .. Len(q') : q'[i] = q'[j] => i = j
      BY <2>1, <2>2 DEF QueueExact
    <3>2. \A i \in 1 .. Len(q') : q'[i] # h
      BY <2>1, <2>2 DEF QueueExact
    <3>3. \A u \in Threads : pc'[u] = "blocked" <=> \E i \in 1 .. Len(q') : q'[i] = u
      <4> TAKE u \in Threads
      <4>1. CASE u = h
        BY <2>4, <3>2, <4>1
      <4>2. CASE u = t
        <5>1. \A i \in 1 .. Len(q) : q[i] # t
          BY <1>0 DEF QueueExact
        <5> QED
          BY <2>1, <2>2, <2>4, <4>2, <5>1
      <4>3. CASE u \notin {t, h}
        <5>1. ASSUME NEW i \in 1 .. Len(q), q[i] = u
              PROVE  \E j \in 1 .. Len(q') : q'[j] = u
          <6>1. i - 1 \in 1 .. Len(q') /\ q'[i - 1] = q[i]
            BY <2>1, <2>2, <4>3, <5>1
          <6> QED
            BY <5>1, <6>1
        <5>2. ASSUME NEW j \in 1 .. Len(q'), q'[j] = u
              PROVE  \E i \in 1 .. Len(q) : q[i] = u
          BY <2>1, <2>2, <5>2
        <5> QED
          BY <2>4, <4>3, <5>1, <5>2 DEF QueueExact
      <4> QED
        BY <4>1, <4>2, <4>3
    <3> QED
      BY <3>1, <3>3 DEF QueueExact
  <2>9. FreeMeansEmpty' /\ NoStrandedWaiter'
    BY <1>0, <2>2, <2>3, <2>4 DEF SpinExclusion, FreeMeansEmpty, NoStrandedWaiter
  <2> QED
    BY <2>5, <2>6, <2>7, <2>8, <2>9
<1> QED
  BY <1>1, <1>2 DEF thread_unblock, Goto, result

-----------------------------------------------------------------------------
(* mtx_init and mtx_destroy keep the invariant. *)
LEMMA LifePreserves ==
    ASSUME MInv, NEW t \in Threads,
           (\E c \in InitTypes : mtx_init(t, c)) \/ mtx_destroy(t)
    PROVE  CoreInv'
<1> USE IdsAreNotZero DEF MInv, CoreInv, InSpin, SpinPCs, Out, NoOwner
<1>1. /\ \A u \in Threads : pc[u] = Out /\ depth[u] = 0
      /\ pc' \in [Threads -> PCs] /\ \A u \in Threads : pc'[u] = Out
      /\ UNCHANGED <<build, op, depth>>
  BY DEF mtx_init, mtx_destroy, Unused, Return, Goto, TypeOK, PCs
<1>2. hl' \in Results /\ carry' \in {0, 1}
  BY DEF mtx_init, mtx_destroy, Return, result, TypeOK, Results
<1>3. CASE UNCHANGED <<owner, type, lock_count, spinlock, q>>
  <2>1. TypeOK'
    BY <1>1, <1>2, <1>3 DEF TypeOK
  <2>2. Called' /\ SpinExclusion' /\ OwnerKnown' /\ CountExact'
    BY <1>1, <1>3 DEF Called, SpinExclusion, OwnerKnown, CountExact
  <2>3. QueueExact' /\ FreeMeansEmpty' /\ NoStrandedWaiter'
    BY <1>1, <1>3 DEF QueueExact, FreeMeansEmpty, NoStrandedWaiter
  <2> QED
    BY <2>1, <2>2, <2>3
<1>4. CASE /\ owner' = NoOwner /\ lock_count' = 0 /\ q' = <<>>
           /\ type' \in 0 .. 7 /\ spinlock' \in 0 .. 255
  <2>1. TypeOK'
    BY <1>1, <1>2, <1>4, CountAssumption DEF TypeOK
  <2>2. Called' /\ SpinExclusion' /\ OwnerKnown' /\ CountExact'
    BY <1>1, <1>4 DEF Called, SpinExclusion, OwnerKnown, CountExact
  <2>3. QueueExact' /\ FreeMeansEmpty' /\ NoStrandedWaiter'
    BY <1>1, <1>4 DEF QueueExact, FreeMeansEmpty, NoStrandedWaiter
  <2> QED
    BY <2>1, <2>2, <2>3
<1>5. CASE mtx_destroy(t)
  BY <1>4, <1>5 DEF mtx_destroy
<1>6. ASSUME NEW c \in InitTypes, mtx_init(t, c) PROVE CoreInv'
  <2>1. CASE UNCHANGED <<owner, type, lock_count, spinlock, q>>
    BY <1>3, <2>1
  <2>2. CASE /\ c \in 1 .. 7 /\ type' = c /\ spinlock' = FreeByte
             /\ owner' = NoOwner /\ lock_count' = 0 /\ q' = <<>>
    <3>1. type' \in 0 .. 7 /\ spinlock' \in 0 .. 255
      BY <2>2 DEF FreeByte
    <3> QED
      BY <1>4, <2>2, <3>1
  <2> QED
    BY <1>6, <2>1, <2>2 DEF mtx_init, fields
<1> QED
  BY <1>5, <1>6

-----------------------------------------------------------------------------
(***************************************************************************)
(* The byte of the spinlock.                                               *)
(***************************************************************************)
(* Steps of a thread that write no byte and stay on the side they are on. *)
Aside(t) ==
    /\ UNCHANGED <<type, spinlock>>
    /\ \A u \in Threads \ {t} : pc'[u] = pc[u]
    /\ InSpin(t)' <=> InSpin(t)
    /\ pc[t] # "undo" /\ pc'[t] # "undo"

LEMMA AsideKeeps ==
    ASSUME NEW t \in Threads, Aside(t)
    PROVE  /\ Counted' = Counted
           /\ Z80Byte => Z80Byte'
<1>1. \A u \in Threads : (InSpin(u)' <=> InSpin(u)) /\ (pc'[u] = "undo" <=> pc[u] = "undo")
  BY DEF Aside, InSpin
<1> QED
  BY <1>1 DEF Aside, Counted, Z80Byte

(* The steps that are. *)
LEMMA AsideSteps ==
    ASSUME CoreInv, NEW t \in Threads,
           \/ \E o \in Ops \ {"unlock"} : Lock(t, o)
           \/ mtx_unlock(t) \/ time_expires(t)
           \/ test_owner(t) \/ claim_owner(t) \/ claim_count(t) \/ relinquish_ownership(t)
           \/ thread_unblock(t) /\ q = <<>>
    PROVE  Aside(t)
<1>1. pc \in [Threads -> PCs]
  BY DEF CoreInv, TypeOK
<1>2. CASE \E o \in Ops \ {"unlock"} : Lock(t, o)
  BY <1>1, <1>2 DEF Lock, Owned, Return, Goto, Out, Aside, InSpin, SpinPCs, result
<1>3. CASE mtx_unlock(t)
  BY <1>1, <1>3 DEF mtx_unlock, Return, Goto, Out, Aside, InSpin, SpinPCs, result
<1>4. CASE time_expires(t)
  BY <1>1, <1>4 DEF time_expires, Return, Goto, Out, Aside, InSpin, SpinPCs, fields
<1>5. CASE test_owner(t) \/ claim_owner(t) \/ claim_count(t) \/ relinquish_ownership(t)
  BY <1>1, <1>5 DEF test_owner, claim_owner, claim_count, relinquish_ownership, Goto,
                    Aside, InSpin, SpinPCs, fields
<1>6. CASE thread_unblock(t) /\ q = <<>>
  BY <1>1, <1>6 DEF thread_unblock, Goto, Aside, InSpin, SpinPCs, fields
<1> QED
  BY <1>2, <1>3, <1>4, <1>5, <1>6

(* The hand-over: one thread leaves the spinlock and the one it wakes is under it. *)
LEMMA HandedOver ==
    ASSUME CoreInv, NEW t \in Threads, thread_unblock(t), q # <<>>
    PROVE  \E h \in Threads :
              /\ h # t /\ pc[h] = "blocked" /\ pc'[h] = "claim" /\ pc'[t] = Out
              /\ pc[t] = "unblock" /\ \A u \in Threads \ {t, h} : pc'[u] = pc[u]
              /\ UNCHANGED <<type, spinlock>>
<1>1. pc \in [Threads -> PCs] /\ q \in Seq(Threads)
  BY DEF CoreInv, TypeOK
<1>2. PICK h : h = Head(q)
  OBVIOUS
<1>3. h \in Threads /\ h = q[1] /\ 1 \in 1 .. Len(q)
  BY <1>1, <1>2, HeadTailProperties
<1>4. pc[h] = "blocked"
  BY <1>3 DEF CoreInv, QueueExact
<1>5. pc[t] = "unblock" /\ pc' = [pc EXCEPT ![t] = Out, ![h] = "claim"] /\ UNCHANGED <<type, spinlock>>
  BY <1>2 DEF thread_unblock, fields
<1>6. h # t
  BY <1>4, <1>5
<1> QED
  BY <1>1, <1>3, <1>4, <1>5, <1>6

(* The steps that give the spinlock back. *)
Leaves(t) ==
    /\ InSpin(t) /\ pc'[t] \in {Out, "blocked"}
    /\ \A u \in Threads \ {t} : pc'[u] = pc[u]
    /\ UNCHANGED type

LEMMA LeavingSteps ==
    ASSUME CoreInv, NEW t \in Threads,
           \/ trylock_failed(t) \/ claim_release(t) \/ unlock_release(t) \/ thread_block_timeout(t)
    PROVE  Leaves(t)
BY DEF CoreInv, TypeOK, trylock_failed, claim_release, unlock_release, thread_block_timeout,
       Return, Goto, Leaves, InSpin, SpinPCs, fields

-----------------------------------------------------------------------------
(* Acquiring and giving back on the Z80. *)
LEMMA InsideZ80 ==
    ASSUME ~ Intel, CoreInv, Z80Byte, NEW t \in Threads, Inside(t)
    PROVE  Z80Byte'
<1> USE DEF InSpin, SpinPCs
<1>1. pc \in [Threads -> PCs] /\ pc[t] # "undo" /\ type # 0 /\ spinlock \in {254, 255}
  BY DEF CoreInv, TypeOK, Called, Z80Byte, Inside, asm_spinlock_acquire, acquisition_failed,
         test_owner, trylock_failed, claim_owner, claim_count, claim_release,
         relinquish_ownership, unlock_release, thread_block_timeout, thread_unblock, Out
<1>2. CASE asm_spinlock_acquire(t)
  <2>1. spinlock' = 255
    <3>1. spinlock' = 128 + spinlock \div 2
      BY <1>2 DEF asm_spinlock_acquire, Taken
    <3> QED
      BY <1>1, <3>1
  <2>2. \A u \in Threads : pc'[u] # "undo"
    BY <1>1, <1>2 DEF asm_spinlock_acquire, Goto, Z80Byte
  <2> QED
    BY <2>1, <2>2 DEF Z80Byte
<1>3. CASE trylock_failed(t) \/ claim_release(t) \/ unlock_release(t) \/ thread_block_timeout(t)
  <2>1. spinlock' = 254
    BY <1>3 DEF trylock_failed, claim_release, unlock_release, thread_block_timeout, Released
  <2>2. Leaves(t)
    BY <1>3, LeavingSteps
  <2>3. \A u \in Threads \ {t} : ~ InSpin(u)
    BY <2>2 DEF Leaves, CoreInv, SpinExclusion
  <2> QED
    BY <2>1, <2>2, <2>3 DEF Leaves, Z80Byte, Out
<1>4. CASE thread_unblock(t) /\ q # <<>>
  <2>1. PICK h \in Threads :
              /\ h # t /\ pc[h] = "blocked" /\ pc'[h] = "claim" /\ pc'[t] = Out
              /\ pc[t] = "unblock" /\ \A u \in Threads \ {t, h} : pc'[u] = pc[u]
              /\ UNCHANGED <<type, spinlock>>
    BY <1>4, HandedOver
  <2> QED
    BY <2>1 DEF Z80Byte, Out
<1> QED
  BY <1>1, <1>2, <1>3, <1>4, AsideSteps, AsideKeeps DEF Inside, acquisition_failed

(* A byte that counts up and down, and back. *)
LEMMA ByteCounts ==
    ASSUME NEW x \in 0 .. 255, NEW c \in 0 .. 255, (x + 1) % 256 = c
    PROVE  /\ c < 255 => (((x + 1) % 256) + 1) % 256 = c + 1
           /\ c > 0 => (((x - 1) % 256) + 1) % 256 = c - 1
<1>1. CASE x = 255
  BY <1>1
<1>2. CASE x = 0
  BY <1>2
<1>3. CASE x \in 1 .. 254
  <2>1. \A y \in 0 .. 255 : y % 256 = y
    OBVIOUS
  <2>2. PICK y \in 0 .. 253 : y = x - 1
    BY <1>3
  <2>3. x % 256 = x /\ (x + 1) % 256 = x + 1 /\ (x - 1) % 256 = y
    <3>1. x % 256 = x
      BY <2>1
    <3>2. PICK z \in 0 .. 255 : z = x + 1
      BY <1>3
    <3>3. y % 256 = y /\ z % 256 = z
      BY <2>1, <2>2
    <3> QED
      BY <2>2, <3>1, <3>2, <3>3
  <2>4. (((x - 1) % 256) + 1) % 256 = x
    BY <2>2, <2>3
  <2>5. x # 254 => (((x + 1) % 256) + 1) % 256 = x + 2
    <3>1. x # 254 => x + 2 \in 0 .. 255 /\ (x + 1) + 1 = x + 2
      BY <1>3
    <3> QED
      BY <2>1, <2>3, <3>1
  <2> QED
    BY <1>3, <2>3, <2>4, <2>5
<1> QED
  BY <1>1, <1>2, <1>3

(* One more counts. *)
LEMMA OneMore ==
    ASSUME NEW t \in Threads, t \notin Counted, Counted' = Counted \cup {t}
    PROVE  Cardinality(Counted)' = Cardinality(Counted) + 1 /\ Cardinality(Counted) < 255
<1>1. IsFiniteSet(Counted) /\ Cardinality(Counted) \in 0 .. 255
  BY CountedIs
<1>2. Cardinality(Counted \cup {t}) = Cardinality(Counted) + 1
  BY <1>1, FS_AddElement
<1>3. (Counted \cup {t}) \in SUBSET Threads
  BY DEF Counted
<1>4. Cardinality(Counted \cup {t}) <= Cardinality(Threads)
  BY <1>3, CountedIs, FS_Subset
<1> QED
  BY <1>1, <1>2, <1>4, CountedIs

(* One less does. *)
LEMMA OneLess ==
    ASSUME NEW t \in Counted, Counted' = Counted \ {t}
    PROVE  Cardinality(Counted)' = Cardinality(Counted) - 1 /\ Cardinality(Counted) > 0
<1>1. IsFiniteSet(Counted) /\ Cardinality(Counted) \in 0 .. 255 /\ Counted # {}
  BY CountedIs
<1>2. Cardinality(Counted \ {t}) = Cardinality(Counted) - 1
  BY <1>1, FS_RemoveElement
<1> QED
  BY <1>1, <1>2, CountedIs

(* Going under the spinlock, or failing to, counts one more. *)
LEMMA CountUp ==
    ASSUME NEW t \in Threads, t \notin Counted, Counted' = Counted \cup {t},
           spinlock \in 0 .. 255, (spinlock + 1) % 256 = Cardinality(Counted),
           spinlock' = (spinlock + 1) % 256
    PROVE  (spinlock' + 1) % 256 = Cardinality(Counted)'
<1>1. Cardinality(Counted)' = Cardinality(Counted) + 1 /\ Cardinality(Counted) < 255
  BY OneMore
<1>2. Cardinality(Counted) \in 0 .. 255
  BY CountedIs
<1> QED
  BY <1>1, <1>2, ByteCounts

(* Undoing the attempt and giving the spinlock back count one less. *)
LEMMA CountDown ==
    ASSUME NEW t \in Counted, Counted' = Counted \ {t},
           spinlock \in 0 .. 255, (spinlock + 1) % 256 = Cardinality(Counted),
           spinlock' = (spinlock - 1) % 256
    PROVE  (spinlock' + 1) % 256 = Cardinality(Counted)'
<1>1. Cardinality(Counted)' = Cardinality(Counted) - 1 /\ Cardinality(Counted) > 0
  BY OneLess
<1>2. Cardinality(Counted) \in 0 .. 255
  BY CountedIs
<1> QED
  BY <1>1, <1>2, ByteCounts

(* The hand-over counts as many as before. *)
LEMMA CountHanded ==
    ASSUME NEW t \in Counted, NEW h \in Threads \ Counted,
           Counted' = (Counted \ {t}) \cup {h}
    PROVE  Cardinality(Counted)' = Cardinality(Counted)
<1>1. IsFiniteSet(Counted) /\ Cardinality(Counted) \in 0 .. 255
  BY CountedIs
<1>2. IsFiniteSet(Counted \ {t}) /\ Cardinality(Counted \ {t}) = Cardinality(Counted) - 1
  BY <1>1, FS_RemoveElement
<1>3. h \notin Counted \ {t}
  OBVIOUS
<1>4. Cardinality((Counted \ {t}) \cup {h}) = Cardinality(Counted \ {t}) + 1
  BY <1>2, <1>3, FS_AddElement
<1> QED
  BY <1>1, <1>2, <1>4

(* Acquiring, undoing, giving back and handing over on the 8080. *)
LEMMA InsideIntel ==
    ASSUME Intel, CoreInv, IntelByte, NEW t \in Threads, Inside(t)
    PROVE  IntelByte'
<1>1. /\ pc \in [Threads -> PCs] /\ type # 0 /\ spinlock \in 0 .. 255
      /\ (spinlock + 1) % 256 = Cardinality(Counted)
      /\ op[t] # "trylock" /\ pc[t] # "busy"
  BY DEF CoreInv, TypeOK, Called, IntelByte, Inside, asm_spinlock_acquire, acquisition_failed,
         test_owner, trylock_failed, claim_owner, claim_count, claim_release,
         relinquish_ownership, unlock_release, thread_block_timeout, thread_unblock, Out
<1>2. \A u \in Threads : op'[u] # "trylock" /\ pc'[u] # "busy"
  <2>1. op' = op
    BY DEF Inside, asm_spinlock_acquire, acquisition_failed, test_owner, trylock_failed,
           claim_owner, claim_count, claim_release, relinquish_ownership, unlock_release,
           thread_block_timeout, thread_unblock
  <2>2. \A u \in Threads : pc'[u] # "busy"
    BY <1>1 DEF IntelByte, Inside, Goto, Return, Out, asm_spinlock_acquire,
           acquisition_failed, test_owner, trylock_failed, claim_owner, claim_count,
           claim_release, relinquish_ownership, unlock_release, thread_block_timeout,
           thread_unblock
  <2> QED
    BY <2>1, <2>2 DEF IntelByte
<1>3. CASE asm_spinlock_acquire(t)
  <2>1. t \notin Counted /\ spinlock' = (spinlock + 1) % 256
    BY <1>3 DEF asm_spinlock_acquire, Counted, InSpin, SpinPCs, Taken
  <2>2. Counted' = Counted \cup {t}
    BY <1>1, <1>3 DEF asm_spinlock_acquire, Goto, Counted, InSpin, SpinPCs
  <2> QED
    BY <1>1, <1>2, <2>1, <2>2, CountUp DEF IntelByte
<1>4. CASE acquisition_failed(t)
  <2>1. t \in Counted /\ spinlock' = (spinlock - 1) % 256
    BY <1>4 DEF acquisition_failed, Counted
  <2>2. Counted' = Counted \ {t}
    BY <1>1, <1>4 DEF acquisition_failed, Goto, Counted, InSpin, SpinPCs
  <2> QED
    BY <1>1, <1>2, <2>1, <2>2, CountDown DEF IntelByte
<1>5. CASE claim_release(t) \/ unlock_release(t) \/ thread_block_timeout(t)
  <2>1. Leaves(t) /\ spinlock' = (spinlock - 1) % 256
    BY <1>1, <1>5, LeavingSteps
       DEF claim_release, unlock_release, thread_block_timeout, Released
  <2>2. t \in Counted /\ Counted' = Counted \ {t}
    BY <2>1 DEF Leaves, Counted, InSpin, SpinPCs, Out
  <2> QED
    BY <1>1, <1>2, <2>1, <2>2, CountDown DEF IntelByte
<1>6. CASE thread_unblock(t) /\ q # <<>>
  <2>1. PICK h \in Threads :
              /\ h # t /\ pc[h] = "blocked" /\ pc'[h] = "claim" /\ pc'[t] = Out
              /\ pc[t] = "unblock" /\ \A u \in Threads \ {t, h} : pc'[u] = pc[u]
              /\ UNCHANGED <<type, spinlock>>
    BY <1>6, HandedOver
  <2>2. t \in Counted /\ h \notin Counted /\ Counted' = (Counted \ {t}) \cup {h}
    BY <2>1 DEF Counted, InSpin, SpinPCs, Out
  <2> QED
    BY <1>1, <1>2, <2>1, <2>2, CountHanded DEF IntelByte
<1>7. CASE Aside(t)
  <2>1. Counted' = Counted /\ UNCHANGED <<type, spinlock>>
    BY <1>7, AsideKeeps DEF Aside
  <2> QED
    BY <1>1, <1>2, <2>1 DEF IntelByte
<1> QED
  BY <1>1, <1>3, <1>4, <1>5, <1>6, <1>7, AsideSteps DEF Inside, trylock_failed

(* The byte of a mutex just initialised, or destroyed. *)
LEMMA LifeByte ==
    ASSUME MInv, NEW t \in Threads,
           (\E c \in InitTypes : mtx_init(t, c)) \/ mtx_destroy(t)
    PROVE  SpinByte'
<1>1. /\ \A u \in Threads : pc[u] = Out /\ pc'[u] = Out
      /\ UNCHANGED op /\ Intel' = Intel
      /\ \/ UNCHANGED <<type, spinlock>>
         \/ type' = 0
         \/ spinlock' = FreeByte
  BY DEF MInv, CoreInv, TypeOK, mtx_init, mtx_destroy, Unused, Return, Goto, fields, Intel
<1>2. Counted = {} /\ Counted' = {}
  BY <1>1 DEF Counted, InSpin, SpinPCs, Out
<1>3. CASE Intel
  <2>1. type' # 0 => (spinlock' + 1) % 256 = Cardinality(Counted)'
    <3>1. CASE UNCHANGED <<type, spinlock>>
      BY <1>2, <1>3, <3>1 DEF MInv, SpinByte, IntelByte
    <3>2. CASE spinlock' = FreeByte
      <4>1. (spinlock' + 1) % 256 = 0
        BY <1>3, <3>2 DEF FreeByte
      <4> QED
        BY <1>2, <4>1, FS_EmptySet
    <3> QED
      BY <1>1, <3>1, <3>2
  <2> QED
    BY <1>1, <1>3, <2>1 DEF MInv, SpinByte, IntelByte, Out
<1>4. CASE ~ Intel
  BY <1>1, <1>4 DEF MInv, SpinByte, Z80Byte, FreeByte, InSpin, SpinPCs, Out
<1> QED
  BY <1>3, <1>4

(* The byte is left alone by the calls up to the spinlock and by the timer. *)
LEMMA AsideByte ==
    ASSUME NoTryOnIntel, MInv, NEW t \in Threads,
           \/ \E o \in Ops \ {"unlock"} : Lock(t, o)
           \/ mtx_unlock(t) \/ time_expires(t)
    PROVE  SpinByte'
<1>0. Intel' = Intel
  BY DEF Lock, mtx_unlock, time_expires, Intel
<1>1. Aside(t)
  BY AsideSteps DEF MInv
<1>2. CASE Intel
  <2>0. MayTry[build] = {}
    BY <1>2 DEF NoTryOnIntel, Intel, MInv, CoreInv, TypeOK
  <2>1. op \in [Threads -> Ops] /\ pc \in [Threads -> PCs]
    BY DEF MInv, CoreInv, TypeOK
  <2>2. \A u \in Threads : op[u] # "trylock" /\ pc[u] # "busy"
    BY <1>2 DEF MInv, SpinByte, IntelByte
  <2>3. \A u \in Threads : op'[u] # "trylock" /\ pc'[u] # "busy"
    BY <1>2, <2>0, <2>1, <2>2 DEF Lock, MayCall, Owned, mtx_unlock, time_expires,
                            Return, Goto, Out, result
  <2> QED
    BY <1>0, <1>1, <1>2, <2>3, AsideKeeps DEF MInv, SpinByte, IntelByte, Aside
<1>3. CASE ~ Intel
  BY <1>0, <1>1, <1>3, AsideKeeps DEF MInv, SpinByte
<1> QED
  BY <1>2, <1>3

-----------------------------------------------------------------------------
(* The zeroed mutex satisfies the inductive invariant. *)
LEMMA InitMInv == Init => MInv
<1> SUFFICES ASSUME Init PROVE MInv
  OBVIOUS
<1>1. SpinByte
  BY DEF Init, SpinByte, IntelByte, Z80Byte, InSpin, SpinPCs, Out
<1> QED
  BY <1>1, InitCore DEF MInv

(* A step inside the library keeps it. *)
LEMMA InsideMInv ==
    ASSUME MInv, NEW t \in Threads, Inside(t)
    PROVE  MInv'
<1>1. CoreInv'
  BY AcquirePreserves, UndoPreserves, TestPreserves, BusyPreserves, ClaimPreserves,
     CountPreserves, ReleasePreserves, DisownPreserves, FreePreserves,
     BlockPreserves, UnblockPreserves
     DEF Inside
<1>2. Intel' = Intel
  BY DEF Intel, Inside, asm_spinlock_acquire, acquisition_failed, test_owner, trylock_failed,
         claim_owner, claim_count, claim_release, relinquish_ownership, unlock_release,
         thread_block_timeout, thread_unblock
<1>3. SpinByte'
  BY <1>2, InsideZ80, InsideIntel DEF MInv, SpinByte
<1> QED
  BY <1>1, <1>3 DEF MInv

(* Every step of either build keeps the inductive invariant. *)
LEMMA NextMInv ==
    ASSUME NoTryOnIntel, MInv, [Next]_vars
    PROVE  MInv'
<1>1. CASE UNCHANGED vars
  BY <1>1 DEF vars, fields, result, MInv, CoreInv, TypeOK, Called, SpinByte, IntelByte, Intel,
              Z80Byte, Counted, SpinExclusion, OwnerKnown, CountExact, QueueExact,
              FreeMeansEmpty, NoStrandedWaiter, InSpin
<1>2. ASSUME NEW t \in Threads, Inside(t) PROVE MInv'
  BY <1>2, InsideMInv
<1>3. ASSUME NEW t \in Threads, NEW c \in InitTypes, mtx_init(t, c) PROVE MInv'
  BY <1>3, LifePreserves, LifeByte DEF MInv
<1>4. ASSUME NEW t \in Threads, mtx_destroy(t) PROVE MInv'
  BY <1>4, LifePreserves, LifeByte DEF MInv
<1>5. ASSUME NEW t \in Threads, NEW o \in Ops \ {"unlock"}, Lock(t, o) PROVE MInv'
  <2>1. CoreInv'
    BY <1>5, LockPreserves
  <2>2. SpinByte'
    BY <1>5, AsideByte
  <2> QED
    BY <2>1, <2>2 DEF MInv
<1>6. ASSUME NEW t \in Threads, mtx_unlock(t) PROVE MInv'
  BY <1>6, UnlockPreserves, AsideByte DEF MInv
<1>7. ASSUME NEW t \in Threads, time_expires(t) PROVE MInv'
  BY <1>7, ExpiryPreserves, AsideByte DEF MInv
<1> QED
  BY <1>1, <1>2, <1>3, <1>4, <1>5, <1>6, <1>7 DEF Next

(***************************************************************************)
(* The inductive invariant holds in every reachable state of a Z80 build,  *)
(* and of an 8080 build whose program does not call mtx_trylock().         *)
(***************************************************************************)
THEOREM MutexInvariance == NoTryOnIntel => (Spec => []MInv)
<1> SUFFICES ASSUME NoTryOnIntel PROVE Spec => []MInv
  OBVIOUS
<1>1. MInv /\ [Next]_vars => MInv'
  BY NextMInv
<1> QED
  BY <1>1, InitMInv, PTL DEF Spec

(***************************************************************************)
(* mtx_lock/mtx_unlock: two threads never both have the mutex.             *)
(***************************************************************************)
THEOREM MutexExcludes == NoTryOnIntel => (Spec => []Exclusion)
<1> SUFFICES ASSUME NoTryOnIntel PROVE Spec => []Exclusion
  OBVIOUS
<1>1. MInv => Exclusion
  BY DEF MInv, CoreInv, CountExact, Exclusion
<1> QED
  BY <1>1, MutexInvariance, PTL

(***************************************************************************)
(* The spinlock is never held twice, hand-over to a woken thread included. *)
(***************************************************************************)
THEOREM SpinlockExcludes == NoTryOnIntel => (Spec => []SpinExclusion)
<1> SUFFICES ASSUME NoTryOnIntel PROVE Spec => []SpinExclusion
  OBVIOUS
<1>1. MInv => SpinExclusion
  BY DEF MInv, CoreInv
<1> QED
  BY <1>1, MutexInvariance, PTL

(***************************************************************************)
(* The recursion count is what the program owes, up to the byte's limit.   *)
(***************************************************************************)
THEOREM CountIsExact == NoTryOnIntel => (Spec => []CountExact)
<1> SUFFICES ASSUME NoTryOnIntel PROVE Spec => []CountExact
  OBVIOUS
<1>1. MInv => CountExact
  BY DEF MInv, CoreInv
<1> QED
  BY <1>1, MutexInvariance, PTL

(***************************************************************************)
(* mtx_unlock leaves no thread queued on a free mutex.                     *)
(***************************************************************************)
THEOREM NobodyStranded == NoTryOnIntel => (Spec => []NoStrandedWaiter)
<1> SUFFICES ASSUME NoTryOnIntel PROVE Spec => []NoStrandedWaiter
  OBVIOUS
<1>1. MInv => NoStrandedWaiter
  BY DEF MInv, CoreInv
<1> QED
  BY <1>1, MutexInvariance, PTL

(***************************************************************************)
(* The queue holds exactly the blocked threads, time limits included.      *)
(***************************************************************************)
THEOREM QueueIsExact == NoTryOnIntel => (Spec => []QueueExact)
<1> SUFFICES ASSUME NoTryOnIntel PROVE Spec => []QueueExact
  OBVIOUS
<1>1. MInv => QueueExact
  BY DEF MInv, CoreInv
<1> QED
  BY <1>1, MutexInvariance, PTL

(***************************************************************************)
(* Every field stays what it can hold: the recursion count never passes    *)
(* its limit nor falls below zero, the byte of the spinlock stays a byte.  *)
(***************************************************************************)
THEOREM MutexTypeOK == NoTryOnIntel => (Spec => []TypeOK)
<1> SUFFICES ASSUME NoTryOnIntel PROVE Spec => []TypeOK
  OBVIOUS
<1>1. MInv => TypeOK
  BY DEF MInv, CoreInv
<1> QED
  BY <1>1, MutexInvariance, PTL

-----------------------------------------------------------------------------
(* No step changes the build. *)
LEMMA BuildKept ==
    ASSUME [Next]_vars
    PROVE  Intel' = Intel
BY DEF Intel, Next, vars, mtx_init, mtx_destroy, Lock, mtx_unlock, Inside, asm_spinlock_acquire,
       acquisition_failed, test_owner, trylock_failed, claim_owner, claim_count,
       claim_release, relinquish_ownership, unlock_release, thread_block_timeout,
       thread_unblock, time_expires

(* On the Z80 a spinlock that is taken has somebody working under it. *)
SpinHeld == type # 0 /\ spinlock # 254 => \E t \in Threads : InSpin(t)

LEMMA InitHeld == Init => SpinHeld
BY DEF Init, SpinHeld

(* Inside the library: who leaves frees the byte or has handed it on. *)
LEMMA InsideHeld ==
    ASSUME ~ Intel, MInv, SpinHeld, NEW t \in Threads, Inside(t)
    PROVE  SpinHeld'
<1> USE DEF InSpin, SpinPCs
<1>1. pc \in [Threads -> PCs] /\ q \in Seq(Threads) /\ pc[t] # "undo"
  BY DEF MInv, CoreInv, TypeOK, SpinByte, Z80Byte
<1>2. CASE asm_spinlock_acquire(t)
  <2>1. CASE Takes
    <3>1. pc'[t] \in {"disown", "test"}
      BY <1>1, <1>2, <2>1 DEF asm_spinlock_acquire, Goto
    <3> QED
      BY <3>1 DEF SpinHeld
  <2>2. CASE ~ Takes
    <3>1. spinlock \in {254, 255} /\ type # 0
      BY <1>2 DEF MInv, CoreInv, Called, SpinByte, Z80Byte, asm_spinlock_acquire, Out
    <3>2. spinlock # 254
      BY <2>2 DEF Takes
    <3>3. PICK u \in Threads : InSpin(u)
      BY <3>1, <3>2 DEF SpinHeld
    <3>4. u # t /\ pc'[u] = pc[u]
      BY <1>1, <1>2, <2>2, <3>3 DEF asm_spinlock_acquire, Goto
    <3> QED
      BY <3>3, <3>4 DEF SpinHeld
  <2> QED
    BY <2>1, <2>2
<1>3. CASE trylock_failed(t) \/ claim_release(t) \/ unlock_release(t)
           \/ thread_block_timeout(t)
  <2>1. spinlock' = 254
    BY <1>3 DEF trylock_failed, claim_release, unlock_release, thread_block_timeout,
                Released
  <2> QED
    BY <2>1 DEF SpinHeld
<1>4. CASE test_owner(t) \/ claim_owner(t) \/ claim_count(t) \/ relinquish_ownership(t)
  <2>1. pc'[t] \in SpinPCs
    BY <1>1, <1>4 DEF test_owner, claim_owner, claim_count, relinquish_ownership, Goto
  <2> QED
    BY <2>1 DEF SpinHeld
<1>5. CASE thread_unblock(t)
  <2>1. CASE q = <<>>
    <3>1. pc'[t] = "free"
      BY <1>1, <1>5, <2>1 DEF thread_unblock, Goto
    <3> QED
      BY <3>1 DEF SpinHeld
  <2>2. CASE q # <<>>
    <3>1. Head(q) \in Threads
      BY <1>1, <2>2
    <3>2. pc'[Head(q)] = "claim"
      BY <1>1, <1>5, <2>2, <3>1 DEF thread_unblock, Goto
    <3> QED
      BY <3>1, <3>2 DEF SpinHeld
  <2> QED
    BY <2>1, <2>2
<1> QED
  BY <1>1, <1>2, <1>3, <1>4, <1>5 DEF Inside, acquisition_failed

LEMMA NextHeld ==
    ASSUME ~ Intel, MInv, SpinHeld, [Next]_vars
    PROVE  SpinHeld'
<1> USE DEF InSpin, SpinPCs
<1>1. pc \in [Threads -> PCs]
  BY DEF MInv, CoreInv, TypeOK
<1>2. CASE UNCHANGED vars
  BY <1>2 DEF SpinHeld, vars, fields
<1>3. ASSUME NEW t \in Threads, NEW c \in InitTypes, mtx_init(t, c)
      PROVE  SpinHeld'
  <2>1. CASE spinlock' = FreeByte
    BY <2>1 DEF SpinHeld, FreeByte
  <2>2. CASE UNCHANGED <<fields, spinlock>>
    BY <1>3, <2>2 DEF SpinHeld, fields, mtx_init, Unused, Out
  <2> QED
    BY <1>3, <2>1, <2>2 DEF mtx_init
<1>4. ASSUME NEW t \in Threads, mtx_destroy(t)
      PROVE  SpinHeld'
  BY <1>4 DEF SpinHeld, mtx_destroy
<1>5. ASSUME NEW t \in Threads, UNCHANGED <<type, spinlock>>, ~ InSpin(t),
             \A u \in Threads \ {t} : pc'[u] = pc[u]
      PROVE  SpinHeld'
  BY <1>5 DEF SpinHeld
<1>6. ASSUME NEW t \in Threads, NEW o \in Ops \ {"unlock"}, Lock(t, o)
      PROVE  SpinHeld'
  BY <1>1, <1>5, <1>6 DEF Lock, Owned, Return, Goto, Out
<1>7. ASSUME NEW t \in Threads, mtx_unlock(t)
      PROVE  SpinHeld'
  BY <1>1, <1>5, <1>7 DEF mtx_unlock, Return, Goto, Out
<1>8. ASSUME NEW t \in Threads, time_expires(t)
      PROVE  SpinHeld'
  BY <1>1, <1>5, <1>8 DEF time_expires, Return, Goto, fields
<1> QED
  BY <1>2, <1>3, <1>4, <1>6, <1>7, <1>8, InsideHeld DEF Next

(***************************************************************************)
(* Nobody leaves the spinlock taken: whichever way the calls end, when no  *)
(* thread is inside the library the spinlock can be had.                   *)
(***************************************************************************)
THEOREM SpinlockReleased == NoTryOnIntel => (Spec => []SpinReleased)
<1> SUFFICES ASSUME NoTryOnIntel PROVE Spec => []SpinReleased
  OBVIOUS
<1>1. MInv /\ [Next]_vars => MInv'
  BY NextMInv
<1>2. Init => (~ Intel => SpinHeld)
  BY InitHeld
<1>3. MInv /\ (~ Intel => SpinHeld) /\ [Next]_vars => (~ Intel => SpinHeld)'
  BY NextHeld, BuildKept
<1>4. ASSUME MInv, ~ Intel => SpinHeld PROVE SpinReleased
  <2>1. SUFFICES ASSUME \A t \in Threads : pc[t] \in {Out, "blocked"}, type # 0
                 PROVE  Takes
    BY DEF SpinReleased
  <2>2. CASE Intel
    <3>1. Counted = {}
      BY <2>1 DEF Counted, InSpin, SpinPCs, Out
    <3>2. (spinlock + 1) % 256 = 0
      BY <1>4, <2>1, <2>2, <3>1, FS_EmptySet DEF MInv, SpinByte, IntelByte
    <3> QED
      BY <2>2, <3>2 DEF Takes, Taken
  <2>3. CASE ~ Intel
    BY <1>4, <2>1, <2>3 DEF SpinHeld, InSpin, SpinPCs, Out, Takes
  <2> QED
    BY <2>2, <2>3
<1> QED
  BY <1>1, <1>2, <1>3, <1>4, InitMInv, PTL DEF Spec

(* Every return sets carry and hl together. *)
LEMMA NextAgrees ==
    ASSUME ResultsAgree, [Next]_vars
    PROVE  ResultsAgree'
<1> SUFFICES ASSUME ~ Intel
             PROVE  (carry = 1 <=> hl # "thrd_success")'
  BY BuildKept DEF ResultsAgree
<1> DEFINE agree == carry = 1 <=> hl # "thrd_success"
<1>0. agree
  BY DEF ResultsAgree
<1>1. CASE UNCHANGED result
  BY <1>0, <1>1 DEF result
<1>2. ASSUME NEW t, NEW h, NEW r, Return(t, h, r), r = 1 <=> h # "thrd_success"
      PROVE  agree'
  BY <1>2 DEF Return
<1>3. ASSUME NEW t \in Threads, NEW c \in InitTypes, mtx_init(t, c)
      PROVE  agree'
  BY <1>2, <1>3 DEF mtx_init
<1>4. ASSUME NEW t \in Threads, NEW o \in Ops \ {"unlock"}, Lock(t, o)
      PROVE  agree'
  BY <1>1, <1>2, <1>4 DEF Lock, Owned
<1>5. ASSUME NEW t \in Threads, mtx_unlock(t)
      PROVE  agree'
  BY <1>1, <1>2, <1>5 DEF mtx_unlock
<1>6. ASSUME NEW t \in Threads, Inside(t)
      PROVE  agree'
  BY <1>1, <1>2, <1>6
     DEF Inside, asm_spinlock_acquire, acquisition_failed, test_owner, trylock_failed,
         claim_owner, claim_count, claim_release, relinquish_ownership, unlock_release,
         thread_block_timeout, thread_unblock
<1>7. ASSUME NEW t \in Threads, time_expires(t)
      PROVE  agree'
  BY <1>2, <1>7 DEF time_expires
<1> QED
  BY <1>1, <1>3, <1>4, <1>5, <1>6, <1>7 DEF Next, mtx_destroy, vars

(***************************************************************************)
(* A caller in C, that looks at hl, and one in assembly, that looks at the *)
(* carry flag, are told the same by every call of the Z80 build.           *)
(***************************************************************************)
THEOREM ResultsAreOne == Spec => []ResultsAgree
<1>1. Init => ResultsAgree
  BY DEF Init, ResultsAgree
<1>2. ResultsAgree /\ [Next]_vars => ResultsAgree'
  BY NextAgrees
<1> QED
  BY <1>1, <1>2, PTL DEF Spec
=============================================================================
