------------------------- MODULE PreemptLockProofs -------------------------
(***************************************************************************)
(* Mutual exclusion of the critical sections of PreemptLock, for every     *)
(* number of threads, semaphores and units.                                *)
(***************************************************************************)
EXTENDS PreemptLock, PreemptProofs, FiniteSetTheorems

LockTypeOK == holders \in [Sems -> SUBSET Slots]

(***************************************************************************)
(* A thread inside is not in sem_wait() for the same semaphore again.      *)
(***************************************************************************)
HoldersOut ==
    \A s \in Sems : \A t \in holders[s] : ~ InSemWait(t, s)

NonNegative == \A s \in Sems : value[s] >= 0

LockInv == TypeOK /\ LockTypeOK /\ HoldersOut /\ UnitsConserved /\ NonNegative

(* Sets of slots can be counted. *)
LEMMA FiniteHolders ==
    ASSUME NEW H \in SUBSET Slots
    PROVE  IsFiniteSet(H) /\ Cardinality(H) \in Nat
<1>1. IsFiniteSet(Slots)
  BY FS_Interval, MaxThreadsAssumption DEF Slots
<1>2. IsFiniteSet(H)
  BY <1>1, FS_Subset
<1> QED
  BY <1>2, FS_CardinalityType

(* At the start nobody is inside a critical section. *)
LEMMA LockInitInv == LockInit => LockInv
<1> SUFFICES ASSUME LockInit PROVE LockInv
  OBVIOUS
<1>1. TypeOK
  BY InitTypes DEF LockInit
<1>2. LockTypeOK /\ HoldersOut
  BY DEF LockInit, LockTypeOK, HoldersOut
<1>3. UnitsConserved
  BY FS_EmptySet, ValueAssumption DEF LockInit, Init, UnitsConserved
<1>4. NonNegative
  BY LockAssumption DEF LockInit, Init, NonNegative
<1> QED
  BY <1>1, <1>2, <1>3, <1>4 DEF LockInv

(* Taking a unit or going to sleep in the lock keeps the invariant. *)
LEMMA EnterPreserves ==
    ASSUME LockInv, NEW s \in Sems, phase = "started",
           pc[current] = "run" \/ (pc[current] = "again" /\ on[current] = s),
           on' = [on EXCEPT ![current] = s],
           current \notin holders[s],
           Take(s) \/ Sleep(s), Enters(s)
    PROVE  (LockTypeOK /\ HoldersOut /\ UnitsConserved /\ NonNegative)'
<1> USE DEF LockInv
<1>0. current \in Slots /\ value[s] \in Int /\ InitValue[s] \in Int
  BY ValueAssumption DEF TypeOK, Ints
<1>1. CASE Take(s)
  <2>1. /\ holders' = [holders EXCEPT ![s] = @ \cup {current}]
        /\ value' = [value EXCEPT ![s] = @ - 1]
        /\ pc' = [pc EXCEPT ![current] = "run"]
    BY <1>1 DEF Take, Enters
  <2>2. LockTypeOK'
    <3>1. holders[s] \cup {current} \in SUBSET Slots
      BY <1>0 DEF LockTypeOK
    <3> QED
      BY <2>1, <3>1 DEF LockTypeOK
  <2>3. HoldersOut'
    BY <1>0, <2>1 DEF HoldersOut, InSemWait, LockTypeOK, TypeOK
  <2>4. /\ Cardinality(holders[s] \cup {current}) = Cardinality(holders[s]) + 1
        /\ Cardinality(holders[s]) \in Nat
    BY FiniteHolders, FS_AddElement DEF LockTypeOK
  <2>5. UnitsConserved'
    <3> SUFFICES ASSUME NEW r \in Sems
                 PROVE  value'[r] + Cardinality(holders'[r]) = InitValue[r]
      BY DEF UnitsConserved
    <3>1. CASE r = s
      <4>1. value'[r] = value[s] - 1 /\ holders'[r] = holders[s] \cup {current}
        BY <2>1, <3>1 DEF LockTypeOK, TypeOK
      <4>2. value[s] + Cardinality(holders[s]) = InitValue[s]
        BY DEF UnitsConserved
      <4> QED
        BY <1>0, <2>4, <3>1, <4>1, <4>2
    <3>2. CASE r # s
      BY <2>1, <3>2 DEF UnitsConserved, LockTypeOK, TypeOK
    <3> QED
      BY <3>1, <3>2
  <2>6. NonNegative'
    BY <1>0, <1>1, <2>1 DEF NonNegative, Take, TypeOK
  <2> QED
    BY <2>2, <2>3, <2>5, <2>6
<1>2. CASE Sleep(s)
  <2>1. holders' = holders /\ value' = value /\ pc' = [pc EXCEPT ![current] = "halt"]
    BY <1>0, <1>2 DEF Sleep, Enters
  <2>2. HoldersOut'
    BY <1>0, <2>1 DEF HoldersOut, InSemWait, LockTypeOK, TypeOK
  <2> QED
    BY <2>1, <2>2 DEF LockTypeOK, UnitsConserved, NonNegative
<1> QED
  BY <1>1, <1>2

(* Leaving a critical section keeps the invariant. *)
LEMMA LeavePreserves ==
    ASSUME LockInv, NEW s \in Sems, lock_post(s)
    PROVE  (LockTypeOK /\ HoldersOut /\ UnitsConserved /\ NonNegative)'
<1> USE DEF LockInv
<1>1. /\ holders' = [holders EXCEPT ![s] = @ \ {current}]
      /\ value' = [value EXCEPT ![s] = IncInt(@)]
      /\ current \in holders[s] /\ UNCHANGED <<pc, on>>
  BY DEF lock_post, sem_post
<1>2. LockTypeOK'
  BY <1>1 DEF LockTypeOK
<1>3. HoldersOut'
  BY <1>1 DEF HoldersOut, InSemWait, LockTypeOK
<1>4. /\ Cardinality(holders[s] \ {current}) = Cardinality(holders[s]) - 1
      /\ Cardinality(holders[s]) \in Nat /\ Cardinality(holders[s] \ {current}) \in Nat
  <2>1. holders[s] \ {current} \in SUBSET Slots
    BY DEF LockTypeOK
  <2> QED
    BY <1>1, <2>1, FiniteHolders, FS_RemoveElement DEF LockTypeOK
<1>5. /\ value[s] \in Int /\ InitValue[s] \in Int
      /\ value[s] + Cardinality(holders[s]) = InitValue[s]
      /\ IncInt(value[s]) = value[s] + 1
  <2>1. /\ value[s] \in Int /\ IntMax \in Nat
        /\ InitValue[s] \in Int /\ InitValue[s] <= IntMax
    BY ValueAssumption DEF TypeOK, Ints
  <2>2. value[s] + Cardinality(holders[s]) = InitValue[s]
    BY DEF UnitsConserved
  <2>3. value[s] < IntMax
    BY <1>4, <2>1, <2>2
  <2> QED
    BY <2>1, <2>2, <2>3 DEF IncInt
<1>6. UnitsConserved'
  <2> SUFFICES ASSUME NEW r \in Sems
               PROVE  value'[r] + Cardinality(holders'[r]) = InitValue[r]
    BY DEF UnitsConserved
  <2>1. CASE r = s
    <3>1. value'[r] = value[s] + 1 /\ holders'[r] = holders[s] \ {current}
      BY <1>1, <1>5, <2>1 DEF LockTypeOK, TypeOK
    <3> QED
      BY <1>4, <1>5, <2>1, <3>1
  <2>2. CASE r # s
    BY <1>1, <2>2 DEF UnitsConserved, LockTypeOK, TypeOK
  <2> QED
    BY <2>1, <2>2
<1>7. NonNegative'
  <2> SUFFICES ASSUME NEW r \in Sems PROVE value'[r] >= 0
    BY DEF NonNegative
  <2>1. value'[r] = IF r = s THEN value[s] + 1 ELSE value[r]
    BY <1>1, <1>5 DEF TypeOK
  <2> QED
    BY <1>5, <2>1 DEF NonNegative
<1> QED
  BY <1>2, <1>3, <1>6, <1>7

(* Every step keeps the units conserved. *)
LEMMA LockNextInv == LockInv /\ [LockNext]_lockVars => LockInv'
<1> SUFFICES ASSUME LockInv, [LockNext]_lockVars PROVE LockInv'
  OBVIOUS
<1> USE DEF LockInv
<1>0. TypeOK'
  <2>1. [Next]_vars
    BY DEF LockNext, LockThreadStep, lockVars, SetUp, lock_wait, lock_again,
           lock_post, lock_exit, Next, ThreadStep
  <2> QED
    BY <2>1, TypeNext
<1>1. ASSUME NEW s \in Sems, lock_wait(s) PROVE LockInv'
  BY <1>0, <1>1, EnterPreserves DEF lock_wait, sem_wait, Running
<1>2. CASE lock_again
  <2> DEFINE s == on[current]
  <2>1. s \in Sems /\ current \in Slots /\ on = [on EXCEPT ![current] = s]
    BY DEF TypeOK
  <2>2. /\ phase = "started" /\ pc[current] = "again" /\ on' = on
        /\ Take(s) \/ Sleep(s)
        /\ Enters(s)
    BY <1>2 DEF lock_again, sem_wait_again, Running
  <2>3. current \notin holders[s]
    BY <2>1, <2>2 DEF HoldersOut, InSemWait
  <2> HIDE DEF s
  <2>4. on[current] = s
    BY DEF s
  <2> QED
    BY <1>0, <2>1, <2>2, <2>3, <2>4, EnterPreserves
<1>3. ASSUME NEW s \in Sems, lock_post(s) PROVE LockInv'
  BY <1>0, <1>3, LeavePreserves
<1>4. CASE /\ thread_create \/ lock_exit \/ SetUp \/ thread_manager
           /\ UNCHANGED holders
  <2>1. UNCHANGED value
    BY <1>4 DEF thread_create, lock_exit, thread_exit, SetUp, roundrobin_scheduler,
                thread_manager_init, thread_manager_start, thread_manager, sems
  <2>2. \A t \in Slots, s \in Sems : InSemWait(t, s)' => InSemWait(t, s)
    BY <1>4 DEF thread_create, lock_exit, thread_exit, SetUp, roundrobin_scheduler,
                thread_manager_init, thread_manager_start, thread_manager, PastHalt,
                InSemWait, TypeOK, PCs
  <2> QED
    BY <1>0, <1>4, <2>1, <2>2 DEF LockTypeOK, HoldersOut, UnitsConserved, NonNegative
<1>5. CASE UNCHANGED lockVars
  BY <1>0, <1>5 DEF lockVars, vars, sems, LockTypeOK, HoldersOut, UnitsConserved,
                    NonNegative, InSemWait
<1> QED
  BY <1>1, <1>2, <1>3, <1>4, <1>5 DEF LockNext, LockThreadStep, lock_exit

(***************************************************************************)
(* Critical sections bracketed by sem_wait()/sem_post() exclude each other *)
(* to the number of units the semaphore was initialised with.              *)
(***************************************************************************)
THEOREM LockExcludes == LockSpec => []MutualExclusion
<1>1. LockInv => MutualExclusion
  BY FiniteHolders, ValueAssumption
     DEF MutualExclusion, LockInv, UnitsConserved, NonNegative, LockTypeOK, TypeOK, Ints
<1> QED
  BY <1>1, LockInitInv, LockNextInv, PTL DEF LockSpec
=============================================================================
