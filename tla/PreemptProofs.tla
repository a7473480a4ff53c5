--------------------------- MODULE PreemptProofs ---------------------------
(***************************************************************************)
(* Theorems about Preempt, for every table size, every set of semaphores   *)
(* with any initial values, and every choice of who calls what.  Those     *)
(* that need the slot of a waiting thread to stay its own are for programs *)
(* none of whose threads, having exited, goes on to wait or to create.     *)
(***************************************************************************)
EXTENDS Preempt, TLAPS

(***************************************************************************)
(* The search of the scheduler stays inside the thread table.              *)
(***************************************************************************)
LEMMA AfterInTable ==
    ASSUME NEW t \in Slots, NEW k \in Nat
    PROVE  After(t, k) \in Slots
BY MaxThreadsAssumption DEF After, Slots

(***************************************************************************)
(* Whatever the scheduler does, the next context is the interrupted one, a *)
(* ready one, or main's.                                                   *)
(***************************************************************************)
LEMMA ScheduleResult ==
    ASSUME TypeOK, NEW f \in [Slots -> SUBSET (0 .. 7)], task_schedule(f)
    PROVE  /\ current' \in Slots /\ last' \in Slots /\ count' \in 0 .. 255
           /\ current' = current \/ current' = Main \/ Ready(f[current'])
<1>1. CASE count # 1 /\ count' = (count - 1) % 256 /\ UNCHANGED <<current, last>>
  BY <1>1 DEF TypeOK
<1>2. CASE count = 1 /\ count' = slice /\ Select(f)
  <2>1. Main \in Slots
    BY MaxThreadsAssumption DEF Main, Slots
  <2>2. CASE \E k \in 1 .. MaxThreads - 1 :
                /\ Ready(f[After(last, k)])
                /\ current' = After(last, k)
                /\ last' = After(last, k)
    <3>1. PICK k \in 1 .. MaxThreads - 1 :
                /\ Ready(f[After(last, k)])
                /\ current' = After(last, k)
                /\ last' = After(last, k)
      BY <2>2
    <3>2. After(last, k) \in Slots
      BY AfterInTable DEF TypeOK
    <3> QED
      BY <1>2, <3>1, <3>2 DEF TypeOK
  <2>3. CASE current' = Main /\ last' = last
    BY <1>2, <2>1, <2>3 DEF TypeOK
  <2> QED
    BY <1>2, <2>2, <2>3 DEF Select
<1> QED
  BY <1>1, <1>2 DEF task_schedule

-----------------------------------------------------------------------------
(* Slot 0, which main uses, is in the table. *)
LEMMA MainInTable == Main \in Slots /\ Main = 0
BY MaxThreadsAssumption DEF Main, Slots

(* The pid of a slot nobody has used yet puts no bit into the flags. *)
LEMMA NoBitsInZero == BitsOf(0) = {}
<1> SUFFICES ASSUME NEW b \in 0 .. 6, (0 \div Weight[b + 1]) % 2 = 1
             PROVE  FALSE
  BY DEF BitsOf
<1>1. Weight[b + 1] \in {1, 2, 4, 8, 16, 32, 64}
  BY DEF Weight
<1> QED
  BY <1>1

(* The flag bits are bits of a byte. *)
LEMMA FlagConstants == SLEEP \in 0 .. 7 /\ SYSTEM \in 0 .. 7 /\ USED \in 0 .. 7
BY DEF SLEEP, SYSTEM, USED

-----------------------------------------------------------------------------
(* The zeroed thread base and the semaphores sem_init() leaves. *)
LEMMA InitTypes == Init => TypeOK
BY MainInTable, MaxThreadsAssumption, ValueAssumption
   DEF Init, TypeOK, Phases, PCs, Ints

(* The set-up steps write bytes and the table of slots. *)
LEMMA SetUpTypes ==
    ASSUME TypeOK,
           roundrobin_scheduler \/ thread_manager_init \/ thread_manager_start
    PROVE  TypeOK'
<1>1. CASE roundrobin_scheduler
  BY <1>1, TicksAssumption DEF TypeOK, roundrobin_scheduler, sched, sems, Phases
<1>2. CASE thread_manager_init
  BY <1>2, MainInTable
     DEF TypeOK, thread_manager_init, schedule_init, sems, Phases, DefaultSlice
<1>3. CASE thread_manager_start
  <2>1. flags' \in [Slots -> SUBSET (0 .. 7)]
    BY <1>3, MainInTable, FlagConstants DEF thread_manager_start, TypeOK
  <2>2. current' \in Slots /\ last' \in Slots /\ count' \in 0 .. 255
    BY <1>3, <2>1, ScheduleResult DEF thread_manager_start
  <2> QED
    BY <1>3, <2>1, <2>2, MainInTable DEF TypeOK, thread_manager_start, sems, Phases
<1> QED
  BY <1>1, <1>2, <1>3

(* The timer interrupt selects a task of the table. *)
LEMMA TickTypes ==
    ASSUME TypeOK, thread_manager
    PROVE  TypeOK'
<1>1. current' \in Slots /\ last' \in Slots /\ count' \in 0 .. 255
  BY ScheduleResult DEF thread_manager, TypeOK
<1>2. pc' \in [Slots -> PCs]
  BY DEF thread_manager, PastHalt, TypeOK, PCs
<1> QED
  BY <1>1, <1>2 DEF thread_manager, manager, sems, TypeOK

(* sem_wait() counts within an int and lists the current thread. *)
LEMMA WaitTypes ==
    ASSUME TypeOK, NEW s \in Sems, on' \in [Slots -> Sems], Take(s) \/ Sleep(s)
    PROVE  TypeOK'
<1>0. current \in Slots
  BY DEF TypeOK
<1>1. CASE Take(s)
  <2>1. value' \in [Sems -> Ints]
    BY <1>1, ValueAssumption DEF Take, TypeOK, Ints
  <2> QED
    BY <1>0, <1>1, <2>1 DEF Take, TypeOK, PCs, manager, sched
<1>2. CASE Sleep(s)
  <2>1. /\ UNCHANGED <<phase, slice, pid, current, count, last, value>>
        /\ flags' = [flags EXCEPT ![current] = @ \cup {SLEEP}]
        /\ waiters' = [waiters EXCEPT ![s] = @ \cup {current}]
        /\ pc' = [pc EXCEPT ![current] = "halt"]
    BY <1>2 DEF Sleep, manager, sched
  <2>2. /\ waiters_num' \in [Sems -> 0 .. MaxThreads + 1]
        /\ overrun' \in [Sems -> BOOLEAN]
    BY <1>2, MaxThreadsAssumption DEF Sleep, TypeOK
  <2>3. flags' \in [Slots -> SUBSET (0 .. 7)]
    <3>1. flags[current] \cup {SLEEP} \in SUBSET (0 .. 7)
      BY <1>0, FlagConstants DEF TypeOK
    <3> QED
      BY <2>1, <3>1 DEF TypeOK
  <2>4. waiters' \in [Sems -> SUBSET Slots]
    <3>1. waiters[s] \cup {current} \in SUBSET Slots
      BY <1>0 DEF TypeOK
    <3> QED
      BY <2>1, <3>1 DEF TypeOK
  <2>5. pc' \in [Slots -> PCs]
    BY <2>1 DEF TypeOK, PCs
  <2> QED
    BY <1>0, <2>1, <2>2, <2>3, <2>4, <2>5 DEF TypeOK
<1> QED
  BY <1>1, <1>2

(* sem_post() counts within an int, across the wrap. *)
LEMMA PostTypes ==
    ASSUME TypeOK, NEW s \in Sems, sem_post(s)
    PROVE  TypeOK'
<1>1. IncInt(value[s]) \in Ints
  BY ValueAssumption DEF TypeOK, Ints, IncInt
<1>2. value' \in [Sems -> Ints]
  BY <1>1 DEF TypeOK, sem_post
<1>3. flags' \in [Slots -> SUBSET (0 .. 7)]
  BY DEF TypeOK, sem_post
<1>4. /\ waiters' \in [Sems -> SUBSET Slots]
      /\ waiters_num' \in [Sems -> 0 .. MaxThreads + 1]
  BY MaxThreadsAssumption DEF TypeOK, sem_post
<1> QED
  BY <1>2, <1>3, <1>4 DEF TypeOK, sem_post, manager, sched

(* thread_create() writes the pid of a slot and bits of a byte. *)
LEMMA CreateTypes ==
    ASSUME TypeOK, thread_create
    PROVE  TypeOK'
<1>1. PICK t \in Slots :
          /\ pid' = [pid EXCEPT ![t] = t]
          /\ flags' = [flags EXCEPT ![t] = BitsOf(pid[t]) \cup {USED}]
          /\ pc' = [pc EXCEPT ![t] = "run"]
  BY DEF thread_create
<1>2. BitsOf(pid[t]) \cup {USED} \in SUBSET (0 .. 7)
  BY DEF BitsOf, USED
<1>3. flags' \in [Slots -> SUBSET (0 .. 7)]
  BY <1>1, <1>2 DEF TypeOK
<1>4. pc' \in [Slots -> PCs] /\ pid' \in [Slots -> Slots]
  BY <1>1 DEF TypeOK, PCs
<1> QED
  BY <1>3, <1>4 DEF TypeOK, thread_create, sched, sems

(* thread_exit() only clears a bit. *)
LEMMA ExitTypes ==
    ASSUME TypeOK, thread_exit
    PROVE  TypeOK'
<1>1. current \in Slots
  BY DEF TypeOK
<1>2. flags[current] \ {USED} \in SUBSET (0 .. 7)
  BY <1>1 DEF TypeOK
<1>3. flags' \in [Slots -> SUBSET (0 .. 7)]
  BY <1>2 DEF TypeOK, thread_exit
<1> QED
  BY <1>3 DEF TypeOK, PCs, thread_exit, manager, sched, sems

(* The two ways into sem_wait(), and the semaphore they test. *)
LEMMA WaitSteps ==
    ASSUME TypeOK, (\E s \in Sems : sem_wait(s)) \/ sem_wait_again
    PROVE  \E s \in Sems :
              /\ phase = "started"
              /\ \/ /\ pc[current] = "run" /\ HasSlot
                    /\ on' = [on EXCEPT ![current] = s]
                 \/ pc[current] = "again" /\ on[current] = s /\ UNCHANGED on
              /\ Take(s) \/ Sleep(s)
<1>1. CASE \E s \in Sems : sem_wait(s)
  BY <1>1 DEF sem_wait, Running
<1>2. CASE sem_wait_again
  BY <1>2 DEF sem_wait_again, Running, TypeOK
<1> QED
  BY <1>1, <1>2

(* Every step keeps the types. *)
LEMMA TypeNext == TypeOK /\ [Next]_vars => TypeOK'
<1> SUFFICES ASSUME TypeOK, [Next]_vars PROVE TypeOK'
  OBVIOUS
<1>1. CASE roundrobin_scheduler \/ thread_manager_init \/ thread_manager_start
  BY <1>1, SetUpTypes
<1>2. CASE thread_manager
  BY <1>2, TickTypes
<1>3. CASE (\E s \in Sems : sem_wait(s)) \/ sem_wait_again
  <2>1. PICK s \in Sems :
            /\ on' = [on EXCEPT ![current] = s] \/ UNCHANGED on
            /\ Take(s) \/ Sleep(s)
    BY <1>3, WaitSteps
  <2>2. on' \in [Slots -> Sems]
    BY <2>1 DEF TypeOK
  <2> QED
    BY <2>1, <2>2, WaitTypes
<1>4. ASSUME NEW s \in Sems, sem_post(s) PROVE TypeOK'
  BY <1>4, PostTypes
<1>5. CASE thread_create
  BY <1>5, CreateTypes
<1>6. CASE thread_exit
  BY <1>6, ExitTypes
<1>7. CASE UNCHANGED vars
  BY <1>7 DEF vars, manager, sched, sems, TypeOK
<1> QED
  BY <1>1, <1>2, <1>3, <1>4, <1>5, <1>6, <1>7 DEF Next, ThreadStep

(***************************************************************************)
(* Type correctness of the thread base and the semaphores: every index     *)
(* the scheduler computes lies in the thread table.                        *)
(***************************************************************************)
THEOREM TypeCorrect == Spec => []TypeOK
BY InitTypes, TypeNext, PTL DEF Spec

-----------------------------------------------------------------------------
(* A sleeper stays listed while others take, sleep and post. *)
LEMMA SleepersWait ==
    ASSUME WakeInv, NEW s \in Sems,
           \/ on' = [on EXCEPT ![current] = s]
           \/ on[current] = s /\ UNCHANGED on,
           Take(s) \/ Sleep(s)
    PROVE  SleepersListed'
<1> USE DEF WakeInv
<1>0. /\ current \in Slots /\ value[s] \in Int
      /\ on'[current] = s /\ \A t \in Slots \ {current} : on'[t] = on[t]
  BY ValueAssumption DEF TypeOK, Ints
<1>1. CASE Take(s)
  BY <1>0, <1>1 DEF Take, SleepersListed, InSemWait, TypeOK
<1>2. CASE Sleep(s)
  BY <1>0, <1>2 DEF Sleep, SleepersListed, InSemWait, TypeOK
<1> QED
  BY <1>1, <1>2

(***************************************************************************)
(* Sleepers are listed, and sleep for want of a unit, after every step.    *)
(***************************************************************************)
LEMMA SleepersNext == WakeInv /\ [Next]_vars => SleepersListed'
<1> SUFFICES ASSUME WakeInv, [Next]_vars PROVE SleepersListed'
  OBVIOUS
<1> USE DEF WakeInv
<1>1. CASE roundrobin_scheduler \/ thread_manager_init \/ thread_manager_start
  <2>1. /\ UNCHANGED <<pc, on, value, waiters>>
        /\ \A t \in Slots : SLEEP \in flags'[t] => SLEEP \in flags[t]
    BY <1>1 DEF roundrobin_scheduler, thread_manager_init, thread_manager_start,
                sems, TypeOK, SLEEP, USED, SYSTEM
  <2> QED
    BY <2>1 DEF SleepersListed, InSemWait
<1>2. CASE thread_manager
  <2>1. /\ UNCHANGED <<flags, on, value, waiters>>
        /\ \A t \in Slots : pc'[t] \in {"halt", "again"} => pc[t] \in {"halt", "again"}
    BY <1>2 DEF thread_manager, sems, PastHalt, TypeOK
  <2> QED
    BY <2>1 DEF SleepersListed, InSemWait
<1>3. CASE (\E s \in Sems : sem_wait(s)) \/ sem_wait_again
  BY <1>3, WaitSteps, SleepersWait
<1>4. ASSUME NEW s \in Sems, sem_post(s) PROVE SleepersListed'
  <2> SUFFICES ASSUME NEW r \in Sems, NEW t \in Slots,
                      InSemWait(t, r)', SLEEP \in flags'[t]
               PROVE  t \in waiters'[r] /\ value'[r] <= 0
    BY DEF SleepersListed
  <2>1. InSemWait(t, r) /\ t \notin waiters[s] /\ SLEEP \in flags[t]
    BY <1>4 DEF sem_post, InSemWait
  <2>2. t \in waiters[r] /\ value[r] <= 0 /\ r # s
    BY <2>1 DEF SleepersListed
  <2> QED
    BY <1>4, <2>2 DEF sem_post, TypeOK
<1>5. CASE thread_create
  <2>1. /\ UNCHANGED <<on, value, waiters>>
        /\ \A t \in Slots : pc'[t] \in {"halt", "again"} =>
                             pc[t] \in {"halt", "again"} /\ flags'[t] = flags[t]
    BY <1>5 DEF thread_create, sems, TypeOK
  <2> QED
    BY <2>1 DEF SleepersListed, InSemWait
<1>6. CASE thread_exit
  <2>1. /\ UNCHANGED <<on, value, waiters>>
        /\ \A t \in Slots : pc'[t] \in {"halt", "again"} =>
                             pc[t] \in {"halt", "again"} /\ flags'[t] = flags[t]
    BY <1>6 DEF thread_exit, sems, TypeOK
  <2> QED
    BY <2>1 DEF SleepersListed, InSemWait
<1>7. CASE UNCHANGED vars
  BY <1>7 DEF vars, sems, SleepersListed, InSemWait
<1> QED
  BY <1>1, <1>2, <1>3, <1>4, <1>5, <1>6, <1>7 DEF Next, ThreadStep

(***************************************************************************)
(* sem_wait()/sem_post() lose no wake-up, whatever threads do that have    *)
(* exited.                                                                 *)
(***************************************************************************)
THEOREM WakeupsKept == Spec => []NoLostWakeup
<1>1. Init => WakeInv
  BY InitTypes DEF Init, WakeInv, SleepersListed, InSemWait
<1>2. WakeInv /\ [Next]_vars => WakeInv'
  BY TypeNext, SleepersNext DEF WakeInv
<1>3. WakeInv => NoLostWakeup
  BY DEF WakeInv, SleepersListed, NoLostWakeup
<1> QED
  BY <1>1, <1>2, <1>3, PTL DEF Spec

-----------------------------------------------------------------------------
(***************************************************************************)
(* The initial states satisfy the inductive invariant.                     *)
(***************************************************************************)
LEMMA InitIInv == Init => IInv
<1> SUFFICES ASSUME Init PROVE IInv
  OBVIOUS
<1>1. TypeOK
  BY InitTypes
<1>2. ListsExact /\ UnitsMeanNoWaiters /\ SlotKept /\ BeforeStart /\ ResumedAwake
  BY DEF Init, ListsExact, UnitsMeanNoWaiters, SlotKept, BeforeStart,
         ResumedAwake, InSemWait
<1>3. pid[Main] = 0
  BY MainInTable DEF Init
<1> QED
  BY <1>1, <1>2, <1>3 DEF IInv

(***************************************************************************)
(* The set-up steps.                                                       *)
(***************************************************************************)
LEMMA SetUpPreserves ==
    ASSUME IInv,
           roundrobin_scheduler \/ thread_manager_init \/ thread_manager_start
    PROVE  IInv'
<1> USE DEF IInv
<1>1. CASE roundrobin_scheduler
  <2>1. TypeOK'
    BY <1>1, SetUpTypes
  <2>2. (/\ ListsExact /\ UnitsMeanNoWaiters /\ SlotKept /\ BeforeStart
         /\ ResumedAwake /\ pid[Main] = 0)'
    BY <1>1 DEF roundrobin_scheduler, sched, sems, ListsExact, InSemWait,
                UnitsMeanNoWaiters, SlotKept, BeforeStart, ResumedAwake
  <2> QED
    BY <2>1, <2>2
<1>2. CASE thread_manager_init
  <2>0. phase # "started"
    BY <1>2 DEF thread_manager_init
  <2>1. TypeOK'
    BY <1>2, SetUpTypes
  <2>2. (/\ ListsExact /\ UnitsMeanNoWaiters /\ SlotKept /\ BeforeStart
         /\ ResumedAwake /\ pid[Main] = 0)'
    BY <1>2, <2>0, MainInTable
       DEF thread_manager_init, sems, ListsExact, InSemWait,
           UnitsMeanNoWaiters, SlotKept, BeforeStart, ResumedAwake
  <2> QED
    BY <2>1, <2>2
<1>3. CASE thread_manager_start
  <2>0. /\ phase # "started" /\ current = Main
        /\ pc = [t \in Slots |-> "run"] /\ waiters = [s \in Sems |-> {}]
    BY <1>3 DEF thread_manager_start, BeforeStart
  <2>1. flags' \in [Slots -> SUBSET (0 .. 7)] /\ Ready(flags'[Main])
    BY <1>3, MainInTable, FlagConstants
       DEF thread_manager_start, TypeOK, Ready, USED, SYSTEM, SLEEP
  <2>2. current' = current \/ current' = Main \/ Ready(flags'[current'])
    BY <1>3, <2>1, ScheduleResult DEF thread_manager_start
  <2>3. TypeOK'
    BY <1>3, SetUpTypes
  <2>4. (ListsExact /\ UnitsMeanNoWaiters /\ SlotKept /\ BeforeStart)'
    BY <1>3, <2>0
       DEF thread_manager_start, sems, ListsExact, InSemWait,
           UnitsMeanNoWaiters, SlotKept, BeforeStart
  <2>5. ResumedAwake'
    BY <1>3, <2>0, <2>1, <2>2 DEF ResumedAwake, Ready
  <2>6. (pid[Main] = 0)'
    BY <1>3, MainInTable DEF thread_manager_start, TypeOK
  <2> QED
    BY <2>3, <2>4, <2>5, <2>6
<1> QED
  BY <1>1, <1>2, <1>3

(***************************************************************************)
(* The timer interrupt: the interrupted context stays in sem_wait() if it  *)
(* was there, and the context resumed is one the invariant speaks of.      *)
(***************************************************************************)
LEMMA TickPreserves ==
    ASSUME IInv, thread_manager
    PROVE  IInv'
<1> USE DEF IInv
<1>0. current' = current \/ current' = Main \/ Ready(flags[current'])
  BY ScheduleResult DEF thread_manager, TypeOK
<1>1. /\ phase = "started" /\ UNCHANGED <<phase, slice, pid, flags, on>>
      /\ UNCHANGED <<value, waiters, waiters_num, overrun>>
  BY DEF thread_manager, manager, sems
<1>2. \A t \in Slots :
          /\ pc[t] \in {"halt", "again"} <=> pc'[t] \in {"halt", "again"}
          /\ pc'[t] \in {"run", "exit"} => pc[t] \in {"run", "exit"}
  BY DEF thread_manager, PastHalt, TypeOK, PCs
<1>3. TypeOK'
  BY TickTypes
<1>4. ListsExact'
  BY <1>1, <1>2 DEF ListsExact, InSemWait, TypeOK
<1>5. UnitsMeanNoWaiters'
  BY <1>1 DEF UnitsMeanNoWaiters
<1>6. SlotKept'
  BY <1>1, <1>2 DEF SlotKept
<1>7. BeforeStart'
  BY <1>1 DEF BeforeStart
<1>8. ResumedAwake'
  BY <1>0, <1>1, <1>2, <1>3, MainInTable DEF ResumedAwake, Ready, TypeOK
<1> QED
  BY <1>1, <1>3, <1>4, <1>5, <1>6, <1>7, <1>8

(***************************************************************************)
(* sem_wait(), called by the program or resumed after its halt.            *)
(***************************************************************************)
LEMMA WaitPreserves ==
    ASSUME IInv, NEW s \in Sems, phase = "started",
           \/ /\ pc[current] = "run" /\ USED \in flags[current]
              /\ on' = [on EXCEPT ![current] = s]
           \/ pc[current] = "again" /\ on[current] = s /\ UNCHANGED on,
           Take(s) \/ Sleep(s)
    PROVE  IInv'
<1> USE DEF IInv
<1>0. /\ current \in Slots /\ USED \in flags[current]
      /\ on' \in [Slots -> Sems] /\ on'[current] = s
      /\ \A t \in Slots \ {current} : on'[t] = on[t]
  BY DEF TypeOK, SlotKept
<1>1. \A r \in Sems : current \in waiters[r] => r = s /\ SLEEP \in flags[current]
  BY <1>0 DEF ListsExact, InSemWait
<1>2. CASE Take(s)
  <2>1. /\ UNCHANGED <<phase, slice, pid, current, count, last>>
        /\ UNCHANGED <<flags, waiters, waiters_num, overrun>>
        /\ pc' = [pc EXCEPT ![current] = "run"]
        /\ value' = [value EXCEPT ![s] = @ - 1] /\ value[s] > 0
    BY <1>2 DEF Take, manager, sched
  <2>3. TypeOK'
    BY <1>0, <1>2, WaitTypes
  <2>4. waiters[s] = {}
    BY <2>1 DEF UnitsMeanNoWaiters
  <2>5. \A r \in Sems : current \notin waiters[r]
    BY <1>1, <2>4
  <2>6. ListsExact'
    BY <1>0, <2>1, <2>5 DEF ListsExact, InSemWait, TypeOK
  <2>7. UnitsMeanNoWaiters'
    BY <2>1, <2>4 DEF UnitsMeanNoWaiters, TypeOK
  <2>8. SlotKept'
    BY <2>1 DEF SlotKept, TypeOK
  <2>9. SLEEP \notin flags[current]
    BY <1>0, <2>4 DEF ListsExact, InSemWait, ResumedAwake
  <2>10. ResumedAwake'
    BY <1>0, <2>1, <2>9, MainInTable DEF ResumedAwake, TypeOK
  <2> QED
    BY <2>1, <2>3, <2>6, <2>7, <2>8, <2>10 DEF BeforeStart
<1>3. CASE Sleep(s)
  <2>1. /\ UNCHANGED <<phase, slice, pid, current, count, last, value>>
        /\ flags' = [flags EXCEPT ![current] = @ \cup {SLEEP}]
        /\ waiters' = [waiters EXCEPT ![s] = @ \cup {current}]
        /\ pc' = [pc EXCEPT ![current] = "halt"]
        /\ value[s] <= 0
    BY <1>3 DEF Sleep, manager, sched
  <2>3. TypeOK'
    BY <1>0, <1>3, WaitTypes
  <2>4. ListsExact'
    BY <1>0, <1>1, <2>1 DEF ListsExact, InSemWait, TypeOK
  <2>5. UnitsMeanNoWaiters'
    BY <2>1, ValueAssumption DEF UnitsMeanNoWaiters, TypeOK, Ints
  <2>6. SlotKept'
    BY <1>0, <2>1 DEF SlotKept, TypeOK, USED, SLEEP
  <2>7. ResumedAwake'
    BY <1>0, <2>1, MainInTable DEF ResumedAwake, TypeOK
  <2> QED
    BY <2>1, <2>3, <2>4, <2>5, <2>6, <2>7 DEF BeforeStart
<1> QED
  BY <1>2, <1>3

(***************************************************************************)
(* sem_post(): the threads woken are on no other list.                     *)
(***************************************************************************)
LEMMA PostPreserves ==
    ASSUME IInv, NEW s \in Sems, sem_post(s)
    PROVE  IInv'
<1> USE DEF IInv
<1>1. /\ UNCHANGED <<phase, slice, pid, current, count, last, pc, on, overrun>>
      /\ value' = [value EXCEPT ![s] = IncInt(@)]
      /\ flags' = [t \in Slots |-> IF t \in waiters[s] THEN flags[t] \ {SLEEP}
                                                       ELSE flags[t]]
      /\ waiters' = [waiters EXCEPT ![s] = {}]
      /\ waiters_num' = [waiters_num EXCEPT ![s] = 0]
      /\ phase = "started"
  BY DEF sem_post, Running, manager, sched
<1>2. TypeOK'
  BY PostTypes
<1>3. \A r \in Sems \ {s}, t \in Slots : t \in waiters[r] => t \notin waiters[s]
  BY DEF ListsExact, InSemWait
<1>4. ListsExact'
  <2> SUFFICES ASSUME NEW r \in Sems, NEW t \in Slots
               PROVE  (t \in waiters[r] <=> InSemWait(t, r) /\ SLEEP \in flags[t])'
    BY DEF ListsExact
  <2>1. InSemWait(t, r)' <=> InSemWait(t, r)
    BY <1>1 DEF InSemWait
  <2>2. CASE r = s
    <3>1. waiters'[r] = {}
      BY <1>1, <2>2 DEF TypeOK
    <3>2. InSemWait(t, r) => SLEEP \notin flags'[t]
      BY <1>1, <2>2 DEF ListsExact
    <3> QED
      BY <2>1, <3>1, <3>2
  <2>3. CASE r # s
    <3>1. waiters'[r] = waiters[r]
      BY <1>1, <2>3 DEF TypeOK
    <3>2. InSemWait(t, r) => t \notin waiters[s]
      BY <2>3 DEF ListsExact, InSemWait
    <3>3. InSemWait(t, r) => flags'[t] = flags[t]
      BY <1>1, <3>2
    <3> QED
      BY <2>1, <3>1, <3>3 DEF ListsExact
  <2> QED
    BY <2>2, <2>3
<1>5. UnitsMeanNoWaiters'
  BY <1>1 DEF UnitsMeanNoWaiters, TypeOK
<1>6. SlotKept'
  BY <1>1 DEF SlotKept, USED, SLEEP
<1>7. ResumedAwake'
  BY <1>1, MainInTable DEF ResumedAwake, TypeOK
<1> QED
  BY <1>1, <1>2, <1>4, <1>5, <1>6, <1>7 DEF BeforeStart

(***************************************************************************)
(* thread_create(): the slot given out is nobody's.                        *)
(***************************************************************************)
LEMMA CreatePreserves ==
    ASSUME NobodyGoesOn, IInv, thread_create
    PROVE  IInv'
<1> USE DEF IInv
<1>1. PICK t \in Slots :
          /\ USED \notin flags[t]
          /\ pid' = [pid EXCEPT ![t] = t]
          /\ flags' = [flags EXCEPT ![t] = BitsOf(pid[t]) \cup {USED}]
          /\ pc' = [pc EXCEPT ![t] = "run"]
  BY DEF thread_create
<1>2. /\ UNCHANGED <<phase, slice, current, count, last, on>>
      /\ UNCHANGED <<value, waiters, waiters_num, overrun>>
      /\ phase = "started" /\ pc[current] = "run"
  BY DEF thread_create, Running, sched, sems
<1>3. t # current
  BY <1>1 DEF thread_create, HasSlot, NobodyGoesOn
<1>4. TypeOK'
  BY CreateTypes
<1>5. ~ (pc[t] \in {"halt", "again"}) /\ \A s \in Sems : t \notin waiters[s]
  BY <1>1 DEF SlotKept, ListsExact, InSemWait
<1>6. ListsExact'
  BY <1>1, <1>2, <1>5 DEF ListsExact, InSemWait, TypeOK
<1>7. UnitsMeanNoWaiters'
  BY <1>2 DEF UnitsMeanNoWaiters
<1>8. SlotKept'
  BY <1>1, <1>2 DEF SlotKept, TypeOK
<1>9. t = Main => flags'[t] = {USED}
  BY <1>1, NoBitsInZero DEF TypeOK
<1>10. ResumedAwake'
  BY <1>1, <1>2, <1>3, <1>9, MainInTable
     DEF ResumedAwake, TypeOK, USED, SLEEP
<1>11. (pid[Main] = 0)'
  BY <1>1, MainInTable DEF TypeOK
<1> QED
  BY <1>2, <1>4, <1>6, <1>7, <1>8, <1>10, <1>11 DEF BeforeStart

(***************************************************************************)
(* thread_exit(): who exits is on no list.                                 *)
(***************************************************************************)
LEMMA ExitPreserves ==
    ASSUME IInv, thread_exit
    PROVE  IInv'
<1> USE DEF IInv
<1>1. /\ UNCHANGED <<phase, slice, pid, current, count, last, on>>
      /\ UNCHANGED <<value, waiters, waiters_num, overrun>>
      /\ phase = "started" /\ pc[current] = "run" /\ current \in Slots
      /\ flags' = [flags EXCEPT ![current] = @ \ {USED}]
      /\ pc' = [pc EXCEPT ![current] = "exit"]
  BY DEF thread_exit, Running, manager, sched, sems, TypeOK
<1>2. TypeOK'
  BY ExitTypes
<1>3. ListsExact'
  BY <1>1 DEF ListsExact, InSemWait, TypeOK
<1>4. UnitsMeanNoWaiters'
  BY <1>1 DEF UnitsMeanNoWaiters
<1>5. SlotKept'
  BY <1>1 DEF SlotKept, TypeOK
<1>6. ResumedAwake'
  BY <1>1, MainInTable DEF ResumedAwake, TypeOK
<1> QED
  BY <1>1, <1>2, <1>3, <1>4, <1>5, <1>6 DEF BeforeStart

-----------------------------------------------------------------------------
(* Every step of the thread library keeps the inductive invariant. *)
LEMMA NextIInv ==
    ASSUME NobodyGoesOn, IInv, [Next]_vars
    PROVE  IInv'
<1>1. CASE roundrobin_scheduler \/ thread_manager_init \/ thread_manager_start
  BY <1>1, SetUpPreserves
<1>2. CASE thread_manager
  BY <1>2, TickPreserves
<1>3. CASE (\E s \in Sems : sem_wait(s)) \/ sem_wait_again
  BY <1>3, WaitSteps, WaitPreserves DEF IInv, HasSlot, NobodyGoesOn
<1>4. ASSUME NEW s \in Sems, sem_post(s) PROVE IInv'
  BY <1>4, PostPreserves
<1>5. CASE thread_create
  BY <1>5, CreatePreserves
<1>6. CASE thread_exit
  BY <1>6, ExitPreserves
<1>7. CASE UNCHANGED vars
  BY <1>7 DEF vars, manager, sched, sems, IInv, TypeOK, ListsExact, InSemWait,
              UnitsMeanNoWaiters, SlotKept, BeforeStart, ResumedAwake
<1> QED
  BY <1>1, <1>2, <1>3, <1>4, <1>5, <1>6, <1>7 DEF Next, ThreadStep

(***************************************************************************)
(* The inductive invariant holds in every reachable state, if no thread    *)
(* that has exited goes on to wait or to create.                           *)
(***************************************************************************)
THEOREM Invariance == NobodyGoesOn => (Spec => []IInv)
<1> SUFFICES ASSUME NobodyGoesOn PROVE Spec => []IInv
  OBVIOUS
<1>1. IInv /\ [Next]_vars => IInv'
  BY NextIInv
<1> QED
  BY <1>1, InitIInv, PTL DEF Spec

(***************************************************************************)
(* No entry of a waiter list is stale, so sem_post() never touches a       *)
(* thread that left sem_wait() or a slot that has changed hands, if no     *)
(* thread that has exited goes on to wait or to create.                    *)
(***************************************************************************)
THEOREM ListsNeverStale == NobodyGoesOn => (Spec => []NoStaleWaiter)
<1> SUFFICES ASSUME NobodyGoesOn PROVE Spec => []NoStaleWaiter
  OBVIOUS
<1>1. IInv => NoStaleWaiter
  BY DEF IInv, TypeOK, ListsExact, SlotKept, InSemWait, NoStaleWaiter
<1> QED
  BY <1>1, Invariance, PTL

(***************************************************************************)
(* The program's code is executed only by threads that are awake, also by  *)
(* those that have exited and main when nobody is ready.                   *)
(***************************************************************************)
THEOREM RunnerIsAwake == NobodyGoesOn => (Spec => []RunnerAwake)
<1> SUFFICES ASSUME NobodyGoesOn PROVE Spec => []RunnerAwake
  OBVIOUS
<1>1. IInv => RunnerAwake
  BY DEF IInv, ResumedAwake, RunnerAwake, Running
<1> QED
  BY <1>1, Invariance, PTL

-----------------------------------------------------------------------------
(***************************************************************************)
(* Refinement.  Under the invariant the sleepers of a semaphore are        *)
(* exactly its list, which is what the abstract steps are computed from.   *)
(***************************************************************************)
LEMMA AsleepIsList == IInv => Asleep = waiters
<1> SUFFICES ASSUME IInv PROVE Asleep = waiters
  OBVIOUS
<1>1. \A s \in Sems : waiters[s] = {t \in Slots : InSemWait(t, s) /\ SLEEP \in flags[t]}
  BY DEF IInv, ListsExact, TypeOK
<1> QED
  BY <1>1 DEF Asleep, IInv, TypeOK

(* The same after a step. *)
LEMMA AsleepIsListNext == IInv' => (Asleep = waiters)'
BY AsleepIsList, PTL

(* A thread that executes program code is on no waiter list. *)
LEMMA RunnerNotListed ==
    ASSUME IInv, phase = "started", pc[current] = "run"
    PROVE  \A s \in Sems : current \notin waiters[s]
BY DEF IInv, TypeOK, ListsExact, InSemWait

(* A test of the value is a Take or a Block of the abstract semaphore, or nothing. *)
LEMMA WaitImplements ==
    ASSUME IInv, IInv', NEW s \in Sems, phase = "started",
           pc[current] = "run" \/ (pc[current] = "again" /\ on[current] = s),
           Take(s) \/ Sleep(s)
    PROVE  [Abstract!Next]_(Abstract!vars)
<1>1. Asleep = waiters /\ Asleep' = waiters' /\ current \in Slots
  BY AsleepIsList, AsleepIsListNext DEF IInv, TypeOK
<1>2. \A r \in Sems \ {s} : current \notin waiters[r]
  BY <1>1 DEF IInv, ListsExact, InSemWait
<1>3. CASE Take(s)
  <2>1. waiters[s] = {}
    BY <1>3 DEF IInv, UnitsMeanNoWaiters, Take
  <2>2. Abstract!Take(current, s)
    BY <1>1, <1>2, <1>3, <2>1 DEF Take, Abstract!Take, Abstract!Awake
  <2> QED
    BY <1>1, <2>2 DEF Abstract!Next
<1>4. CASE Sleep(s)
  <2>1. CASE current \in waiters[s]
    <3>1. waiters' = waiters /\ value' = value
      BY <1>4, <2>1 DEF Sleep, IInv, TypeOK
    <3> QED
      BY <1>1, <3>1 DEF Abstract!vars
  <2>2. CASE current \notin waiters[s]
    <3>1. Abstract!Block(current, s)
      BY <1>1, <1>2, <1>4, <2>2 DEF Sleep, Abstract!Block, Abstract!Awake
    <3> QED
      BY <1>1, <3>1 DEF Abstract!Next
  <2> QED
    BY <2>1, <2>2
<1> QED
  BY <1>3, <1>4

(* Every step is a step of the abstract semaphore or leaves it alone. *)
LEMMA NextImplements ==
    IInv /\ IInv' /\ [Next]_vars => [Abstract!Next]_(Abstract!vars)
<1> SUFFICES ASSUME IInv, IInv', [Next]_vars
             PROVE  [Abstract!Next]_(Abstract!vars)
  OBVIOUS
<1>0. Asleep = waiters /\ Asleep' = waiters'
  BY AsleepIsList, AsleepIsListNext
<1>1. CASE UNCHANGED <<value, waiters>>
  BY <1>0, <1>1 DEF Abstract!vars
<1>2. ASSUME NEW s \in Sems, sem_wait(s) PROVE [Abstract!Next]_(Abstract!vars)
  BY <1>2, WaitImplements DEF sem_wait, Running
<1>3. CASE sem_wait_again
  <2>1. on[current] \in Sems
    BY DEF IInv, TypeOK
  <2> QED
    BY <1>3, <2>1, WaitImplements DEF sem_wait_again, Running
<1>4. ASSUME NEW s \in Sems, sem_post(s) PROVE [Abstract!Next]_(Abstract!vars)
  <2>1. current \in Slots /\ \A r \in Sems : current \notin waiters[r]
    BY <1>4, RunnerNotListed DEF sem_post, Running, IInv, TypeOK
  <2>2. Abstract!Post(current, s)
    BY <1>0, <1>4, <2>1 DEF sem_post, IncInt, Abstract!Post, Abstract!Awake
  <2> QED
    BY <2>1, <2>2 DEF Abstract!Next
<1> QED
  BY <1>1, <1>2, <1>3, <1>4
     DEF Next, ThreadStep, vars, sems, roundrobin_scheduler, thread_manager_init,
         thread_manager_start, thread_manager, thread_create, thread_exit

(***************************************************************************)
(* The thread library implements the broadcast semaphore, if no thread     *)
(* that has exited goes on to wait or to create.                           *)
(***************************************************************************)
THEOREM Refinement == NobodyGoesOn => (Spec => ImplementsSemaphore)
<1> SUFFICES ASSUME NobodyGoesOn PROVE Spec => ImplementsSemaphore
  OBVIOUS
<1>1. Init => Abstract!Init
  BY AsleepIsList, InitIInv DEF Init, Abstract!Init
<1> QED
  BY <1>1, NextImplements, Invariance, PTL DEF Spec, ImplementsSemaphore, Abstract!Spec
=============================================================================
