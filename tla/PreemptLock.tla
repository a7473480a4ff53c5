---------------------------- MODULE PreemptLock ----------------------------
(***************************************************************************)
(* The way a program uses the thread library (examples/spectrum/preempt.c):*)
(* every thread brackets its critical section with sem_wait() and          *)
(* sem_post() on a semaphore that starts with a number of units.  The      *)
(* module adds who is inside to the state of Preempt; no thread takes the  *)
(* same semaphore twice, posts what it did not take, or exits inside.      *)
(***************************************************************************)
EXTENDS Preempt

ASSUME LockAssumption == \A s \in Sems : InitValue[s] >= 0

VARIABLE holders    \* the threads between sem_wait() and sem_post()

lockVars == <<vars, holders>>

LockInit == Init /\ holders = [s \in Sems |-> {}]

Enters(s) ==
    holders' = IF value[s] > 0
               THEN [holders EXCEPT ![s] = @ \cup {current}]
               ELSE holders

lock_wait(s) ==
    /\ current \notin holders[s]
    /\ sem_wait(s)
    /\ Enters(s)

lock_again ==
    /\ sem_wait_again
    /\ Enters(on[current])

lock_post(s) ==
    /\ current \in holders[s]
    /\ sem_post(s)
    /\ holders' = [holders EXCEPT ![s] = @ \ {current}]

lock_exit ==
    /\ \A s \in Sems : current \notin holders[s]
    /\ thread_exit
    /\ UNCHANGED holders

LockThreadStep ==
    \/ \E s \in Sems : lock_wait(s)
    \/ lock_again
    \/ \E s \in Sems : lock_post(s)
    \/ thread_create /\ UNCHANGED holders
    \/ lock_exit

SetUp == roundrobin_scheduler \/ thread_manager_init \/ thread_manager_start

LockNext ==
    \/ (SetUp \/ thread_manager) /\ UNCHANGED holders
    \/ LockThreadStep

LockSpec == LockInit /\ [][LockNext]_lockVars

(***************************************************************************)
(* The timer keeps ticking and a thread that keeps being given the         *)
(* processor leaves its critical section, re-enters it and so on.          *)
(***************************************************************************)
LockFairSpec ==
    /\ LockSpec
    /\ WF_lockVars(SetUp /\ UNCHANGED holders)
    /\ WF_lockVars(thread_manager /\ UNCHANGED holders)
    /\ \A t \in Slots :
          /\ SF_lockVars(current = t /\ lock_again)
          /\ SF_lockVars(current = t /\ \E s \in Sems : lock_post(s))

(***************************************************************************)
(* No more threads are inside than the semaphore had units: with one unit  *)
(* the critical sections exclude each other.                               *)
(***************************************************************************)
MutualExclusion == \A s \in Sems : Cardinality(holders[s]) <= InitValue[s]

(***************************************************************************)
(* Units are neither lost nor made, whatever tick comes between.           *)
(***************************************************************************)
UnitsConserved ==
    \A s \in Sems : value[s] + Cardinality(holders[s]) = InitValue[s]

(***************************************************************************)
(* sem_wait(): "we will be woken up at some point" (sem_wait.c:58).        *)
(***************************************************************************)
WokenUp == \A s \in Sems, t \in Slots : t \in Asleep[s] ~> t \notin Asleep[s]

(***************************************************************************)
(* A free unit does not stay free while somebody waits in sem_wait().      *)
(***************************************************************************)
FreeUnitTaken ==
    \A s \in Sems :
        (value[s] > 0 /\ \E t \in Slots : InSemWait(t, s)) ~>
            (value[s] = 0 \/ ~ \E t \in Slots : InSemWait(t, s))
=============================================================================
