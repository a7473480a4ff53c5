------------------------- MODULE BroadcastSemaphore -------------------------
(***************************************************************************)
(* What the semaphores of the thread library promise: sem_wait() takes a   *)
(* unit or puts the caller to sleep, and sem_post() adds a unit and wakes  *)
(* everyone who sleeps on the semaphore.  A thread that is asleep takes    *)
(* nothing until it has been woken.                                        *)
(***************************************************************************)
EXTENDS Integers

CONSTANTS Threads, Sems, InitValue, IntMax

VARIABLES
    value,      \* units of each semaphore
    asleep      \* the threads asleep on each semaphore

vars == <<value, asleep>>

Init ==
    /\ value = InitValue
    /\ asleep = [s \in Sems |-> {}]

Awake(t) == \A s \in Sems : t \notin asleep[s]

Take(t, s) ==
    /\ Awake(t)
    /\ value[s] > 0
    /\ value' = [value EXCEPT ![s] = @ - 1]
    /\ UNCHANGED asleep

Block(t, s) ==
    /\ Awake(t)
    /\ value[s] <= 0
    /\ asleep' = [asleep EXCEPT ![s] = @ \cup {t}]
    /\ UNCHANGED value

Post(t, s) ==
    /\ Awake(t)
    /\ value' = [value EXCEPT ![s] = IF @ = IntMax THEN -IntMax - 1 ELSE @ + 1]
    /\ asleep' = [asleep EXCEPT ![s] = {}]

Next == \E t \in Threads, s \in Sems : Take(t, s) \/ Block(t, s) \/ Post(t, s)

Spec == Init /\ [][Next]_vars
=============================================================================
