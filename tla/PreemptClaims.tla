--------------------------- MODULE PreemptClaims ---------------------------
(***************************************************************************)
(* What the comments of the thread library say of it.  Each formula quotes *)
(* the line it is taken from; the library breaks every one of them.        *)
(***************************************************************************)
EXTENDS Preempt

(***************************************************************************)
(* thread_create(): "Clear the task table down" (thread_create.c:37): a    *)
(* new thread starts without the sleep bit.                                *)
(***************************************************************************)
NewThreadsAwake ==
    \A t \in Slots : USED \in flags[t] /\ pc[t] = "run" => SLEEP \notin flags[t]

(***************************************************************************)
(* thread_exit(), behind its halt: "We should no longer exist"             *)
(* (thread_exit.c:19): the program is never executed by a thread that has  *)
(* given up its slot.                                                      *)
(***************************************************************************)
ExitedThreadsGone == Running("run") => USED \in flags[current]

(***************************************************************************)
(* sem_t: "waiters[MAX_THREADS]" (include/threading/semaphore.h:12) has    *)
(* room for all the waiting threads.                                       *)
(***************************************************************************)
WaitersFit == \A s \in Sems : ~ overrun[s]
=============================================================================
