------------------------------ MODULE Preempt ------------------------------
(***************************************************************************)
(* The pre-emptive thread library of the classic C library                 *)
(* (libsrc/classic/threading/preempt): the thread table, the round robin   *)
(* scheduler run by the timer interrupt, thread creation and exit, and the *)
(* semaphores.                                                             *)
(*                                                                         *)
(* One processor executes the context of slot "current".  Code between     *)
(* "di" and "ei" is one step; "ei" takes effect after the instruction that *)
(* follows it, so "ei; halt" cannot be interrupted between the two and a   *)
(* context in "halt" moves on only when the interrupt has been served.     *)
(***************************************************************************)
EXTENDS Integers, FiniteSets

CONSTANTS
    MaxThreads,     \* MAX_THREADS, slots of the thread table
    Ticks,          \* argument of roundrobin_scheduler()
    Sems,           \* the program's semaphores
    InitValue,      \* value each is initialised with by sem_init()
    IntMax,         \* largest int; 32767 on the target
    MayWait,        \* slots whose thread calls sem_wait()
    MayPost,        \* slots whose thread calls sem_post()
    MayCreate,      \* slots whose thread calls thread_create()
    MayExit,        \* slots whose thread calls thread_exit()
    MayGoOn         \* slots whose thread goes on to wait or to create when
                    \* its thread_exit() has returned

ASSUME MaxThreadsAssumption ==
    MaxThreads \in {1, 2, 4, 8, 16, 32, 64, 128}
ASSUME TicksAssumption == Ticks \in Nat
ASSUME ValueAssumption ==
    /\ IntMax \in Nat
    /\ InitValue \in [Sems -> (-IntMax - 1) .. IntMax]

Slots == 0 .. MaxThreads - 1
Main == 0

(***************************************************************************)
(* thread_t.flags, as the set of the bits that are one.                    *)
(***************************************************************************)
SLEEP == 0
SYSTEM == 1
USED == 7
Weight == <<1, 2, 4, 8, 16, 32, 64>>
BitsOf(byte) == {b \in 0 .. 6 : (byte \div Weight[b + 1]) % 2 = 1}

DefaultSlice == 2

VARIABLES
    phase,          \* how far main() is with setting the manager up
    current,        \* threadbase.current
    slice,          \* schedule_data[0], ticks per time slice
    count,          \* schedule_data[1], ticks left of this slice
    last,           \* schedule_data[2], task selected last
    pid,            \* threads[].pid
    flags,          \* threads[].flags
    pc,             \* where the context of each slot stands
    on,             \* the semaphore a context in sem_wait() was called with
    value,          \* sem_t.value
    waiters,        \* the threads listed in sem_t.waiters
    waiters_num,    \* sem_t.waiters_num, saturating just past the array
    overrun         \* an entry was written past the end of sem_t.waiters

manager == <<phase, slice, pid>>
sched == <<current, count, last>>
sems == <<value, waiters, waiters_num, overrun>>
vars == <<manager, sched, flags, pc, on, sems>>

Phases == {"reset", "scheduler", "init", "started"}
PCs == {"run", "halt", "again", "exit"}
Ints == (-IntMax - 1) .. IntMax

(* Every variable keeps its type; the byte sized fields stay in range. *)
TypeOK ==
    /\ phase \in Phases
    /\ current \in Slots
    /\ slice \in 0 .. 255
    /\ count \in 0 .. 255
    /\ last \in Slots
    /\ pid \in [Slots -> Slots]
    /\ flags \in [Slots -> SUBSET (0 .. 7)]
    /\ pc \in [Slots -> PCs]
    /\ on \in [Slots -> Sems]
    /\ value \in [Sems -> Ints]
    /\ waiters \in [Sems -> SUBSET Slots]
    /\ waiters_num \in [Sems -> 0 .. MaxThreads + 1]
    /\ overrun \in [Sems -> BOOLEAN]

Ready(f) == USED \in f /\ SLEEP \notin f

Init ==
    /\ phase = "reset"
    /\ current = Main
    /\ slice = 0
    /\ count = 0
    /\ last = 0
    /\ pid = [t \in Slots |-> 0]
    /\ flags = [t \in Slots |-> {}]
    /\ pc = [t \in Slots |-> "run"]
    /\ on \in {[t \in Slots |-> s] : s \in Sems}
    /\ value = InitValue
    /\ waiters = [s \in Sems |-> {}]
    /\ waiters_num = [s \in Sems |-> 0]
    /\ overrun = [s \in Sems |-> FALSE]

(***************************************************************************)
(* roundrobin_task_schedule: nothing changes until the slice is used up,   *)
(* then the first ready task after the one selected last is taken.  The    *)
(* search stops at the task it started from without looking at it; then    *)
(* main runs, ready or not, and the last selected task is not updated.     *)
(***************************************************************************)
After(t, k) == (t + k) % MaxThreads

Select_ForgetsLast(f) ==
    \/ \E k \in 1 .. MaxThreads - 1 :
          /\ Ready(f[After(last, k)])
          /\ \A j \in 1 .. k - 1 : ~ Ready(f[After(last, j)])
          /\ current' = After(last, k)
          /\ last' = last
    \/ /\ \A k \in 1 .. MaxThreads - 1 : ~ Ready(f[After(last, k)])
       /\ current' = Main
       /\ last' = last

Select(f) ==
    \/ \E k \in 1 .. MaxThreads - 1 :
          /\ Ready(f[After(last, k)])
          /\ \A j \in 1 .. k - 1 : ~ Ready(f[After(last, j)])
          /\ current' = After(last, k)
          /\ last' = After(last, k)
    \/ /\ \A k \in 1 .. MaxThreads - 1 : ~ Ready(f[After(last, k)])
       /\ current' = Main
       /\ last' = last

task_schedule(f) ==
    \/ /\ count # 1
       /\ count' = (count - 1) % 256
       /\ UNCHANGED <<current, last>>
    \/ /\ count = 1
       /\ count' = slice
       /\ Select(f)

(***************************************************************************)
(* Setting up.  thread_manager_init(roundrobin_scheduler(ticks)) evaluates *)
(* its argument first; memset() then clears the whole thread base.         *)
(* Interrupts stay disabled until thread_manager_start() has run the       *)
(* scheduler for the first time.                                           *)
(***************************************************************************)
roundrobin_scheduler ==
    /\ phase = "reset"
    /\ phase' = "scheduler"
    /\ slice' = Ticks % 256
    /\ UNCHANGED <<sched, pid, flags, pc, on, sems>>

schedule_init(data) ==
    /\ slice' = IF data = 0 THEN DefaultSlice ELSE data
    /\ count' = 1
    /\ last' = 0

thread_manager_init ==
    /\ phase = "scheduler"
    /\ phase' = "init"
    /\ current' = Main
    /\ pid' = [t \in Slots |-> 0]
    /\ flags' = [t \in Slots |-> {}]
    /\ schedule_init(0)
    /\ UNCHANGED <<pc, on, sems>>

thread_manager_start ==
    /\ phase = "init"
    /\ phase' = "started"
    /\ pid' = [pid EXCEPT ![Main] = 0]
    /\ flags' = [flags EXCEPT ![Main] = {USED, SYSTEM}]
    /\ task_schedule(flags')
    /\ UNCHANGED <<slice, pc, on, sems>>

(***************************************************************************)
(* thread_manager: the timer interrupt.  The interrupted context has left  *)
(* its "halt", if it stood in one, and is resumed behind it, by this tick  *)
(* or a later one: in sem_wait() to try again, in thread_exit() to return  *)
(* to the program.                                                         *)
(***************************************************************************)
PastHalt(p) == CASE p = "halt" -> "again"
                 [] p = "exit" -> "run"
                 [] OTHER -> p

thread_manager ==
    /\ phase = "started"
    /\ task_schedule(flags)
    /\ pc' = [pc EXCEPT ![current] = PastHalt(@)]
    /\ UNCHANGED <<manager, flags, on, sems>>

(***************************************************************************)
(* sem_wait: take a unit, or go to sleep, be listed and halt.  The context *)
(* that leaves the halt starts again; it does so awake or asleep.          *)
(***************************************************************************)
Running(p) == phase = "started" /\ pc[current] = p

\* An exited thread has no slot; what it still calls is up to the program.
HasSlot == USED \in flags[current] \/ current \in MayGoOn

Take_Unsigned(s) ==
    /\ value[s] # 0
    /\ value' = [value EXCEPT ![s] = @ - 1]
    /\ pc' = [pc EXCEPT ![current] = "run"]
    /\ UNCHANGED <<manager, sched, flags, waiters, waiters_num, overrun>>

Take_KeepsUnit(s) ==
    /\ value[s] > 0
    /\ pc' = [pc EXCEPT ![current] = "run"]
    /\ UNCHANGED <<manager, sched, flags, sems>>

Take_WhenZero(s) ==
    /\ value[s] >= 0
    /\ value' = [value EXCEPT ![s] = @ - 1]
    /\ pc' = [pc EXCEPT ![current] = "run"]
    /\ UNCHANGED <<manager, sched, flags, waiters, waiters_num, overrun>>

Take(s) ==
    /\ value[s] > 0
    /\ value' = [value EXCEPT ![s] = @ - 1]
    /\ pc' = [pc EXCEPT ![current] = "run"]
    /\ UNCHANGED <<manager, sched, flags, waiters, waiters_num, overrun>>

Sleep(s) ==
    /\ value[s] <= 0
    /\ flags' = [flags EXCEPT ![current] = @ \cup {SLEEP}]
    /\ waiters' = [waiters EXCEPT ![s] = @ \cup {current}]
    /\ waiters_num' = [waiters_num EXCEPT ![s] =
                         IF @ > MaxThreads THEN @ ELSE @ + 1]
    /\ overrun' = [overrun EXCEPT ![s] = @ \/ waiters_num[s] >= MaxThreads]
    /\ pc' = [pc EXCEPT ![current] = "halt"]
    /\ UNCHANGED <<manager, sched, value>>

sem_wait(s) ==
    /\ Running("run")
    /\ current \in MayWait /\ HasSlot
    /\ on' = [on EXCEPT ![current] = s]
    /\ Take(s) \/ Sleep(s)

sem_wait_again ==
    /\ Running("again")
    /\ LET s == on[current] IN Take(s) \/ Sleep(s)
    /\ UNCHANGED on

(***************************************************************************)
(* sem_post: the value goes up by one, wrapping at the width of an int,    *)
(* and every listed thread is woken.                                       *)
(***************************************************************************)
IncInt(v) == IF v = IntMax THEN -IntMax - 1 ELSE v + 1

sem_post_WakesOne(s) ==
    /\ Running("run")
    /\ current \in MayPost
    /\ value' = [value EXCEPT ![s] = IncInt(@)]
    /\ IF waiters[s] = {} THEN UNCHANGED flags
       ELSE \E t \in waiters[s] : flags' = [flags EXCEPT ![t] = @ \ {SLEEP}]
    /\ waiters' = [waiters EXCEPT ![s] = {}]
    /\ waiters_num' = [waiters_num EXCEPT ![s] = 0]
    /\ UNCHANGED <<manager, sched, pc, on, overrun>>

sem_post_KeepsList(s) ==
    /\ Running("run")
    /\ current \in MayPost
    /\ value' = [value EXCEPT ![s] = IncInt(@)]
    /\ flags' = [t \in Slots |-> IF t \in waiters[s] THEN flags[t] \ {SLEEP}
                                                     ELSE flags[t]]
    /\ UNCHANGED <<manager, sched, pc, on, waiters, waiters_num, overrun>>

sem_post(s) ==
    /\ Running("run")
    /\ current \in MayPost
    /\ value' = [value EXCEPT ![s] = IncInt(@)]
    /\ flags' = [t \in Slots |-> IF t \in waiters[s] THEN flags[t] \ {SLEEP}
                                                     ELSE flags[t]]
    /\ waiters' = [waiters EXCEPT ![s] = {}]
    /\ waiters_num' = [waiters_num EXCEPT ![s] = 0]
    /\ UNCHANGED <<manager, sched, pc, on, overrun>>

(***************************************************************************)
(* thread_create: the first unused slot.  The "ldir" that is to clear the  *)
(* entry copies its first byte, the pid of the previous user, over it.     *)
(* The slot may be the one an exited caller had: then the caller runs on   *)
(* as the new thread, whose stack pointer the next tick overwrites.        *)
(***************************************************************************)
thread_create ==
    /\ Running("run")
    /\ current \in MayCreate /\ HasSlot
    /\ \E t \in Slots :
          /\ USED \notin flags[t]
          /\ \A u \in 0 .. t - 1 : USED \in flags[u]
          /\ pid' = [pid EXCEPT ![t] = t]
          /\ flags' = [flags EXCEPT ![t] = BitsOf(pid[t]) \cup {USED}]
          /\ pc' = [pc EXCEPT ![t] = "run"]
    /\ UNCHANGED <<phase, slice, sched, on, sems>>

(* thread_create with a full table returns 0 and changes nothing. *)

(***************************************************************************)
(* thread_exit: bit 2 of the flags makes it return at once; otherwise the  *)
(* slot is given up and the context halts.  The tick that ends the halt    *)
(* need not end the time slice, and main is resumed whenever nobody is     *)
(* ready: then thread_exit() returns and its caller goes on with the       *)
(* program, without a slot.                                                *)
(***************************************************************************)
thread_exit ==
    /\ Running("run")
    /\ current \in MayExit
    /\ 2 \notin flags[current]
    /\ flags' = [flags EXCEPT ![current] = @ \ {USED}]
    /\ pc' = [pc EXCEPT ![current] = "exit"]
    /\ UNCHANGED <<manager, sched, on, sems>>

ThreadStep ==
    \/ \E s \in Sems : sem_wait(s)
    \/ sem_wait_again
    \/ \E s \in Sems : sem_post(s)
    \/ thread_create
    \/ thread_exit

Next ==
    \/ roundrobin_scheduler
    \/ thread_manager_init
    \/ thread_manager_start
    \/ thread_manager
    \/ ThreadStep

Spec == Init /\ [][Next]_vars

-----------------------------------------------------------------------------
(***************************************************************************)
(* Properties.  What follows an overrun of a waiter list is memory         *)
(* corruption, so nothing is claimed of a semaphore after its overrun.     *)
(***************************************************************************)
InSemWait(t, s) == pc[t] \in {"halt", "again"} /\ on[t] = s

(***************************************************************************)
(* sem_wait/sem_post: no wake-up is lost.  A thread asleep in sem_wait()   *)
(* is on the semaphore's list, where sem_post() finds it, and there is no  *)
(* unit it could have taken instead of sleeping.                           *)
(***************************************************************************)
NoLostWakeup ==
    \A s \in Sems : ~ overrun[s] =>
        \A t \in Slots : InSemWait(t, s) /\ SLEEP \in flags[t] =>
            t \in waiters[s] /\ value[s] <= 0

(***************************************************************************)
(* sem_post writes only to the flags of threads that are asleep in         *)
(* sem_wait() on this very semaphore: a list never names a thread that has *)
(* moved on, has exited, or whose slot was given to another thread.        *)
(***************************************************************************)
NoStaleWaiter ==
    \A s \in Sems : ~ overrun[s] =>
        \A t \in waiters[s] : InSemWait(t, s) /\ {SLEEP, USED} \subseteq flags[t]

(***************************************************************************)
(* sem_wait, roundrobin_noneready: the program's code is executed by a     *)
(* thread that is awake, although sleepers are resumed in sem_wait() for   *)
(* the rest of their slice and main whenever nobody is ready.  A thread    *)
(* that left sem_wait() with its sleep bit set would lose the processor    *)
(* for good at the end of its slice: no list names it.                     *)
(***************************************************************************)
RunnerAwake ==
    Running("run") /\ (\A s \in Sems : ~ overrun[s]) => SLEEP \notin flags[current]

(***************************************************************************)
(* sem_wait() and sem_post() implement the broadcast semaphore: seen from  *)
(* outside a thread that sleeps in sem_wait() is really asleep, although   *)
(* its context keeps being resumed, tests the value again and lists itself *)
(* again.                                                                  *)
(***************************************************************************)
Asleep == [s \in Sems |-> {t \in Slots : InSemWait(t, s) /\ SLEEP \in flags[t]}]

Abstract == INSTANCE BroadcastSemaphore WITH Threads <- Slots, asleep <- Asleep

ImplementsSemaphore == Abstract!Spec

-----------------------------------------------------------------------------
(***************************************************************************)
(* What holds whatever exited threads go on to do: a sleeper is on the     *)
(* list of the semaphore it sleeps on, which then has no units.            *)
(***************************************************************************)
SleepersListed ==
    \A s \in Sems, t \in Slots : InSemWait(t, s) /\ SLEEP \in flags[t] =>
        t \in waiters[s] /\ value[s] <= 0

WakeInv == TypeOK /\ SleepersListed

(***************************************************************************)
(* The slot of an exited thread that waits can be given to another, with   *)
(* the old thread still on a list.  Excluding that, the lists hold exactly *)
(* the threads asleep in sem_wait(), they are empty while there are units, *)
(* whoever is in sem_wait() has its slot, and a context that may be        *)
(* resumed in the program's code, or in thread_exit(), is awake.           *)
(***************************************************************************)
NobodyGoesOn == MayGoOn = {}

ListsExact ==
    \A s \in Sems, t \in Slots :
        t \in waiters[s] <=> (InSemWait(t, s) /\ SLEEP \in flags[t])

UnitsMeanNoWaiters == \A s \in Sems : value[s] > 0 => waiters[s] = {}

SlotKept == \A t \in Slots : pc[t] \in {"halt", "again"} => USED \in flags[t]

BeforeStart ==
    phase # "started" =>
        /\ current = Main
        /\ pc = [t \in Slots |-> "run"]
        /\ waiters = [s \in Sems |-> {}]

ResumedAwake ==
    phase = "started" =>
        \A t \in {current, Main} : pc[t] \in {"run", "exit"} => SLEEP \notin flags[t]

IInv ==
    /\ TypeOK
    /\ ListsExact
    /\ UnitsMeanNoWaiters
    /\ SlotKept
    /\ BeforeStart
    /\ ResumedAwake
    /\ pid[Main] = 0

(***************************************************************************)
(* Round robin: a thread that is ready runs, or stops being ready.         *)
(***************************************************************************)
ReadyThreadsRun ==
    \A t \in Slots : Ready(flags[t]) ~> (current = t \/ ~ Ready(flags[t]))
=============================================================================
