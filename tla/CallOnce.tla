------------------------------ MODULE CallOnce ------------------------------
(***************************************************************************)
(* call_once() of the new C library (asm_call_once.asm): threads that      *)
(* call it with the same once_flag, whose low byte is a spinlock that is   *)
(* never released and whose high byte says that func() has completed.      *)
(* One action is one access to the flag; func() takes any time.  The       *)
(* library is built for the Z80 family or for the 8080/8085; which build a *)
(* behaviour is of is chosen at the start and never changes.               *)
(***************************************************************************)
EXTENDS Integers

CONSTANTS
    Threads,        \* the threads that call call_once()
    Builds          \* the builds considered

ASSUME BuildsAssumption == Builds \subseteq {"z80", "8080"}

VARIABLES
    build,          \* the build this program is linked with
    spinlock,       \* the low byte of the once_flag
    completed,      \* the high byte of the once_flag
    pc,             \* where each thread stands in call_once()
    started,        \* how often func() was entered, 2 standing for more
    finished        \* whether func() has returned

vars == <<build, spinlock, completed, pc, started, finished>>

PCs == {"out", "try", "undo", "test", "func", "mark", "returned"}

ONCE_FLAG_INIT == [lo |-> 254, hi |-> 0]

Intel == build = "8080"         \* __CPU_INTEL__

(* The flag stays a pair of bytes, the threads inside call_once(). *)
TypeOK ==
    /\ build \in Builds
    /\ spinlock \in 0 .. 255
    /\ completed \in {0, 255}
    /\ pc \in [Threads -> PCs]
    /\ started \in 0 .. 2
    /\ finished \in BOOLEAN

Init ==
    /\ build \in Builds
    /\ spinlock = ONCE_FLAG_INIT.lo
    /\ completed = ONCE_FLAG_INIT.hi
    /\ pc = [t \in Threads |-> "out"]
    /\ started = 0
    /\ finished = FALSE

Goto(t, p) == pc' = [pc EXCEPT ![t] = p]

call_once(t) ==
    /\ pc[t] \in {"out", "returned"}
    /\ Goto(t, "try")
    /\ UNCHANGED <<build, spinlock, completed, started, finished>>

(***************************************************************************)
(* asm_spinlock_tryacquire.  Z80: "scf; rr (hl)" acquires if bit 0 was     *)
(* clear.  8080: "inc (hl)" acquires if the result is zero; a failure      *)
(* takes the increment back with an instruction of its own.                *)
(***************************************************************************)
Taken_NoCarryIn == IF Intel THEN (spinlock + 1) % 256 ELSE spinlock \div 2

Taken == IF Intel THEN (spinlock + 1) % 256 ELSE 128 + spinlock \div 2

Acquired == IF Intel THEN Taken = 0 ELSE spinlock % 2 = 0

asm_spinlock_tryacquire(t) ==
    /\ pc[t] = "try"
    /\ spinlock' = Taken
    /\ \/ /\ Acquired
          /\ Goto(t, "func")
          /\ started' = IF started = 0 THEN 1 ELSE 2
       \/ /\ ~ Acquired
          /\ Goto(t, IF Intel THEN "undo" ELSE "test")
          /\ UNCHANGED started
    /\ UNCHANGED <<build, completed, finished>>

acquisition_failed(t) ==
    /\ pc[t] = "undo"
    /\ spinlock' = (spinlock - 1) % 256
    /\ Goto(t, "test")
    /\ UNCHANGED <<build, completed, started, finished>>

test_completed_Returns(t) ==
    /\ pc[t] = "test"
    /\ Goto(t, "returned")
    /\ UNCHANGED <<build, spinlock, completed, started, finished>>

test_completed(t) ==
    /\ pc[t] = "test"
    /\ Goto(t, IF completed # 0 THEN "returned" ELSE "try")
    /\ UNCHANGED <<build, spinlock, completed, started, finished>>

func_returns(t) ==
    /\ pc[t] = "func"
    /\ finished' = TRUE
    /\ Goto(t, "mark")
    /\ UNCHANGED <<build, spinlock, completed, started>>

mark_completed_Not(t) ==
    /\ pc[t] = "mark"
    /\ Goto(t, "returned")
    /\ UNCHANGED <<build, spinlock, completed, started, finished>>

mark_completed(t) ==
    /\ pc[t] = "mark"
    /\ completed' = 255
    /\ Goto(t, "returned")
    /\ UNCHANGED <<build, spinlock, started, finished>>

Inside(t) ==
    \/ asm_spinlock_tryacquire(t)
    \/ acquisition_failed(t)
    \/ test_completed(t)
    \/ func_returns(t)
    \/ mark_completed(t)

Next == \E t \in Threads : call_once(t) \/ Inside(t)

Spec == Init /\ [][Next]_vars

(***************************************************************************)
(* Fairness: every thread keeps running (a failed attempt yields the       *)
(* processor) and func() returns.                                          *)
(***************************************************************************)
FairSpec == Spec /\ \A t \in Threads : WF_vars(Inside(t))

-----------------------------------------------------------------------------
(***************************************************************************)
(* "Execute the function func() exactly once": however the calls of        *)
(* several threads interleave, the Z80 enters func() at most once.         *)
(***************************************************************************)
AtMostOnce == ~ Intel => started <= 1

(***************************************************************************)
(* "do not return until it is finished executing": nobody returns from     *)
(* call_once() before func() has returned, on either build.                *)
(***************************************************************************)
ReturnsAfterFunc ==
    \A t \in Threads : pc[t] = "returned" => finished

(***************************************************************************)
(* On the Z80 every call returns: the callers that poll the flag see the   *)
(* completion of the one that runs func().                                 *)
(***************************************************************************)
PollersReturn ==
    \A t \in Threads : pc[t] = "try" /\ ~ Intel ~> pc[t] = "returned"

-----------------------------------------------------------------------------
\* The flag is the history of func(), as the Z80 keeps it.
Z80Flag ==
    /\ spinlock \in {254, 255}
    /\ started <= 1
    /\ spinlock = 254 => started = 0
    /\ \A t \in Threads : pc[t] # "undo"

OnceInv ==
    /\ TypeOK
    /\ ~ Intel => Z80Flag
    /\ completed # 0 => finished
    /\ \A t \in Threads : pc[t] \in {"mark", "returned"} => finished
=============================================================================
