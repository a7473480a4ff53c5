------------------------------- MODULE Mutex -------------------------------
(***************************************************************************)
(* The C11 mutex of the new C library (libsrc/newlib/threads/mutex): an    *)
(* owner, a recursion count and a queue of blocked threads, guarded by a   *)
(* byte sized spinlock.  Threads are pre-empted at any instruction, so one *)
(* action is one access to memory that other threads use.  The scheduler's *)
(* __thread_block_timeout and __thread_unblock are not part of the library *)
(* (libsrc/newlib/threads/readme.txt describes them) and are atomic here.  *)
(* The library is built for the Z80 family or for the 8080/8085; which     *)
(* build a behaviour is of is chosen at the start and never changes.       *)
(***************************************************************************)
EXTENDS Integers, Sequences, FiniteSets

CONSTANTS
    Threads,        \* thread ids, non-zero bytes
    Builds,         \* the builds considered
    CountMax,       \* largest lock count, 255
    InitTypes,      \* arguments the program passes to mtx_init()
    MayTry,         \* for each build, the threads that call mtx_trylock()
    MayTimed        \* threads that call mtx_timedlock() with a time limit

ASSUME ThreadsAssumption == Threads \subseteq 1 .. 255
ASSUME BuildsAssumption == Builds \subseteq {"z80", "8080"}
ASSUME CountAssumption == CountMax \in Nat \ {0}
ASSUME TypesAssumption == InitTypes \subseteq 0 .. 255

NoOwner == 0
Recursive == 2                  \* mtx_recursive, a bit of mutex_type

VARIABLES
    build,          \* the build this program is linked with
    owner,          \* m->thrd_owner
    type,           \* m->mutex_type
    lock_count,     \* m->lock_count
    spinlock,       \* m->spinlock
    q,              \* m->q, the blocked threads in order of arrival
    pc,             \* where each thread stands in the library
    op,             \* the call it is in
    hl, carry,      \* what the call that returned last gave its thread
    depth           \* how many unlocks the program owes

fields == <<owner, type, lock_count>>
result == <<hl, carry>>
vars == <<build, fields, spinlock, q, pc, op, result, depth>>

Intel == build = "8080"         \* __CPU_INTEL__

Ops == {"lock", "timedlock", "trylock", "unlock"}
Out == "out"
\* The steps during which a thread owns the spinlock.
SpinPCs == {"test", "busy", "block", "claim", "count", "release",
            "disown", "unblock", "free"}
PCs == {Out, "spin", "undo", "blocked"} \cup SpinPCs
Results == {"thrd_success", "thrd_error", "thrd_busy", "einval"}

(* Every field stays a byte and every thread somewhere in the library. *)
TypeOK ==
    /\ build \in Builds
    /\ owner \in Threads \cup {NoOwner}
    /\ type \in 0 .. 7
    /\ lock_count \in 0 .. CountMax
    /\ spinlock \in 0 .. 255
    /\ q \in Seq(Threads)
    /\ pc \in [Threads -> PCs]
    /\ op \in [Threads -> Ops]
    /\ hl \in Results
    /\ carry \in {0, 1}
    /\ depth \in [Threads -> 0 .. CountMax]

(***************************************************************************)
(* The spinlock.  Z80: "scf; rr (hl)" takes it if bit 0 was clear.  8080:  *)
(* "inc (hl)" takes it if the result is zero, and a failed attempt undoes  *)
(* its increment with an instruction of its own.                           *)
(***************************************************************************)
FreeByte == IF Intel THEN 255 ELSE 254

Taken == IF Intel THEN (spinlock + 1) % 256 ELSE 128 + spinlock \div 2

Takes == IF Intel THEN Taken = 0 ELSE spinlock % 2 = 0

Released == IF Intel THEN (spinlock - 1) % 256 ELSE 254

Goto(t, p) == pc' = [pc EXCEPT ![t] = p]

Return(t, h, c) ==
    /\ Goto(t, Out)
    /\ hl' = h
    /\ carry' = c

Init ==
    /\ build \in Builds
    /\ owner = NoOwner
    /\ type = 0
    /\ lock_count = 0
    /\ spinlock = 0
    /\ q = <<>>
    /\ pc = [t \in Threads |-> Out]
    /\ op = [t \in Threads |-> "unlock"]
    /\ hl = "thrd_success"
    /\ carry = 0
    /\ depth = [t \in Threads |-> 0]

(* The sequence s without its i-th element. *)
RemoveAt(s, i) == SubSeq(s, 1, i - 1) \o SubSeq(s, i + 1, Len(s))

Unused == \A t \in Threads : pc[t] = Out /\ depth[t] = 0

(***************************************************************************)
(* mtx_init, mtx_destroy: called by the program while nobody uses the      *)
(* mutex.  An unknown type is refused.                                     *)
(***************************************************************************)
mtx_init(t, c) ==
    /\ Unused
    /\ \/ /\ c \in 1 .. 7
          /\ owner' = NoOwner /\ lock_count' = 0 /\ q' = <<>>
          /\ spinlock' = FreeByte
          /\ type' = c
          /\ Return(t, "thrd_success", 0)
       \/ /\ c \notin 1 .. 7
          /\ Return(t, "thrd_error", 1)
          /\ UNCHANGED <<fields, spinlock, q>>
    /\ UNCHANGED <<build, op, depth>>

mtx_destroy(t) ==
    /\ Unused
    /\ owner' = NoOwner /\ type' = 0 /\ lock_count' = 0
    /\ spinlock' = 0 /\ q' = <<>>
    /\ UNCHANGED <<build, pc, op, result, depth>>

(***************************************************************************)
(* mtx_lock, mtx_timedlock and mtx_trylock up to the call of the spinlock. *)
(* The owner is compared without the spinlock.  The owner of a recursive   *)
(* mutex counts up and stops at the limit of the byte; the owner of a      *)
(* plain one is told success and nothing is counted.  The 8080 moves the   *)
(* type bit it tests into the carry flag and returns with it.              *)
(***************************************************************************)
IsRecursive == (type \div 2) % 2 = 1

Owned_NoCarry(t) ==
    \/ /\ ~ IsRecursive
       /\ Return(t, "thrd_success", 0)
       /\ UNCHANGED <<lock_count, depth>>
    \/ /\ IsRecursive
       /\ lock_count < CountMax
       /\ lock_count' = lock_count + 1
       /\ depth' = [depth EXCEPT ![t] = @ + 1]
       /\ Return(t, "thrd_success", 0)
    \/ /\ IsRecursive
       /\ lock_count = CountMax
       /\ Return(t, "thrd_error", 0)
       /\ UNCHANGED <<lock_count, depth>>

Owned(t) ==
    \/ /\ ~ IsRecursive
       /\ Return(t, "thrd_success", 0)
       /\ UNCHANGED <<lock_count, depth>>
    \/ /\ IsRecursive
       /\ lock_count < CountMax
       /\ lock_count' = lock_count + 1
       /\ depth' = [depth EXCEPT ![t] = @ + 1]
       /\ Return(t, "thrd_success", IF Intel THEN 1 ELSE 0)
    \/ /\ IsRecursive
       /\ lock_count = CountMax
       /\ Return(t, "thrd_error", 1)
       /\ UNCHANGED <<lock_count, depth>>

MayCall(t, o) ==
    /\ o = "trylock" => t \in MayTry[build]
    /\ o = "timedlock" => t \in MayTimed

Lock(t, o) ==
    /\ pc[t] = Out
    /\ MayCall(t, o)
    /\ op' = [op EXCEPT ![t] = o]
    /\ \/ /\ type = 0
          /\ Return(t, "einval", 1)
          /\ UNCHANGED <<lock_count, depth>>
       \/ /\ type # 0
          /\ owner = t
          /\ Owned(t)
       \/ /\ type # 0
          /\ owner # t
          /\ Goto(t, "spin")
          /\ UNCHANGED <<lock_count, result, depth>>
    /\ UNCHANGED <<build, owner, type, spinlock, q>>

(***************************************************************************)
(* mtx_unlock up to the call of the spinlock.                              *)
(***************************************************************************)
mtx_unlock(t) ==
    /\ pc[t] = Out
    /\ op' = [op EXCEPT ![t] = "unlock"]
    /\ \/ /\ type = 0
          /\ Return(t, "einval", 1)
          /\ UNCHANGED <<lock_count, depth>>
       \/ /\ type # 0
          /\ owner # t
          /\ Return(t, "thrd_error", 1)
          /\ UNCHANGED <<lock_count, depth>>
       \/ /\ type # 0
          /\ owner = t
          /\ lock_count' = lock_count - 1
          /\ depth' = [depth EXCEPT ![t] = @ - 1]
          /\ \/ lock_count > 1 /\ Return(t, "thrd_success", 0)
             \/ lock_count = 1 /\ Goto(t, "spin") /\ UNCHANGED result
    /\ UNCHANGED <<build, owner, type, spinlock, q>>

asm_spinlock_acquire(t) ==
    /\ pc[t] = "spin"
    /\ \/ /\ Takes
          /\ spinlock' = Taken
          /\ Goto(t, IF op[t] = "unlock" THEN "disown" ELSE "test")
       \/ /\ ~ Takes
          /\ spinlock' = Taken
          /\ Goto(t, IF Intel THEN "undo" ELSE "spin")
    /\ UNCHANGED <<build, fields, q, op, result, depth>>

acquisition_failed(t) ==
    /\ pc[t] = "undo"
    /\ spinlock' = (spinlock - 1) % 256
    /\ Goto(t, "spin")
    /\ UNCHANGED <<build, fields, q, op, result, depth>>

(***************************************************************************)
(* With the spinlock: a free mutex is claimed, a busy one makes the thread *)
(* block or give up.  mtx_trylock releases the spinlock with the byte the  *)
(* Z80 uses, whatever it is built for.                                     *)
(***************************************************************************)
test_owner_Ignores(t) ==
    /\ pc[t] = "test"
    /\ Goto(t, "claim")
    /\ UNCHANGED <<build, fields, spinlock, q, op, result, depth>>

test_owner(t) ==
    /\ pc[t] = "test"
    /\ Goto(t, IF owner = NoOwner THEN "claim"
               ELSE IF op[t] = "trylock" THEN "busy" ELSE "block")
    /\ UNCHANGED <<build, fields, spinlock, q, op, result, depth>>

trylock_failed_Keeps(t) ==
    /\ pc[t] = "busy"
    /\ Return(t, "thrd_busy", 1)
    /\ UNCHANGED <<build, fields, spinlock, q, op, depth>>

trylock_failed(t) ==
    /\ pc[t] = "busy"
    /\ spinlock' = 254
    /\ Return(t, "thrd_busy", 1)
    /\ UNCHANGED <<build, fields, q, op, depth>>

claim_owner_NoCount(t) ==
    /\ pc[t] = "claim"
    /\ owner' = t
    /\ Goto(t, "release")
    /\ UNCHANGED <<build, type, lock_count, spinlock, q, op, result, depth>>

claim_owner(t) ==
    /\ pc[t] = "claim"
    /\ owner' = t
    /\ Goto(t, "count")
    /\ UNCHANGED <<build, type, lock_count, spinlock, q, op, result, depth>>

claim_count(t) ==
    /\ pc[t] = "count"
    /\ lock_count' = 1
    /\ Goto(t, "release")
    /\ UNCHANGED <<build, owner, type, spinlock, q, op, result, depth>>

claim_release(t) ==
    /\ pc[t] = "release"
    /\ spinlock' = IF op[t] = "trylock" THEN 254 ELSE Released
    /\ depth' = [depth EXCEPT ![t] = 1]
    /\ Return(t, "thrd_success", 0)
    /\ UNCHANGED <<build, fields, q, op>>

relinquish_ownership_NoUnblock(t) ==
    /\ pc[t] = "disown"
    /\ owner' = NoOwner
    /\ Goto(t, "free")
    /\ UNCHANGED <<build, type, lock_count, spinlock, q, op, result, depth>>

relinquish_ownership(t) ==
    /\ pc[t] = "disown"
    /\ owner' = NoOwner
    /\ Goto(t, "unblock")
    /\ UNCHANGED <<build, type, lock_count, spinlock, q, op, result, depth>>

unlock_release(t) ==
    /\ pc[t] = "free"
    /\ spinlock' = Released
    /\ Return(t, "thrd_success", 0)
    /\ UNCHANGED <<build, fields, q, op, depth>>

(***************************************************************************)
(* The scheduler.  Blocking releases the spinlock and queues the thread;   *)
(* unblocking hands the spinlock to the thread at the front of the queue.  *)
(***************************************************************************)
thread_block_timeout(t) ==
    /\ pc[t] = "block"
    /\ spinlock' = Released
    /\ q' = Append(q, t)
    /\ Goto(t, "blocked")
    /\ UNCHANGED <<build, fields, op, result, depth>>

time_expires_StaysQueued(t) ==
    /\ pc[t] = "blocked"
    /\ op[t] = "timedlock"
    /\ Return(t, "thrd_error", 1)
    /\ UNCHANGED <<build, fields, spinlock, q, op, depth>>

time_expires(t) ==
    /\ pc[t] = "blocked"
    /\ op[t] = "timedlock"
    /\ \E i \in 1 .. Len(q) : q[i] = t /\ q' = RemoveAt(q, i)
    /\ Return(t, "thrd_error", 1)
    /\ UNCHANGED <<build, fields, spinlock, op, depth>>

thread_unblock_Frees(t) ==
    /\ pc[t] = "unblock"
    /\ \/ /\ q = <<>>
          /\ Goto(t, "free")
          /\ UNCHANGED q
       \/ /\ q # <<>>
          /\ q' = Tail(q)
          /\ pc' = [pc EXCEPT ![t] = "free", ![Head(q)] = "claim"]
    /\ UNCHANGED <<build, fields, spinlock, op, result, depth>>

thread_unblock(t) ==
    /\ pc[t] = "unblock"
    /\ \/ /\ q = <<>>
          /\ Goto(t, "free")
          /\ UNCHANGED <<q, result>>
       \/ /\ q # <<>>
          /\ q' = Tail(q)
          /\ pc' = [pc EXCEPT ![t] = Out, ![Head(q)] = "claim"]
          /\ hl' = "thrd_success"
          /\ carry' = 0
    /\ UNCHANGED <<build, fields, spinlock, op, depth>>

(***************************************************************************)
(* The steps a thread takes inside the library once it has called it.      *)
(***************************************************************************)
Inside(t) ==
    \/ asm_spinlock_acquire(t)
    \/ acquisition_failed(t)
    \/ test_owner(t)
    \/ trylock_failed(t)
    \/ claim_owner(t)
    \/ claim_count(t)
    \/ claim_release(t)
    \/ relinquish_ownership(t)
    \/ unlock_release(t)
    \/ thread_block_timeout(t)
    \/ thread_unblock(t)

Next ==
    \E t \in Threads :
        \/ \E c \in InitTypes : mtx_init(t, c)
        \/ mtx_destroy(t)
        \/ \E o \in Ops \ {"unlock"} : Lock(t, o)
        \/ mtx_unlock(t)
        \/ Inside(t)
        \/ time_expires(t)

Spec == Init /\ [][Next]_vars

(***************************************************************************)
(* Fairness: a thread keeps running, the spinlock is not withheld from a   *)
(* thread that finds it free again and again, and who has the mutex        *)
(* unlocks it as often as it has locked it.                                *)
(***************************************************************************)
FairSpec ==
    /\ Spec
    /\ \A t \in Threads :
          /\ WF_vars(Inside(t))
          /\ SF_vars(asm_spinlock_acquire(t) /\ Takes)
          /\ \A d \in 1 .. CountMax : SF_vars(depth[t] = d /\ mtx_unlock(t))

-----------------------------------------------------------------------------
InSpin(t) == pc[t] \in SpinPCs

(***************************************************************************)
(* Mutual exclusion: two threads never both believe to have the mutex.     *)
(***************************************************************************)
Exclusion ==
    \A t, u \in Threads : depth[t] > 0 /\ depth[u] > 0 => t = u

(***************************************************************************)
(* The spinlock has one owner at a time, also across the hand-over from    *)
(* mtx_unlock to the thread it wakes, which never releases it in between.  *)
(***************************************************************************)
SpinExclusion ==
    \A t, u \in Threads : InSpin(t) /\ InSpin(u) => t = u

(***************************************************************************)
(* The fields agree with what the program was told: the recursion count is *)
(* the number of locks not yet unlocked, through limit and failed calls.   *)
(***************************************************************************)
CountExact ==
    \A t \in Threads : depth[t] > 0 => owner = t /\ lock_count = depth[t]

(***************************************************************************)
(* No thread is queued on a free mutex: when nobody owns it and nobody is  *)
(* working under the spinlock, the queue is empty.                         *)
(***************************************************************************)
NoStrandedWaiter ==
    owner = NoOwner /\ (\A t \in Threads : ~ InSpin(t)) => q = <<>>

(***************************************************************************)
(* A queue holds exactly the blocked threads, each once, also when a time  *)
(* limit expires while an unlock is under way.                             *)
(***************************************************************************)
QueueExact ==
    /\ \A t \in Threads : pc[t] = "blocked" <=> \E i \in 1 .. Len(q) : q[i] = t
    /\ \A i, j \in 1 .. Len(q) : q[i] = q[j] => i = j

(***************************************************************************)
(* "unlock(m->spinlock)": when no thread is inside the library the         *)
(* spinlock of a mutex in use can be taken.                                *)
(***************************************************************************)
SpinReleased ==
    (\A t \in Threads : pc[t] \in {Out, "blocked"}) /\ type # 0 => Takes

(***************************************************************************)
(* "hl = thrd_success, carry reset": the two results of a call agree, on   *)
(* the Z80.                                                                *)
(***************************************************************************)
ResultsAgree == ~ Intel => (carry = 1 <=> hl # "thrd_success")

(***************************************************************************)
(* On the Z80 a thread that blocks or spins gets the mutex, or its answer, *)
(* as long as whoever has the mutex unlocks it.                            *)
(***************************************************************************)
CallsReturn == \A t \in Threads : pc[t] # Out /\ ~ Intel ~> pc[t] = Out

-----------------------------------------------------------------------------
(***************************************************************************)
(* The inductive invariant of both builds; that of the 8080 is for         *)
(* programs that do not call mtx_trylock().                                *)
(***************************************************************************)
NoTryOnIntel == "8080" \in Builds => MayTry["8080"] = {}

\* Nobody gets past the first test of a mutex that is not initialised.
Called == \A t \in Threads : pc[t] # Out => type # 0

\* On the Z80 the byte tells whether somebody is under the spinlock.
Z80Byte ==
    /\ type # 0 => spinlock \in {254, 255}
    /\ \A t \in Threads : pc[t] # "undo" /\ (InSpin(t) => spinlock = 255)

\* On the 8080 it is one less than the number of those who are under the
\* spinlock or have failed to take it and not undone their increment.
Counted == {t \in Threads : InSpin(t) \/ pc[t] = "undo"}

IntelByte ==
    /\ type # 0 => (spinlock + 1) % 256 = Cardinality(Counted)
    /\ \A t \in Threads : op[t] # "trylock" /\ pc[t] # "busy"

SpinByte == IF Intel THEN IntelByte ELSE Z80Byte

\* What a thread that stands at some step knows of the owner.
OwnerKnown ==
    \A t \in Threads :
        /\ pc[t] = Out /\ owner = t => depth[t] > 0
        /\ pc[t] # Out => depth[t] = 0
        /\ pc[t] \in {"spin", "undo"} => (owner = t <=> op[t] = "unlock")
        /\ pc[t] \in {"test", "blocked"} => owner # t
        /\ pc[t] \in {"busy", "block"} => owner \notin {t, NoOwner}
        /\ pc[t] \in {"claim", "unblock", "free"} => owner = NoOwner
        /\ pc[t] \in {"count", "release", "disown"} => owner = t
        /\ pc[t] = "release" => lock_count = 1

FreeMeansEmpty == \A t \in Threads : pc[t] = "free" => q = <<>>

CoreInv ==
    /\ TypeOK
    /\ Called
    /\ SpinExclusion
    /\ OwnerKnown
    /\ CountExact
    /\ QueueExact
    /\ FreeMeansEmpty
    /\ NoStrandedWaiter

MInv == CoreInv /\ SpinByte
=============================================================================
