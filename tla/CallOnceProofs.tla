--------------------------- MODULE CallOnceProofs ---------------------------
(***************************************************************************)
(* call_once() for any set of threads: on the Z80 func() is entered at     *)
(* most once, and on either build nobody returns before it has finished.   *)
(* Behind both is that the flag is a history of func(): the spinlock byte  *)
(* of the Z80 is even only before the first entry, and the high byte is    *)
(* set only after func() has returned.                                     *)
(***************************************************************************)
EXTENDS CallOnce, TLAPS

(* Before any call the flag says that func() has not been entered. *)
LEMMA OnceInit == Init => OnceInv
<1> SUFFICES ASSUME Init PROVE OnceInv OBVIOUS
<1>1. spinlock = 254 /\ completed = 0 /\ started = 0 /\ build \in Builds
  BY DEF Init, ONCE_FLAG_INIT
<1>2. pc \in [Threads -> PCs] /\ \A t \in Threads : pc[t] = "out"
  BY DEF Init, PCs
<1>3. finished \in BOOLEAN
  BY Zenon DEF Init
<1>4. TypeOK
  BY <1>1, <1>2, <1>3 DEF TypeOK
<1>5. Z80Flag
  BY <1>1, <1>2 DEF Z80Flag
<1>6. \A t \in Threads : pc[t] \notin {"mark", "returned"}
  BY <1>2
<1> QED BY <1>1, <1>4, <1>5, <1>6, Zenon DEF OnceInv

(* Each step of call_once() keeps the flag a history of func(). *)
LEMMA OnceStep ==
  ASSUME OnceInv, [Next]_vars PROVE OnceInv'
<1> USE DEF OnceInv, TypeOK, Z80Flag, Intel, PCs, Goto
<1>1. CASE UNCHANGED vars
  BY <1>1 DEF vars
<1>2. ASSUME NEW t \in Threads, call_once(t) PROVE OnceInv'
  BY <1>2 DEF call_once
<1>3. ASSUME NEW t \in Threads, asm_spinlock_tryacquire(t) PROVE OnceInv'
  <2>1. CASE ~ Intel /\ spinlock = 254
    BY <1>3, <2>1 DEF asm_spinlock_tryacquire, Acquired, Taken
  <2>2. CASE ~ Intel /\ spinlock = 255
    BY <1>3, <2>2 DEF asm_spinlock_tryacquire, Acquired, Taken
  <2>3. CASE Intel
    BY <1>3, <2>3 DEF asm_spinlock_tryacquire, Acquired, Taken
  <2> QED BY <2>1, <2>2, <2>3
<1>4. ASSUME NEW t \in Threads, acquisition_failed(t) PROVE OnceInv'
  BY <1>4 DEF acquisition_failed
<1>5. ASSUME NEW t \in Threads, test_completed(t) PROVE OnceInv'
  BY <1>5 DEF test_completed
<1>6. ASSUME NEW t \in Threads, func_returns(t) PROVE OnceInv'
  BY <1>6 DEF func_returns
<1>7. ASSUME NEW t \in Threads, mark_completed(t) PROVE OnceInv'
  BY <1>7 DEF mark_completed
<1> QED
  BY <1>1, <1>2, <1>3, <1>4, <1>5, <1>6, <1>7 DEF Next, Inside

(***************************************************************************)
(* The flag tells, at every moment, whether func() was entered and whether *)
(* it has completed.                                                       *)
(***************************************************************************)
THEOREM OnceInvariance == Spec => []OnceInv
  BY OnceInit, OnceStep, PTL DEF Spec

(***************************************************************************)
(* asm_call_once enters func() at most once on the Z80, whatever number of *)
(* threads call it in whatever order.                                      *)
(***************************************************************************)
THEOREM FuncEnteredOnce == Spec => []AtMostOnce
<1>1. OnceInv => AtMostOnce BY DEF OnceInv, Z80Flag, AtMostOnce
<1> QED BY <1>1, OnceInvariance, PTL

(***************************************************************************)
(* Nobody comes back from asm_call_once while func() has yet to finish, on *)
(* the Z80 or the 8080.                                                    *)
(***************************************************************************)
THEOREM NobodyReturnsEarly == Spec => []ReturnsAfterFunc
<1>1. OnceInv => ReturnsAfterFunc BY DEF OnceInv, ReturnsAfterFunc
<1> QED BY <1>1, OnceInvariance, PTL

(***************************************************************************)
(* The two bytes of the flag stay what asm_call_once writes there, on both *)
(* builds.                                                                 *)
(***************************************************************************)
THEOREM CallOnceTypeOK == Spec => []TypeOK
<1>1. OnceInv => TypeOK BY DEF OnceInv
<1> QED BY <1>1, OnceInvariance, PTL

=============================================================================
