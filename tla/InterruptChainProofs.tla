------------------------ MODULE InterruptChainProofs ------------------------
(***************************************************************************)
(* Theorems about InterruptChain, for a table of any size, any handlers    *)
(* and any code.                                                           *)
(***************************************************************************)
EXTENDS InterruptChain, FiniteSetTheorems, SequenceTheorems, TLAPS

(* What a handler is. *)
LEMMA HandlerBytes ==
    ASSUME NEW h \in Handlers
    PROVE  h = <<h[1], h[2]>> /\ h[1] \in 0 .. 255 /\ h[2] \in 0 .. 255 /\ h # Zero
BY HandlersAssumption DEF Zero

(* A byte written at slot k leaves the other slots alone. *)
LEMMA PokeElsewhere ==
    ASSUME TypeOK, NEW k \in 0 .. Count, at \in {2 * k, 2 * k + 1}, NEW v, Poke(v),
           NEW i \in 0 .. Count, i # k
    PROVE  Slot(i)' = Slot(i)
<1>1. 2 * i # at /\ 2 * i + 1 # at
  BY CountAssumption
<1>2. 2 * i \in Bytes /\ 2 * i + 1 \in Bytes
  BY CountAssumption DEF Bytes
<1> QED
  BY <1>1, <1>2 DEF TypeOK, Poke, Slot

(* ... and changes the one byte of slot k. *)
LEMMA PokeHere ==
    ASSUME TypeOK, NEW k \in 0 .. Count, NEW v \in 0 .. 255, Poke(v)
    PROVE  /\ at = 2 * k => Slot(k)' = <<v, table[2 * k + 1]>>
           /\ at = 2 * k + 1 => Slot(k)' = <<table[2 * k], v>>
           /\ table' \in [Bytes -> 0 .. 255]
<1>1. 2 * k \in Bytes /\ 2 * k + 1 \in Bytes /\ 2 * k # 2 * k + 1
  BY CountAssumption DEF Bytes
<1> QED
  BY <1>1 DEF TypeOK, Poke, Slot

-----------------------------------------------------------------------------
LEMMA InitSound == Init => ChainInv
<1> SUFFICES ASSUME Init PROVE ChainInv
  OBVIOUS
<1>1. \A i \in 0 .. Count : Slot(i) = Zero
  BY CountAssumption DEF Init, Slot, Zero, Bytes
<1>2. TypeOK
  BY CountAssumption DEF Init, TypeOK, Zero, Bytes, Off
<1>3. Progress
  BY CountAssumption DEF Init, Progress, AtSlot
<1> QED
  BY <1>1, <1>2, <1>3, CountAssumption
  DEF Init, ChainInv, Terminated, OnlyHalfWrittenStrays, SlotsSound, Off, Lost

(* A call begins: nothing but its registers changes. *)
LEMMA BeginSound ==
    ASSUME ChainInv, NEW h \in Handlers, At("main"),
           NEW k \in 0 .. Count - 1, NEW p, NEW x, NEW n, Begin(p, x, n, h),
           \/ p = "high" /\ x = 2 * k + 1 /\ n = 0
           \/ p = "move" /\ x = 2 * k /\ n = 2 * (Count - k) /\ kind = "im1"
           \/ p = "swap_low" /\ x = 2 * k /\ n = 0 /\ kind = "im2" /\ FreeFrom(k)
           \/ p = "ldi" /\ x = 2 * k /\ n = 0 /\ kind = "im2"
    PROVE  ChainInv'
<1>1. TypeOK'
  <2>1. p \in {"high", "move", "swap_low", "ldi"} /\ x \in 0 .. 2 * Count + 1 /\ n \in 0 .. 2 * Count
    BY CountAssumption
  <2>2. h \in (0 .. 255) \X (0 .. 255) /\ 1 \in 0 .. 2 * Count + 1
    BY CountAssumption, HandlersAssumption
  <2>3. masked' \in BOOLEAN /\ changed' = changed /\ spoilt' = spoilt
    BY DEF Begin, dispatch
  <2>4. changed' \in BOOLEAN /\ spoilt' \in BOOLEAN
    BY <2>3, Zenon DEF ChainInv, TypeOK
  <2> QED
    BY <2>1, <2>2, <2>3, <2>4 DEF ChainInv, TypeOK, Begin, Bytes, dispatch
<1>2. Terminated' /\ OnlyHalfWrittenStrays' /\ SlotsSound'
  BY DEF ChainInv, Terminated, OnlyHalfWrittenStrays, SlotsSound, HalfWritten, Begin, At, Slot,
         dispatch, Off, Lost
<1>3. AtSlot(k)'
  BY DEF AtSlot, Begin, FreeFrom, Slot
<1>4. Progress'
  BY <1>3, CountAssumption DEF ChainInv, Progress, Begin
<1> QED
  BY <1>1, <1>2, <1>4 DEF ChainInv

LEMMA ReturnSound ==
    ASSUME ChainInv, isr = Off, NEW r \in {0, 1}, Return(r),
           UNCHANGED <<kind, dispatch>>, table' \in [Bytes -> 0 .. 255],
           spoilt' = spoilt,
           Terminated', spoilt' \/ \A i \in 0 .. Count : Slot(i)' \in Handlers \cup {Zero}
    PROVE  ChainInv'
<1>1. TypeOK'
  <2>1. masked' \in BOOLEAN /\ changed' = changed /\ spoilt' = spoilt
    BY DEF Return, dispatch
  <2>2. changed' \in BOOLEAN /\ spoilt' \in BOOLEAN
    BY <2>1, Zenon DEF ChainInv, TypeOK
  <2> QED
    BY <2>1, <2>2, CountAssumption DEF ChainInv, TypeOK, Return, Bytes, Zero, dispatch
<1>2. OnlyHalfWrittenStrays' /\ SlotsSound'
  BY DEF ChainInv, OnlyHalfWrittenStrays, SlotsSound, Slot, dispatch, Off, Lost
<1>3. Progress'
  BY CountAssumption DEF ChainInv, Progress, AtSlot, Return
<1> QED
  BY <1>1, <1>2, <1>3 DEF ChainInv

LEMMA RejectSound ==
    ASSUME ChainInv, At("main"), Reject
    PROVE  ChainInv'
<1>1. \A i \in 0 .. Count : Slot(i)' = Slot(i)
  BY DEF Reject, Slot
<1>2. Terminated' /\ (spoilt \/ \A i \in 0 .. Count : Slot(i)' \in Handlers \cup {Zero})
  BY <1>1, CountAssumption DEF ChainInv, Terminated, SlotsSound, HalfWritten, At
<1>3. table' \in [Bytes -> 0 .. 255] /\ Return(1) /\ isr = Off /\ 1 \in {0, 1}
  BY DEF Reject, At, ChainInv, TypeOK
<1>4. UNCHANGED <<kind, dispatch>> /\ spoilt' = spoilt
  BY DEF Reject
<1>5. spoilt' \/ \A i \in 0 .. Count : Slot(i)' \in Handlers \cup {Zero}
  BY <1>2, <1>4, Zenon
<1> QED
  BY <1>2, <1>3, <1>4, <1>5, ReturnSound

-----------------------------------------------------------------------------
LEMMA AddHandlerSound ==
    ASSUME ChainInv, NEW h \in Handlers, add_handler(h) \/ append_callback(h)
    PROVE  ChainInv'
<1>1. CASE add_handler(h) /\ Reject
  BY <1>1, RejectSound DEF add_handler
<1>2. CASE \E i \in First(0 .. Count - 1, Zero) : add_handler(h) /\ Begin("high", 2 * i + 1, 0, h)
  BY <1>2, BeginSound DEF add_handler, First
<1>3. CASE append_callback(h)
  <2>1. PICK i \in First(0 .. Count, Zero) : Begin("high", 2 * i + 1, 0, h)
    BY <1>3 DEF append_callback
  <2>2. PICK j \in 0 .. Count - 1 : Slot(j) = Zero
    BY <1>3 DEF append_callback, Room, First
  <2>3. i <= j
    BY <2>2, CountAssumption DEF First
  <2>4. i \in 0 .. Count - 1
    BY <2>3, CountAssumption DEF First
  <2> QED
    BY <1>3, <2>1, <2>4, BeginSound DEF append_callback
<1> QED
  BY <1>1, <1>2, <1>3 DEF add_handler

LEMMA RemoveHandlerSound ==
    ASSUME ChainInv, NEW h \in Handlers, remove_handler(h) \/ remove_callback(h)
    PROVE  ChainInv'
<1>1. CASE Reject
  BY <1>1, RejectSound DEF remove_handler, remove_callback
<1>2. CASE \E i \in First(0 .. Count - 1, h) :
             remove_handler(h) /\ Begin("move", 2 * i, 2 * (Count - i), h)
  BY <1>2, BeginSound DEF remove_handler, First
<1>3. CASE \E i \in First(Used, h) : remove_callback(h) /\ Begin("ldi", 2 * i, 0, h)
  BY <1>3, BeginSound DEF remove_callback, First, Used
<1> QED
  BY <1>1, <1>2, <1>3 DEF remove_handler, remove_callback

LEMMA PrependSound ==
    ASSUME ChainInv, NEW h \in Handlers, prepend_callback(h)
    PROVE  ChainInv'
<1>1. FreeFrom(0) /\ 0 \in 0 .. Count - 1 /\ 0 = 2 * 0
  BY CountAssumption DEF prepend_callback, Room, First, FreeFrom
<1> QED
  BY <1>1, BeginSound DEF prepend_callback

-----------------------------------------------------------------------------
(* What a byte written at slot k does to the rest of the table. *)
LEMMA PokeSound ==
    ASSUME ChainInv, isr = Off, NEW k \in 0 .. Count - 1, at \in {2 * k, 2 * k + 1},
           NEW v \in 0 .. 255, Poke(v)
    PROVE  /\ table' \in [Bytes -> 0 .. 255] /\ Terminated'
           /\ \A i \in 0 .. Count : i # k => Slot(i)' = Slot(i)
           /\ spoilt \/ \A i \in 0 .. Count : i # k => Slot(i)' \in Handlers \cup {Zero}
<1>1. TypeOK /\ k \in 0 .. Count /\ k # Count /\ Count \in 0 .. Count
  BY CountAssumption DEF ChainInv
<1>2. table' \in [Bytes -> 0 .. 255]
  BY <1>1, PokeHere
<1>3. \A i \in 0 .. Count : i # k => Slot(i)' = Slot(i)
  BY <1>1, PokeElsewhere
<1>4. \A i \in 0 .. Count : i # k => at \notin {2 * i, 2 * i + 1}
  BY <1>1, CountAssumption
<1>5. spoilt \/ \A i \in 0 .. Count : i # k => Slot(i) \in Handlers \cup {Zero}
  BY <1>4 DEF ChainInv, SlotsSound
<1>6. Terminated'
  BY <1>1, <1>3 DEF ChainInv, Terminated, Zero
<1> QED
  BY <1>2, <1>3, <1>5, <1>6

(* A step that moves on: what is left to show is where it stands. *)
LEMMA StepSound ==
    ASSUME ChainInv, isr = Off, NEW k \in 0 .. Count - 1, at \in {2 * k, 2 * k + 1},
           NEW v \in 0 .. 255, Poke(v),
           UNCHANGED <<kind, masked, result, before, dispatch>>, spoilt' \in BOOLEAN,
           pc' \in {"low", "move", "clear", "swap_low", "swap_high", "ldi"},
           at' \in Bytes, from' \in 0 .. 2 * Count + 1, left' \in 0 .. 2 * Count,
           de' \in (0 .. 255) \X (0 .. 255),
           spoilt' \/ /\ ~ spoilt
                      /\ \/ Slot(k)' \in Handlers \cup {Zero}
                         \/ HalfWritten' /\ at' \in {2 * k, 2 * k + 1},
           Progress'
    PROVE  ChainInv'
<1>1. TypeOK'
  <2>1. masked' = masked /\ changed' = changed
    BY DEF dispatch
  <2>2. masked' \in BOOLEAN /\ changed' \in BOOLEAN
    BY <2>1, Zenon DEF ChainInv, TypeOK
  <2>3. table' \in [Bytes -> 0 .. 255]
    BY PokeSound
  <2> QED
    BY <2>2, <2>3 DEF ChainInv, TypeOK, dispatch
<1>2. Terminated'
  BY PokeSound
<1>3. SlotsSound'
  BY PokeSound DEF SlotsSound
<1>4. OnlyHalfWrittenStrays'
  BY DEF OnlyHalfWrittenStrays, dispatch, Off, Lost
<1> QED
  BY <1>1, <1>2, <1>3, <1>4 DEF ChainInv

LEMMA WriteHighSound ==
    ASSUME ChainInv, write_high
    PROVE  ChainInv'
<1>1. PICK k \in 0 .. Count - 1 : AtSlot(k)
  BY DEF ChainInv, Progress
<1>2. at = 2 * k + 1 /\ de \in Handlers /\ isr = Off /\ pc' = "low" /\ at' = 2 * k
  BY <1>1 DEF AtSlot, write_high, At
<1>3. de[2] \in 0 .. 255 /\ 2 * k \in Bytes /\ at \in Bytes /\ at # 2 * k
  BY <1>2, HandlerBytes, CountAssumption DEF Bytes
<1>4. table'[2 * k + 1] = de[2]
  BY <1>2, <1>3 DEF write_high, Poke, ChainInv, TypeOK
<1>5. AtSlot(k)'
  BY <1>2, <1>4 DEF AtSlot, write_high
<1>6. Progress'
  BY <1>2, <1>5 DEF ChainInv, Progress, write_high
<1>7. spoilt' = spoilt
  BY DEF write_high
<1>8. spoilt' \in BOOLEAN
  BY <1>7, Zenon DEF ChainInv, TypeOK
<1>9. spoilt' \/ (~ spoilt /\ HalfWritten' /\ at' \in {2 * k, 2 * k + 1})
  BY <1>2, <1>7 DEF HalfWritten
<1>10. from' \in 0 .. 2 * Count + 1 /\ left' \in 0 .. 2 * Count /\ de' \in (0 .. 255) \X (0 .. 255)
  BY DEF ChainInv, TypeOK, write_high
<1>11. Poke(de[2]) /\ UNCHANGED <<kind, masked, result, before, dispatch>>
  BY DEF write_high
<1>12. at \in {2 * k, 2 * k + 1} /\ at' \in Bytes
  BY <1>2, <1>3
<1> QED
  BY <1>2, <1>3, <1>6, <1>8, <1>9, <1>10, <1>11, <1>12, StepSound

LEMMA WriteLowSound ==
    ASSUME ChainInv, write_low
    PROVE  ChainInv'
<1>1. PICK k \in 0 .. Count - 1 : AtSlot(k)
  BY DEF ChainInv, Progress
<1>2. at = 2 * k /\ de \in Handlers /\ table[2 * k + 1] = de[2] /\ isr = Off
  BY <1>1 DEF AtSlot, write_low, At
<1>3. de[1] \in 0 .. 255 /\ Poke(de[1])
  BY <1>2, HandlerBytes DEF write_low
<1>4. Slot(k)' = de
  <2>1. TypeOK /\ k \in 0 .. Count
    BY CountAssumption DEF ChainInv
  <2>2. Slot(k)' = <<de[1], table[2 * k + 1]>>
    BY <1>2, <1>3, <2>1, PokeHere
  <2>3. <<de[1], de[2]>> = de
    BY <1>2, HandlerBytes
  <2> QED
    BY <1>2, <2>2, <2>3
<1>5. table' \in [Bytes -> 0 .. 255] /\ Terminated'
  BY <1>2, <1>3, PokeSound
<1>6. spoilt' = spoilt
  BY DEF write_low
<1>7. spoilt \/ \A i \in 0 .. Count : i # k => Slot(i)' \in Handlers \cup {Zero}
  BY <1>2, <1>3, PokeSound
<1>8. spoilt' \/ \A i \in 0 .. Count : Slot(i)' \in Handlers \cup {Zero}
  BY <1>2, <1>4, <1>6, <1>7
<1>9. Return(0) /\ UNCHANGED <<kind, dispatch>> /\ 0 \in {0, 1}
  BY DEF write_low
<1> QED
  BY <1>2, <1>5, <1>6, <1>8, <1>9, ReturnSound

LEMMA MoveChainSound ==
    ASSUME ChainInv, move_chain
    PROVE  ChainInv'
<1>1. isr = Off /\ pc = "move" /\ left > 0 /\ at + left = 2 * Count
      /\ from > 0 /\ from + left <= 2 * Count + 1 /\ de \in Handlers
  BY DEF ChainInv, Progress, move_chain, At
<1>2. at \in 0 .. 2 * Count + 1 /\ left \in 0 .. 2 * Count /\ from \in 0 .. 2 * Count + 1
  BY DEF ChainInv, TypeOK, Bytes
<1>3. PICK k \in 0 .. Count - 1 : at \in {2 * k, 2 * k + 1}
  <2>1. at \in 0 .. 2 * Count - 1
    BY <1>1, <1>2, CountAssumption
  <2>2. at \div 2 \in 0 .. Count - 1 /\ at \in {2 * (at \div 2), 2 * (at \div 2) + 1}
    BY <2>1, CountAssumption
  <2> QED
    BY <2>2
<1>4. Code[de][from] \in 0 .. 255
  <2>1. from \in 1 .. 2 * Count
    BY <1>1, <1>2, CountAssumption
  <2> QED
    BY <1>1, <2>1, CodeAssumption
<1>5. Poke(Code[de][from]) /\ UNCHANGED <<kind, masked, result, before, dispatch>>
      /\ spoilt' = TRUE /\ de' = de
  BY DEF move_chain
<1>6. at' = at + 1 /\ from' = from + 1 /\ left' = left - 1
      /\ pc' = IF left' = 0 THEN "clear" ELSE "move"
  BY DEF move_chain
<1>7. at' \in Bytes /\ from' \in 0 .. 2 * Count + 1 /\ left' \in 0 .. 2 * Count
  BY <1>1, <1>2, <1>6, CountAssumption DEF Bytes
<1>8. Progress'
  <2>1. kind' = "im1" /\ kind = "im1"
    BY <1>1, <1>5 DEF ChainInv, Progress, TypeOK
  <2>2. AtSlot(k)'
    BY <1>6 DEF AtSlot
  <2> QED
    BY <1>1, <1>2, <1>5, <1>6, <2>1, <2>2, CountAssumption DEF Progress
<1>9. de' \in (0 .. 255) \X (0 .. 255) /\ pc' \in {"move", "clear"}
  BY <1>5, <1>6 DEF ChainInv, TypeOK
<1> QED
  BY <1>1, <1>3, <1>4, <1>5, <1>7, <1>8, <1>9, StepSound

LEMMA ClearLastSound ==
    ASSUME ChainInv, clear_last
    PROVE  ChainInv'
<1>1. isr = Off /\ pc = "clear" /\ at = 2 * Count
  BY DEF ChainInv, Progress, clear_last, At
<1>2. table' = [table EXCEPT ![2 * Count] = 0, ![2 * Count + 1] = 0]
  BY <1>1 DEF clear_last
<1>3. table' \in [Bytes -> 0 .. 255]
  <2>1. table \in [Bytes -> 0 .. 255] /\ 0 \in 0 .. 255
    BY DEF ChainInv, TypeOK
  <2> QED
    BY <1>2, <2>1
<1>4. Slot(Count)' = Zero
  BY <1>2, CountAssumption DEF Slot, Zero, ChainInv, TypeOK, Bytes
<1>5. \A i \in 0 .. Count - 1 : Slot(i)' = Slot(i)
  BY <1>2, CountAssumption DEF Slot, ChainInv, TypeOK, Bytes
<1>6. spoilt \/ \A i \in 0 .. Count : Slot(i) \in Handlers \cup {Zero}
  BY <1>1 DEF ChainInv, SlotsSound, HalfWritten
<1>7. spoilt' = spoilt /\ Return(0) /\ UNCHANGED <<kind, dispatch>> /\ 0 \in {0, 1}
  BY DEF clear_last
<1>8. spoilt' \/ \A i \in 0 .. Count : Slot(i)' \in Handlers \cup {Zero}
  <2>1. \A i \in 0 .. Count : i = Count \/ i \in 0 .. Count - 1
    BY CountAssumption
  <2> QED
    BY <1>4, <1>5, <1>6, <1>7, <2>1
<1>9. Terminated'
  BY <1>4 DEF Terminated, Zero
<1> QED
  BY <1>1, <1>3, <1>7, <1>8, <1>9, ReturnSound

LEMMA SwapLowSound ==
    ASSUME ChainInv, swap_low
    PROVE  ChainInv'
<1>1. PICK k \in 0 .. Count - 1 : AtSlot(k)
  BY DEF ChainInv, Progress
<1>2. at = 2 * k /\ de \in Handlers /\ FreeFrom(k) /\ isr = Off /\ kind = "im2" /\ ~ spoilt
  BY <1>1 DEF AtSlot, swap_low, At, ChainInv, Progress
<1>3. de[1] \in 0 .. 255 /\ de[2] \in 0 .. 255 /\ <<de[1], de[2]>> = de
  BY <1>2, HandlerBytes
<1>4. TypeOK /\ k \in 0 .. Count /\ 2 * k \in Bytes /\ 2 * k + 1 \in Bytes /\ 2 * k # 2 * k + 1
  BY CountAssumption DEF ChainInv, Bytes
<1>5. Poke(de[1]) /\ UNCHANGED <<kind, masked, result, before, dispatch>> /\ spoilt' = spoilt
      /\ pc' = "swap_high" /\ at' = 2 * k + 1
  BY <1>2 DEF swap_low
<1>6. de'[1] = table[2 * k] /\ de'[2] = de[2] /\ from' = from /\ left' = left
  BY <1>2 DEF swap_low
<1>7. de' \in (0 .. 255) \X (0 .. 255)
  BY <1>2, <1>3, <1>4 DEF swap_low, TypeOK
<1>8. table'[2 * k] = de[1] /\ table'[2 * k + 1] = table[2 * k + 1]
  BY <1>2, <1>4, <1>5 DEF Poke, TypeOK
<1>9. Slot(k) \in Handlers \cup {Zero}
  <2>1. ~ HalfWritten
    BY DEF HalfWritten, swap_low, At
  <2> QED
    BY <1>2, <1>4, <2>1 DEF ChainInv, SlotsSound
<1>10. Slot(k) = Zero \/ FreeFrom(k + 1)'
  <2>1. PICK z \in k .. Count - 1 : Slot(z) = Zero
    BY <1>2 DEF FreeFrom
  <2>2. CASE z # k
    <3>1. z \in k + 1 .. Count - 1 /\ z \in 0 .. Count
      BY <2>2, CountAssumption
    <3>2. Slot(z)' = Zero
      BY <1>2, <1>3, <1>5, <2>1, <2>2, <3>1, PokeSound
    <3> QED
      BY <3>1, <3>2 DEF FreeFrom
  <2> QED
    BY <2>1, <2>2
<1>11. AtSlot(k)'
  <2>1. <<table'[2 * k], de'[2]>> \in Handlers
    BY <1>2, <1>3, <1>6, <1>8
  <2>2. <<de'[1], table'[at']>> = Slot(k)
    BY <1>5, <1>6, <1>8 DEF Slot
  <2> QED
    BY <1>5, <1>9, <1>10, <2>1, <2>2 DEF AtSlot
<1>12. Progress'
  BY <1>2, <1>5, <1>11 DEF Progress
<1>13. from' \in 0 .. 2 * Count + 1 /\ left' \in 0 .. 2 * Count
  BY <1>4, <1>6 DEF TypeOK
<1>14. spoilt' \in BOOLEAN
  BY <1>4, <1>5, Zenon DEF TypeOK
<1>15. HalfWritten' /\ at' \in {2 * k, 2 * k + 1} /\ at \in {2 * k, 2 * k + 1} /\ at' \in Bytes
  BY <1>2, <1>4, <1>5 DEF HalfWritten
<1> QED
  BY <1>2, <1>3, <1>5, <1>7, <1>12, <1>13, <1>14, <1>15, StepSound

LEMMA SwapHighSound ==
    ASSUME ChainInv, swap_high
    PROVE  ChainInv'
<1>1. PICK k \in 0 .. Count - 1 : AtSlot(k)
  BY DEF ChainInv, Progress
<1>2. /\ at = 2 * k + 1 /\ isr = Off /\ kind = "im2" /\ ~ spoilt
      /\ <<table[2 * k], de[2]>> \in Handlers
      /\ \/ <<de[1], table[at]>> = Zero
         \/ <<de[1], table[at]>> \in Handlers /\ FreeFrom(k + 1)
  BY <1>1 DEF AtSlot, swap_high, At, ChainInv, Progress
<1>3. TypeOK /\ k \in 0 .. Count /\ at \in {2 * k, 2 * k + 1}
  BY <1>2, CountAssumption DEF ChainInv
<1>4. Poke(de[2]) /\ UNCHANGED <<kind, dispatch>> /\ spoilt' = spoilt
  BY DEF swap_high
<1>5. de[2] \in 0 .. 255
  BY <1>3 DEF TypeOK
<1>6. Slot(k)' = <<table[2 * k], de[2]>> /\ table' \in [Bytes -> 0 .. 255]
  BY <1>2, <1>3, <1>4, <1>5, PokeHere
<1>7. /\ Terminated'
      /\ \A i \in 0 .. Count : i # k => Slot(i)' = Slot(i)
      /\ \A i \in 0 .. Count : i # k => Slot(i)' \in Handlers \cup {Zero}
  BY <1>2, <1>3, <1>4, <1>5, PokeSound
<1>8. \A i \in 0 .. Count : Slot(i)' \in Handlers \cup {Zero}
  BY <1>2, <1>6, <1>7
<1>9. CASE <<de[1], table[at]>> = Zero
  <2>1. Return(0) /\ 0 \in {0, 1}
    BY <1>9 DEF swap_high
  <2> QED
    BY <1>2, <1>4, <1>6, <1>7, <1>8, <2>1, ReturnSound
<1>10. CASE <<de[1], table[at]>> # Zero
  <2>1. /\ de' = <<de[1], table[at]>> /\ at' = 2 * (k + 1) /\ pc' = "swap_low"
        /\ UNCHANGED <<kind, masked, result, before, dispatch>>
        /\ from' = from /\ left' = left
    BY <1>2, <1>10 DEF swap_high
  <2>2. de' \in Handlers /\ FreeFrom(k + 1)
    BY <1>2, <1>10, <2>1
  <2>3. PICK z \in k + 1 .. Count - 1 : Slot(z) = Zero
    BY <2>2 DEF FreeFrom
  <2>4. z \in 0 .. Count /\ z # k /\ k + 1 \in 0 .. Count - 1
    BY <2>3, CountAssumption
  <2>5. FreeFrom(k + 1)'
    BY <1>7, <2>3, <2>4 DEF FreeFrom
  <2>6. AtSlot(k + 1)'
    BY <2>1, <2>2, <2>5 DEF AtSlot
  <2>7. Progress'
    BY <1>2, <1>4, <2>1, <2>4, <2>6 DEF Progress
  <2>8. at' \in Bytes /\ de' \in (0 .. 255) \X (0 .. 255)
        /\ from' \in 0 .. 2 * Count + 1 /\ left' \in 0 .. 2 * Count
    BY <1>3, <2>1, <2>2, <2>4, HandlersAssumption, CountAssumption DEF Bytes, TypeOK
  <2>9. spoilt' \in BOOLEAN
    BY <1>3, <1>4, Zenon DEF TypeOK
  <2>10. Slot(k)' \in Handlers \cup {Zero}
    BY <1>3, <1>8
  <2> QED
    BY <1>2, <1>3, <1>4, <1>5, <2>1, <2>7, <2>8, <2>9, <2>10, StepSound
<1> QED
  BY <1>9, <1>10

LEMMA RemoveLoopSound ==
    ASSUME ChainInv, remove_loop
    PROVE  ChainInv'
<1>1. PICK k \in 0 .. Count - 1 : AtSlot(k)
  BY DEF ChainInv, Progress
<1>2. isr = Off /\ kind = "im2" /\ ~ spoilt /\ pc = "ldi"
      /\ (at = 2 * k \/ (at = 2 * k + 1 /\ table[2 * k] = table[2 * k + 2]))
  BY <1>1 DEF AtSlot, remove_loop, At, ChainInv, Progress
<1>3. TypeOK /\ k \in 0 .. Count /\ k + 1 \in 0 .. Count /\ at \in {2 * k, 2 * k + 1}
      /\ 2 * k + 2 = 2 * (k + 1) /\ 2 * k + 3 = 2 * (k + 1) + 1
  BY <1>2, CountAssumption DEF ChainInv
<1>4. Poke(table[at + 2]) /\ UNCHANGED <<kind, dispatch>> /\ spoilt' = spoilt
  BY DEF remove_loop
<1>5. table[at + 2] \in 0 .. 255
  <2>1. at + 2 \in Bytes
    BY <1>3, CountAssumption DEF Bytes
  <2> QED
    BY <1>3, <2>1 DEF TypeOK
<1>6. table' \in [Bytes -> 0 .. 255] /\ Terminated'
      /\ \A i \in 0 .. Count : i # k => Slot(i)' = Slot(i) /\ Slot(i)' \in Handlers \cup {Zero}
  BY <1>2, <1>3, <1>4, <1>5, PokeSound
<1>7. Slot(k + 1) \in Handlers \cup {Zero} /\ Slot(k + 1) = <<table[2 * k + 2], table[2 * k + 3]>>
  <2>1. k + 1 # k
    BY CountAssumption
  <2>2. Slot(k + 1) \in Handlers \cup {Zero}
    BY <1>3, <1>6, <2>1
  <2>3. Slot(k + 1) = <<table[2 * k + 2], table[2 * k + 3]>>
    BY <1>3 DEF Slot
  <2> QED
    BY <2>2, <2>3
<1>8. spoilt' \in BOOLEAN
  BY <1>3, <1>4, Zenon DEF TypeOK
<1>9. CASE at = 2 * k
  <2>1. at % 2 # 1
    BY <1>9, CountAssumption
  <2>2. /\ at' = 2 * k + 1 /\ pc' = "ldi"
        /\ UNCHANGED <<masked, from, left, de, result, before>>
    BY <1>2, <1>9, <2>1 DEF remove_loop
  <2>3. table'[2 * k] = table'[2 * k + 2]
    <3>1. table'[2 * k] = table[2 * k + 2]
      BY <1>3, <1>4, <1>9, CountAssumption DEF Poke, TypeOK, Bytes
    <3>2. table'[2 * k + 2] = table[2 * k + 2]
      BY <1>3, <1>4, <1>9, CountAssumption DEF Poke, TypeOK, Bytes
    <3> QED
      BY <3>1, <3>2
  <2>4. AtSlot(k)'
    BY <2>2, <2>3 DEF AtSlot
  <2>5. Progress'
    BY <1>2, <1>4, <2>2, <2>4 DEF Progress
  <2>6. HalfWritten' /\ at' \in {2 * k, 2 * k + 1}
    <3>1. (2 * k + 1) % 2 = 1
      BY CountAssumption
    <3> QED
      BY <2>2, <3>1 DEF HalfWritten
  <2>7. at' \in Bytes /\ from' \in 0 .. 2 * Count + 1 /\ left' \in 0 .. 2 * Count
        /\ de' \in (0 .. 255) \X (0 .. 255)
    BY <1>3, <2>2, CountAssumption DEF TypeOK, Bytes
  <2>8. UNCHANGED <<kind, masked, result, before, dispatch>>
    BY <1>4, <2>2
  <2> QED
    BY <1>2, <1>3, <1>4, <1>5, <1>8, <2>2, <2>5, <2>6, <2>7, <2>8, StepSound
<1>10. CASE at = 2 * k + 1
  <2>1. at % 2 = 1
    BY <1>10, CountAssumption
  <2>2. Slot(k)' = Slot(k + 1)
    <3>1. Slot(k)' = <<table[2 * k], table[at + 2]>>
      BY <1>3, <1>4, <1>5, <1>10, PokeHere
    <3> QED
      BY <1>2, <1>7, <1>10, <3>1
  <2>3. Copied = Slot(k + 1)
    BY <1>7, <1>10, <2>1 DEF Copied
  <2>4. \A i \in 0 .. Count : Slot(i)' \in Handlers \cup {Zero}
    BY <1>6, <1>7, <2>2
  <2>5. CASE Copied = Zero
    <3>1. Return(0) /\ 0 \in {0, 1}
      BY <2>1, <2>5 DEF remove_loop
    <3> QED
      BY <1>2, <1>4, <1>6, <2>4, <3>1, ReturnSound
  <2>6. CASE Copied # Zero
    <3>1. /\ at' = 2 * (k + 1) /\ pc' = "ldi"
          /\ UNCHANGED <<masked, from, left, de, result, before>>
      BY <1>2, <1>10, <2>6 DEF remove_loop
    <3>2. k + 1 \in 0 .. Count - 1
      <4>1. k + 1 # Count
        BY <2>3, <2>6 DEF ChainInv, Terminated
      <4> QED
        BY <4>1, CountAssumption
    <3>3. AtSlot(k + 1)'
      BY <3>1 DEF AtSlot
    <3>4. Progress'
      BY <1>2, <1>4, <3>1, <3>2, <3>3 DEF Progress
    <3>5. at' \in Bytes /\ from' \in 0 .. 2 * Count + 1 /\ left' \in 0 .. 2 * Count
          /\ de' \in (0 .. 255) \X (0 .. 255)
      BY <1>3, <3>1, <3>2, CountAssumption DEF TypeOK, Bytes
    <3>6. UNCHANGED <<kind, masked, result, before, dispatch>>
      BY <1>4, <3>1
    <3>7. Slot(k)' \in Handlers \cup {Zero}
      BY <1>3, <2>4
    <3> QED
      BY <1>2, <1>3, <1>4, <1>5, <1>8, <3>1, <3>4, <3>5, <3>6, <3>7, StepSound
  <2> QED
    BY <2>5, <2>6
<1> QED
  BY <1>2, <1>9, <1>10

-----------------------------------------------------------------------------
(* The dispatcher moves and leaves the chain and the call alone. *)
LEMMA DispatchSound ==
    ASSUME ChainInv, UNCHANGED <<kind, table, program>>, spoilt' = spoilt,
           isr' \in 0 .. Count \cup {Off, Lost}, changed' \in BOOLEAN,
           isr' = Lost => HalfWritten \/ spoilt
    PROVE  ChainInv'
<1>1. TypeOK'
  <2>1. masked' = masked
    BY DEF program
  <2>2. masked' \in BOOLEAN /\ spoilt' \in BOOLEAN
    BY <2>1, Zenon DEF ChainInv, TypeOK
  <2> QED
    BY <2>2 DEF ChainInv, TypeOK, program
<1>2. Terminated' /\ OnlyHalfWrittenStrays' /\ SlotsSound'
  BY DEF ChainInv, Terminated, OnlyHalfWrittenStrays, SlotsSound, HalfWritten, Slot, program
<1>3. Progress'
  BY DEF ChainInv, Progress, AtSlot, FreeFrom, Slot, program
<1> QED
  BY <1>1, <1>2, <1>3 DEF ChainInv

LEMMA InterruptSound ==
    ASSUME ChainInv, interrupt \/ done \/ stray
    PROVE  ChainInv'
<1>1. UNCHANGED <<kind, table, program>> /\ spoilt' = spoilt
  BY DEF interrupt, done, stray
<1>2. changed' = changed \/ changed' = FALSE
  BY DEF interrupt, done, stray, Leave
<1>3. changed' \in BOOLEAN
  BY <1>2, Zenon DEF ChainInv, TypeOK
<1>4. isr' \in 0 .. Count \cup {Off, Lost}
  BY CountAssumption DEF interrupt, done, stray, Leave
<1>5. isr' = Lost => HalfWritten \/ spoilt
  <2>1. CASE interrupt \/ done
    BY <2>1 DEF interrupt, done, Leave, Off, Lost
  <2>2. CASE stray
    <3>1. isr \in 0 .. Count /\ Slot(isr) \notin Handlers \cup {Zero}
      BY <2>2 DEF stray, ChainInv, TypeOK, Off, Lost
    <3> QED
      BY <3>1 DEF ChainInv, SlotsSound
  <2> QED
    BY <2>1, <2>2
<1> QED
  BY <1>1, <1>3, <1>4, <1>5, DispatchSound

(* A handler is called, and the dispatcher goes on inside the table. *)
LEMMA CallBounds ==
    ASSUME ChainInv, call_handler
    PROVE  /\ isr' \in 0 .. Count \cup {Off, Lost} /\ isr' # Lost
           /\ changed' \in BOOLEAN
<1>1. isr \in 0 .. Count /\ isr # Count
  <2>1. Slot(isr) # Zero
    BY HandlersAssumption DEF call_handler, Zero
  <2>2. isr \in 0 .. Count
    BY DEF call_handler, ChainInv, TypeOK, Off, Lost
  <2> QED
    BY <2>1, <2>2 DEF ChainInv, Terminated
<1>2. isr' = isr + 1 \/ isr' = Off
  BY DEF call_handler, Advance, Leave
<1>3. changed' = changed \/ changed' = TRUE \/ changed' = FALSE
  BY DEF call_handler, Leave
<1>4. changed' \in BOOLEAN
  BY <1>3, Zenon DEF ChainInv, TypeOK
<1> QED
  BY <1>1, <1>2, <1>4, CountAssumption DEF Off, Lost

(* A table a handler leaves behind when it changes the chain. *)
LEMMA RewriteSound ==
    ASSUME ChainInv, pc = "main", Rewrite
    PROVE  /\ table' \in [Bytes -> 0 .. 255] /\ Terminated' /\ spoilt' \in BOOLEAN
           /\ spoilt' \/ \A i \in 0 .. Count : Slot(i)' \in Handlers \cup {Zero}
           /\ kind = "im2" => ~ spoilt'
<1>1. TypeOK /\ (kind = "im2" => ~ spoilt) /\ Slot(Count) = Zero
  BY DEF ChainInv, Progress, Terminated
<1>2. table \in [Bytes -> 0 .. 255] /\ spoilt \in BOOLEAN /\ 0 \in 0 .. 255
  BY <1>1 DEF TypeOK
<1>3. spoilt \/ \A i \in 0 .. Count : Slot(i) \in Handlers \cup {Zero}
  BY DEF ChainInv, SlotsSound, HalfWritten
<1>4. CASE table' \in Added /\ spoilt' = spoilt
  <2>1. PICK i \in 0 .. Count - 1, h \in Handlers : table' = Inserted(i, h)
    BY <1>4 DEF Added, First
  <2>2. h[1] \in 0 .. 255 /\ h[2] \in 0 .. 255 /\ <<h[1], h[2]>> = h
    BY HandlerBytes
  <2>3. table' = [table EXCEPT ![2 * i] = h[1], ![2 * i + 1] = h[2]]
    BY <2>1 DEF Inserted
  <2>4. 2 * i \in Bytes /\ 2 * i + 1 \in Bytes /\ 2 * i # 2 * i + 1
    BY CountAssumption DEF Bytes
  <2>5. table' \in [Bytes -> 0 .. 255]
    BY <1>2, <2>2, <2>3
  <2>6. Slot(i)' = h
    BY <1>2, <2>2, <2>3, <2>4 DEF Slot
  <2>7. ASSUME NEW j \in 0 .. Count, j # i
        PROVE  Slot(j)' = Slot(j)
    <3>1. 2 * j \in Bytes /\ 2 * j + 1 \in Bytes
          /\ 2 * j \notin {2 * i, 2 * i + 1} /\ 2 * j + 1 \notin {2 * i, 2 * i + 1}
      BY <2>7, CountAssumption DEF Bytes
    <3> QED
      BY <1>2, <2>3, <3>1 DEF Slot
  <2>8. Terminated'
    <3>1. Count \in 0 .. Count /\ Count # i
      BY CountAssumption
    <3> QED
      BY <1>1, <2>7, <3>1 DEF Terminated, Zero
  <2>9. spoilt' \/ \A j \in 0 .. Count : Slot(j)' \in Handlers \cup {Zero}
    BY <1>3, <1>4, <2>6, <2>7
  <2>10. spoilt' \in BOOLEAN /\ (kind = "im2" => ~ spoilt')
    BY <1>1, <1>2, <1>4, Zenon
  <2> QED
    BY <2>5, <2>8, <2>9, <2>10
<1>5. CASE kind = "im2" /\ spoilt' = spoilt /\ table' \in {Removed(i) : i \in Occurrences}
  <2>1. PICK i \in Int : i >= 0 /\ i < Count /\ table' = Removed(i)
    BY <1>5, CountAssumption DEF Occurrences, First, Used
  <2>2. \A x \in Bytes : table'[x] = IF x < 2 * i THEN table[x]
                                     ELSE IF x + 2 \in Bytes THEN table[x + 2] ELSE 0
    BY <2>1 DEF Removed
  <2>3. table' \in [Bytes -> 0 .. 255]
    BY <1>2, <2>1 DEF Removed
  <2>4. Slot(Count)' = Zero
    <3>1. 2 * Count \in Bytes /\ 2 * Count + 1 \in Bytes
          /\ 2 * Count + 2 \notin Bytes /\ 2 * Count + 1 + 2 \notin Bytes
          /\ ~ (2 * Count < 2 * i) /\ ~ (2 * Count + 1 < 2 * i)
      BY <2>1, CountAssumption DEF Bytes
    <3> QED
      BY <2>2, <3>1 DEF Slot, Zero
  <2>5. ASSUME NEW j \in 0 .. Count - 1
        PROVE  Slot(j)' = Slot(j) \/ Slot(j)' = Slot(j + 1)
    <3>1. 2 * j \in Bytes /\ 2 * j + 1 \in Bytes
          /\ 2 * j + 2 \in Bytes /\ 2 * j + 1 + 2 \in Bytes
          /\ 2 * (j + 1) = 2 * j + 2 /\ 2 * (j + 1) + 1 = 2 * j + 1 + 2
          /\ (2 * j < 2 * i <=> 2 * j + 1 < 2 * i)
      BY <2>1, CountAssumption DEF Bytes
    <3> QED
      BY <2>2, <3>1 DEF Slot
  <2>6. \A j \in 0 .. Count : Slot(j)' \in Handlers \cup {Zero}
    <3>1. \A j \in 0 .. Count - 1 : j \in 0 .. Count /\ j + 1 \in 0 .. Count
      BY CountAssumption
    <3>2. \A j \in 0 .. Count : j = Count \/ j \in 0 .. Count - 1
      BY CountAssumption
    <3>3. \A j \in 0 .. Count : Slot(j) \in Handlers \cup {Zero}
      BY <1>1, <1>3, <1>5
    <3>4. \A j \in 0 .. Count - 1 : Slot(j)' \in Handlers \cup {Zero}
      BY <2>5, <3>1, <3>3
    <3> QED
      BY <2>4, <3>2, <3>4
  <2>7. Terminated'
    BY <2>4 DEF Terminated, Zero
  <2>8. spoilt' \in BOOLEAN /\ (kind = "im2" => ~ spoilt')
    BY <1>1, <1>2, <1>5, Zenon
  <2> QED
    BY <2>3, <2>6, <2>7, <2>8
<1>6. CASE kind = "im1" /\ spoilt' = TRUE /\ table' \in {Overwritten(i) : i \in Occurrences}
  <2>1. PICK i \in Int : i >= 0 /\ i < Count /\ Slot(i) \in Handlers /\ table' = Overwritten(i)
    BY <1>6, CountAssumption DEF Occurrences, First
  <2>2. \A x \in Bytes : x >= 2 * i /\ x < 2 * Count => Code[Slot(i)][x - 2 * i + 1] \in 0 .. 255
    <3>1. \A x \in Bytes : x >= 2 * i /\ x < 2 * Count => x - 2 * i + 1 \in 1 .. 2 * Count
      BY <2>1, CountAssumption DEF Bytes
    <3> QED
      BY <2>1, <3>1, CodeAssumption
  <2>3. table' \in [Bytes -> 0 .. 255]
    <3>1. \A x \in Bytes : x < 2 * i \/ (x >= 2 * i /\ x < 2 * Count) \/ ~ (x < 2 * Count)
      BY <2>1, CountAssumption DEF Bytes
    <3> QED
      BY <1>2, <2>1, <2>2, <3>1, CountAssumption DEF Overwritten, Bytes
  <2>4. Terminated'
    <3>1. 2 * Count \in Bytes /\ 2 * Count + 1 \in Bytes
          /\ ~ (2 * Count < 2 * i) /\ ~ (2 * Count + 1 < 2 * i)
          /\ ~ (2 * Count < 2 * Count) /\ ~ (2 * Count + 1 < 2 * Count)
      BY <2>1, CountAssumption DEF Bytes
    <3> QED
      BY <2>1, <3>1 DEF Overwritten, Terminated, Slot, Zero
  <2>5. spoilt' \in BOOLEAN /\ spoilt'
    BY <1>6
  <2> QED
    BY <1>6, <2>3, <2>4, <2>5
<1> QED
  BY <1>4, <1>5, <1>6 DEF Rewrite

LEMMA CallHandlerSound ==
    ASSUME ChainInv, call_handler
    PROVE  ChainInv'
<1>1. UNCHANGED <<kind, masked, pc, at, from, left, de, before>>
  BY DEF call_handler
<1>2. CASE UNCHANGED <<table, spoilt, result>>
  <2>1. UNCHANGED <<kind, table, program>> /\ spoilt' = spoilt
    BY <1>1, <1>2 DEF program
  <2> QED
    BY <2>1, CallBounds, DispatchSound
<1>3. CASE pc = "main" /\ Rewrite /\ result' = 0
  <2>1. TypeOK'
    <3>1. masked' = masked
      BY <1>1
    <3>2. masked' \in BOOLEAN
      BY <3>1, Zenon DEF ChainInv, TypeOK
    <3> QED
      BY <1>1, <1>3, <3>2, CallBounds, RewriteSound DEF ChainInv, TypeOK
  <2>2. Terminated' /\ SlotsSound'
    BY <1>3, RewriteSound DEF SlotsSound
  <2>3. OnlyHalfWrittenStrays'
    BY CallBounds DEF OnlyHalfWrittenStrays
  <2>4. AtSlot(0)'
    BY <1>1, <1>3 DEF AtSlot
  <2>5. Progress'
    BY <1>1, <1>3, <2>4, RewriteSound, CountAssumption DEF Progress
  <2> QED
    BY <2>1, <2>2, <2>3, <2>5 DEF ChainInv
<1> QED
  BY <1>2, <1>3 DEF call_handler

-----------------------------------------------------------------------------
LEMMA StutterSound ==
    ASSUME ChainInv, UNCHANGED vars
    PROVE  ChainInv'
<1>1. UNCHANGED <<kind, table, program>> /\ UNCHANGED <<isr, changed>> /\ spoilt' = spoilt
  BY DEF vars, dispatch
<1>2. changed' \in BOOLEAN
  BY <1>1, Zenon DEF ChainInv, TypeOK
<1>3. isr' \in 0 .. Count \cup {Off, Lost} /\ (isr' = Lost => HalfWritten \/ spoilt)
  BY <1>1 DEF ChainInv, TypeOK, OnlyHalfWrittenStrays
<1> QED
  BY <1>1, <1>2, <1>3, DispatchSound

(***************************************************************************)
(* The inductive invariant: at every byte of every call and at every       *)
(* handler called, each slot holds a handler or zero, but for the one that *)
(* is half written and for what asm_interrupt_remove_handler has spoilt.   *)
(***************************************************************************)
THEOREM ChainInvariant == Spec => []ChainInv
<1>1. Init => ChainInv
  BY InitSound
<1>2. ChainInv /\ [Next]_vars => ChainInv'
  <2> SUFFICES ASSUME ChainInv, [Next]_vars PROVE ChainInv'
    OBVIOUS
  <2>1. CASE \E h \in Handlers : add_handler(h) \/ append_callback(h)
    BY <2>1, AddHandlerSound
  <2>2. CASE \E h \in Handlers : remove_handler(h) \/ remove_callback(h)
    BY <2>2, RemoveHandlerSound
  <2>3. CASE \E h \in Handlers : prepend_callback(h)
    BY <2>3, PrependSound
  <2>4. CASE write_high
    BY <2>4, WriteHighSound
  <2>5. CASE write_low
    BY <2>5, WriteLowSound
  <2>6. CASE move_chain
    BY <2>6, MoveChainSound
  <2>7. CASE clear_last
    BY <2>7, ClearLastSound
  <2>8. CASE swap_low
    BY <2>8, SwapLowSound
  <2>9. CASE swap_high
    BY <2>9, SwapHighSound
  <2>10. CASE remove_loop
    BY <2>10, RemoveLoopSound
  <2>11. CASE interrupt \/ done \/ stray
    BY <2>11, InterruptSound
  <2>12. CASE call_handler
    BY <2>12, CallHandlerSound
  <2>13. CASE UNCHANGED vars
    BY <2>13, StutterSound
  <2> QED
    BY <2>1, <2>2, <2>3, <2>4, <2>5, <2>6, <2>7, <2>8, <2>9, <2>10, <2>11, <2>12, <2>13
    DEF Next, Changing, Dispatch
<1> QED
  BY <1>1, <1>2, PTL DEF Spec

(* No call and no interrupt leaves the table. *)
THEOREM ChainTypeOK == Spec => []TypeOK
<1>1. ChainInv => TypeOK
  BY DEF ChainInv
<1> QED
  BY <1>1, ChainInvariant, PTL

(***************************************************************************)
(* The slot that ends the table stays zero, whatever is done to the chain. *)
(***************************************************************************)
THEOREM ChainTerminated == Spec => []Terminated
<1>1. ChainInv => Terminated
  BY DEF ChainInv
<1> QED
  BY <1>1, ChainInvariant, PTL

(***************************************************************************)
(* The dispatcher calls what is not a handler only when it interrupts      *)
(* between two bytes of an address, or after an asm_interrupt_remove_      *)
(* handler has copied code into the chain.                                 *)
(***************************************************************************)
THEOREM StraysOnlyHalfWritten == Spec => []OnlyHalfWrittenStrays
<1>1. ChainInv => OnlyHalfWrittenStrays
  BY DEF ChainInv
<1> QED
  BY <1>1, ChainInvariant, PTL

-----------------------------------------------------------------------------
(***************************************************************************)
(* The chain as a list.                                                    *)
(***************************************************************************)
(* A set of naturals with a member has a least one. *)
LEMMA LeastOf ==
    ASSUME NEW T \in SUBSET Nat, NEW t \in T
    PROVE  \E x \in T : \A y \in T : x <= y
<1> SUFFICES ASSUME \A x \in T : \E y \in T : y < x
             PROVE  FALSE
  <2>1. \A x, y \in T : ~ (y < x) => x <= y
    OBVIOUS
  <2> QED
    BY <2>1
<1> DEFINE D == {i \in 0 .. t : \A j \in 0 .. i : j \notin T}
           f == [i \in D |-> i + 1]
<1>1. t \in Nat
  OBVIOUS
<1>2. IsFiniteSet(0 .. t) /\ D \in SUBSET (0 .. t)
  BY <1>1, FS_Interval
<1>3. 0 \in D
  BY <1>1
<1>4. ASSUME NEW i \in D
      PROVE  i + 1 \in D \ {0}
  <2>1. i \in 0 .. t /\ \A j \in 0 .. i : j \notin T
    OBVIOUS
  <2>2. i # t
    BY <1>1, <2>1
  <2>3. i + 1 \notin T
    <3> SUFFICES ASSUME i + 1 \in T PROVE FALSE
      OBVIOUS
    <3>1. PICK y \in T : y < i + 1
      OBVIOUS
    <3>2. y \in 0 .. i
      BY <2>1, <3>1
    <3> QED
      BY <2>1, <3>2
  <2>4. \A j \in 0 .. i + 1 : j \in 0 .. i \/ j = i + 1
    BY <2>1
  <2>5. i + 1 \in 0 .. t /\ i + 1 # 0
    BY <1>1, <2>1, <2>2
  <2> QED
    BY <2>1, <2>3, <2>4, <2>5
<1>5. \A i \in D : i \in Int
  BY <1>2
<1> HIDE DEF D
<1>6. IsFiniteSet(D)
  BY <1>2, FS_Subset
<1>7. IsFiniteSet(D \ {0}) /\ Cardinality(D \ {0}) = Cardinality(D) - 1
  BY <1>3, <1>6, FS_RemoveElement
<1>8. Cardinality(D) \in Nat
  BY <1>6, FS_CardinalityType
<1>9. Cardinality(D \ {0}) < Cardinality(D)
  BY <1>7, <1>8
<1>10. f \in [D -> D \ {0}]
  BY <1>4
<1>11. PICK x, y \in D : x # y /\ f[x] = f[y]
  <2> HIDE DEF f
  <2> QED
    BY <1>6, <1>7, <1>9, <1>10, FS_PigeonHole
<1> QED
  BY <1>5, <1>11

(* Slot i of a chain with zeros behind it, *)
Pad(s, i) == IF i < Len(s) THEN s[i + 1] ELSE Zero
(* of the chain with h in front, *)
Front(h, s, i) == IF i = 0 THEN h ELSE Pad(s, i - 1)
(* and of the chain without what is in slot r. *)
Gap(r, s, i) == IF i < r THEN Pad(s, i) ELSE Pad(s, i + 1)

IsList(s) == s \in Seq(Handlers) /\ Len(s) <= Count
Holds(s) == IsList(s) /\ \A i \in 0 .. Count : Slot(i) = Pad(s, i)

LEMMA PadSlot ==
    ASSUME NEW s, IsList(s)
    PROVE  /\ Len(s) \in 0 .. Count
           /\ \A i \in 0 .. Len(s) - 1 : Pad(s, i) = s[i + 1] /\ Pad(s, i) \in Handlers
           /\ \A i \in Int : i >= Len(s) => Pad(s, i) = Zero
<1>1. Len(s) \in 0 .. Count
  BY CountAssumption DEF IsList
<1>2. ASSUME NEW i \in 0 .. Len(s) - 1
      PROVE  Pad(s, i) = s[i + 1] /\ Pad(s, i) \in Handlers
  <2>1. i < Len(s) /\ i + 1 \in 1 .. Len(s)
    BY <1>1
  <2> QED
    BY <2>1, ElementOfSeq DEF Pad, IsList
<1>3. ASSUME NEW i \in Int, i >= Len(s)
      PROVE  Pad(s, i) = Zero
  <2>1. ~ (i < Len(s))
    BY <1>1, <1>3
  <2> QED
    BY <2>1 DEF Pad
<1> QED
  BY <1>1, <1>2, <1>3

(* The chain is what stands before the first zero. *)
LEMMA ChainIs ==
    ASSUME NEW s, IsList(s),
           \A i \in 0 .. Len(s) - 1 : Slot(i) = s[i + 1],
           Len(s) < Count => Slot(Len(s)) = Zero
    PROVE  Chain = s /\ Used = 0 .. Len(s) - 1
<1>1. Len(s) \in 0 .. Count
  BY PadSlot
<1>2. ASSUME NEW i \in 0 .. Len(s) - 1
      PROVE  Slot(i) # Zero /\ i \in 0 .. Count - 1
  <2>1. i + 1 \in 1 .. Len(s) /\ i \in 0 .. Count - 1
    BY <1>1, CountAssumption
  <2>2. s[i + 1] \in Handlers
    BY <2>1, ElementOfSeq DEF IsList
  <2> QED
    BY <2>1, <2>2, HandlersAssumption DEF Zero
<1>3. ASSUME NEW i \in 0 .. Len(s) - 1
      PROVE  i \in Used
  <2>1. \A j \in 0 .. i : j \in 0 .. Len(s) - 1
    BY <1>1
  <2> QED
    BY <1>2, <2>1 DEF Used
<1>4. ASSUME NEW i \in Used
      PROVE  i \in 0 .. Len(s) - 1
  <2>1. i \in 0 .. Count - 1 /\ \A j \in 0 .. i : Slot(j) # Zero
    BY DEF Used
  <2>2. i < Len(s)
    <3> SUFFICES ASSUME ~ (i < Len(s)) PROVE FALSE
      OBVIOUS
    <3>1. Len(s) \in 0 .. i /\ Len(s) < Count
      BY <1>1, <2>1, CountAssumption
    <3> QED
      BY <2>1, <3>1
  <2> QED
    BY <1>1, <2>1, <2>2
<1>5. Used = 0 .. Len(s) - 1
  BY <1>3, <1>4
<1>6. Cardinality(Used) = Len(s)
  <2>1. 0 \in Int /\ Len(s) - 1 \in Int
    BY <1>1
  <2>2. Cardinality(0 .. Len(s) - 1) = IF 0 > Len(s) - 1 THEN 0 ELSE Len(s) - 1 - 0 + 1
    BY <2>1, FS_Interval
  <2> QED
    BY <1>1, <1>5, <2>2
<1>7. Chain = [i \in 1 .. Len(s) |-> Slot(i - 1)]
  BY <1>6 DEF Chain
<1>8. ASSUME NEW i \in 1 .. Len(s)
      PROVE  Slot(i - 1) = s[i]
  <2>1. i - 1 \in 0 .. Len(s) - 1 /\ (i - 1) + 1 = i
    BY <1>1
  <2> QED
    BY <2>1
<1>9. s = [i \in 1 .. Len(s) |-> s[i]]
  BY LenProperties DEF IsList
<1> QED
  BY <1>5, <1>7, <1>8, <1>9

LEMMA HoldsChain ==
    ASSUME NEW s, Holds(s)
    PROVE  Chain = s /\ Used = 0 .. Len(s) - 1
<1>1. IsList(s) /\ Len(s) \in 0 .. Count
  BY PadSlot DEF Holds
<1>2. \A i \in 0 .. Len(s) - 1 : Slot(i) = s[i + 1]
  <2>1. \A i \in 0 .. Len(s) - 1 : i \in 0 .. Count
    BY <1>1, CountAssumption
  <2> QED
    BY <1>1, <2>1, PadSlot DEF Holds
<1>3. Len(s) < Count => Slot(Len(s)) = Zero
  BY <1>1, PadSlot DEF Holds
<1> QED
  BY <1>1, <1>2, <1>3, ChainIs

(* The same of the state behind a step. *)
LEMMA HoldsChainNext == (\A s : Holds(s) => Chain = s)'
<1>1. \A s : Holds(s) => Chain = s
  BY HoldsChain
<1> QED
  BY <1>1, PTL

(* The chain with a handler behind, with one in front, and without one. *)
LEMMA PadAppend ==
    ASSUME NEW s, IsList(s), Len(s) < Count, NEW h \in Handlers
    PROVE  /\ IsList(Append(s, h))
           /\ \A i \in Nat : Pad(Append(s, h), i) = IF i = Len(s) THEN h ELSE Pad(s, i)
<1> DEFINE t == Append(s, h)
<1>1. Len(s) \in Nat /\ s \in Seq(Handlers)
  BY PadSlot DEF IsList
<1>2. /\ t \in Seq(Handlers) /\ Len(t) = Len(s) + 1
      /\ (\A i \in 1 .. Len(s) : t[i] = s[i]) /\ t[Len(s) + 1] = h
  BY <1>1, AppendProperties
<1> HIDE DEF t
<1>3. IsList(t)
  BY <1>1, <1>2, CountAssumption DEF IsList
<1>4. ASSUME NEW i \in Nat
      PROVE  Pad(t, i) = IF i = Len(s) THEN h ELSE Pad(s, i)
  <2>1. CASE i < Len(s)
    <3>1. i + 1 \in 1 .. Len(s) /\ i < Len(t) /\ i # Len(s)
      BY <1>1, <1>2, <2>1
    <3> QED
      BY <1>2, <2>1, <3>1 DEF Pad
  <2>2. CASE i = Len(s)
    <3>1. i < Len(t)
      BY <1>1, <1>2, <2>2
    <3> QED
      BY <1>2, <2>2, <3>1 DEF Pad
  <2>3. CASE i > Len(s)
    <3>1. ~ (i < Len(t)) /\ ~ (i < Len(s)) /\ i # Len(s)
      BY <1>1, <1>2, <2>3
    <3> QED
      BY <3>1 DEF Pad
  <2> QED
    BY <1>1, <2>1, <2>2, <2>3
<1> QED
  BY <1>3, <1>4 DEF t

LEMMA PadFront ==
    ASSUME NEW s, IsList(s), Len(s) < Count, NEW h \in Handlers
    PROVE  /\ IsList(<<h>> \o s)
           /\ \A i \in Nat : Pad(<<h>> \o s, i) = Front(h, s, i)
<1> DEFINE t == <<h>> \o s
<1>1. Len(s) \in Nat /\ s \in Seq(Handlers)
  BY PadSlot DEF IsList
<1>2. <<h>> \in Seq(Handlers) /\ Len(<<h>>) = 1 /\ <<h>>[1] = h
  OBVIOUS
<1>3. /\ t \in Seq(Handlers) /\ Len(t) = 1 + Len(s)
      /\ \A i \in 1 .. 1 + Len(s) : t[i] = IF i <= 1 THEN <<h>>[i] ELSE s[i - 1]
  BY <1>1, <1>2, ConcatProperties
<1> HIDE DEF t
<1>4. IsList(t)
  BY <1>1, <1>3, CountAssumption DEF IsList
<1>5. ASSUME NEW i \in Nat
      PROVE  Pad(t, i) = Front(h, s, i)
  <2>1. CASE i = 0
    <3>1. i < Len(t) /\ i + 1 = 1 /\ 1 \in 1 .. 1 + Len(s)
      BY <1>1, <1>3, <2>1
    <3> QED
      BY <1>2, <1>3, <2>1, <3>1 DEF Pad, Front
  <2>2. CASE i # 0 /\ i < Len(t)
    <3>1. i + 1 \in 1 .. 1 + Len(s) /\ ~ (i + 1 <= 1) /\ (i + 1) - 1 = i
          /\ i - 1 < Len(s) /\ (i - 1) + 1 = i
      BY <1>1, <1>3, <2>2
    <3>2. Pad(t, i) = s[i]
      BY <1>3, <2>2, <3>1 DEF Pad
    <3> QED
      BY <2>2, <3>1, <3>2 DEF Pad, Front
  <2>3. CASE i # 0 /\ ~ (i < Len(t))
    <3>1. ~ (i - 1 < Len(s))
      BY <1>1, <1>3, <2>3
    <3> QED
      BY <2>3, <3>1 DEF Pad, Front
  <2> QED
    BY <2>1, <2>2, <2>3
<1> QED
  BY <1>4, <1>5 DEF t

Without(s, r) == SubSeq(s, 1, r) \o SubSeq(s, r + 2, Len(s))

LEMMA PadGap ==
    ASSUME NEW s, IsList(s), NEW r \in 0 .. Len(s) - 1
    PROVE  /\ IsList(Without(s, r))
           /\ \A i \in Nat : Pad(Without(s, r), i) = Gap(r, s, i)
<1> DEFINE a == SubSeq(s, 1, r)
           b == SubSeq(s, r + 2, Len(s))
           t == a \o b
<1>1. Len(s) \in Nat /\ s \in Seq(Handlers) /\ r \in Nat
  BY PadSlot DEF IsList
<1>2. /\ a \in Seq(Handlers) /\ Len(a) = r
      /\ \A i \in 1 .. r : a[i] = s[i]
  <2>1. 1 \in Int /\ r \in Int /\ \A i \in 1 .. r : i \in 1 .. Len(s)
    BY <1>1
  <2>2. \A i \in 1 .. r : s[i] \in Handlers
    BY <1>1, <2>1, ElementOfSeq
  <2>3. /\ a \in Seq(Handlers)
        /\ Len(a) = IF 1 <= r THEN r - 1 + 1 ELSE 0
        /\ \A i \in 1 .. r - 1 + 1 : a[i] = s[1 + i - 1]
    BY <2>1, <2>2, SubSeqProperties
  <2>4. r - 1 + 1 = r /\ \A i \in 1 .. r : 1 + i - 1 = i
    BY <2>1
  <2> QED
    BY <1>1, <2>3, <2>4
<1>3. /\ b \in Seq(Handlers) /\ Len(b) = Len(s) - 1 - r
      /\ \A i \in 1 .. Len(s) - 1 - r : b[i] = s[r + 1 + i]
  <2>1. r + 2 \in Int /\ Len(s) \in Int /\ \A i \in r + 2 .. Len(s) : i \in 1 .. Len(s)
    BY <1>1
  <2>2. \A i \in r + 2 .. Len(s) : s[i] \in Handlers
    BY <1>1, <2>1, ElementOfSeq
  <2>3. /\ b \in Seq(Handlers)
        /\ Len(b) = IF r + 2 <= Len(s) THEN Len(s) - (r + 2) + 1 ELSE 0
        /\ \A i \in 1 .. Len(s) - (r + 2) + 1 : b[i] = s[r + 2 + i - 1]
    BY <2>1, <2>2, SubSeqProperties
  <2>4. Len(s) - (r + 2) + 1 = Len(s) - 1 - r /\ \A i \in 1 .. Len(s) - 1 - r : r + 2 + i - 1 = r + 1 + i
    BY <1>1
  <2>5. Len(b) = Len(s) - 1 - r
    <3>1. Len(b) = IF r + 2 <= Len(s) THEN Len(s) - (r + 2) + 1 ELSE 0
      BY <2>3
    <3>2. r <= Len(s) - 1
      BY <1>1
    <3> HIDE DEF b
    <3> QED
      BY <1>1, <3>1, <3>2
  <2>6. \A i \in 1 .. Len(s) - 1 - r : b[i] = s[r + 1 + i]
    BY <2>3, <2>4
  <2> QED
    BY <2>3, <2>5, <2>6
<1> HIDE DEF a, b
<1>4. /\ t \in Seq(Handlers) /\ Len(t) = Len(a) + Len(b)
      /\ \A i \in 1 .. Len(a) + Len(b) : t[i] = IF i <= Len(a) THEN a[i] ELSE b[i - Len(a)]
  BY <1>2, <1>3, ConcatProperties
<1> HIDE DEF t
<1>5. Len(t) = Len(s) - 1
  BY <1>1, <1>2, <1>3, <1>4
<1>6. IsList(t)
  BY <1>1, <1>4, <1>5, CountAssumption DEF IsList
<1>7. ASSUME NEW i \in Nat
      PROVE  Pad(t, i) = Gap(r, s, i)
  <2>1. CASE i < r
    <3>1. i < Len(t) /\ i < Len(s) /\ i + 1 \in 1 .. Len(a) + Len(b) /\ i + 1 <= Len(a)
          /\ i + 1 \in 1 .. r
      BY <1>1, <1>2, <1>3, <1>5, <2>1
    <3>2. t[i + 1] = s[i + 1]
      BY <1>2, <1>4, <3>1
    <3> QED
      BY <2>1, <3>1, <3>2 DEF Pad, Gap
  <2>2. CASE ~ (i < r) /\ i < Len(t)
    <3>1. /\ i + 1 \in 1 .. Len(a) + Len(b) /\ ~ (i + 1 <= Len(a))
          /\ (i + 1) - Len(a) \in 1 .. Len(s) - 1 - r
          /\ r + 1 + ((i + 1) - Len(a)) = (i + 1) + 1
          /\ i + 1 < Len(s)
      BY <1>1, <1>2, <1>3, <1>5, <2>2
    <3>2. t[i + 1] = b[(i + 1) - Len(a)]
      BY <1>4, <3>1
    <3>3. b[(i + 1) - Len(a)] = s[(i + 1) + 1]
      BY <1>3, <3>1
    <3> QED
      BY <2>2, <3>1, <3>2, <3>3 DEF Pad, Gap
  <2>3. CASE ~ (i < r) /\ ~ (i < Len(t))
    <3>1. ~ (i + 1 < Len(s))
      BY <1>1, <1>5, <2>3
    <3> QED
      BY <2>3, <3>1 DEF Pad, Gap
  <2> QED
    BY <2>1, <2>2, <2>3
<1> QED
  BY <1>6, <1>7 DEF a, b, t, Without

-----------------------------------------------------------------------------
(***************************************************************************)
(* The searches the calls begin with.                                      *)
(***************************************************************************)
(* What stands in one of the first m slots is found there. *)
LEMMA Found ==
    ASSUME NEW m \in Nat, NEW v, NEW j \in 0 .. m - 1, Slot(j) = v
    PROVE  First(0 .. m - 1, v) # {}
<1> DEFINE T == {i \in 0 .. m - 1 : Slot(i) = v}
<1>1. T \in SUBSET Nat /\ j \in T
  OBVIOUS
<1>2. \A i \in T : i \in 0 .. m - 1 /\ Slot(i) = v
  OBVIOUS
<1>3. \A i \in 0 .. m - 1 : Slot(i) = v => i \in T
  OBVIOUS
<1> HIDE DEF T
<1>4. PICK i \in T : \A y \in T : i <= y
  BY <1>1, LeastOf
<1>5. i \in 0 .. m - 1 /\ Slot(i) = v
  BY <1>2
<1>6. ASSUME NEW y \in 0 .. i - 1
      PROVE  Slot(y) # v
  <2>1. y \in 0 .. m - 1 /\ ~ (i <= y)
    BY <1>5
  <2> QED
    BY <1>3, <1>4, <2>1
<1> QED
  BY <1>5, <1>6 DEF First

(* The slots of a table that holds s. *)
LEMMA HoldsSlot ==
    ASSUME NEW s, Holds(s)
    PROVE  /\ IsList(s) /\ Len(s) \in 0 .. Count
           /\ \A i \in 0 .. Len(s) - 1 : Slot(i) = s[i + 1] /\ Slot(i) \in Handlers
           /\ \A i \in Len(s) .. Count : Slot(i) = Zero
<1>1. IsList(s) /\ Len(s) \in 0 .. Count
  BY PadSlot DEF Holds
<1>2. ASSUME NEW i \in 0 .. Len(s) - 1
      PROVE  Slot(i) = s[i + 1] /\ Slot(i) \in Handlers
  <2>1. i \in 0 .. Count
    BY <1>1, CountAssumption
  <2> QED
    BY <1>1, <2>1, PadSlot DEF Holds
<1>3. ASSUME NEW i \in Len(s) .. Count
      PROVE  Slot(i) = Zero
  <2>1. i \in 0 .. Count /\ i >= Len(s)
    BY <1>1, CountAssumption
  <2> QED
    BY <1>1, <2>1, PadSlot DEF Holds
<1> QED
  BY <1>1, <1>2, <1>3

(* The first free slot is the one behind the handlers. *)
LEMMA FreeSlot ==
    ASSUME NEW s, Holds(s)
    PROVE  /\ \A i \in First(0 .. Count, Zero) : i = Len(s)
           /\ \A i \in First(0 .. Count - 1, Zero) : i = Len(s) /\ Len(s) < Count
           /\ Len(s) < Count => Room
<1>1. Len(s) \in 0 .. Count /\ Slot(Len(s)) = Zero
  <2>1. Len(s) \in 0 .. Count
    BY HoldsSlot
  <2>2. Len(s) \in Len(s) .. Count
    BY <2>1, CountAssumption
  <2> QED
    BY <2>1, <2>2, HoldsSlot
<1>2. \A i \in 0 .. Len(s) - 1 : Slot(i) # Zero
  BY HoldsSlot, HandlersAssumption DEF Zero
<1>3. ASSUME NEW i \in 0 .. Count, Slot(i) = Zero, \A j \in 0 .. i - 1 : Slot(j) # Zero
      PROVE  i = Len(s)
  <2>1. ~ (i < Len(s))
    <3> SUFFICES ASSUME i < Len(s) PROVE FALSE
      OBVIOUS
    <3>1. i \in 0 .. Len(s) - 1
      BY <1>1, CountAssumption
    <3> QED
      BY <1>2, <1>3, <3>1
  <2>2. ~ (Len(s) < i)
    <3> SUFFICES ASSUME Len(s) < i PROVE FALSE
      OBVIOUS
    <3>1. Len(s) \in 0 .. i - 1
      BY <1>1, CountAssumption
    <3> QED
      BY <1>1, <1>3, <3>1
  <2> QED
    BY <1>1, <2>1, <2>2, CountAssumption
<1>4. \A i \in First(0 .. Count, Zero) : i = Len(s)
  BY <1>3 DEF First
<1>5. ASSUME NEW i \in First(0 .. Count - 1, Zero)
      PROVE  i = Len(s) /\ Len(s) < Count
  <2>1. i \in 0 .. Count - 1 /\ Slot(i) = Zero /\ \A j \in 0 .. i - 1 : Slot(j) # Zero
    BY DEF First
  <2>2. i \in 0 .. Count /\ i < Count
    BY <2>1, CountAssumption
  <2>3. i = Len(s)
    BY <1>3, <2>1, <2>2
  <2> QED
    BY <2>2, <2>3
<1>6. ASSUME Len(s) < Count
      PROVE  Room
  <2>1. Len(s) \in 0 .. Count - 1
    BY <1>1, <1>6, CountAssumption
  <2> QED
    BY <1>1, <1>2, <2>1 DEF Room, First
<1> QED
  BY <1>4, <1>5, <1>6

(* The slot of a handler is that of its first occurrence, *)
LEMMA SlotOf ==
    ASSUME NEW s, Holds(s), NEW h \in Handlers,
           NEW i \in First(0 .. Count - 1, h) \cup First(Used, h)
    PROVE  i \in 0 .. Len(s) - 1 /\ s[i + 1] = h /\ \A j \in 1 .. i : s[j] # h
<1>1. Len(s) \in 0 .. Count /\ Used = 0 .. Len(s) - 1
  BY HoldsSlot, HoldsChain
<1>2. Slot(i) = h /\ \A j \in 0 .. i - 1 : Slot(j) # h
  BY DEF First
<1>3. i \in 0 .. Len(s) - 1
  <2>1. CASE i \in First(0 .. Count - 1, h)
    <3>1. i \in 0 .. Count - 1
      BY <2>1 DEF First
    <3>2. ~ (i \in Len(s) .. Count)
      BY <1>2, HoldsSlot, HandlersAssumption DEF Zero
    <3> QED
      BY <1>1, <3>1, <3>2, CountAssumption
  <2>2. CASE i \in First(Used, h)
    BY <1>1, <2>2 DEF First
  <2> QED
    BY <2>1, <2>2
<1>4. s[i + 1] = h
  BY <1>2, <1>3, HoldsSlot
<1>5. ASSUME NEW j \in 1 .. i
      PROVE  s[j] # h
  <2>1. j - 1 \in 0 .. i - 1 /\ j - 1 \in 0 .. Len(s) - 1 /\ (j - 1) + 1 = j
    BY <1>1, <1>3
  <2>2. Slot(j - 1) = s[(j - 1) + 1]
    BY <2>1, HoldsSlot
  <2> QED
    BY <1>2, <2>1, <2>2
<1> QED
  BY <1>3, <1>4, <1>5

(* and a handler that has none does not occur. *)
LEMMA NoSlotOf ==
    ASSUME NEW s, Holds(s), NEW h,
           First(0 .. Count - 1, h) = {} \/ First(Used, h) = {}
    PROVE  \A i \in 1 .. Len(s) : s[i] # h
<1>1. Len(s) \in 0 .. Count /\ Used = 0 .. Len(s) - 1
  BY HoldsSlot, HoldsChain
<1> SUFFICES ASSUME NEW i \in 1 .. Len(s), s[i] = h
             PROVE  FALSE
  OBVIOUS
<1>2. i - 1 \in 0 .. Len(s) - 1 /\ (i - 1) + 1 = i /\ i - 1 \in 0 .. Count - 1
  BY <1>1, CountAssumption
<1>3. Slot(i - 1) = h
  BY <1>2, HoldsSlot
<1>4. First(0 .. Count - 1, h) # {}
  BY <1>2, <1>3, Found, CountAssumption
<1>5. Len(s) \in Nat
  BY <1>1
<1>6. First(Used, h) # {}
  BY <1>1, <1>2, <1>3, <1>5, Found
<1> QED
  BY <1>4, <1>6

-----------------------------------------------------------------------------
(***************************************************************************)
(* A call on its way, and what is left of the chain it found.              *)
(***************************************************************************)
(* The call at slot k of putting h in front: slots before it hold the new  *)
(* chain, slots behind it the old one, and de what slot k shall hold.      *)
Prepending(h, k) ==
    /\ k <= Len(before) /\ Len(before) < Count
    /\ \A i \in 0 .. k - 1 : Slot(i) = Front(h, before, i)
    /\ \A i \in k + 1 .. Count : Slot(i) = Pad(before, i)
    /\ pc = "swap_low" =>
          /\ at = 2 * k
          /\ de = Front(h, before, k) /\ Slot(k) = Pad(before, k)
    /\ pc = "swap_high" =>
          /\ at = 2 * k + 1
          /\ <<table[2 * k], de[2]>> = Front(h, before, k)
          /\ <<de[1], table[2 * k + 1]>> = Pad(before, k)

(* The call at slot k of taking de from slot r, the first that holds it. *)
Removing(r, k) ==
    /\ r <= k /\ k < Len(before)
    /\ before[r + 1] = de /\ \A j \in 1 .. r : before[j] # de
    /\ \A i \in 0 .. k - 1 : Slot(i) = Gap(r, before, i)
    /\ \A i \in k + 1 .. Count : Slot(i) = Pad(before, i)
    /\ \/ at = 2 * k /\ Slot(k) = Pad(before, k)
       \/ at = 2 * k + 1 /\ Slot(k) = <<Pad(before, k + 1)[1], Pad(before, k)[2]>>

Underway ==
    /\ IsList(before)
    /\ pc # "clear"
    /\ pc = "move" => Holds(before)
    /\ pc = "high" =>
          Holds(before) /\ Len(before) < Count /\ at = 2 * Len(before) + 1 /\ de \in Handlers
    /\ pc = "low" =>
          /\ Len(before) < Count /\ at = 2 * Len(before) /\ de \in Handlers
          /\ table[at + 1] = de[2]
          /\ \A i \in 0 .. Count : i # Len(before) => Slot(i) = Pad(before, i)
    /\ pc \in {"swap_low", "swap_high"} => \E h \in Handlers, k \in 0 .. Count - 1 : Prepending(h, k)
    /\ pc = "ldi" => \E r \in 0 .. Count - 1, k \in 0 .. Count - 1 : Removing(r, k)

(* What the table holds between the calls and during one, until it is spoilt. *)
ListInv == ~ spoilt => IF pc = "main" THEN Holds(Chain) ELSE Underway

(* The list the chain stands for. *)
Listed == IF pc = "main" THEN Chain ELSE before

LEMMA HoldsNext ==
    ASSUME NEW s, IsList(s), \A i \in 0 .. Count : Slot(i)' = Pad(s, i)
    PROVE  Holds(s)' /\ Chain' = s
<1>1. Holds(s)'
  BY DEF Holds, IsList
<1> QED
  BY <1>1, HoldsChainNext

(* A call returns, and the table holds s. *)
LEMMA ReturnListed ==
    ASSUME NEW s, IsList(s), \A i \in 0 .. Count : Slot(i)' = Pad(s, i), pc' = "main"
    PROVE  ListInv' /\ Listed' = s
<1>1. Holds(s)' /\ Chain' = s
  BY HoldsNext
<1>2. Holds(Chain)'
  BY <1>1 DEF Holds
<1> QED
  BY <1>1, <1>2 DEF ListInv, Listed

(* A step of neither the program nor a handler. *)
LEMMA StutterListed ==
    ASSUME ListInv, ~ spoilt, UNCHANGED <<table, pc, at, de, before, result>>
    PROVE  ListInv' /\ UNCHANGED <<Listed, result>>
<1>1. CASE pc = "main"
  <2>1. Holds(Chain)
    BY <1>1 DEF ListInv
  <2>2. IsList(Chain) /\ \A i \in 0 .. Count : Slot(i)' = Pad(Chain, i)
    BY <2>1 DEF Holds, Slot
  <2>3. ListInv' /\ Listed' = Chain
    BY <1>1, <2>2, ReturnListed
  <2> QED
    BY <1>1, <2>3 DEF Listed
<1>2. CASE pc # "main"
  <2>1. Underway
    BY <1>2 DEF ListInv
  <2>2. ASSUME NEW h, NEW k, Prepending(h, k)
        PROVE  Prepending(h, k)'
    BY <2>2 DEF Prepending, Slot
  <2>3. ASSUME NEW r, NEW k, Removing(r, k)
        PROVE  Removing(r, k)'
    BY <2>3 DEF Removing, Slot
  <2>4. Holds(before) => Holds(before)'
    BY DEF Holds, IsList, Slot
  <2>5. Underway'
    BY <2>1, <2>2, <2>3, <2>4 DEF Underway, IsList, Slot
  <2> QED
    BY <1>2, <2>5 DEF ListInv, Listed
<1> QED
  BY <1>1, <1>2

(* A call begins: the list is what it found. *)
LEMMA BeginListed ==
    ASSUME NEW s, Holds(s), NEW h \in Handlers, At("main"),
           NEW p, NEW x, NEW n, Begin(p, x, n, h),
           \/ p = "high" /\ x = 2 * Len(s) + 1 /\ Len(s) < Count
           \/ p = "move"
           \/ p = "swap_low" /\ x = 0 /\ Len(s) < Count
           \/ p = "ldi" /\ \E r \in 0 .. Len(s) - 1 :
                              x = 2 * r /\ s[r + 1] = h /\ \A j \in 1 .. r : s[j] # h
    PROVE  ListInv' /\ UNCHANGED <<Listed, result>>
<1>1. Chain = s /\ before' = s /\ pc' = p /\ at' = x /\ de' = h /\ result' = result /\ table' = table
  BY HoldsChain DEF Begin
<1>2. IsList(s) /\ Len(s) \in 0 .. Count
  BY HoldsSlot
<1>3. \A i \in 0 .. Count : Slot(i)' = Pad(s, i)
  BY <1>1 DEF Holds, Slot
<1>4. Holds(before)' /\ IsList(before)'
  BY <1>1, <1>2, <1>3 DEF Holds, IsList
<1>5. ASSUME p = "swap_low", x = 0, Len(s) < Count
      PROVE  Prepending(h, 0)' /\ 0 \in 0 .. Count - 1
  <2>1. \A i \in 0 + 1 .. Count : i \in 0 .. Count
    BY CountAssumption
  <2>2. Front(h, s, 0) = h /\ 0 \in 0 .. Count /\ 0 \in 0 .. Count - 1
    BY CountAssumption DEF Front
  <2>3. \A i \in 0 .. 0 - 1 : FALSE
    OBVIOUS
  <2>4. 0 <= Len(s) /\ 0 = 2 * 0
    BY <1>2
  <2> QED
    BY <1>1, <1>3, <1>5, <2>1, <2>2, <2>3, <2>4 DEF Prepending
<1>6. ASSUME NEW r \in 0 .. Len(s) - 1, p = "ldi",
             x = 2 * r, s[r + 1] = h, \A j \in 1 .. r : s[j] # h
      PROVE  Removing(r, r)' /\ r \in 0 .. Count - 1
  <2>1. r \in 0 .. Count /\ r \in 0 .. Count - 1 /\ r <= r /\ r < Len(s)
    BY <1>2, CountAssumption
  <2>2. \A i \in 0 .. r - 1 : i \in 0 .. Count /\ Gap(r, s, i) = Pad(s, i)
    BY <2>1, CountAssumption DEF Gap
  <2>3. \A i \in r + 1 .. Count : i \in 0 .. Count
    BY <2>1, CountAssumption
  <2> QED
    BY <1>1, <1>3, <1>6, <2>1, <2>2, <2>3 DEF Removing
<1>7. Underway' /\ pc' # "main"
  BY <1>1, <1>4, <1>5, <1>6 DEF Underway
<1> QED
  BY <1>1, <1>7 DEF At, ListInv, Listed

-----------------------------------------------------------------------------
(***************************************************************************)
(* The steps of the list.                                                  *)
(***************************************************************************)
LEMMA AddStep ==
    ASSUME NEW s, NEW h \in Handlers, Listed = s, Len(s) < Count,
           Listed' \in {Append(s, h), <<h>> \o s}, result' = 0
    PROVE  L!Next
<1>1. L!Add(h)
  BY DEF L!Add, Listed
<1> QED
  BY <1>1 DEF L!Next

LEMMA RemoveStep ==
    ASSUME NEW s, IsList(s), Listed = s, NEW r \in 0 .. Len(s) - 1,
           \A j \in 1 .. r : s[j] # s[r + 1],
           Listed' = Without(s, r), result' = 0
    PROVE  L!Next
<1>1. Len(s) \in Nat
  BY PadSlot
<1>2. r + 1 \in 1 .. Len(s) /\ (r + 1) - 1 = r /\ (r + 1) + 1 = r + 2
  BY <1>1
<1>3. s[r + 1] \in Handlers
  BY <1>2, ElementOfSeq DEF IsList
<1>4. Listed' = SubSeq(s, 1, (r + 1) - 1) \o SubSeq(s, (r + 1) + 1, Len(s))
  BY <1>2 DEF Without
<1>5. \A j \in 1 .. (r + 1) - 1 : s[j] # s[r + 1]
  BY <1>2
<1> DEFINE i == r + 1
           h == s[i]
<1>6. /\ i \in 1 .. Len(s) /\ h \in Handlers
      /\ Listed' = SubSeq(s, 1, i - 1) \o SubSeq(s, i + 1, Len(s))
      /\ s[i] = h /\ \A j \in 1 .. i - 1 : s[j] # h
  BY <1>2, <1>3, <1>4, <1>5
<1> HIDE DEF i, h
<1>7. L!Remove(h)
  BY <1>6 DEF L!Remove, Listed
<1> QED
  BY <1>6, <1>7 DEF L!Next

LEMMA FailStep ==
    ASSUME NEW s, NEW h \in Handlers, Listed = s, Listed' = s, result' = 1,
           Len(s) = Count \/ \A i \in 1 .. Len(s) : s[i] # h
    PROVE  L!Next
<1>1. L!Fail(h)
  BY DEF L!Fail, Listed
<1> QED
  BY <1>1 DEF L!Next

(* A call that is refused. *)
LEMMA RejectListed ==
    ASSUME NEW s, Holds(s), At("main"), NEW h \in Handlers, Reject,
           Len(s) = Count \/ \A i \in 1 .. Len(s) : s[i] # h
    PROVE  ListInv' /\ L!Next
<1>1. pc' = "main" /\ result' = 1 /\ table' = table
  BY DEF Reject, Return
<1>2. IsList(s) /\ \A i \in 0 .. Count : Slot(i)' = Pad(s, i)
  BY <1>1 DEF Holds, Slot
<1>3. ListInv' /\ Listed' = s
  BY <1>1, <1>2, ReturnListed
<1>4. Listed = s
  BY HoldsChain DEF Listed, At
<1> QED
  BY <1>1, <1>3, <1>4, FailStep

(* What a call does to the list while the chain is not spoilt. *)
StepListed == ListInv' /\ (L!Next \/ UNCHANGED <<Listed, result>>)

LEMMA AddHandlerListed ==
    ASSUME ChainInv, ListInv, ~ spoilt, NEW h \in Handlers,
           add_handler(h) \/ append_callback(h) \/ prepend_callback(h)
    PROVE  StepListed
<1>1. At("main")
  BY DEF add_handler, append_callback, prepend_callback
<1> DEFINE s == Chain
<1>2. Holds(s)
  BY <1>1 DEF ListInv, At
<1> HIDE DEF s
<1>3. Len(s) \in 0 .. Count
  BY <1>2, HoldsSlot
<1>4. Room => Len(s) < Count
  BY <1>2, FreeSlot DEF Room
<1>5. CASE ~ Room /\ Reject
  <2>1. Len(s) = Count
    BY <1>2, <1>3, <1>5, FreeSlot, CountAssumption
  <2> QED
    BY <1>1, <1>2, <1>5, <2>1, RejectListed DEF StepListed
<1>6. CASE \E i \in First(0 .. Count - 1, Zero) : Begin("high", 2 * i + 1, 0, h)
  <2>1. PICK i \in First(0 .. Count - 1, Zero) : Begin("high", 2 * i + 1, 0, h)
    BY <1>6
  <2>2. i = Len(s) /\ Len(s) < Count
    BY <1>2, FreeSlot
  <2> QED
    BY <1>1, <1>2, <2>1, <2>2, BeginListed DEF StepListed
<1>7. CASE append_callback(h)
  <2>1. PICK i \in First(0 .. Count, Zero) : Begin("high", 2 * i + 1, 0, h)
    BY <1>7 DEF append_callback
  <2>2. i = Len(s) /\ Len(s) < Count
    BY <1>2, <1>4, <1>7, FreeSlot DEF append_callback
  <2> QED
    BY <1>1, <1>2, <2>1, <2>2, BeginListed DEF StepListed
<1>8. CASE prepend_callback(h)
  <2>1. Begin("swap_low", 0, 0, h) /\ Len(s) < Count
    BY <1>4, <1>8 DEF prepend_callback
  <2> QED
    BY <1>1, <1>2, <2>1, BeginListed DEF StepListed
<1> QED
  BY <1>5, <1>6, <1>7, <1>8 DEF add_handler

LEMMA RemoveHandlerListed ==
    ASSUME ChainInv, ListInv, ~ spoilt, NEW h \in Handlers, remove_handler(h) \/ remove_callback(h)
    PROVE  StepListed
<1>1. At("main")
  BY DEF remove_handler, remove_callback
<1> DEFINE s == Chain
<1>2. Holds(s)
  BY <1>1 DEF ListInv, At
<1> HIDE DEF s
<1>3. CASE Reject /\ (First(0 .. Count - 1, h) = {} \/ First(Used, h) = {})
  <2>1. \A i \in 1 .. Len(s) : s[i] # h
    BY <1>2, <1>3, NoSlotOf
  <2> QED
    BY <1>1, <1>2, <1>3, <2>1, RejectListed DEF StepListed
<1>4. CASE \E i \in First(0 .. Count - 1, h) : Begin("move", 2 * i, 2 * (Count - i), h)
  BY <1>1, <1>2, <1>4, BeginListed DEF StepListed
<1>5. CASE \E i \in First(Used, h) : Begin("ldi", 2 * i, 0, h)
  <2>1. PICK i \in First(Used, h) : Begin("ldi", 2 * i, 0, h)
    BY <1>5
  <2>2. i \in 0 .. Len(s) - 1 /\ s[i + 1] = h /\ \A j \in 1 .. i : s[j] # h
    BY <1>2, SlotOf
  <2>3. \E r \in 0 .. Len(s) - 1 : 2 * i = 2 * r /\ s[r + 1] = h /\ \A j \in 1 .. r : s[j] # h
    BY <2>2
  <2> QED
    BY <1>1, <1>2, <2>1, <2>3, BeginListed DEF StepListed
<1> QED
  BY <1>3, <1>4, <1>5 DEF remove_handler, remove_callback

-----------------------------------------------------------------------------
(***************************************************************************)
(* The bytes a call writes.                                                *)
(***************************************************************************)
LEMMA WriteHighListed ==
    ASSUME ChainInv, ListInv, ~ spoilt, write_high
    PROVE  StepListed
<1>1. pc = "high" /\ pc' = "low" /\ at' = at - 1 /\ Poke(de[2])
      /\ UNCHANGED <<de, before, result>>
  BY DEF write_high, At
<1> DEFINE k == Len(before)
<1>2. Holds(before) /\ k < Count /\ at = 2 * k + 1 /\ de \in Handlers /\ IsList(before)
  BY <1>1 DEF ListInv, Underway
<1>3. k \in 0 .. Count
  BY <1>2, HoldsSlot
<1> HIDE DEF k
<1>4. TypeOK /\ at' = 2 * k /\ at \in {2 * k, 2 * k + 1} /\ 2 * k + 1 \in Bytes
  BY <1>1, <1>2, <1>3, CountAssumption DEF ChainInv, Bytes
<1>5. table'[2 * k + 1] = de[2]
  BY <1>1, <1>2, <1>4 DEF Poke, TypeOK
<1>6. \A i \in 0 .. Count : i # k => Slot(i)' = Slot(i)
  BY <1>1, <1>3, <1>4, PokeElsewhere
<1>7. \A i \in 0 .. Count : i # k => Slot(i)' = Pad(before', i)
  BY <1>1, <1>2, <1>6 DEF Holds
<1>8. table'[at' + 1] = de'[2]
  BY <1>1, <1>4, <1>5
<1>9. Underway'
  BY <1>1, <1>2, <1>4, <1>7, <1>8 DEF Underway, k, IsList
<1> QED
  BY <1>1, <1>9 DEF ListInv, Listed, StepListed

LEMMA WriteLowListed ==
    ASSUME ChainInv, ListInv, ~ spoilt, write_low
    PROVE  StepListed
<1>2. pc = "low" /\ pc' = "main" /\ result' = 0 /\ Poke(de[1])
  BY DEF write_low, At, Return
<1>1. PICK k : k = Len(before)
  OBVIOUS
<1>3. /\ IsList(before) /\ k < Count /\ at = 2 * k /\ de \in Handlers /\ table[2 * k + 1] = de[2]
      /\ \A i \in 0 .. Count : i # k => Slot(i) = Pad(before, i)
  BY <1>1, <1>2 DEF ListInv, Underway
<1>4. k \in 0 .. Count
  BY <1>1, <1>3, PadSlot
<1>5. IsList(Append(before, de))
      /\ \A i \in Nat : Pad(Append(before, de), i) = IF i = k THEN de ELSE Pad(before, i)
  BY <1>1, <1>3, PadAppend
<1>6. TypeOK /\ de[1] \in 0 .. 255 /\ <<de[1], de[2]>> = de /\ at \in {2 * k, 2 * k + 1}
  BY <1>3, HandlerBytes DEF ChainInv
<1>7. Slot(k)' = de
  <2>1. at = 2 * k /\ table[2 * k + 1] = de[2]
    BY <1>3
  <2>2. Slot(k)' = <<de[1], table[2 * k + 1]>>
    BY <1>2, <1>4, <1>6, <2>1, PokeHere
  <2> QED
    BY <1>6, <2>1, <2>2
<1>8. \A i \in 0 .. Count : i # k => Slot(i)' = Slot(i)
  BY <1>2, <1>4, <1>6, PokeElsewhere
<1>9. ASSUME NEW i \in 0 .. Count
      PROVE  Slot(i)' = Pad(Append(before, de), i)
  <2>1. Slot(i)' = IF i = k THEN de ELSE Pad(before, i)
    BY <1>3, <1>7, <1>8
  <2>2. i \in Nat
    OBVIOUS
  <2>3. Pad(Append(before, de), i) = IF i = k THEN de ELSE Pad(before, i)
    BY <1>5, <2>2
  <2> QED
    BY <2>1, <2>3
<1>10. \A i \in 0 .. Count : Slot(i)' = Pad(Append(before, de), i)
  BY <1>9
<1>11. ListInv' /\ Listed' = Append(before, de)
  BY <1>2, <1>5, <1>10, ReturnListed
<1>12. Listed = before /\ Len(before) < Count
  BY <1>1, <1>2, <1>3 DEF Listed
<1>13. L!Next
  BY <1>2, <1>3, <1>11, <1>12, AddStep
<1> QED
  BY <1>11, <1>13 DEF StepListed

LEMMA SwapLowListed ==
    ASSUME ChainInv, ListInv, ~ spoilt, swap_low
    PROVE  StepListed
<1>1. pc = "swap_low" /\ pc' = "swap_high" /\ at' = at + 1 /\ Poke(de[1])
      /\ de' = <<table[at], de[2]>> /\ UNCHANGED <<before, result>>
  BY DEF swap_low, At
<1>2. PICK h \in Handlers, k \in 0 .. Count - 1 : Prepending(h, k)
  BY <1>1 DEF ListInv, Underway
<1>3. IsList(before) /\ at = 2 * k /\ de = Front(h, before, k) /\ Slot(k) = Pad(before, k)
  BY <1>1, <1>2 DEF ListInv, Underway, Prepending
<1>4. TypeOK /\ k \in 0 .. Count /\ at \in {2 * k, 2 * k + 1}
      /\ 2 * k \in Bytes /\ 2 * k + 1 \in Bytes /\ 2 * k # 2 * k + 1
  BY <1>3, CountAssumption DEF ChainInv, Bytes
<1>5. \A i \in 0 .. Count : i # k => Slot(i)' = Slot(i)
  BY <1>1, <1>4, PokeElsewhere
<1>6. table'[2 * k] = de[1] /\ table'[2 * k + 1] = table[2 * k + 1]
  BY <1>1, <1>3, <1>4 DEF Poke, TypeOK
<1>7. <<de[1], de[2]>> = de
  BY <1>4 DEF TypeOK
<1>8. de'[1] = table[2 * k] /\ de'[2] = de[2] /\ at' = 2 * k + 1
  BY <1>1, <1>3
<1>9. <<table'[2 * k], de'[2]>> = Front(h, before', k)
  BY <1>1, <1>3, <1>6, <1>7, <1>8
<1>10. <<de'[1], table'[2 * k + 1]>> = Pad(before', k)
  BY <1>1, <1>3, <1>6, <1>8 DEF Slot
<1>11. /\ \A i \in 0 .. k - 1 : i \in 0 .. Count /\ i # k
       /\ \A i \in k + 1 .. Count : i \in 0 .. Count /\ i # k
  BY CountAssumption
<1>12. /\ \A i \in 0 .. k - 1 : Slot(i)' = Front(h, before', i)
       /\ \A i \in k + 1 .. Count : Slot(i)' = Pad(before', i)
       /\ k <= Len(before') /\ Len(before') < Count
  BY <1>1, <1>2, <1>5, <1>11 DEF Prepending
<1>13. Prepending(h, k)'
  BY <1>1, <1>8, <1>9, <1>10, <1>12 DEF Prepending
<1>14. Underway'
  BY <1>1, <1>3, <1>13 DEF Underway, IsList
<1> QED
  BY <1>1, <1>14 DEF ListInv, Listed, StepListed

LEMMA SwapHighListed ==
    ASSUME ChainInv, ListInv, ~ spoilt, swap_high
    PROVE  StepListed
<1>1. pc = "swap_high" /\ Poke(de[2])
  BY DEF swap_high, At
<1>2. PICK h \in Handlers, k \in 0 .. Count - 1 : Prepending(h, k)
  BY <1>1 DEF ListInv, Underway
<1>3. /\ IsList(before) /\ at = 2 * k + 1
      /\ <<table[2 * k], de[2]>> = Front(h, before, k)
      /\ <<de[1], table[at]>> = Pad(before, k)
      /\ k <= Len(before) /\ Len(before) < Count
      /\ \A i \in 0 .. k - 1 : Slot(i) = Front(h, before, i)
      /\ \A i \in k + 1 .. Count : Slot(i) = Pad(before, i)
  BY <1>1, <1>2 DEF ListInv, Underway, Prepending
<1>4. TypeOK /\ k \in 0 .. Count /\ at \in {2 * k, 2 * k + 1} /\ Len(before) \in 0 .. Count
  BY <1>3, PadSlot, CountAssumption DEF ChainInv
<1>5. \A i \in 0 .. Count : i # k => Slot(i)' = Slot(i)
  BY <1>1, <1>4, PokeElsewhere
<1>6. Slot(k)' = Front(h, before, k)
  <2>1. de[2] \in 0 .. 255
    BY <1>4 DEF TypeOK
  <2> QED
    BY <1>1, <1>3, <1>4, <2>1, PokeHere
<1>7. /\ \A i \in 0 .. k - 1 : i \in 0 .. Count /\ i # k
      /\ \A i \in k + 1 .. Count : i \in 0 .. Count /\ i # k
  BY CountAssumption
<1>8. /\ \A i \in 0 .. k - 1 : Slot(i)' = Front(h, before, i)
      /\ \A i \in k + 1 .. Count : Slot(i)' = Pad(before, i)
  BY <1>3, <1>5, <1>7
<1>9. CASE <<de[1], table[at]>> = Zero
  <2>1. pc' = "main" /\ result' = 0
    BY <1>9 DEF swap_high, Return
  <2>2. k = Len(before)
    <3>1. ~ (k < Len(before))
      <4> SUFFICES ASSUME k < Len(before) PROVE FALSE
        OBVIOUS
      <4>1. k \in 0 .. Len(before) - 1
        BY <1>4
      <4>2. Pad(before, k) \in Handlers
        BY <1>3, <4>1, PadSlot
      <4> QED
        BY <1>3, <1>9, <4>2, HandlersAssumption DEF Zero
    <3> QED
      BY <1>3, <1>4, <3>1
  <2>3. ASSUME NEW i \in k + 1 .. Count
        PROVE  Slot(i)' = Front(h, before, i)
    <3>1. i \in Int /\ i >= Len(before) /\ i # 0 /\ i - 1 \in Int /\ i - 1 >= Len(before)
      BY <1>4, <2>2, CountAssumption
    <3>2. Pad(before, i) = Zero /\ Pad(before, i - 1) = Zero
      BY <1>3, <3>1, PadSlot
    <3> QED
      BY <1>8, <3>1, <3>2 DEF Front
  <2>4. \A i \in 0 .. Count : i \in 0 .. k - 1 \/ i = k \/ i \in k + 1 .. Count
    BY <1>4, CountAssumption
  <2>5. \A i \in 0 .. Count : Slot(i)' = Front(h, before, i) /\ i \in Nat
    BY <1>6, <1>8, <2>3, <2>4
  <2>6. IsList(<<h>> \o before) /\ \A i \in Nat : Pad(<<h>> \o before, i) = Front(h, before, i)
    BY <1>3, PadFront
  <2>7. \A i \in 0 .. Count : Slot(i)' = Pad(<<h>> \o before, i)
    BY <2>5, <2>6
  <2>8. ListInv' /\ Listed' = <<h>> \o before
    BY <2>1, <2>6, <2>7, ReturnListed
  <2>9. Listed = before
    BY <1>1 DEF Listed
  <2>10. L!Next
    BY <1>3, <2>1, <2>8, <2>9, AddStep
  <2> QED
    BY <2>8, <2>10 DEF StepListed
<1>10. CASE <<de[1], table[at]>> # Zero
  <2>1. /\ de' = <<de[1], table[at]>> /\ at' = at + 1 /\ pc' = "swap_low"
        /\ UNCHANGED <<before, result>>
    BY <1>10 DEF swap_high
  <2>2. k < Len(before)
    <3>1. ~ (k >= Len(before))
      BY <1>3, <1>10, PadSlot
    <3> QED
      BY <1>4, <3>1
  <2>3. k + 1 \in 0 .. Count - 1 /\ k + 1 \in k + 1 .. Count /\ k + 1 <= Len(before)
        /\ at' = 2 * (k + 1)
    BY <1>3, <1>4, <2>1, <2>2, CountAssumption
  <2>4. de' = Front(h, before', k + 1)
    <3>1. k + 1 # 0 /\ (k + 1) - 1 = k
      OBVIOUS
    <3> QED
      BY <1>3, <2>1, <3>1 DEF Front
  <2>5. /\ \A i \in 0 .. (k + 1) - 1 : i \in 0 .. k - 1 \/ i = k
        /\ \A i \in (k + 1) + 1 .. Count : i \in k + 1 .. Count
    BY CountAssumption
  <2>6. /\ \A i \in 0 .. (k + 1) - 1 : Slot(i)' = Front(h, before', i)
        /\ \A i \in (k + 1) + 1 .. Count : Slot(i)' = Pad(before', i)
    BY <1>6, <1>8, <2>1, <2>5
  <2>7. Slot(k + 1)' = Pad(before', k + 1)
    BY <1>8, <2>1, <2>3
  <2>8. Len(before') < Count
    BY <1>3, <2>1
  <2> DEFINE m == k + 1
  <2>9. m \in 0 .. Count - 1 /\ Prepending(h, m)'
    <3>1. /\ m \in 0 .. Count - 1 /\ m <= Len(before') /\ at' = 2 * m /\ de' = Front(h, before', m)
          /\ Slot(m)' = Pad(before', m)
          /\ \A i \in 0 .. m - 1 : Slot(i)' = Front(h, before', i)
          /\ \A i \in m + 1 .. Count : Slot(i)' = Pad(before', i)
      BY <2>1, <2>3, <2>4, <2>6, <2>7
    <3> HIDE DEF m
    <3> QED
      BY <2>1, <2>8, <3>1 DEF Prepending
  <2>10. Underway'
    <3> HIDE DEF m
    <3> QED
      BY <1>3, <2>1, <2>9 DEF Underway, IsList
  <2> QED
    BY <1>1, <2>1, <2>10 DEF ListInv, Listed, StepListed
<1> QED
  BY <1>9, <1>10

LEMMA RemoveLoopListed ==
    ASSUME ChainInv, ListInv, ~ spoilt, remove_loop
    PROVE  StepListed
<1>1. pc = "ldi" /\ Poke(table[at + 2])
  BY DEF remove_loop, At
<1>2. PICK r \in 0 .. Count - 1, k \in 0 .. Count - 1 : Removing(r, k)
  BY <1>1 DEF ListInv, Underway
<1>3. /\ IsList(before) /\ r <= k /\ k < Len(before)
      /\ before[r + 1] = de /\ \A j \in 1 .. r : before[j] # de
      /\ \A i \in 0 .. k - 1 : Slot(i) = Gap(r, before, i)
      /\ \A i \in k + 1 .. Count : Slot(i) = Pad(before, i)
      /\ \/ at = 2 * k /\ Slot(k) = Pad(before, k)
         \/ at = 2 * k + 1 /\ Slot(k) = <<Pad(before, k + 1)[1], Pad(before, k)[2]>>
  BY <1>1, <1>2 DEF ListInv, Underway, Removing
<1>4. Len(before) \in 0 .. Count
  BY <1>3, PadSlot
<1>5. /\ TypeOK /\ k \in 0 .. Count /\ k + 1 \in 0 .. Count /\ at \in {2 * k, 2 * k + 1}
      /\ 2 * k \in Bytes /\ 2 * k + 1 \in Bytes /\ 2 * k + 2 \in Bytes /\ 2 * k + 3 \in Bytes
      /\ 2 * k + 2 = 2 * (k + 1) /\ 2 * k + 3 = 2 * (k + 1) + 1
  <2>1. TypeOK /\ at \in {2 * k, 2 * k + 1}
    BY <1>3 DEF ChainInv
  <2>2. /\ k \in 0 .. Count /\ k + 1 \in 0 .. Count
        /\ 2 * k \in Bytes /\ 2 * k + 1 \in Bytes /\ 2 * k + 2 \in Bytes /\ 2 * k + 3 \in Bytes
    BY CountAssumption DEF Bytes
  <2> QED
    BY <2>1, <2>2
<1>6. ASSUME NEW i \in 0 .. Count, i # k
      PROVE  Slot(i)' = Slot(i)
  <2>1. TypeOK /\ k \in 0 .. Count /\ at \in {2 * k, 2 * k + 1}
    BY <1>5
  <2> QED
    BY <1>1, <1>6, <2>1, PokeElsewhere
<1>7. /\ \A i \in 0 .. k - 1 : i \in 0 .. Count /\ i # k
      /\ \A i \in k + 1 .. Count : i \in 0 .. Count /\ i # k
  BY CountAssumption
<1>8. /\ \A i \in 0 .. k - 1 : Slot(i)' = Gap(r, before, i)
      /\ \A i \in k + 1 .. Count : Slot(i)' = Pad(before, i)
  BY <1>3, <1>6, <1>7
<1>9. Pad(before, k + 1) = <<table[2 * k + 2], table[2 * k + 3]>>
  <2>1. Slot(k + 1) = <<table[2 * k + 2], table[2 * k + 3]>>
    BY <1>5 DEF Slot
  <2>2. k + 1 \in k + 1 .. Count
    BY CountAssumption
  <2>3. Slot(k + 1) = Pad(before, k + 1)
    BY <1>3, <2>2
  <2> QED
    BY <2>1, <2>3
<1>10. table[at + 2] \in 0 .. 255
  <2>1. at + 2 \in Bytes
    BY <1>5
  <2> QED
    BY <1>5, <2>1 DEF TypeOK
<1>11. CASE at = 2 * k
  <2>1. at % 2 # 1
    BY <1>11
  <2>2. at' = 2 * k + 1 /\ UNCHANGED <<pc, de, before, result>>
    BY <1>1, <1>11, <2>1 DEF remove_loop
  <2>3. Slot(k) = Pad(before, k)
    BY <1>3, <1>11
  <2>4. Slot(k)' = <<table[2 * k + 2], table[2 * k + 1]>>
    <3>1. Slot(k)' = <<table[at + 2], table[2 * k + 1]>>
      BY <1>1, <1>5, <1>10, <1>11, PokeHere
    <3> QED
      BY <1>11, <3>1
  <2>5. table[2 * k + 1] = Pad(before, k)[2]
    BY <2>3 DEF Slot
  <2>6. Slot(k)' = <<Pad(before', k + 1)[1], Pad(before', k)[2]>>
    BY <1>9, <2>2, <2>4, <2>5
  <2>7. Removing(r, k)'
    BY <1>3, <1>8, <2>2, <2>6 DEF Removing
  <2>8. Underway'
    BY <1>1, <1>3, <2>2, <2>7 DEF Underway, IsList
  <2> QED
    BY <1>1, <2>2, <2>8 DEF ListInv, Listed, StepListed
<1>12. CASE at = 2 * k + 1
  <2>1. at % 2 = 1 /\ at + 1 = 2 * k + 2 /\ at + 2 = 2 * k + 3
    BY <1>12
  <2>2. Slot(k)' = Pad(before, k + 1)
    <3>1. Slot(k)' = <<table[2 * k], table[2 * k + 3]>>
      BY <1>1, <1>5, <1>10, <1>12, <2>1, PokeHere
    <3>2. Slot(k) = <<Pad(before, k + 1)[1], Pad(before, k)[2]>>
      BY <1>3, <1>12
    <3>3. table[2 * k] = Pad(before, k + 1)[1]
      BY <3>2 DEF Slot
    <3> QED
      BY <1>9, <3>1, <3>3
  <2>3. Copied = Pad(before, k + 1)
    BY <1>9, <2>1 DEF Copied
  <2>4. Slot(k)' = Gap(r, before, k)
    <3>1. ~ (k < r)
      BY <1>3
    <3> QED
      BY <2>2, <3>1 DEF Gap
  <2>5. CASE Copied = Zero
    <3>1. pc' = "main" /\ result' = 0
      BY <2>1, <2>5 DEF remove_loop, Return
    <3>2. k + 1 = Len(before)
      <4>1. ~ (k + 1 < Len(before))
        <5> SUFFICES ASSUME k + 1 < Len(before) PROVE FALSE
          OBVIOUS
        <5>1. k + 1 \in 0 .. Len(before) - 1
          BY <1>4
        <5>2. Pad(before, k + 1) \in Handlers
          BY <1>3, <5>1, PadSlot
        <5> QED
          BY <2>3, <2>5, <5>2, HandlersAssumption DEF Zero
      <4> QED
        BY <1>3, <1>4, <4>1
    <3>3. ASSUME NEW i \in k + 1 .. Count
          PROVE  Slot(i)' = Gap(r, before, i)
      <4>1. i \in Int /\ i >= Len(before) /\ i + 1 \in Int /\ i + 1 >= Len(before) /\ ~ (i < r)
        BY <1>3, <1>4, <3>2, CountAssumption
      <4>2. Pad(before, i) = Zero /\ Pad(before, i + 1) = Zero
        BY <1>3, <4>1, PadSlot
      <4> QED
        BY <1>8, <4>1, <4>2 DEF Gap
    <3>4. \A i \in 0 .. Count : i \in 0 .. k - 1 \/ i = k \/ i \in k + 1 .. Count
      BY CountAssumption
    <3>5. \A i \in 0 .. Count : Slot(i)' = Gap(r, before, i) /\ i \in Nat
      BY <1>8, <2>4, <3>3, <3>4
    <3>6. r \in 0 .. Len(before) - 1
      BY <1>3, <1>4
    <3>7. IsList(Without(before, r)) /\ \A i \in Nat : Pad(Without(before, r), i) = Gap(r, before, i)
      BY <1>3, <3>6, PadGap
    <3>8. \A i \in 0 .. Count : Slot(i)' = Pad(Without(before, r), i)
      BY <3>5, <3>7
    <3>9. ListInv' /\ Listed' = Without(before, r)
      BY <3>1, <3>7, <3>8, ReturnListed
    <3>10. Listed = before /\ \A j \in 1 .. r : before[j] # before[r + 1]
      BY <1>1, <1>3 DEF Listed
    <3>11. L!Next
      BY <1>3, <3>1, <3>6, <3>9, <3>10, RemoveStep
    <3> QED
      BY <3>9, <3>11 DEF StepListed
  <2>6. CASE Copied # Zero
    <3>1. at' = 2 * k + 2 /\ UNCHANGED <<pc, de, before, result>>
      BY <1>1, <1>12, <2>1, <2>6 DEF remove_loop
    <3>2. k + 1 < Len(before)
      <4>1. ~ (k + 1 >= Len(before))
        BY <1>3, <2>3, <2>6, PadSlot
      <4> QED
        BY <1>4, <4>1
    <3>3. k + 1 \in 0 .. Count - 1 /\ k + 1 \in k + 1 .. Count /\ r <= k + 1
      BY <1>3, <1>4, <3>2, CountAssumption
    <3>4. /\ \A i \in 0 .. (k + 1) - 1 : i \in 0 .. k - 1 \/ i = k
          /\ \A i \in (k + 1) + 1 .. Count : i \in k + 1 .. Count
      BY CountAssumption
    <3> DEFINE m == k + 1
    <3>5. /\ m \in 0 .. Count - 1 /\ r <= m /\ m < Len(before') /\ at' = 2 * m
          /\ Slot(m)' = Pad(before', m)
          /\ \A i \in 0 .. m - 1 : Slot(i)' = Gap(r, before', i)
          /\ \A i \in m + 1 .. Count : Slot(i)' = Pad(before', i)
      BY <1>5, <1>8, <2>4, <3>1, <3>2, <3>3, <3>4
    <3>6. before'[r + 1] = de' /\ \A j \in 1 .. r : before'[j] # de'
      BY <1>3, <3>1
    <3> HIDE DEF m
    <3>7. Removing(r, m)'
      BY <3>5, <3>6 DEF Removing
    <3>8. Underway'
      BY <1>1, <1>3, <3>1, <3>5, <3>7 DEF Underway, IsList
    <3> QED
      BY <1>1, <3>1, <3>8 DEF ListInv, Listed, StepListed
  <2> QED
    BY <2>5, <2>6
<1> QED
  BY <1>5, <1>11, <1>12

-----------------------------------------------------------------------------
(* A handler changes the chain at once. *)
LEMMA RewriteListed ==
    ASSUME ChainInv, ListInv, ~ spoilt, ~ spoilt', pc = "main", pc' = "main", Rewrite, result' = 0
    PROVE  StepListed
<1>1. PICK s : s = Chain
  OBVIOUS
<1>2. Holds(s) /\ Listed = s
  BY <1>1 DEF ListInv, Listed
<1>3. IsList(s) /\ Len(s) \in 0 .. Count /\ \A i \in 0 .. Count : Slot(i) = Pad(s, i)
  BY <1>2, HoldsSlot DEF Holds
<1>4. table \in [Bytes -> 0 .. 255]
  BY DEF ChainInv, TypeOK
<1>5. CASE table' \in Added
  <2>1. PICK i \in First(0 .. Count - 1, Zero), h \in Handlers : table' = Inserted(i, h)
    BY <1>5 DEF Added
  <2>2. i = Len(s) /\ Len(s) < Count
    BY <1>2, FreeSlot
  <2>3. i \in 0 .. Count - 1
    BY <1>3, <2>2, CountAssumption
  <2>4. h[1] \in 0 .. 255 /\ h[2] \in 0 .. 255 /\ <<h[1], h[2]>> = h
    BY HandlerBytes
  <2>5. table' = [table EXCEPT ![2 * i] = h[1], ![2 * i + 1] = h[2]]
    BY <2>1 DEF Inserted
  <2>6. 2 * i \in Bytes /\ 2 * i + 1 \in Bytes /\ 2 * i # 2 * i + 1
    BY <2>3, CountAssumption DEF Bytes
  <2>7. Slot(i)' = h
    BY <1>4, <2>4, <2>5, <2>6 DEF Slot
  <2>8. ASSUME NEW j \in 0 .. Count, j # i
        PROVE  Slot(j)' = Slot(j)
    <3>1. 2 * j \in Bytes /\ 2 * j + 1 \in Bytes
          /\ 2 * j \notin {2 * i, 2 * i + 1} /\ 2 * j + 1 \notin {2 * i, 2 * i + 1}
      BY <2>3, <2>8, CountAssumption DEF Bytes
    <3> QED
      BY <1>4, <2>5, <3>1 DEF Slot
  <2>9. IsList(Append(s, h))
        /\ \A j \in Nat : Pad(Append(s, h), j) = IF j = Len(s) THEN h ELSE Pad(s, j)
    BY <1>3, <2>2, PadAppend
  <2>10. ASSUME NEW j \in 0 .. Count
         PROVE  Slot(j)' = Pad(Append(s, h), j)
    <3>1. Slot(j)' = IF j = i THEN h ELSE Pad(s, j)
      BY <1>3, <2>7, <2>8
    <3>2. j \in Nat
      OBVIOUS
    <3>3. Pad(Append(s, h), j) = IF j = Len(s) THEN h ELSE Pad(s, j)
      BY <2>9, <3>2
    <3> QED
      BY <2>2, <3>1, <3>3
  <2>11. IsList(Append(s, h)) /\ \A j \in 0 .. Count : Slot(j)' = Pad(Append(s, h), j)
    BY <2>9, <2>10
  <2>12. ListInv' /\ Listed' = Append(s, h)
    BY <2>11, ReturnListed
  <2>13. L!Next
    BY <1>2, <2>2, <2>12, AddStep
  <2> QED
    BY <2>12, <2>13 DEF StepListed
<1>6. CASE kind = "im2" /\ table' \in {Removed(i) : i \in Occurrences}
  <2>1. PICK h \in Handlers : \E i \in First(Used, h) : table' = Removed(i)
    BY <1>6 DEF Occurrences
  <2>2. PICK i \in First(Used, h) : table' = Removed(i)
    BY <2>1
  <2>3. i \in 0 .. Len(s) - 1 /\ s[i + 1] = h /\ \A j \in 1 .. i : s[j] # h
    BY <1>2, SlotOf
  <2>4. \A x \in Bytes : table'[x] = IF x < 2 * i THEN table[x]
                                     ELSE IF x + 2 \in Bytes THEN table[x + 2] ELSE 0
    BY <2>2 DEF Removed
  <2>5. i \in 0 .. Count - 1
    BY <1>3, <2>3, CountAssumption
  <2>6. ASSUME NEW j \in 0 .. Count - 1
        PROVE  Slot(j)' = IF j < i THEN Slot(j) ELSE Slot(j + 1)
    <3>1. 2 * j \in Bytes /\ 2 * j + 1 \in Bytes
          /\ 2 * j + 2 \in Bytes /\ 2 * j + 1 + 2 \in Bytes
          /\ 2 * (j + 1) = 2 * j + 2 /\ 2 * (j + 1) + 1 = 2 * j + 1 + 2
          /\ (j < i <=> 2 * j < 2 * i) /\ (j < i <=> 2 * j + 1 < 2 * i)
      BY <2>5, CountAssumption DEF Bytes
    <3> QED
      BY <2>4, <3>1 DEF Slot
  <2>7. Slot(Count)' = Zero
    <3>1. 2 * Count \in Bytes /\ 2 * Count + 1 \in Bytes
          /\ 2 * Count + 2 \notin Bytes /\ 2 * Count + 1 + 2 \notin Bytes
          /\ ~ (2 * Count < 2 * i) /\ ~ (2 * Count + 1 < 2 * i)
      BY <2>5, CountAssumption DEF Bytes
    <3> QED
      BY <2>4, <3>1 DEF Slot, Zero
  <2>8. IsList(Without(s, i)) /\ \A j \in Nat : Pad(Without(s, i), j) = Gap(i, s, j)
    BY <1>3, <2>3, PadGap
  <2>9. ASSUME NEW j \in 0 .. Count
        PROVE  Slot(j)' = Pad(Without(s, i), j)
    <3>1. CASE j # Count
      <4>1. j \in 0 .. Count - 1 /\ j + 1 \in 0 .. Count /\ j \in Nat
        BY <3>1, CountAssumption
      <4>2. Slot(j)' = Gap(i, s, j)
        BY <1>3, <2>6, <4>1 DEF Gap
      <4> QED
        BY <2>8, <4>1, <4>2
    <3>2. CASE j = Count
      <4>1. j \in Nat /\ ~ (j < i) /\ j + 1 \in Int /\ j + 1 >= Len(s)
        BY <1>3, <2>5, <3>2, CountAssumption
      <4>2. Pad(s, j + 1) = Zero
        BY <1>3, <4>1, PadSlot
      <4>3. Gap(i, s, j) = Zero
        BY <4>1, <4>2 DEF Gap
      <4> QED
        BY <2>7, <2>8, <3>2, <4>1, <4>3
    <3> QED
      BY <3>1, <3>2
  <2>10. IsList(Without(s, i)) /\ \A j \in 0 .. Count : Slot(j)' = Pad(Without(s, i), j)
    BY <2>8, <2>9
  <2>11. ListInv' /\ Listed' = Without(s, i)
    BY <2>10, ReturnListed
  <2>12. L!Next
    BY <1>2, <1>3, <2>3, <2>11, RemoveStep
  <2> QED
    BY <2>11, <2>12 DEF StepListed
<1> QED
  BY <1>5, <1>6 DEF Rewrite

LEMMA DispatchListed ==
    ASSUME ChainInv, ListInv, ~ spoilt, ~ spoilt', interrupt \/ Dispatch \/ UNCHANGED vars
    PROVE  StepListed
<1>1. CASE UNCHANGED <<table, pc, at, de, before, result>>
  BY <1>1, StutterListed DEF StepListed
<1>2. CASE call_handler /\ pc = "main" /\ Rewrite /\ result' = 0
  <2>1. pc' = "main"
    BY <1>2 DEF call_handler
  <2> QED
    BY <1>2, <2>1, RewriteListed
<1>3. CASE interrupt \/ done \/ stray \/ UNCHANGED vars
  BY <1>1, <1>3 DEF interrupt, done, stray, program, vars
<1>4. CASE call_handler
  BY <1>1, <1>2, <1>4 DEF call_handler
<1> QED
  BY <1>3, <1>4 DEF Dispatch

LEMMA NextListed ==
    ASSUME ChainInv, ListInv, ~ spoilt, ~ spoilt', [Next]_vars
    PROVE  StepListed
<1>1. CASE \E h \in Handlers : add_handler(h) \/ append_callback(h) \/ prepend_callback(h)
  BY <1>1, AddHandlerListed
<1>2. CASE \E h \in Handlers : remove_handler(h) \/ remove_callback(h)
  BY <1>2, RemoveHandlerListed
<1>3. CASE write_high \/ write_low \/ swap_low \/ swap_high \/ remove_loop
  BY <1>3, WriteHighListed, WriteLowListed, SwapLowListed, SwapHighListed, RemoveLoopListed
<1>4. CASE move_chain \/ clear_last
  <2>1. CASE move_chain
    BY <2>1 DEF move_chain
  <2>2. CASE clear_last
    BY <2>2 DEF clear_last, At, ListInv, Underway
  <2> QED
    BY <1>4, <2>1, <2>2
<1>5. CASE interrupt \/ Dispatch \/ UNCHANGED vars
  BY <1>5, DispatchListed
<1> QED
  BY <1>1, <1>2, <1>3, <1>4, <1>5 DEF Next, Changing

(* Nothing repairs a chain that code has been copied into. *)
LEMMA SpoiltStays ==
    ASSUME spoilt, [Next]_vars
    PROVE  spoilt'
<1>1. CASE UNCHANGED spoilt
  BY <1>1, Zenon
<1>2. CASE spoilt' = TRUE
  BY <1>2, Zenon
<1>3. (UNCHANGED spoilt) \/ spoilt' = TRUE
  <2>1. CASE \E h \in Handlers :
                \/ add_handler(h) \/ remove_handler(h)
                \/ append_callback(h) \/ prepend_callback(h) \/ remove_callback(h)
    BY <2>1 DEF add_handler, remove_handler, append_callback, prepend_callback, remove_callback,
                Begin, Reject
  <2>2. CASE Changing
    BY <2>2 DEF Changing, write_high, write_low, move_chain, clear_last, swap_low, swap_high, remove_loop
  <2>3. CASE interrupt \/ done \/ stray \/ UNCHANGED vars
    BY <2>3 DEF interrupt, done, stray, vars
  <2>4. CASE call_handler
    BY <2>4 DEF call_handler, Rewrite
  <2> QED
    BY <2>1, <2>2, <2>3, <2>4 DEF Next, Dispatch
<1> QED
  BY <1>1, <1>2, <1>3

LEMMA InitListed == Init => ListInv /\ Listed = <<>> /\ result = 0
<1> SUFFICES ASSUME Init PROVE ListInv /\ Listed = <<>> /\ result = 0
  OBVIOUS
<1>1. \A i \in 0 .. Count : Slot(i) = Zero
  BY CountAssumption DEF Init, Slot, Zero, Bytes
<1>2. IsList(<<>>) /\ \A i \in 0 .. Count : Pad(<<>>, i) = Zero
  BY CountAssumption DEF IsList, Pad
<1>3. Holds(<<>>)
  BY <1>1, <1>2 DEF Holds
<1>4. Chain = <<>> /\ Holds(Chain)
  BY <1>3, HoldsChain
<1> QED
  BY <1>4 DEF Init, ListInv, Listed

(***************************************************************************)
(* Between the calls the table holds a list and zeros behind it; during a  *)
(* call, up to the slot it has reached, what it will hold, and from there  *)
(* on what it held.                                                        *)
(***************************************************************************)
THEOREM ChainListInvariant == Spec => []ListInv
<1>1. Init => ListInv
  BY InitListed
<1>2. ChainInv /\ ListInv /\ [Next]_vars => ListInv'
  <2> SUFFICES ASSUME ChainInv, ListInv, [Next]_vars PROVE ListInv'
    OBVIOUS
  <2>1. CASE spoilt'
    BY <2>1 DEF ListInv
  <2>2. CASE ~ spoilt'
    BY <2>2, SpoiltStays, NextListed DEF StepListed
  <2> QED
    BY <2>1, <2>2
<1> QED
  BY <1>1, <1>2, ChainInvariant, PTL DEF Spec

(***************************************************************************)
(* Up to the first asm_interrupt_remove_handler the chain is a list: each  *)
(* call that adds or removes a handler does so in one step of the list,    *)
(* with the result it reports, however many bytes it writes and whatever   *)
(* interrupts it; and so does a handler that changes the chain itself.     *)
(***************************************************************************)
THEOREM ChainImplementsHandlerList == Spec => ImplementsHandlerList
<1>1. Init => L!Init
  BY InitListed DEF L!Init, Listed
<1>2. ChainInv /\ ListInv /\ [Next]_vars
        => [L!Next \/ spoilt']_<<IF pc = "main" THEN Chain ELSE before, result>>
  <2> SUFFICES ASSUME ChainInv, ListInv, [Next]_vars, ~ spoilt'
               PROVE  L!Next \/ UNCHANGED <<IF pc = "main" THEN Chain ELSE before, result>>
    OBVIOUS
  <2>1. StepListed
    BY SpoiltStays, NextListed
  <2> QED
    BY <2>1 DEF StepListed, Listed
<1> QED
  BY <1>1, <1>2, ChainInvariant, ChainListInvariant, PTL DEF Spec, ImplementsHandlerList

-----------------------------------------------------------------------------
(***************************************************************************)
(* What the dispatcher has called are the slots it has passed, unless a    *)
(* handler has changed the chain under it.                                 *)
(***************************************************************************)
ServedInv ==
    /\ isr = Off => calls = <<>> /\ ~ changed
    /\ isr >= 0 /\ ~ changed =>
          /\ calls \in Seq(Handlers) /\ Len(calls) = isr
          /\ \A i \in 0 .. isr - 1 : Slot(i) = calls[i + 1]

(* The program runs when nothing is served. *)
LEMMA ProgramServed ==
    ASSUME ServedInv, isr = Off, UNCHANGED dispatch
    PROVE  ServedInv'
<1>1. isr' = Off /\ calls' = calls /\ changed' = changed
  BY DEF dispatch
<1>2. calls = <<>> /\ ~ changed
  BY DEF ServedInv
<1>3. ~ changed'
  BY <1>1, <1>2, Zenon
<1> QED
  BY <1>1, <1>2, <1>3 DEF ServedInv, Off

LEMMA InterruptServed ==
    ASSUME ServedInv, interrupt \/ done \/ stray
    PROVE  ServedInv'
<1>1. CASE interrupt
  <2>1. calls' = <<>> /\ isr' = 0
    BY <1>1 DEF interrupt, ServedInv
  <2>2. calls' \in Seq(Handlers) /\ Len(calls') = 0
    BY <2>1
  <2>3. \A i \in 0 .. 0 - 1 : FALSE
    OBVIOUS
  <2> QED
    BY <2>1, <2>2, <2>3 DEF ServedInv, Off
<1>2. CASE done
  <2>1. isr' = Off /\ calls' = <<>> /\ changed' = FALSE
    BY <1>2 DEF done, Leave
  <2>2. ~ changed'
    BY <2>1, Zenon
  <2> QED
    BY <2>1, <2>2 DEF ServedInv, Off
<1>3. CASE stray
  BY <1>3 DEF stray, ServedInv, Off, Lost
<1> QED
  BY <1>1, <1>2, <1>3

LEMMA CallServed ==
    ASSUME ChainInv, ServedInv, call_handler
    PROVE  ServedInv'
<1>1. isr \in Nat /\ Slot(isr) \in Handlers
  BY CountAssumption DEF call_handler, ChainInv, TypeOK, Off, Lost
<1>2. CASE Leave
  <2>1. isr' = Off /\ calls' = <<>> /\ changed' = FALSE
    BY <1>2 DEF Leave
  <2>2. ~ changed'
    BY <2>1, Zenon
  <2> QED
    BY <2>1, <2>2 DEF ServedInv, Off
<1>3. CASE Advance /\ changed' = TRUE
  <2>1. changed'
    BY <1>3, Zenon
  <2> QED
    BY <1>1, <1>3, <2>1 DEF Advance, ServedInv, Off
<1>4. CASE Advance /\ calls' = Append(calls, Slot(isr)) /\ UNCHANGED <<table, spoilt, result, changed>>
  <2> SUFFICES ASSUME ~ changed'
               PROVE  /\ calls' \in Seq(Handlers) /\ Len(calls') = isr'
                      /\ \A i \in 0 .. isr' - 1 : Slot(i)' = calls'[i + 1]
    <3>1. isr' # Off
      BY <1>1, <1>4 DEF Advance, Off
    <3> QED
      BY <3>1, Zenon DEF ServedInv
  <2>1. ~ changed
    <3>1. changed' = changed
      BY <1>4
    <3> QED
      BY <3>1, Zenon
  <2>2. isr >= 0
    BY <1>1
  <2>3. /\ calls \in Seq(Handlers) /\ Len(calls) = isr
        /\ \A i \in 0 .. isr - 1 : Slot(i) = calls[i + 1]
    BY <2>1, <2>2 DEF ServedInv
  <2>4. PICK h \in Handlers : h = Slot(isr)
    BY <1>1
  <2>5. calls' = Append(calls, h)
    BY <1>4, <2>4
  <2>6. /\ Append(calls, h) \in Seq(Handlers) /\ Len(Append(calls, h)) = Len(calls) + 1
        /\ (\A i \in 1 .. Len(calls) : Append(calls, h)[i] = calls[i])
        /\ Append(calls, h)[Len(calls) + 1] = h
    BY <2>3, AppendProperties
  <2>7. isr' = isr + 1
    BY <1>4 DEF Advance
  <2>8. calls' \in Seq(Handlers) /\ Len(calls') = isr'
    BY <2>3, <2>5, <2>6, <2>7
  <2>9. ASSUME NEW i \in 0 .. isr' - 1
        PROVE  Slot(i)' = calls'[i + 1]
    <3>1. Slot(i)' = Slot(i)
      BY <1>4 DEF Slot
    <3>2. CASE i = isr
      BY <2>3, <2>4, <2>5, <2>6, <3>1, <3>2
    <3>3. CASE i # isr
      <4>1. i \in 0 .. isr - 1 /\ i + 1 \in 1 .. Len(calls)
        BY <1>1, <2>3, <2>7, <3>3
      <4> QED
        BY <2>3, <2>5, <2>6, <3>1, <4>1
    <3> QED
      BY <3>2, <3>3
  <2> QED
    BY <2>7, <2>8, <2>9
<1> QED
  BY <1>2, <1>3, <1>4 DEF call_handler

THEOREM ChainServedInvariant == Spec => []ServedInv
<1>1. Init => ServedInv
  BY DEF Init, ServedInv, Off
<1>2. ChainInv /\ ServedInv /\ [Next]_vars => ServedInv'
  <2> SUFFICES ASSUME ChainInv, ServedInv, [Next]_vars PROVE ServedInv'
    OBVIOUS
  <2>1. CASE \E h \in Handlers :
                \/ add_handler(h) \/ remove_handler(h)
                \/ append_callback(h) \/ prepend_callback(h) \/ remove_callback(h)
    <3>1. isr = Off /\ UNCHANGED dispatch
      BY <2>1 DEF add_handler, remove_handler, append_callback, prepend_callback, remove_callback,
                  At, Begin, Reject
    <3> QED
      BY <3>1, ProgramServed
  <2>2. CASE Changing
    <3>1. isr = Off /\ UNCHANGED dispatch
      BY <2>2 DEF Changing, At, write_high, write_low, move_chain, clear_last,
                  swap_low, swap_high, remove_loop
    <3> QED
      BY <3>1, ProgramServed
  <2>3. CASE interrupt \/ done \/ stray
    BY <2>3, InterruptServed
  <2>4. CASE call_handler
    BY <2>4, CallServed
  <2>5. CASE UNCHANGED vars
    <3>1. isr' = isr /\ calls' = calls /\ changed' = changed /\ table' = table
      BY <2>5 DEF vars, dispatch
    <3>2. changed' <=> changed
      BY <3>1, Zenon
    <3> QED
      BY <3>1, <3>2 DEF ServedInv, Slot
  <2> QED
    BY <2>1, <2>2, <2>3, <2>4, <2>5 DEF Next, Dispatch
<1> QED
  BY <1>1, <1>2, ChainInvariant, PTL DEF Spec

(* When the dispatcher is done at a zero slot, it has called whatever      *)
(* stands before the first zero.                                           *)
LEMMA Passed ==
    ASSUME ServedInv, ~ changed, isr \in 0 .. Count, Slot(isr) = Zero,
           NEW m \in Nat, \A x \in 0 .. m - 1 : Slot(x) # Zero,
           NEW y \in 0 .. m - 1
    PROVE  \E k \in 1 .. Len(calls) : calls[k] = Slot(y)
<1>1. isr \in Nat /\ isr >= 0
  OBVIOUS
<1>2. Len(calls) = isr /\ \A i \in 0 .. isr - 1 : Slot(i) = calls[i + 1]
  BY <1>1 DEF ServedInv
<1>3. ~ (isr < m)
  <2> SUFFICES ASSUME isr < m PROVE FALSE
    OBVIOUS
  <2>1. isr \in 0 .. m - 1
    BY <1>1
  <2> QED
    BY <2>1
<1>4. y \in 0 .. isr - 1 /\ y + 1 \in 1 .. Len(calls)
  BY <1>1, <1>2, <1>3
<1> QED
  BY <1>2, <1>4

(* A list in the table is served from its first handler to its last. *)
LEMMA ListServed ==
    ASSUME ServedInv, ~ changed, isr \in 0 .. Count, Slot(isr) = Zero
    PROVE  calls = Chain
<1>1. isr \in Nat /\ isr >= 0 /\ isr <= Count
  BY CountAssumption
<1>2. calls \in Seq(Handlers) /\ Len(calls) = isr /\ \A i \in 0 .. isr - 1 : Slot(i) = calls[i + 1]
  BY <1>1 DEF ServedInv
<1>3. IsList(calls)
  BY <1>1, <1>2 DEF IsList
<1>4. Slot(Len(calls)) = Zero /\ \A i \in 0 .. Len(calls) - 1 : Slot(i) = calls[i + 1]
  BY <1>2
<1> QED
  BY <1>3, <1>4, ChainIs

(* The handlers of a list, by their slots. *)
LEMMA HandlerAt ==
    ASSUME IsList(before), NEW i \in 1 .. Len(before)
    PROVE  /\ i - 1 \in 0 .. Len(before) - 1 /\ Len(before) \in 0 .. Count
           /\ before[i] = Pad(before, i - 1) /\ before[i] \in Handlers /\ before[i] # Zero
<1>1. Len(before) \in 0 .. Count
  BY PadSlot
<1>2. i - 1 \in 0 .. Len(before) - 1 /\ (i - 1) + 1 = i
  BY <1>1
<1>3. Pad(before, i - 1) = before[(i - 1) + 1] /\ Pad(before, i - 1) \in Handlers
  BY <1>2, PadSlot
<1> QED
  BY <1>1, <1>2, <1>3, HandlersAssumption DEF Zero

(* The interrupted call puts a handler in front. *)
LEMMA PrependServes ==
    ASSUME ServedInv, ~ changed, isr \in 0 .. Count, Slot(isr) = Zero, NoneInPageZero,
           IsList(before), NEW h \in Handlers, NEW k \in 0 .. Count - 1, Prepending(h, k),
           pc \in {"swap_low", "swap_high"}, NEW i \in 1 .. Len(before)
    PROVE  before[i] \in Carried \/ \E c \in 1 .. Len(calls) : calls[c] = before[i]
<1>1. /\ i - 1 \in 0 .. Len(before) - 1 /\ Len(before) \in 0 .. Count
      /\ before[i] = Pad(before, i - 1)
  BY HandlerAt
<1>2. /\ k <= Len(before)
      /\ \A x \in 0 .. k - 1 : Slot(x) = Front(h, before, x)
      /\ \A x \in k + 1 .. Count : Slot(x) = Pad(before, x)
  BY DEF Prepending
<1>3. \A x \in 0 .. Len(before) - 1 : Pad(before, x) \in Handlers
  BY PadSlot
<1>4. ASSUME NEW x \in 0 .. Len(before) - 1
      PROVE  Slot(x) # Zero
  <2>1. CASE x < k
    <3>1. x \in 0 .. k - 1
      BY <2>1
    <3>2. Slot(x) = Front(h, before, x)
      BY <1>2, <3>1
    <3>3. x = 0 \/ x - 1 \in 0 .. Len(before) - 1
      BY <1>1
    <3>4. Front(h, before, x) \in Handlers
      BY <1>3, <3>3 DEF Front
    <3> QED
      BY <3>2, <3>4, HandlersAssumption DEF Zero
  <2>2. CASE x = k /\ pc = "swap_low"
    <3>1. Slot(x) = Pad(before, x)
      BY <2>2 DEF Prepending
    <3> QED
      BY <1>3, <3>1, HandlersAssumption DEF Zero
  <2>3. CASE x = k /\ pc = "swap_high"
    <3>1. <<de[1], table[2 * k + 1]>> = Pad(before, k)
      BY <2>3 DEF Prepending
    <3>2. table[2 * k + 1] # 0
      <4>1. Pad(before, k) \in Handlers
        BY <1>3, <2>3
      <4>2. table[2 * k + 1] = Pad(before, k)[2]
        BY <3>1
      <4> QED
        BY <4>1, <4>2 DEF NoneInPageZero
    <3> QED
      BY <2>3, <3>2 DEF Slot, Zero
  <2>4. CASE x > k
    <3>1. x \in k + 1 .. Count
      BY <1>1, <2>4, CountAssumption
    <3> QED
      BY <1>2, <1>3, <3>1, HandlersAssumption DEF Zero
  <2> QED
    BY <2>1, <2>2, <2>3, <2>4
<1>5. ASSUME NEW y \in 0 .. Len(before) - 1, Slot(y) = before[i]
      PROVE  \E c \in 1 .. Len(calls) : calls[c] = before[i]
  <2>1. Len(before) \in Nat
    BY <1>1
  <2> QED
    BY <1>4, <1>5, <2>1, Passed
<1>6. CASE i - 1 > k
  <2>1. i - 1 \in k + 1 .. Count
    BY <1>1, <1>6, CountAssumption
  <2> QED
    BY <1>1, <1>2, <1>5, <2>1
<1>7. CASE i - 1 = k
  <2>1. CASE pc = "swap_low"
    <3>1. Slot(k) = Pad(before, k)
      BY <2>1 DEF Prepending
    <3> QED
      BY <1>1, <1>5, <1>7, <3>1
  <2>2. CASE pc = "swap_high"
    <3>1. at = 2 * k + 1 /\ <<de[1], table[2 * k + 1]>> = Pad(before, k)
      BY <2>2 DEF Prepending
    <3>2. <<de[1], table[at]>> = before[i]
      BY <1>1, <1>7, <3>1
    <3> QED
      BY <2>2, <3>2 DEF Carried
  <2> QED
    BY <2>1, <2>2
<1>8. CASE i = k
  <2>1. Front(h, before, k) = before[i]
    <3>1. k # 0
      BY <1>8
    <3> QED
      BY <1>1, <1>8, <3>1 DEF Front
  <2>2. CASE pc = "swap_low"
    <3>1. de = Front(h, before, k)
      BY <2>2 DEF Prepending
    <3> QED
      BY <2>1, <2>2, <3>1 DEF Carried
  <2>3. CASE pc = "swap_high"
    <3>1. at = 2 * k + 1 /\ <<table[2 * k], de[2]>> = Front(h, before, k)
      BY <2>3 DEF Prepending
    <3>2. at - 1 = 2 * k
      BY <3>1
    <3>3. <<table[at - 1], de[2]>> = before[i]
      BY <2>1, <3>1, <3>2
    <3> QED
      BY <2>3, <3>3 DEF Carried
  <2> QED
    BY <2>2, <2>3
<1>9. CASE i < k
  <2>1. i \in 0 .. k - 1 /\ i # 0 /\ i \in 0 .. Len(before) - 1
    BY <1>1, <1>2, <1>9
  <2>2. Slot(i) = before[i]
    BY <1>1, <1>2, <2>1 DEF Front
  <2> QED
    BY <1>5, <2>1, <2>2
<1> QED
  BY <1>6, <1>7, <1>8, <1>9

(* The interrupted call takes a handler away. *)
LEMMA RemoveServes ==
    ASSUME ServedInv, ~ changed, isr \in 0 .. Count, Slot(isr) = Zero, NoneInPageZero,
           IsList(before), NEW r \in 0 .. Count - 1, NEW k \in 0 .. Count - 1, Removing(r, k),
           pc = "ldi", NEW i \in 1 .. Len(before)
    PROVE  before[i] \in Carried \/ \E c \in 1 .. Len(calls) : calls[c] = before[i]
<1>1. /\ i - 1 \in 0 .. Len(before) - 1 /\ Len(before) \in 0 .. Count
      /\ before[i] = Pad(before, i - 1)
  BY HandlerAt
<1>2. /\ r <= k /\ k < Len(before) /\ before[r + 1] = de
      /\ \A x \in 0 .. k - 1 : Slot(x) = Gap(r, before, x)
      /\ \A x \in k + 1 .. Count : Slot(x) = Pad(before, x)
      /\ \/ Slot(k) = Pad(before, k)
         \/ Slot(k) = <<Pad(before, k + 1)[1], Pad(before, k)[2]>>
  BY DEF Removing
<1>3. \A x \in 0 .. Len(before) - 1 : Pad(before, x) \in Handlers
  BY PadSlot
<1>4. ASSUME NEW x \in 0 .. Len(before) - 1
      PROVE  Slot(x) # Zero
  <2>1. CASE x < k
    <3>1. x \in 0 .. k - 1 /\ x + 1 \in 0 .. Len(before) - 1
      BY <1>1, <1>2, <2>1
    <3>2. Slot(x) \in Handlers
      BY <1>2, <1>3, <3>1 DEF Gap
    <3> QED
      BY <3>2, HandlersAssumption DEF Zero
  <2>2. CASE x = k
    <3>1. Pad(before, k) \in Handlers
      BY <1>3, <2>2
    <3>2. Pad(before, k)[2] # 0
      BY <3>1 DEF NoneInPageZero
    <3> QED
      BY <1>2, <2>2, <3>1, <3>2, HandlersAssumption DEF Zero
  <2>3. CASE x > k
    <3>1. x \in k + 1 .. Count
      BY <1>1, <2>3, CountAssumption
    <3> QED
      BY <1>2, <1>3, <3>1, HandlersAssumption DEF Zero
  <2> QED
    BY <2>1, <2>2, <2>3
<1>5. ASSUME NEW y \in 0 .. Len(before) - 1, Slot(y) = before[i]
      PROVE  \E c \in 1 .. Len(calls) : calls[c] = before[i]
  <2>1. Len(before) \in Nat
    BY <1>1
  <2> QED
    BY <1>4, <1>5, <2>1, Passed
<1>6. CASE i - 1 > k
  <2>1. i - 1 \in k + 1 .. Count
    BY <1>1, <1>6, CountAssumption
  <2> QED
    BY <1>1, <1>2, <1>5, <2>1
<1>7. CASE i - 1 <= k /\ i - 1 > r
  <2>1. i - 2 \in 0 .. k - 1 /\ i - 2 \in 0 .. Len(before) - 1 /\ ~ (i - 2 < r) /\ (i - 2) + 1 = i - 1
    BY <1>1, <1>2, <1>7
  <2>2. Slot(i - 2) = before[i]
    BY <1>1, <1>2, <2>1 DEF Gap
  <2> QED
    BY <1>5, <2>1, <2>2
<1>8. CASE i - 1 = r
  <2>1. r + 1 = i
    BY <1>8
  <2> QED
    BY <1>2, <2>1 DEF Carried
<1>9. CASE i - 1 < r
  <2>1. i - 1 \in 0 .. k - 1
    BY <1>1, <1>2, <1>9
  <2>2. Slot(i - 1) = before[i]
    BY <1>1, <1>2, <1>9, <2>1 DEF Gap
  <2> QED
    BY <1>1, <1>5, <2>2
<1> QED
  BY <1>2, <1>6, <1>7, <1>8, <1>9

(* The interrupted call puts a handler behind. *)
LEMMA AppendServes ==
    ASSUME ServedInv, ~ changed, isr \in 0 .. Count, Slot(isr) = Zero,
           IsList(before), \A x \in 0 .. Count : x # Len(before) => Slot(x) = Pad(before, x),
           NEW i \in 1 .. Len(before)
    PROVE  \E c \in 1 .. Len(calls) : calls[c] = before[i]
<1>1. /\ i - 1 \in 0 .. Len(before) - 1 /\ Len(before) \in 0 .. Count
      /\ before[i] = Pad(before, i - 1)
  BY HandlerAt
<1>2. ASSUME NEW x \in 0 .. Len(before) - 1
      PROVE  Slot(x) = Pad(before, x) /\ Slot(x) # Zero
  <2>1. x \in 0 .. Count /\ x # Len(before)
    BY <1>1, CountAssumption
  <2>2. Pad(before, x) \in Handlers
    BY PadSlot
  <2> QED
    BY <2>1, <2>2, HandlersAssumption DEF Zero
<1>3. Len(before) \in Nat
  BY <1>1
<1>4. \E c \in 1 .. Len(calls) : calls[c] = Slot(i - 1)
  BY <1>1, <1>2, <1>3, Passed
<1> QED
  BY <1>1, <1>2, <1>4

(***************************************************************************)
(* A dispatch that goes to its end calls the handlers of the chain once    *)
(* each and in order, and one that interrupts a call misses nobody but the *)
(* handler the call is about and the one it carries to the next slot: with *)
(* no handler in page zero a half written slot does not end the chain.     *)
(***************************************************************************)
THEOREM ChainEveryoneServed == Spec => EveryoneServed
<1>1. ChainInv /\ ListInv /\ ServedInv /\ [Next]_vars
        => [done /\ ~ changed /\ ~ spoilt /\ NoneInPageZero =>
              IF pc = "main" THEN calls = Chain
              ELSE \A i \in 1 .. Len(before) :
                      before[i] \in Carried \/ \E k \in 1 .. Len(calls) : calls[k] = before[i]]_vars
  <2> SUFFICES ASSUME ChainInv, ListInv, ServedInv, done, ~ changed, ~ spoilt, NoneInPageZero
               PROVE  IF pc = "main" THEN calls = Chain
                      ELSE \A i \in 1 .. Len(before) :
                              before[i] \in Carried \/ \E k \in 1 .. Len(calls) : calls[k] = before[i]
    OBVIOUS
  <2>1. isr \in 0 .. Count /\ Slot(isr) = Zero
    BY CountAssumption DEF done, ChainInv, TypeOK, Off, Lost
  <2>2. calls = Chain
    BY <2>1, ListServed
  <2>3. ASSUME pc # "main", NEW i \in 1 .. Len(before)
        PROVE  before[i] \in Carried \/ \E k \in 1 .. Len(calls) : calls[k] = before[i]
    <3>1. Underway /\ IsList(before)
      BY <2>3 DEF ListInv, Underway
    <3>2. CASE pc \in {"move", "high"}
      <4>1. Holds(before)
        BY <3>1, <3>2 DEF Underway
      <4>2. calls = before
        BY <2>2, <4>1, HoldsChain
      <4> QED
        BY <4>2
    <3>3. CASE pc = "low"
      BY <2>1, <3>1, <3>3, AppendServes DEF Underway
    <3>4. CASE pc \in {"swap_low", "swap_high"}
      <4>1. PICK h \in Handlers, k \in 0 .. Count - 1 : Prepending(h, k)
        BY <3>1, <3>4 DEF Underway
      <4> QED
        BY <2>1, <3>1, <3>4, <4>1, PrependServes
    <3>5. CASE pc = "ldi"
      <4>1. PICK r \in 0 .. Count - 1, k \in 0 .. Count - 1 : Removing(r, k)
        BY <3>1, <3>5 DEF Underway
      <4> QED
        BY <2>1, <3>1, <3>5, <4>1, RemoveServes
    <3>6. pc \in {"move", "high", "low", "swap_low", "swap_high", "ldi"}
      BY <2>3, <3>1 DEF ChainInv, TypeOK, Underway
    <3> QED
      BY <3>2, <3>3, <3>4, <3>5, <3>6
  <2> QED
    BY <2>2, <2>3
<1> QED
  BY <1>1, ChainInvariant, ChainListInvariant, ChainServedInvariant, PTL DEF Spec, EveryoneServed

=============================================================================
