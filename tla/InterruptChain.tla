--------------------------- MODULE InterruptChain ---------------------------
(***************************************************************************)
(* Chains of interrupt handlers: the table of the im1 and nmi dispatchers  *)
(* (libsrc/classic/interrupts/common) and the callbacks of a generic im2   *)
(* isr (libsrc/newlib/im2, and with the same code libsrc/classic/          *)
(* interrupts/im2).  A chain is a table of addresses that a zero ends.     *)
(* The program changes it a byte at a time, with interrupts enabled or     *)
(* not, and an interrupt calls the handlers in order.                      *)
(***************************************************************************)
EXTENDS Integers, Sequences, FiniteSets

CONSTANTS
    Count,          \* handlers the table has room for, without the zero
    Handlers,       \* their addresses: <<low byte, high byte>>
    Code            \* the bytes of each, from its second on

ASSUME CountAssumption == Count \in Nat \ {0}
ASSUME HandlersAssumption ==
    /\ Handlers \subseteq (0 .. 255) \X (0 .. 255)
    /\ <<0, 0>> \notin Handlers
ASSUME CodeAssumption == Code \in [Handlers -> [1 .. 2 * Count -> 0 .. 255]]

VARIABLES
    kind,           \* "im1" or "im2", the same for ever
    table,          \* the bytes of the chain
    masked,         \* has the program disabled interrupts around its call?
    pc, at, left,   \* the program's call: where, next byte, bytes to copy
    from,           \* the byte of code it copies next
    de,             \* the address it carries
    result,         \* what its last call reported
    isr,            \* the slot the dispatcher has reached, Off or Lost
    calls,          \* the handlers it has called since the interrupt
    changed,        \* has one of them changed the chain?
    before,         \* the chain as it was when the program's call began
    spoilt          \* has code been copied into the chain?

program == <<masked, pc, at, from, left, de, result, before>>
dispatch == <<isr, calls, changed>>
vars == <<kind, table, spoilt, program, dispatch>>

Off == -1           \* no interrupt is being served
Lost == -2          \* the dispatcher called what is not a handler

Zero == <<0, 0>>
Bytes == 0 .. 2 * Count + 1
Slot(i) == <<table[2 * i], table[2 * i + 1]>>

(* The slots before the zero, and the handlers in them. *)
Used == {i \in 0 .. Count - 1 : \A j \in 0 .. i : Slot(j) # Zero}
Chain == [i \in 1 .. Cardinality(Used) |-> Slot(i - 1)]

(* The search every call begins with: the first slot that holds v. *)
First(slots, v) == {i \in slots : Slot(i) = v /\ \A j \in 0 .. i - 1 : Slot(j) # v}
Room_PastTheEnd == First(0 .. Count, Zero) # {}

Room == First(0 .. Count - 1, Zero) # {}

-----------------------------------------------------------------------------
Init ==
    /\ kind \in {"im1", "im2"}
    /\ table = [x \in Bytes |-> 0]
    /\ masked = FALSE
    /\ pc = "main" /\ at = 0 /\ from = 0 /\ left = 0 /\ de = Zero /\ result = 0
    /\ isr = Off /\ calls = <<>> /\ changed = FALSE
    /\ before = <<>>
    /\ spoilt = FALSE

(***************************************************************************)
(* The program runs when no interrupt is served.                           *)
(***************************************************************************)
At(p) == pc = p /\ isr = Off

Begin(p, x, n, h) ==
    /\ pc' = p /\ at' = x /\ from' = 1 /\ left' = n /\ de' = h
    /\ masked' \in BOOLEAN
    /\ before' = Chain
    /\ UNCHANGED <<kind, spoilt, table, result, dispatch>>

Return(r) ==
    /\ pc' = "main" /\ at' = 0 /\ from' = 0 /\ left' = 0 /\ de' = Zero
    /\ masked' = FALSE
    /\ before' = <<>>
    /\ result' = r

Reject == Return(1) /\ UNCHANGED <<kind, spoilt, table, dispatch>>

Poke(v) == table' = [table EXCEPT ![at] = v]

(***************************************************************************)
(* asm_interrupt_add_handler: the address goes into the first free slot,   *)
(* high byte first.                                                        *)
(***************************************************************************)
add_handler(h) ==
    /\ At("main") /\ kind = "im1"
    /\ \/ ~ Room /\ Reject
       \/ \E i \in First(0 .. Count - 1, Zero) : Begin("high", 2 * i + 1, 0, h)

write_high ==
    /\ At("high")
    /\ Poke(de[2])
    /\ at' = at - 1 /\ pc' = "low"
    /\ UNCHANGED <<kind, spoilt, masked, from, left, de, result, before, dispatch>>

write_low_Elsewhere ==
    /\ At("low")
    /\ table' = [table EXCEPT ![at + 1] = de[1]]
    /\ Return(0)
    /\ UNCHANGED <<kind, spoilt, dispatch>>

write_low ==
    /\ At("low")
    /\ Poke(de[1])
    /\ Return(0)
    /\ UNCHANGED <<kind, spoilt, dispatch>>

(***************************************************************************)
(* asm_interrupt_remove_handler.  To close the gap it has to copy the rest *)
(* of the table down; but "ex de,hl" leaves in hl the address that is      *)
(* looked for, not that of the slot, and what is copied over the slot and  *)
(* all behind it is the code of the handler.  Then the last slot is        *)
(* cleared.                                                                *)
(***************************************************************************)
remove_handler(h) ==
    /\ At("main") /\ kind = "im1"
    /\ \/ First(0 .. Count - 1, h) = {} /\ Reject
       \/ \E i \in First(0 .. Count - 1, h) : Begin("move", 2 * i, 2 * (Count - i), h)

move_chain ==
    /\ At("move")
    /\ Poke(Code[de][from])
    /\ spoilt' = TRUE
    /\ at' = at + 1 /\ from' = from + 1 /\ left' = left - 1
    /\ pc' = IF left' = 0 THEN "clear" ELSE "move"
    /\ UNCHANGED <<kind, masked, de, result, before, dispatch>>

clear_last ==
    /\ At("clear")
    /\ table' = [table EXCEPT ![at] = 0, ![at + 1] = 0]
    /\ Return(0)
    /\ UNCHANGED <<kind, spoilt, dispatch>>

(***************************************************************************)
(* asm_im2_append_generic_callback.  There is no test of the room: the     *)
(* program has reserved it.                                                *)
(***************************************************************************)
append_callback(h) ==
    /\ At("main") /\ kind = "im2" /\ Room
    /\ \E i \in First(0 .. Count, Zero) : Begin("high", 2 * i + 1, 0, h)

(***************************************************************************)
(* asm_im2_prepend_generic_callback: slot for slot the address carried is  *)
(* exchanged for the one that is there, until that is zero.                *)
(***************************************************************************)
prepend_callback(h) ==
    /\ At("main") /\ kind = "im2" /\ Room
    /\ Begin("swap_low", 0, 0, h)

swap_low ==
    /\ At("swap_low")
    /\ Poke(de[1])
    /\ de' = <<table[at], de[2]>>
    /\ at' = at + 1 /\ pc' = "swap_high"
    /\ UNCHANGED <<kind, spoilt, masked, from, left, result, before, dispatch>>

swap_high ==
    /\ At("swap_high")
    /\ Poke(de[2])
    /\ \/ <<de[1], table[at]>> = Zero /\ Return(0)
       \/ /\ <<de[1], table[at]>> # Zero
          /\ de' = <<de[1], table[at]>>
          /\ at' = at + 1 /\ pc' = "swap_low"
          /\ UNCHANGED <<masked, from, left, result, before>>
    /\ UNCHANGED <<kind, spoilt, dispatch>>

(***************************************************************************)
(* asm_im2_remove_generic_callback: what is behind the slot moves down, up *)
(* to and including the zero.                                              *)
(***************************************************************************)
remove_callback(h) ==
    /\ At("main") /\ kind = "im2"
    /\ \/ First(Used, h) = {} /\ Reject
       \/ \E i \in First(Used, h) : Begin("ldi", 2 * i, 0, h)

Copied == IF at % 2 = 1 THEN <<table[at + 1], table[at + 2]>> ELSE Zero

remove_loop_StopsEarly ==
    /\ At("ldi")
    /\ Poke(table[at + 2])
    /\ \/ at % 2 = 0 /\ table[at + 2] = 0 /\ Return(0)
       \/ at % 2 = 1 /\ Copied = Zero /\ Return(0)
       \/ /\ IF at % 2 = 1 THEN Copied # Zero ELSE table[at + 2] # 0
          /\ at' = at + 1
          /\ UNCHANGED <<masked, pc, from, left, de, result, before>>
    /\ UNCHANGED <<kind, spoilt, dispatch>>

remove_loop ==
    /\ At("ldi")
    /\ Poke(table[at + 2])
    /\ \/ at % 2 = 1 /\ Copied = Zero /\ Return(0)
       \/ /\ at % 2 = 1 => Copied # Zero
          /\ at' = at + 1
          /\ UNCHANGED <<masked, pc, from, left, de, result, before>>
    /\ UNCHANGED <<kind, spoilt, dispatch>>

-----------------------------------------------------------------------------
(***************************************************************************)
(* asm_interrupt_handler, __generic_isr_run_callbacks.  A handler may      *)
(* itself take a handler off the chain or append one, unless the program   *)
(* is doing so; an im2 callback may end the dispatch by setting carry.     *)
(***************************************************************************)
interrupt ==
    /\ isr = Off /\ ~ masked
    /\ isr' = 0
    /\ UNCHANGED <<kind, spoilt, table, program, calls, changed>>

Leave == isr' = Off /\ calls' = <<>> /\ changed' = FALSE

done_LowByteOnly ==
    /\ isr >= 0 /\ Slot(isr)[1] = 0
    /\ Leave
    /\ UNCHANGED <<kind, spoilt, table, program>>

done_Restarts ==
    /\ isr >= 0 /\ Slot(isr) = Zero
    /\ isr' = 0 /\ calls' = <<>> /\ changed' = FALSE
    /\ UNCHANGED <<kind, spoilt, table, program>>

done ==
    /\ isr >= 0 /\ Slot(isr) = Zero
    /\ Leave
    /\ UNCHANGED <<kind, spoilt, table, program>>

stray ==
    /\ isr >= 0 /\ Slot(isr) \notin Handlers \cup {Zero}
    /\ isr' = Lost
    /\ UNCHANGED <<kind, spoilt, table, program, calls, changed>>

Inserted(i, h) == [table EXCEPT ![2 * i] = h[1], ![2 * i + 1] = h[2]]

Added == {Inserted(i, h) : i \in First(0 .. Count - 1, Zero), h \in Handlers}

Removed(i) ==
    [x \in Bytes |-> IF x < 2 * i THEN table[x] ELSE IF x + 2 \in Bytes THEN table[x + 2] ELSE 0]

Overwritten(i) ==
    [x \in Bytes |->
        IF x < 2 * i THEN table[x] ELSE IF x < 2 * Count THEN Code[Slot(i)][x - 2 * i + 1] ELSE 0]

Occurrences ==
    UNION {First(IF kind = "im1" THEN 0 .. Count - 1 ELSE Used, h) : h \in Handlers}

Rewrite ==
    \/ table' \in Added /\ UNCHANGED spoilt
    \/ kind = "im2" /\ table' \in {Removed(i) : i \in Occurrences} /\ UNCHANGED spoilt
    \/ kind = "im1" /\ table' \in {Overwritten(i) : i \in Occurrences} /\ spoilt' = TRUE

Advance == isr' = isr + 1

call_handler ==
    /\ isr >= 0 /\ Slot(isr) \in Handlers
    /\ \/ /\ Advance
          /\ calls' = Append(calls, Slot(isr))
          /\ \/ UNCHANGED <<table, spoilt, result, changed>>
             \/ /\ pc = "main"
                /\ Rewrite
                /\ result' = 0
                /\ changed' = TRUE
       \/ kind = "im2" /\ Leave /\ UNCHANGED <<table, spoilt, result>>
    /\ UNCHANGED <<kind, masked, pc, at, from, left, de, before>>

Dispatch == done \/ stray \/ call_handler

Changing ==
    \/ write_high \/ write_low \/ move_chain \/ clear_last
    \/ swap_low \/ swap_high \/ remove_loop

Next ==
    \/ \E h \in Handlers :
          \/ add_handler(h) \/ remove_handler(h)
          \/ append_callback(h) \/ prepend_callback(h) \/ remove_callback(h)
    \/ Changing
    \/ interrupt
    \/ Dispatch

Spec == Init /\ [][Next]_vars

(***************************************************************************)
(* Fairness: handlers return, and between interrupts the program runs.     *)
(***************************************************************************)
FairSpec == Spec /\ WF_vars(Dispatch) /\ SF_vars(Changing)

-----------------------------------------------------------------------------
(* The dispatcher and the program's calls stay inside the table. *)
TypeOK ==
    /\ kind \in {"im1", "im2"}
    /\ table \in [Bytes -> 0 .. 255]
    /\ masked \in BOOLEAN
    /\ pc \in {"main", "high", "low", "move", "clear", "swap_low", "swap_high", "ldi"}
    /\ at \in Bytes
    /\ from \in 0 .. 2 * Count + 1
    /\ left \in 0 .. 2 * Count
    /\ de \in (0 .. 255) \X (0 .. 255)
    /\ result \in {0, 1}
    /\ isr \in 0 .. Count \cup {Off, Lost}
    /\ changed \in BOOLEAN
    /\ spoilt \in BOOLEAN

(***************************************************************************)
(* The last slot is zero at every moment, in the middle of a change too:   *)
(* the dispatcher never runs past the table.                               *)
(***************************************************************************)
Terminated == Slot(Count) = Zero

(***************************************************************************)
(* A call changes the chain like the list, though an interrupt may come    *)
(* between any two bytes, up to the first removal by                       *)
(* asm_interrupt_remove_handler.                                           *)
(***************************************************************************)
L == INSTANCE HandlerList WITH list <- IF pc = "main" THEN Chain ELSE before

ImplementsHandlerList ==
    L!Init /\ [][L!Next \/ spoilt']_<<IF pc = "main" THEN Chain ELSE before, result>>

(***************************************************************************)
(* The dispatcher calls what is not a handler only when it has interrupted *)
(* a call between the two bytes of an address, or after such a removal.    *)
(***************************************************************************)
HalfWritten == pc = "low" \/ pc = "swap_high" \/ (pc = "ldi" /\ at % 2 = 1)

OnlyHalfWrittenStrays == isr = Lost => HalfWritten \/ spoilt

(***************************************************************************)
(* An interrupt that is served to the end calls the chain's handlers once  *)
(* each and in order.  When it interrupts a call, it still misses nobody   *)
(* but the handler the call is about, or those it carries to the next slot.*)
(* It takes for that handlers above page zero: between the bytes of two    *)
(* addresses a slot of one in page zero may read as the zero that ends the *)
(* chain.                                                                  *)
(***************************************************************************)
Carried ==
    IF pc = "swap_high" THEN {<<table[at - 1], de[2]>>, <<de[1], table[at]>>} ELSE {de}

NoneInPageZero == \A h \in Handlers : h[2] # 0

EveryoneServed ==
    [][done /\ ~ changed /\ ~ spoilt /\ NoneInPageZero =>
         IF pc = "main" THEN calls = Chain
         ELSE \A i \in 1 .. Len(before) :
                 before[i] \in Carried \/ \E k \in 1 .. Len(calls) : calls[k] = before[i]]_vars

(***************************************************************************)
(* Every interrupt is served to its end and every call returns, unless the *)
(* processor is lost.                                                      *)
(***************************************************************************)
ServedAndReturned ==
    /\ isr >= 0 ~> isr < 0
    /\ pc # "main" ~> pc = "main" \/ isr = Lost

(***************************************************************************)
(* "We've found the handler to remove, lets shift everything down now"     *)
(* (asm_interrupt_remove_handler.asm:22): the handlers behind the removed  *)
(* one stay in the chain.                                                  *)
(***************************************************************************)
ShiftsDown ==
    [][clear_last =>
         \E i \in 1 .. Len(before) :
            /\ before[i] = de
            /\ Chain' = SubSeq(before, 1, i - 1) \o SubSeq(before, i + 1, Len(before))]_vars

-----------------------------------------------------------------------------
\* Every slot holds a handler or zero, but for the one that is half written.
SlotsSound ==
    spoilt \/ \A i \in 0 .. Count :
        Slot(i) \in Handlers \cup {Zero} \/ (HalfWritten /\ at \in {2 * i, 2 * i + 1})

\* A free slot at k or behind it, the last one not counted.
FreeFrom(k) == \E z \in k .. Count - 1 : Slot(z) = Zero

\* What a call knows of the table when it stands at slot k.
AtSlot(k) ==
    /\ pc = "high" => at = 2 * k + 1 /\ de \in Handlers
    /\ pc = "low" => at = 2 * k /\ de \in Handlers /\ table[at + 1] = de[2]
    /\ pc = "swap_low" => at = 2 * k /\ de \in Handlers /\ FreeFrom(k)
    /\ pc = "swap_high" =>
          /\ at = 2 * k + 1
          /\ <<table[2 * k], de[2]>> \in Handlers
          /\ \/ <<de[1], table[at]>> = Zero
             \/ <<de[1], table[at]>> \in Handlers /\ FreeFrom(k + 1)
    /\ pc = "ldi" => at = 2 * k \/ (at = 2 * k + 1 /\ table[2 * k] = table[2 * k + 2])

\* Where the program's call stands, and what it may count on.
Progress ==
    /\ pc = "move" => left > 0 /\ at + left = 2 * Count
    /\ pc = "move" => from > 0 /\ from + left <= 2 * Count + 1 /\ de \in Handlers
    /\ pc = "clear" => at = 2 * Count
    /\ \E k \in 0 .. Count - 1 : AtSlot(k)
    /\ pc \in {"move", "clear"} => kind = "im1"
    /\ pc \in {"swap_low", "swap_high", "ldi"} => kind = "im2"
    /\ kind = "im2" => ~ spoilt

ChainInv == TypeOK /\ Terminated /\ OnlyHalfWrittenStrays /\ SlotsSound /\ Progress
=============================================================================
