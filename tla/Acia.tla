-------------------------------- MODULE Acia --------------------------------
(***************************************************************************)
(* The interrupt driven serial driver of the rc2014's MC68B50              *)
(* (libsrc/target/rc2014/device/acia/8080), the program that reads and     *)
(* writes through it, the device and the far end of the line.              *)
(* The program is interrupted between any two steps of getc and putc; the  *)
(* device receives and sends between any two steps of either.  An ei       *)
(* takes effect behind the instruction that follows it, so ei; out is one  *)
(* step.                                                                   *)
(***************************************************************************)
EXTENDS Integers, Sequences

CONSTANTS
    Byte,           \* the counters are bytes: 256 in the machine
    RxSize,         \* __IO_ACIA_RX_SIZE
    Fullish,        \* __IO_ACIA_RX_FULLISH
    Emptyish,       \* __IO_ACIA_RX_EMPTYISH
    TxSize,         \* __IO_ACIA_TX_SIZE
    Lag,            \* bytes the far end still sends when it is told to stop
    Numbers         \* bytes are numbered in the order they are sent, modulo this

ASSUME SizeAssumption ==
    /\ Byte \in Nat /\ RxSize \in Nat /\ TxSize \in Nat \ {0, 1}
    /\ Emptyish \in Nat /\ Fullish \in Nat /\ Lag \in Nat /\ Numbers \in Nat \ {0}
    /\ RxSize <= Byte /\ TxSize <= Byte
    /\ 0 < Emptyish /\ Emptyish < Fullish /\ Fullish + Lag < RxSize

VARIABLES
    rxBuffer, rxIn, rxOut, rxCount,
    txBuffer, txIn, txOut, txCount,
    control,            \* control register and aciaControl, its echo
    rdr, tdr,           \* the device's data registers: empty or one byte
    late,               \* bytes received since it told the far end to stop
    isr,                \* where the interrupt routine is
    pc, l, c,           \* where the program is, registers of putc and getc
    arrived, written,   \* numbers of the next byte received, written
    overrun             \* have received bytes been overwritten?

rx == <<rxBuffer, rxIn, rxOut, rxCount>>
tx == <<txBuffer, txIn, txOut, txCount>>
line == <<rdr, tdr, arrived>>
program == <<pc, l, c, written>>
vars == <<rx, tx, control, late, line, isr, program, overrun>>

TDI_RTS0 == "TDI_RTS0"      \* Tx interrupt off, the far end may send
TEI_RTS0 == "TEI_RTS0"      \* Tx interrupt on, the far end may send
TDI_RTS1 == "TDI_RTS1"      \* Tx interrupt off, the far end shall stop

\* A slot that has been read is cleared: what it holds is not read again.
Empty(size) == [i \in 0 .. size - 1 |-> 0]
After(p, size) == (p + 1) % size
Number(n) == (n + 1) % Numbers
RDRF == rdr # <<>>
TDRE == tdr = <<>>

SetControl(value) ==
    /\ control' = value
    /\ late' = IF value = TDI_RTS1 THEN late ELSE 0

(***************************************************************************)
(* acia_init: pointers home, receive interrupt on.                         *)
(***************************************************************************)
Init ==
    /\ rxBuffer = Empty(RxSize) /\ txBuffer = Empty(TxSize)
    /\ rxIn = 0 /\ rxOut = 0 /\ rxCount = 0
    /\ txIn = 0 /\ txOut = 0 /\ txCount = 0
    /\ control = TDI_RTS0 /\ late = 0
    /\ rdr = <<>> /\ tdr = <<>>
    /\ isr = "off"
    /\ pc = "main" /\ l = 0 /\ c = 0
    /\ arrived = 0 /\ written = 0
    /\ overrun = "no"

-----------------------------------------------------------------------------
(***************************************************************************)
(* The device and the far end, which sends when it likes but stops in time *)
(* when told to.  A received byte is fetched before the next one is in.    *)
(***************************************************************************)
Receive ==
    /\ ~ RDRF
    /\ overrun = "no"
    /\ control = TDI_RTS1 => late < Lag
    /\ late' = IF control = TDI_RTS1 THEN late + 1 ELSE 0
    /\ rdr' = <<arrived>>
    /\ arrived' = Number(arrived)
    /\ UNCHANGED <<rx, tx, control, tdr, isr, program, overrun>>

Transmit ==
    /\ ~ TDRE
    /\ tdr' = <<>>
    /\ UNCHANGED <<rx, tx, control, late, rdr, arrived, isr, program, overrun>>

-----------------------------------------------------------------------------
(***************************************************************************)
(* acia_interrupt.                                                         *)
(***************************************************************************)
interrupt ==
    /\ isr = "off"
    /\ RDRF \/ (control = TEI_RTS0 /\ TDRE)
    /\ isr' = IF RDRF THEN "rx_get" ELSE "tx_send"
    /\ UNCHANGED <<rx, tx, control, late, line, program, overrun>>

rx_get_LimitPassed ==
    /\ isr = "rx_get"
    /\ rxBuffer' = [rxBuffer EXCEPT ![rxIn] = Head(rdr)]
    /\ rdr' = <<>>
    /\ rxIn' = After(rxIn, RxSize)
    /\ rxCount' = (rxCount + 1) % Byte
    /\ IF rxCount' > Fullish THEN SetControl(TDI_RTS1) ELSE UNCHANGED <<control, late>>
    /\ overrun' = IF rxCount' = rxCount + 1 /\ rxCount' <= RxSize THEN overrun ELSE "yes"
    /\ isr' = "rx_check"
    /\ UNCHANGED <<rxOut, tx, tdr, arrived, program>>

rx_get ==
    /\ isr = "rx_get"
    /\ rxBuffer' = [rxBuffer EXCEPT ![rxIn] = Head(rdr)]
    /\ rdr' = <<>>
    /\ rxIn' = After(rxIn, RxSize)
    /\ rxCount' = (rxCount + 1) % Byte
    /\ IF rxCount' = Fullish THEN SetControl(TDI_RTS1) ELSE UNCHANGED <<control, late>>
    /\ overrun' = IF rxCount' = rxCount + 1 /\ rxCount' <= RxSize THEN overrun ELSE "yes"
    /\ isr' = "rx_check"
    /\ UNCHANGED <<rxOut, tx, tdr, arrived, program>>

rx_check ==
    /\ isr = "rx_check"
    /\ isr' = IF RDRF THEN "rx_get" ELSE IF TDRE THEN "tx_send" ELSE "off"
    /\ UNCHANGED <<rx, tx, control, late, line, program, overrun>>

\* The other bits stay: RTS high stays high.
tx_tei_clear ==
    IF control = TEI_RTS0 THEN SetControl(TDI_RTS0) ELSE UNCHANGED <<control, late>>

tx_send_ClearsEarly ==
    /\ isr = "tx_send"
    /\ \/ txCount = 0 /\ UNCHANGED <<tx, tdr>> /\ tx_tei_clear
       \/ /\ txCount # 0
          /\ tdr' = <<txBuffer[txOut]>>
          /\ txOut' = After(txOut, TxSize)
          /\ txCount' = txCount - 1
          /\ txBuffer' = [txBuffer EXCEPT ![txOut] = 0]
          /\ UNCHANGED txIn
          /\ IF txCount' = 1 THEN tx_tei_clear ELSE UNCHANGED <<control, late>>
    /\ isr' = "off"
    /\ UNCHANGED <<rx, rdr, arrived, program, overrun>>

tx_send ==
    /\ isr = "tx_send"
    /\ \/ txCount = 0 /\ UNCHANGED <<tx, tdr>> /\ tx_tei_clear
       \/ /\ txCount # 0
          /\ tdr' = <<txBuffer[txOut]>>
          /\ txOut' = After(txOut, TxSize)
          /\ txCount' = txCount - 1
          /\ txBuffer' = [txBuffer EXCEPT ![txOut] = 0]
          /\ UNCHANGED txIn
          /\ IF txCount' = 0 THEN tx_tei_clear ELSE UNCHANGED <<control, late>>
    /\ isr' = "off"
    /\ UNCHANGED <<rx, rdr, arrived, program, overrun>>

-----------------------------------------------------------------------------
(***************************************************************************)
(* The program runs when the interrupt routine does not.                   *)
(***************************************************************************)
At(p) == pc = p /\ isr = "off"
Goto(p) == pc' = p

Call ==
    /\ At("main")
    /\ pc' \in {"getc", "putc"}
    /\ UNCHANGED <<rx, tx, control, late, line, isr, l, c, written, overrun>>

(***************************************************************************)
(* acia_getc.                                                              *)
(***************************************************************************)
getc_TestsBelow ==
    /\ At("getc")
    /\ pc' = IF rxCount = 0 THEN "main" ELSE IF rxCount = Emptyish - 1 THEN "lower" ELSE "pop"
    /\ UNCHANGED <<rx, tx, control, late, line, isr, l, c, written, overrun>>

getc ==
    /\ At("getc")
    /\ pc' = IF rxCount = 0 THEN "main" ELSE IF rxCount = Emptyish THEN "lower" ELSE "pop"
    /\ UNCHANGED <<rx, tx, control, late, line, isr, l, c, written, overrun>>

getc_lower ==
    /\ At("lower")
    /\ SetControl(TDI_RTS0)
    /\ Goto("pop")
    /\ UNCHANGED <<rx, tx, line, isr, l, c, written, overrun>>

getc_clean_up_rx_ReadsBehind ==
    /\ At("pop")
    /\ c' = rxBuffer[After(rxOut, RxSize)]
    /\ rxBuffer' = [rxBuffer EXCEPT ![rxOut] = 0]
    /\ rxOut' = After(rxOut, RxSize)
    /\ Goto("dec")
    /\ UNCHANGED <<rxIn, rxCount, tx, control, late, line, isr, l, written, overrun>>

getc_clean_up_rx ==
    /\ At("pop")
    /\ c' = rxBuffer[rxOut]
    /\ rxBuffer' = [rxBuffer EXCEPT ![rxOut] = 0]
    /\ rxOut' = After(rxOut, RxSize)
    /\ Goto("dec")
    /\ UNCHANGED <<rxIn, rxCount, tx, control, late, line, isr, l, written, overrun>>

getc_dec ==
    /\ At("dec")
    /\ rxCount' = (rxCount - 1) % Byte
    /\ c' = 0
    /\ Goto("main")
    /\ UNCHANGED <<rxBuffer, rxIn, rxOut, tx, control, late, line, isr, l, written, overrun>>

(***************************************************************************)
(* acia_putc, called again until it has taken the byte.                    *)
(***************************************************************************)
putc_Overtakes ==
    /\ At("putc")
    /\ Goto("status")
    /\ UNCHANGED <<rx, tx, control, late, line, isr, l, c, written, overrun>>

putc ==
    /\ At("putc")
    /\ Goto(IF txCount = 0 THEN "status" ELSE "full")
    /\ UNCHANGED <<rx, tx, control, late, line, isr, l, c, written, overrun>>

putc_status ==
    /\ At("status")
    /\ Goto(IF TDRE THEN "direct" ELSE "full")
    /\ UNCHANGED <<rx, tx, control, late, line, isr, l, c, written, overrun>>

putc_direct ==
    /\ At("direct")
    /\ tdr' = <<written>>
    /\ written' = Number(written)
    /\ Goto("main")
    /\ UNCHANGED <<rx, tx, control, late, rdr, arrived, isr, l, c, overrun>>

putc_buffer_tx_JustRetries ==
    /\ At("full")
    /\ \/ txCount >= TxSize - 1 /\ l' = 0 /\ Goto("putc")
       \/ txCount < TxSize - 1 /\ l' = 0 /\ Goto("poke")
    /\ UNCHANGED <<rx, tx, control, late, line, isr, c, written, overrun>>

putc_buffer_tx ==
    /\ At("full")
    /\ \/ txCount >= TxSize - 1 /\ l' = 1 /\ Goto("exit")
       \/ txCount < TxSize - 1 /\ l' = 0 /\ Goto("poke")
    /\ UNCHANGED <<rx, tx, control, late, line, isr, c, written, overrun>>

putc_poke ==
    /\ At("poke")
    /\ txBuffer' = [txBuffer EXCEPT ![txIn] = written]
    /\ txIn' = After(txIn, TxSize)
    /\ Goto("inc")
    /\ UNCHANGED <<rx, txOut, txCount, control, late, line, isr, l, c, written, overrun>>

putc_inc ==
    /\ At("inc")
    /\ txCount' = txCount + 1
    /\ written' = Number(written)
    /\ Goto("exit")
    /\ UNCHANGED <<rx, txBuffer, txIn, txOut, control, late, line, isr, l, c, overrun>>

Retry == IF l = 1 THEN "putc" ELSE "main"

putc_buffer_tx_exit ==
    /\ At("exit")
    /\ Goto(IF control = TEI_RTS0 THEN Retry ELSE "enable")
    /\ l' = IF control = TEI_RTS0 THEN 0 ELSE l
    /\ UNCHANGED <<rx, tx, control, late, line, isr, c, written, overrun>>

putc_enable ==
    /\ At("enable")
    /\ SetControl(TEI_RTS0)
    /\ Goto(Retry)
    /\ l' = 0
    /\ UNCHANGED <<rx, tx, line, isr, c, written, overrun>>

(***************************************************************************)
(* acia_flush_Rx_di and acia_flush_Tx_di: with interrupts disabled.        *)
(***************************************************************************)
flush_Rx ==
    /\ At("main")
    /\ rxIn' = 0 /\ rxOut' = 0 /\ rxCount' = 0
    /\ rxBuffer' = Empty(RxSize)
    /\ UNCHANGED <<tx, control, late, line, isr, program, overrun>>

flush_Tx ==
    /\ At("main")
    /\ txIn' = 0 /\ txOut' = 0 /\ txCount' = 0
    /\ txBuffer' = Empty(TxSize)
    /\ UNCHANGED <<rx, control, late, line, isr, program, overrun>>

-----------------------------------------------------------------------------
Interrupt == interrupt \/ rx_get \/ rx_check \/ tx_send

Running ==
    \/ getc \/ getc_lower \/ getc_clean_up_rx \/ getc_dec
    \/ putc \/ putc_status \/ putc_direct \/ putc_buffer_tx \/ putc_poke
    \/ putc_inc \/ putc_buffer_tx_exit \/ putc_enable

Next ==
    \/ Receive \/ Transmit
    \/ Interrupt
    \/ Call \/ Running
    \/ flush_Rx \/ flush_Tx

Spec == Init /\ [][Next]_vars

(***************************************************************************)
(* Fairness: what is in the transmit register is sent, a pending interrupt *)
(* is taken and its routine ends, and a byte takes longer on the line than *)
(* in the routine, so the program runs again and again.                    *)
(***************************************************************************)
FairSpec ==
    /\ Spec
    /\ WF_vars(Transmit)
    /\ WF_vars(Interrupt)
    /\ SF_vars(Running)

-----------------------------------------------------------------------------
(* Buffers, pointers and registers hold what they can hold. *)
TypeOK ==
    /\ rxBuffer \in [0 .. RxSize - 1 -> 0 .. Numbers - 1]
    /\ txBuffer \in [0 .. TxSize - 1 -> 0 .. Numbers - 1]
    /\ rxIn \in 0 .. RxSize - 1 /\ rxOut \in 0 .. RxSize - 1
    /\ txIn \in 0 .. TxSize - 1 /\ txOut \in 0 .. TxSize - 1
    /\ rxCount \in 0 .. Byte - 1 /\ txCount \in 0 .. TxSize - 1
    /\ control \in {TDI_RTS0, TEI_RTS0, TDI_RTS1} /\ late \in 0 .. Lag
    /\ rdr \in {<<>>} \cup {<<n>> : n \in 0 .. Numbers - 1}
    /\ tdr \in {<<>>} \cup {<<n>> : n \in 0 .. Numbers - 1}
    /\ isr \in {"off", "rx_get", "rx_check", "tx_send"}
    /\ pc \in {"main", "getc", "lower", "pop", "dec", "putc", "status", "direct",
               "full", "poke", "inc", "exit", "enable"}
    /\ l \in {0, 1} /\ c \in 0 .. Numbers - 1
    /\ overrun \in {"no", "yes"}
    /\ arrived \in 0 .. Numbers - 1 /\ written \in 0 .. Numbers - 1

(***************************************************************************)
(* Both directions implement a channel: what is poked and popped while the *)
(* interrupt routine changes counts and pointers comes out in order, and   *)
(* once.  Receiving, this ends when bytes are overwritten.                 *)
(***************************************************************************)
Stored(buffer, out, n, size) == [i \in 1 .. n |-> buffer[(out + i - 1) % size]]

Received ==
    IF pc = "dec"
    THEN <<c>> \o Stored(rxBuffer, rxOut, rxCount - 1, RxSize) \o rdr
    ELSE Stored(rxBuffer, rxOut, rxCount, RxSize) \o rdr

Unsent == tdr \o Stored(txBuffer, txOut, txCount, TxSize)

RxLine == INSTANCE Channel WITH queue <- Received, fresh <- arrived, intact <- overrun = "no"
TxLine == INSTANCE Channel WITH queue <- Unsent, fresh <- written, intact <- TRUE

RxInOrder == RxLine!Spec
TxInOrder == TxLine!Spec

(***************************************************************************)
(* While flow control is in force no byte is lost, and it stays in force:  *)
(* the interrupt routine sees the count pass the limit whatever getc takes *)
(* meanwhile.  Only two steps let the far end go on with a buffer that is  *)
(* filled: putc's, which sets RTS low with the Tx interrupt however full   *)
(* the Rx buffer is, and getc's, when more came since it read the count.   *)
(***************************************************************************)
Exposed == control # TDI_RTS1 /\ rxCount >= Fullish

FlowControlHolds ==
    [][overrun = "no" /\ ~ Exposed =>
          overrun' = "no" /\ (Exposed' => putc_enable \/ getc_lower)]_vars

(***************************************************************************)
(* The far end is not told to stop for good: while it is, the bytes that   *)
(* are left make getc tell it to go on.  Only a flush takes them away.     *)
(***************************************************************************)
Left == IF pc \in {"pop", "dec"} THEN rxCount - 1 ELSE rxCount
Stranded == control = TDI_RTS1 /\ Left < Emptyish

OnlyFlushStrands == [][~ Stranded /\ Stranded' => flush_Rx]_vars

(***************************************************************************)
(* Bytes wait in the Tx buffer with the Tx interrupt off only because the  *)
(* receive side turned it off: not because the interrupt routine sent the  *)
(* last byte, and turned it off, while putc was about to count another.    *)
(***************************************************************************)
Stalled == txCount > 0 /\ control # TEI_RTS0 /\ pc \notin {"exit", "enable"}

OnlyReceiveStalls == [][~ Stalled /\ Stalled' => rx_get \/ getc_lower]_vars

(***************************************************************************)
(* A write returns: the buffer drains even when the Rx side has turned the *)
(* Tx interrupt off, for a full buffer turns it on again.                  *)
(***************************************************************************)
Writing == pc \in {"putc", "status", "direct", "full", "poke", "inc", "exit", "enable"}

WriterProceeds == Writing ~> ~ Writing
=============================================================================
