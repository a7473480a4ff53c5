----------------------------- MODULE AciaProofs -----------------------------
(***************************************************************************)
(* The serial driver for every size of its buffers and every lag of the    *)
(* far end: flow control, and that both directions keep the order.         *)
(***************************************************************************)
EXTENDS Acia, SequenceTheorems, TLAPS

Waiting == IF RDRF THEN 1 ELSE 0

(***************************************************************************)
(* What makes the two properties inductive: once told to stop, the far end *)
(* adds no more than late to what made the buffer fullish, and a getc that *)
(* has begun finds its byte counted.                                       *)
(***************************************************************************)
RxInv ==
    /\ control = TDI_RTS1 => rxCount + Waiting <= Fullish + late
    /\ overrun = "no" /\ pc \in {"lower", "pop", "dec"} => rxCount >= 1
    /\ isr = "rx_get" => RDRF
    /\ overrun = "yes" => ~ RDRF /\ control # TDI_RTS1
    /\ pc \in {"poke", "inc"} => txCount < TxSize - 1

AInv == TypeOK /\ RxInv

(* Counting up and down in a byte, where it does not overflow. *)
LEMMA CountUp ==
    ASSUME NEW n \in Nat, NEW size \in Nat \ {0}, n + 1 < size
    PROVE  (n + 1) % size = n + 1
OBVIOUS

LEMMA CountDown ==
    ASSUME NEW n \in Nat, NEW size \in Nat \ {0}, n >= 1, n < size
    PROVE  (n - 1) % size = n - 1
OBVIOUS

LEMMA InByte ==
    ASSUME NEW n \in Int, NEW size \in Nat \ {0}
    PROVE  n % size \in 0 .. size - 1
OBVIOUS

LEMMA NumberInRange ==
    ASSUME NEW n \in 0 .. Numbers - 1
    PROVE  Number(n) \in 0 .. Numbers - 1
<1>1. n + 1 \in Int /\ Numbers \in Nat \ {0}
  BY SizeAssumption
<1> QED
  BY <1>1, InByte DEF Number

LEMMA AfterInRange ==
    ASSUME NEW size \in Nat \ {0}, NEW p \in 0 .. size - 1
    PROVE  After(p, size) \in 0 .. size - 1
<1>1. p + 1 \in Int
  OBVIOUS
<1> QED
  BY <1>1, InByte DEF After

LEMMA InitSound == Init => AInv
BY SizeAssumption DEF Init, AInv, TypeOK, RxInv, Empty, RDRF, TDI_RTS0, TDI_RTS1

LEMMA ReceiveSound ==
    ASSUME AInv, Receive
    PROVE  AInv'
<1>1. Number(arrived) \in 0 .. Numbers - 1
  BY NumberInRange DEF AInv, TypeOK
<1>2. late' \in 0 .. Lag
  BY SizeAssumption DEF AInv, TypeOK, Receive
<1>3. TypeOK'
  BY <1>1, <1>2 DEF AInv, TypeOK, Receive, rx, tx, program
<1>4. RxInv'
  BY SizeAssumption DEF AInv, TypeOK, RxInv, Receive, Waiting, RDRF, rx, tx, program
<1> QED
  BY <1>3, <1>4 DEF AInv

LEMMA RxGetSound ==
    ASSUME AInv, rx_get
    PROVE  AInv'
<1>1. RDRF /\ overrun = "no" /\ Head(rdr) \in 0 .. Numbers - 1
  BY DEF AInv, TypeOK, RxInv, rx_get, RDRF
<1>2. rxCount \in 0 .. Byte - 1 /\ rxIn \in 0 .. RxSize - 1
  BY DEF AInv, TypeOK
<1>3. After(rxIn, RxSize) \in 0 .. RxSize - 1 /\ rxCount' \in 0 .. Byte - 1
  BY <1>2, SizeAssumption, InByte DEF rx_get, After
<1>4. /\ control' \in {TDI_RTS0, TEI_RTS0, TDI_RTS1} /\ late' \in 0 .. Lag
      /\ late' = late \/ control' # TDI_RTS1
      /\ control' = IF rxCount' = Fullish THEN TDI_RTS1 ELSE control
  BY SizeAssumption DEF AInv, TypeOK, rx_get, SetControl
<1>5. TypeOK'
  BY <1>1, <1>3, <1>4 DEF AInv, TypeOK, rx_get, tx, program
<1>6. control = TDI_RTS1 => rxCount + 1 <= Fullish + late
  BY <1>1 DEF AInv, RxInv, Waiting
<1>7. control = TDI_RTS1 => rxCount' = rxCount + 1 /\ rxCount' <= RxSize
  <2> SUFFICES ASSUME control = TDI_RTS1
               PROVE  rxCount' = rxCount + 1 /\ rxCount' <= RxSize
    OBVIOUS
  <2>1. late \in 0 .. Lag
    BY DEF AInv, TypeOK
  <2>2. rxCount + 1 < RxSize
    BY <1>2, <1>6, <2>1, SizeAssumption
  <2>3. (rxCount + 1) % Byte = rxCount + 1
    BY <1>2, <2>2, SizeAssumption, CountUp
  <2> QED
    BY <1>2, <2>2, <2>3, SizeAssumption DEF rx_get
<1>8. rxCount' = rxCount + 1 \/ rxCount' = 0
  <2>1. CASE rxCount + 1 < Byte
    BY <1>2, <2>1, SizeAssumption, CountUp DEF rx_get
  <2>2. CASE rxCount + 1 = Byte
    BY <1>2, <2>2, SizeAssumption DEF rx_get
  <2> QED
    BY <1>2, <2>1, <2>2, SizeAssumption
<1>9. RxInv'
  <2>1. ~ RDRF' /\ Waiting' = 0
    BY DEF rx_get, RDRF, Waiting
  <2>2. control' = TDI_RTS1 => rxCount' <= Fullish + late'
    BY <1>2, <1>4, <1>6, <1>7, SizeAssumption DEF AInv, TypeOK
  <2>3. overrun' = "yes" => control' # TDI_RTS1
    BY <1>1, <1>2, <1>4, <1>7, <1>8, SizeAssumption DEF rx_get
  <2>4. overrun' = "no" => rxCount' = rxCount + 1
    BY <1>1 DEF rx_get
  <2> QED
    BY <1>2, <1>3, <2>1, <2>2, <2>3, <2>4, SizeAssumption DEF AInv, RxInv, rx_get, tx, program
<1> QED
  BY <1>5, <1>9 DEF AInv

(* The steps that leave the receive side alone, but for who runs. *)
LEMMA InterruptSound ==
    ASSUME AInv, interrupt \/ rx_check
    PROVE  AInv'
<1>1. TypeOK'
  BY DEF AInv, TypeOK, interrupt, rx_check, rx, tx, line, program
<1>2. RxInv'
  BY DEF AInv, RxInv, Waiting, RDRF, interrupt, rx_check, rx, tx, line, program
<1> QED
  BY <1>1, <1>2 DEF AInv

LEMMA TransmitSound ==
    ASSUME AInv, Transmit
    PROVE  AInv'
<1>1. TypeOK'
  BY DEF AInv, TypeOK, Transmit, rx, tx, program
<1>2. RxInv'
  BY DEF AInv, RxInv, Waiting, RDRF, Transmit, rx, tx, program
<1> QED
  BY <1>1, <1>2 DEF AInv

LEMMA TeiClear ==
    ASSUME AInv, tx_tei_clear \/ UNCHANGED <<control, late>>
    PROVE  /\ control' \in {TDI_RTS0, TEI_RTS0, TDI_RTS1} /\ late' \in 0 .. Lag
           /\ control' = TDI_RTS1 => control = TDI_RTS1 /\ late' = late
           /\ control = TDI_RTS1 => control' = TDI_RTS1
BY SizeAssumption
   DEF AInv, TypeOK, tx_tei_clear, SetControl, TDI_RTS0, TEI_RTS0, TDI_RTS1

LEMMA TxSendSound ==
    ASSUME AInv, tx_send
    PROVE  AInv'
<1>1. /\ control' \in {TDI_RTS0, TEI_RTS0, TDI_RTS1} /\ late' \in 0 .. Lag
      /\ control' = TDI_RTS1 => control = TDI_RTS1 /\ late' = late
  BY TeiClear DEF tx_send
<1>2. TypeOK'
  <2>1. /\ txBuffer' \in [0 .. TxSize - 1 -> 0 .. Numbers - 1]
        /\ txIn' \in 0 .. TxSize - 1 /\ txOut' \in 0 .. TxSize - 1
        /\ txCount' \in 0 .. TxSize - 1
        /\ tdr' \in {<<>>} \cup {<<n>> : n \in 0 .. Numbers - 1}
    <3>1. CASE UNCHANGED <<tx, tdr>>
      BY <3>1 DEF AInv, TypeOK, tx
    <3>2. CASE /\ txCount # 0
               /\ tdr' = <<txBuffer[txOut]>>
               /\ txOut' = After(txOut, TxSize)
               /\ txCount' = txCount - 1
               /\ txBuffer' = [txBuffer EXCEPT ![txOut] = 0]
               /\ UNCHANGED txIn
      <4>1. After(txOut, TxSize) \in 0 .. TxSize - 1
        BY SizeAssumption, AfterInRange DEF AInv, TypeOK
      <4>2. 0 \in 0 .. Numbers - 1
        BY SizeAssumption
      <4> QED
        BY <3>2, <4>1, <4>2, SizeAssumption DEF AInv, TypeOK
    <3> QED
      BY <3>1, <3>2 DEF tx_send
  <2> QED
    BY <1>1, <2>1 DEF AInv, TypeOK, tx_send, rx, program
<1>3. RxInv'
  <2>1. txCount' <= txCount
    BY DEF AInv, TypeOK, tx_send, tx
  <2>2. txCount \in Int /\ txCount' \in Int /\ TxSize \in Int
    BY <1>2, SizeAssumption DEF AInv, TypeOK
  <2>3. pc' = pc /\ (pc \in {"poke", "inc"} => txCount' < TxSize - 1)
    BY <2>1, <2>2 DEF AInv, RxInv, tx_send, program
  <2> QED
    BY <1>1, <2>3 DEF AInv, RxInv, Waiting, RDRF, tx_send, rx
<1> QED
  BY <1>2, <1>3 DEF AInv

LEMMA GetcSound ==
    ASSUME AInv, Call \/ getc \/ getc_lower \/ getc_clean_up_rx \/ getc_dec
    PROVE  AInv'
<1>1. CASE Call \/ getc
  <2>1. TypeOK'
    BY <1>1 DEF AInv, TypeOK, Call, getc, rx, tx, line
  <2>2. RxInv'
    BY <1>1 DEF AInv, TypeOK, RxInv, Waiting, RDRF, Call, getc, At, rx, tx, line
  <2> QED
    BY <2>1, <2>2 DEF AInv
<1>2. CASE getc_lower
  <2>1. TypeOK'
    BY <1>2, SizeAssumption DEF AInv, TypeOK, getc_lower, SetControl, Goto, rx, tx, line
  <2>2. RxInv'
    BY <1>2 DEF AInv, RxInv, Waiting, RDRF, getc_lower, SetControl, Goto, At, rx, tx, line,
                TDI_RTS0, TDI_RTS1
  <2> QED
    BY <2>1, <2>2 DEF AInv
<1>3. CASE getc_clean_up_rx
  <2>0. RxSize \in Nat \ {0} /\ 0 \in 0 .. Numbers - 1
    BY SizeAssumption
  <2>1. After(rxOut, RxSize) \in 0 .. RxSize - 1 /\ 0 \in 0 .. Numbers - 1
    BY <2>0, AfterInRange DEF AInv, TypeOK
  <2>2. TypeOK'
    BY <1>3, <2>1 DEF AInv, TypeOK, getc_clean_up_rx, Goto, tx, line
  <2>3. RxInv'
    BY <1>3 DEF AInv, RxInv, Waiting, RDRF, getc_clean_up_rx, Goto, At, tx, line
  <2> QED
    BY <2>2, <2>3 DEF AInv
<1>4. CASE getc_dec
  <2>1. rxCount \in 0 .. Byte - 1 /\ Byte \in Nat \ {0} /\ 0 \in 0 .. Numbers - 1
    BY SizeAssumption DEF AInv, TypeOK
  <2>2. rxCount' \in 0 .. Byte - 1
    BY <1>4, <2>1, InByte DEF getc_dec
  <2>3. TypeOK'
    BY <1>4, <2>1, <2>2 DEF AInv, TypeOK, getc_dec, Goto, tx, line
  <2>4. overrun = "no" => rxCount' = rxCount - 1
    BY <1>4, <2>1, CountDown DEF AInv, RxInv, getc_dec, At
  <2>5. control = TDI_RTS1 => overrun = "no"
    BY DEF AInv, TypeOK, RxInv
  <2>6. control' = control /\ late' = late /\ overrun' = overrun /\ isr' = isr
        /\ rdr' = rdr /\ pc' = "main"
    BY <1>4 DEF getc_dec, Goto, line
  <2>7. RxInv'
    <3>1. control = TDI_RTS1 => rxCount + Waiting <= Fullish + late
      BY DEF AInv, RxInv
    <3>2. Waiting' = Waiting /\ Waiting \in {0, 1} /\ RDRF' = RDRF
      BY <2>6 DEF Waiting, RDRF
    <3>3. late \in 0 .. Lag
      BY DEF AInv, TypeOK
    <3>4. control = TDI_RTS1 => rxCount' + Waiting' <= Fullish + late'
      BY <2>1, <2>4, <2>5, <2>6, <3>1, <3>2, <3>3, SizeAssumption
    <3> QED
      BY <2>6, <3>2, <3>4 DEF AInv, RxInv
  <2> QED
    BY <2>3, <2>7 DEF AInv
<1> QED
  BY <1>1, <1>2, <1>3, <1>4

LEMMA FlushSound ==
    ASSUME AInv, flush_Rx \/ flush_Tx
    PROVE  AInv'
<1>1. TypeOK'
  <2>1. /\ 0 \in 0 .. RxSize - 1 /\ 0 \in 0 .. TxSize - 1 /\ 0 \in 0 .. Byte - 1
        /\ Empty(RxSize) \in [0 .. RxSize - 1 -> 0 .. Numbers - 1]
        /\ Empty(TxSize) \in [0 .. TxSize - 1 -> 0 .. Numbers - 1]
    BY SizeAssumption DEF Empty
  <2>2. CASE flush_Rx
    BY <2>1, <2>2 DEF AInv, TypeOK, flush_Rx, tx, line, program
  <2>3. CASE flush_Tx
    BY <2>1, <2>3 DEF AInv, TypeOK, flush_Tx, rx, line, program
  <2> QED
    BY <2>2, <2>3
<1>2. RxInv'
  <2>1. CASE flush_Tx
    BY <2>1 DEF AInv, RxInv, Waiting, RDRF, flush_Tx, At, rx, line, program
  <2>2. CASE flush_Rx
    <3>1. Waiting <= 1 /\ Waiting \in Int /\ Waiting' = Waiting
      BY <2>2 DEF Waiting, RDRF, flush_Rx, line
    <3>2. late \in 0 .. Lag
      BY DEF AInv, TypeOK
    <3>3. 0 + Waiting <= Fullish + late
      BY <3>1, <3>2, SizeAssumption
    <3> QED
      BY <2>2, <3>1, <3>3 DEF AInv, RxInv, RDRF, flush_Rx, At, line, program
  <2> QED
    BY <2>1, <2>2
<1> QED
  BY <1>1, <1>2 DEF AInv

LEMMA PutcSound ==
    ASSUME AInv,
           \/ putc \/ putc_status \/ putc_direct \/ putc_buffer_tx \/ putc_poke
           \/ putc_inc \/ putc_buffer_tx_exit \/ putc_enable
    PROVE  AInv'
<1>1. /\ control \in {TDI_RTS0, TEI_RTS0, TDI_RTS1} /\ late \in 0 .. Lag
      /\ written \in 0 .. Numbers - 1 /\ Number(written) \in 0 .. Numbers - 1
      /\ txCount \in 0 .. TxSize - 1 /\ TxSize \in Nat \ {0} /\ Lag \in Nat
  BY NumberInRange, SizeAssumption DEF AInv, TypeOK
<1>2. CASE putc \/ putc_status \/ putc_buffer_tx \/ putc_buffer_tx_exit
  <2>1. TypeOK'
    BY <1>2 DEF AInv, TypeOK, putc, putc_status, putc_buffer_tx, putc_buffer_tx_exit,
                Goto, Retry, rx, tx, line
  <2>2. pc' \in {"poke", "inc"} => txCount' < TxSize - 1
    BY <1>2 DEF putc, putc_status, putc_buffer_tx, putc_buffer_tx_exit, Goto, Retry, tx
  <2>3. pc' \notin {"lower", "pop", "dec"}
    BY <1>2 DEF putc, putc_status, putc_buffer_tx, putc_buffer_tx_exit, Goto, Retry
  <2>4. UNCHANGED <<rx, control, late, line, isr, overrun>>
    BY <1>2 DEF putc, putc_status, putc_buffer_tx, putc_buffer_tx_exit
  <2> QED
    BY <2>1, <2>2, <2>3, <2>4 DEF AInv, RxInv, Waiting, RDRF, rx, line
<1>3. CASE putc_direct
  <2>1. TypeOK'
    BY <1>1, <1>3 DEF AInv, TypeOK, putc_direct, Goto, rx, tx
  <2>2. RxInv'
    BY <1>3 DEF AInv, RxInv, Waiting, RDRF, putc_direct, Goto, rx
  <2> QED
    BY <2>1, <2>2 DEF AInv
<1>4. CASE putc_poke
  <2>1. After(txIn, TxSize) \in 0 .. TxSize - 1
    BY <1>1, AfterInRange DEF AInv, TypeOK
  <2>2. TypeOK'
    BY <1>1, <1>4, <2>1 DEF AInv, TypeOK, putc_poke, Goto, rx, line
  <2>3. RxInv'
    BY <1>4 DEF AInv, RxInv, Waiting, RDRF, putc_poke, Goto, At, rx, line
  <2> QED
    BY <2>2, <2>3 DEF AInv
<1>5. CASE putc_inc
  <2>1. txCount < TxSize - 1
    BY <1>5 DEF AInv, RxInv, putc_inc, At
  <2>2. txCount' \in 0 .. TxSize - 1
    BY <1>1, <1>5, <2>1 DEF putc_inc
  <2>3. TypeOK'
    BY <1>1, <1>5, <2>2 DEF AInv, TypeOK, putc_inc, Goto, rx, line
  <2>4. RxInv'
    BY <1>5 DEF AInv, RxInv, Waiting, RDRF, putc_inc, Goto, rx, line
  <2> QED
    BY <2>3, <2>4 DEF AInv
<1>6. CASE putc_enable
  <2>1. control' = TEI_RTS0 /\ late' = 0 /\ pc' \in {"putc", "main"}
    BY <1>6 DEF putc_enable, SetControl, Goto, Retry, TEI_RTS0, TDI_RTS1
  <2>2. TypeOK'
    BY <1>1, <1>6, <2>1 DEF AInv, TypeOK, putc_enable, rx, tx, line
  <2>3. RxInv'
    BY <1>6, <2>1 DEF AInv, RxInv, RDRF, putc_enable, rx, line, TEI_RTS0, TDI_RTS1
  <2> QED
    BY <2>2, <2>3 DEF AInv
<1> QED
  BY <1>2, <1>3, <1>4, <1>5, <1>6

LEMMA NextSound ==
    ASSUME AInv, [Next]_vars
    PROVE  AInv'
<1>1. CASE UNCHANGED vars
  BY <1>1 DEF AInv, TypeOK, RxInv, Waiting, RDRF, vars, rx, tx, line, program
<1> QED
  BY <1>1, ReceiveSound, TransmitSound, InterruptSound, RxGetSound, TxSendSound,
     GetcSound, PutcSound, FlushSound DEF Next, Interrupt, Running

(* The strengthened invariant of the driver. *)
THEOREM AciaInvariant == Spec => []AInv
BY InitSound, NextSound, PTL DEF Spec

(***************************************************************************)
(* Counts and pointers stay inside their buffers: putc, which counts its   *)
(* byte after it has stored it, never passes what the Tx buffer can hold.  *)
(***************************************************************************)
THEOREM AciaTypeOK == Spec => []TypeOK
<1>1. AInv => TypeOK
  BY DEF AInv
<1> QED
  BY <1>1, AciaInvariant, PTL

(***************************************************************************)
(* A step starts with flow control in force, and keeps it.                 *)
(***************************************************************************)
LEMMA RxGetHolds ==
    ASSUME AInv, rx_get, overrun = "no", ~ Exposed
    PROVE  overrun' = "no" /\ ~ Exposed'
<1>1. rxCount \in 0 .. Byte - 1 /\ late \in 0 .. Lag
  BY DEF AInv, TypeOK
<1>2. rxCount + 1 < RxSize
  <2>1. CASE control = TDI_RTS1
    <3>1. rxCount + 1 <= Fullish + late
      BY <2>1 DEF AInv, RxInv, Waiting, rx_get
    <3> QED
      BY <1>1, <3>1, SizeAssumption
  <2>2. CASE rxCount < Fullish
    BY <1>1, <2>2, SizeAssumption
  <2> QED
    BY <1>1, <2>1, <2>2, SizeAssumption DEF Exposed
<1>3. rxCount' = rxCount + 1
  BY <1>1, <1>2, SizeAssumption, CountUp DEF rx_get
<1>4. overrun' = "no"
  BY <1>1, <1>2, <1>3, SizeAssumption DEF rx_get
<1>5. control' = IF rxCount' = Fullish THEN TDI_RTS1 ELSE control
  BY DEF rx_get, SetControl
<1>6. control = TDI_RTS1 \/ rxCount + 1 <= Fullish
  BY <1>1, SizeAssumption DEF Exposed
<1> QED
  BY <1>1, <1>3, <1>4, <1>5, <1>6, SizeAssumption DEF Exposed

LEMMA StepHolds ==
    ASSUME AInv, [Next]_vars, overrun = "no", ~ Exposed
    PROVE  overrun' = "no" /\ (Exposed' => putc_enable \/ getc_lower)
<1>1. CASE rx_get
  BY <1>1, RxGetHolds
<1>2. CASE getc_dec
  <2>1. rxCount \in 0 .. Byte - 1 /\ rxCount >= 1
    BY <1>2 DEF AInv, TypeOK, RxInv, getc_dec, At
  <2>2. rxCount' = rxCount - 1
    BY <1>2, <2>1, SizeAssumption, CountDown DEF getc_dec
  <2> QED
    BY <1>2, <2>1, <2>2, SizeAssumption DEF Exposed, getc_dec
<1>3. CASE tx_send
  <2>1. control = TDI_RTS1 => control' = TDI_RTS1
    BY <1>3, TeiClear DEF tx_send
  <2> QED
    BY <1>3, <2>1 DEF Exposed, tx_send, rx
<1>4. CASE flush_Rx
  BY <1>4, SizeAssumption DEF Exposed, flush_Rx
<1>5. CASE UNCHANGED <<rx, control, overrun>>
  BY <1>5 DEF Exposed, rx
<1>6. CASE getc_clean_up_rx
  BY <1>6 DEF Exposed, getc_clean_up_rx
<1>7. CASE putc_enable \/ getc_lower
  BY <1>7 DEF putc_enable, getc_lower
<1>8. CASE Receive \/ Transmit \/ interrupt \/ rx_check \/ flush_Tx
  BY <1>5, <1>8 DEF Receive, Transmit, interrupt, rx_check, flush_Tx
<1>9. CASE Call \/ getc \/ putc \/ putc_status \/ putc_direct \/ putc_buffer_tx
  BY <1>5, <1>9 DEF Call, getc, putc, putc_status, putc_direct, putc_buffer_tx
<1>10. CASE putc_poke \/ putc_inc \/ putc_buffer_tx_exit
  BY <1>5, <1>10 DEF putc_poke, putc_inc, putc_buffer_tx_exit
<1>11. CASE UNCHANGED vars
  BY <1>5, <1>11 DEF vars
<1> QED
  BY <1>1, <1>2, <1>3, <1>4, <1>6, <1>7, <1>8, <1>9, <1>10, <1>11
     DEF Next, Interrupt, Running

(***************************************************************************)
(* However long the far end takes to stop, up to what the size leaves      *)
(* above the limit, no byte is lost while flow control is in force, and    *)
(* only the two steps named let it slip.                                   *)
(***************************************************************************)
THEOREM AciaFlowControl == Spec => FlowControlHolds
<1>1. AInv /\ [Next]_vars
      => [overrun = "no" /\ ~ Exposed =>
             overrun' = "no" /\ (Exposed' => putc_enable \/ getc_lower)]_vars
  BY StepHolds
<1> QED
  BY <1>1, AciaInvariant, PTL DEF Spec, FlowControlHolds

LEMMA RxGetStrands ==
    ASSUME AInv, rx_get, ~ Stranded
    PROVE  ~ Stranded'
<1>1. /\ rxCount \in 0 .. Byte - 1 /\ late \in 0 .. Lag
      /\ control' = IF rxCount' = Fullish THEN TDI_RTS1 ELSE control
      /\ UNCHANGED pc
  BY DEF AInv, TypeOK, rx_get, SetControl, program
<1>2. CASE rxCount' = Fullish
  <2>1. Left' >= Fullish - 1
    BY <1>1, <1>2, SizeAssumption DEF Left
  <2> QED
    BY <1>1, <1>2, <2>1, SizeAssumption DEF Left, Stranded
<1>3. CASE rxCount' # Fullish /\ control = TDI_RTS1
  <2>1. rxCount + 1 <= Fullish + late
    BY <1>3 DEF AInv, RxInv, Waiting, rx_get
  <2>2. rxCount + 1 < Byte
    BY <1>1, <2>1, SizeAssumption
  <2>3. rxCount' = rxCount + 1
    BY <1>1, <2>2, SizeAssumption, CountUp DEF rx_get
  <2>4. Left >= Emptyish
    BY <1>1, <1>3, SizeAssumption DEF Stranded, Left
  <2>5. Left' = Left + 1
    BY <1>1, <2>3 DEF Left
  <2> QED
    BY <1>1, <2>4, <2>5, SizeAssumption DEF Left, Stranded
<1>4. CASE rxCount' # Fullish /\ control # TDI_RTS1
  BY <1>1, <1>4 DEF Stranded
<1> QED
  BY <1>2, <1>3, <1>4

LEMMA GetcStrands ==
    ASSUME AInv, getc \/ getc_lower \/ getc_clean_up_rx \/ getc_dec, ~ Stranded
    PROVE  ~ Stranded'
<1>1. rxCount \in 0 .. Byte - 1
  BY DEF AInv, TypeOK
<1>2. CASE getc
  BY <1>1, <1>2, SizeAssumption DEF Stranded, Left, getc, At, rx
<1>3. CASE getc_lower
  BY <1>3 DEF Stranded, getc_lower, SetControl, TDI_RTS0, TDI_RTS1
<1>4. CASE getc_clean_up_rx
  BY <1>4 DEF Stranded, Left, getc_clean_up_rx, At, Goto
<1>5. CASE getc_dec
  <2>1. UNCHANGED control /\ pc = "dec" /\ pc' = "main"
    BY <1>5 DEF getc_dec, At, Goto
  <2>2. CASE control = TDI_RTS1
    <3>1. rxCount >= 1
      BY <2>1, <2>2 DEF AInv, TypeOK, RxInv
    <3>2. rxCount' = rxCount - 1
      BY <1>1, <1>5, <3>1, SizeAssumption, CountDown DEF getc_dec
    <3> QED
      BY <2>1, <3>2 DEF Stranded, Left
  <2>3. CASE control # TDI_RTS1
    BY <2>1, <2>3 DEF Stranded
  <2> QED
    BY <2>2, <2>3
<1> QED
  BY <1>2, <1>3, <1>4, <1>5

LEMMA StepStrands ==
    ASSUME AInv, [Next]_vars, ~ Stranded, Stranded'
    PROVE  flush_Rx
<1> DEFINE Counted == pc \in {"pop", "dec"}
<1>1. ASSUME UNCHANGED <<rxCount, control>>, Counted' = Counted
      PROVE  FALSE
  BY <1>1 DEF Stranded, Left
<1>2. CASE rx_get
  BY <1>2, RxGetStrands
<1>3. CASE getc \/ getc_lower \/ getc_clean_up_rx \/ getc_dec
  BY <1>3, GetcStrands
<1>4. CASE tx_send
  <2>1. control' = TDI_RTS1 => control = TDI_RTS1
    BY <1>4, TeiClear DEF tx_send
  <2> QED
    BY <1>4, <2>1 DEF Stranded, Left, tx_send, rx, program
<1>5. CASE putc_enable
  BY <1>5 DEF Stranded, putc_enable, SetControl, TEI_RTS0, TDI_RTS1
<1>6. CASE Receive \/ Transmit \/ interrupt \/ rx_check \/ flush_Tx
  BY <1>1, <1>6 DEF Receive, Transmit, interrupt, rx_check, flush_Tx, rx, program
<1>7. CASE Call \/ putc \/ putc_status \/ putc_direct \/ putc_buffer_tx
  BY <1>1, <1>7 DEF Call, putc, putc_status, putc_direct, putc_buffer_tx, At, Goto, rx
<1>8. CASE putc_poke \/ putc_inc \/ putc_buffer_tx_exit
  BY <1>1, <1>8 DEF putc_poke, putc_inc, putc_buffer_tx_exit, Retry, At, Goto, rx
<1>9. CASE UNCHANGED vars
  BY <1>1, <1>9 DEF vars, rx, program
<1>10. CASE flush_Rx
  BY <1>10
<1> QED
  BY <1>2, <1>3, <1>4, <1>5, <1>6, <1>7, <1>8, <1>9, <1>10
     DEF Next, Interrupt, Running

(***************************************************************************)
(* Whatever the limits, the far end is not told to stop for good: getc     *)
(* finds the byte at which it tells it to go on, unless a flush takes it.  *)
(***************************************************************************)
THEOREM AciaOnlyFlushStrands == Spec => OnlyFlushStrands
<1>1. AInv /\ [Next]_vars => [~ Stranded /\ Stranded' => flush_Rx]_vars
  BY StepStrands
<1> QED
  BY <1>1, AciaInvariant, PTL DEF Spec, OnlyFlushStrands

LEMMA StepStalls ==
    ASSUME AInv, [Next]_vars, ~ Stalled, Stalled'
    PROVE  rx_get \/ getc_lower
<1> DEFINE Leaving == pc \in {"exit", "enable"}
<1>1. ASSUME UNCHANGED <<txCount, control>>, Leaving' = Leaving
      PROVE  FALSE
  BY <1>1 DEF Stalled
<1>2. CASE tx_send
  <2>1. CASE UNCHANGED <<txCount, control>>
    BY <1>1, <1>2, <2>1 DEF tx_send, program
  <2>2. CASE txCount' = 0
    BY <2>2 DEF Stalled
  <2>3. CASE txCount # 0 /\ UNCHANGED control
    <3>1. txCount > 0
      BY <2>3 DEF AInv, TypeOK
    <3> QED
      BY <1>2, <2>3, <3>1 DEF Stalled, tx_send, program
  <2> QED
    BY <1>2, <2>1, <2>2, <2>3 DEF tx_send, tx
<1>3. CASE putc_enable
  BY <1>3 DEF Stalled, putc_enable, SetControl
<1>4. CASE putc_buffer_tx_exit
  <2>1. CASE control = TEI_RTS0
    BY <1>4, <2>1 DEF Stalled, putc_buffer_tx_exit
  <2>2. CASE control # TEI_RTS0
    BY <1>4, <2>2 DEF Stalled, putc_buffer_tx_exit, Goto
  <2> QED
    BY <2>1, <2>2
<1>5. CASE putc_inc
  BY <1>5 DEF Stalled, putc_inc, Goto
<1>6. CASE putc_buffer_tx
  BY <1>6 DEF Stalled, putc_buffer_tx, At, Goto, tx
<1>7. CASE Receive \/ Transmit \/ interrupt \/ rx_check \/ flush_Rx
  BY <1>1, <1>7 DEF Receive, Transmit, interrupt, rx_check, flush_Rx, tx, program
<1>8. CASE Call \/ getc \/ getc_clean_up_rx \/ getc_dec
  BY <1>1, <1>8 DEF Call, getc, getc_clean_up_rx, getc_dec, At, Goto, tx
<1>9. CASE putc \/ putc_status \/ putc_direct \/ putc_poke
  BY <1>1, <1>9 DEF putc, putc_status, putc_direct, putc_poke, At, Goto, tx
<1>10. CASE flush_Tx
  BY <1>10 DEF Stalled, flush_Tx
<1>11. CASE UNCHANGED vars
  BY <1>1, <1>11 DEF vars, tx, program
<1> QED
  BY <1>2, <1>3, <1>4, <1>5, <1>6, <1>7, <1>8, <1>9, <1>10, <1>11
     DEF Next, Interrupt, Running

(***************************************************************************)
(* The transmit side never leaves bytes behind with its interrupt off: the *)
(* count goes up before putc looks at the interrupt, and the routine turns *)
(* it off only when the count is down to zero.                             *)
(***************************************************************************)
THEOREM AciaOnlyReceiveStalls == Spec => OnlyReceiveStalls
<1>1. AInv /\ [Next]_vars => [~ Stalled /\ Stalled' => rx_get \/ getc_lower]_vars
  BY StepStalls
<1> QED
  BY <1>1, AciaInvariant, PTL DEF Spec, OnlyReceiveStalls

-----------------------------------------------------------------------------
(***************************************************************************)
(* What a ring buffer stores, as a sequence.                               *)
(***************************************************************************)
Bytes == 0 .. Numbers - 1

LEMMA SmallWrap ==
    ASSUME NEW size \in Nat, NEW x \in Int, 0 <= x, x < size
    PROVE  x % size = x
OBVIOUS

LEMMA LargeWrap ==
    ASSUME NEW size \in Nat, NEW x \in Int, size <= x, x < size + size
    PROVE  x % size = x - size
OBVIOUS

(* The slot k places behind a pointer, and that no two of them are the same. *)
LEMMA Slot ==
    ASSUME NEW size \in Nat \ {0}, NEW out \in 0 .. size - 1, NEW k \in 0 .. size - 1
    PROVE  /\ (out + k) % size = IF out + k < size THEN out + k ELSE out + k - size
           /\ (out + k) % size \in 0 .. size - 1
<1> DEFINE x == out + k
<1>1. x \in Int /\ 0 <= x /\ x < size + size /\ size \in Nat /\ x = out + k
  OBVIOUS
<1> HIDE DEF x
<1>2. CASE x < size
  <2>1. x % size = x
    BY <1>1, <1>2, SmallWrap
  <2> QED
    BY <1>1, <1>2, <2>1
<1>3. CASE size <= x
  <2>1. x % size = x - size
    BY <1>1, <1>3, LargeWrap
  <2> QED
    BY <1>1, <1>3, <2>1
<1> QED
  BY <1>1, <1>2, <1>3

LEMMA SlotHere ==
    ASSUME NEW size \in Nat \ {0}, NEW out \in 0 .. size - 1
    PROVE  0 \in 0 .. size - 1 /\ (out + 0) % size = out
<1>1. out + 0 = out /\ out % size = out
  BY SmallWrap
<1> QED
  BY <1>1

LEMMA SlotsDiffer ==
    ASSUME NEW size \in Nat \ {0}, NEW out \in 0 .. size - 1,
           NEW j \in 0 .. size - 1, NEW k \in 0 .. size - 1, j # k
    PROVE  (out + j) % size # (out + k) % size
<1>1. (out + j) % size = IF out + j < size THEN out + j ELSE out + j - size
  BY Slot
<1>2. (out + k) % size = IF out + k < size THEN out + k ELSE out + k - size
  BY Slot
<1> QED
  BY <1>1, <1>2

LEMMA SlotBehind ==
    ASSUME NEW size \in Nat \ {0}, NEW out \in 0 .. size - 1,
           NEW k \in Nat, k + 1 < size
    PROVE  /\ After(out, size) \in 0 .. size - 1
           /\ (After(out, size) + k) % size = (out + (k + 1)) % size
<1>1. /\ k \in 0 .. size - 1 /\ k + 1 \in 0 .. size - 1
      /\ 1 \in 0 .. size - 1
  OBVIOUS
<1>2. /\ After(out, size) = IF out + 1 < size THEN out + 1 ELSE out + 1 - size
      /\ After(out, size) \in 0 .. size - 1
  BY <1>1, Slot DEF After
<1>3. (After(out, size) + k) % size
         = IF After(out, size) + k < size THEN After(out, size) + k ELSE After(out, size) + k - size
  BY <1>1, <1>2, Slot
<1>4. (out + (k + 1)) % size = IF out + (k + 1) < size THEN out + (k + 1) ELSE out + (k + 1) - size
  BY <1>1, Slot
<1> QED
  BY <1>2, <1>3, <1>4

(* Past the first byte, the others are found one place less far behind. *)
LEMMA SlotNext ==
    ASSUME NEW size \in Nat \ {0}, NEW out \in 0 .. size - 1, NEW n \in 1 .. size
    PROVE  (After(out, size) + (n - 1)) % size = (out + n) % size
<1>1. CASE n < size
  <2>1. n - 1 \in Nat /\ (n - 1) + 1 = n
    OBVIOUS
  <2>2. (After(out, size) + (n - 1)) % size = (out + ((n - 1) + 1)) % size
    BY <1>1, <2>1, SlotBehind
  <2> QED
    BY <2>1, <2>2
<1>2. CASE n = size
  <2>1. After(out, size) \in 0 .. size - 1 /\ n - 1 \in 0 .. size - 1
        /\ After(out, size) = IF out + 1 < size THEN out + 1 ELSE out + 1 - size
    <3>1. CASE out + 1 < size
      BY <1>2, <3>1, SmallWrap DEF After
    <3>2. CASE out + 1 = size
      <4>1. size % size = size - size
        BY LargeWrap
      <4> QED
        BY <1>2, <3>2, <4>1 DEF After
    <3> QED
      BY <3>1, <3>2
  <2>2. (After(out, size) + (n - 1)) % size
          = IF After(out, size) + (n - 1) < size THEN After(out, size) + (n - 1)
                                                 ELSE After(out, size) + (n - 1) - size
    BY <2>1, Slot
  <2>3. (out + n) % size = out
    <3>1. out + n \in Int /\ size <= out + n /\ out + n < size + size
      BY <1>2
    <3>2. (out + n) % size = out + n - size
      BY <3>1, LargeWrap
    <3> QED
      BY <1>2, <3>2
  <2> QED
    BY <1>2, <2>1, <2>2, <2>3
<1> QED
  BY <1>1, <1>2

LEMMA SlotAfter ==
    ASSUME NEW size \in Nat \ {0}, NEW out \in 0 .. size - 1, NEW k \in 0 .. size - 1
    PROVE  /\ After((out + k) % size, size) \in 0 .. size - 1
           /\ After((out + k) % size, size) = (out + (k + 1)) % size
<1>1. /\ (out + k) % size = IF out + k < size THEN out + k ELSE out + k - size
      /\ (out + k) % size \in 0 .. size - 1
  BY Slot
<1>2. CASE out + k + 1 < size
  <2>1. ((out + k) % size) + 1 = out + (k + 1)
    BY <1>1, <1>2
  <2>2. (out + (k + 1)) % size = out + (k + 1)
    BY <1>2, SmallWrap
  <2> QED
    BY <1>2, <2>1, <2>2 DEF After
<1>3. CASE out + k + 1 = size
  <2>1. ((out + k) % size) + 1 = out + (k + 1) /\ out + (k + 1) = size
    BY <1>1, <1>3
  <2>2. size % size = size - size
    BY LargeWrap
  <2> QED
    BY <2>1, <2>2 DEF After
<1>4. CASE out + k + 1 > size
  <2>1. /\ ((out + k) % size) + 1 = out + (k + 1) - size
        /\ out + (k + 1) \in Int /\ size <= out + (k + 1) /\ out + (k + 1) < size + size
    BY <1>1, <1>4
  <2>2. (out + (k + 1)) % size = out + (k + 1) - size
    BY <2>1, LargeWrap
  <2>3. out + (k + 1) - size \in Int /\ 0 <= out + (k + 1) - size /\ out + (k + 1) - size < size
    BY <2>1
  <2>4. (out + (k + 1) - size) % size = out + (k + 1) - size
    BY <2>3, SmallWrap
  <2> QED
    BY <2>1, <2>2, <2>3, <2>4 DEF After
<1> QED
  BY <1>2, <1>3, <1>4

(* What a buffer stores is a sequence, slot by slot. *)
LEMMA StoredAt ==
    ASSUME NEW size, NEW buffer, NEW out \in Int, NEW n \in Int, NEW i \in 1 .. n
    PROVE  Stored(buffer, out, n, size)[i] = buffer[(out + (i - 1)) % size]
<1>1. out + i - 1 = out + (i - 1)
  OBVIOUS
<1>2. Stored(buffer, out, n, size)[i] = buffer[(out + i - 1) % size]
  BY DEF Stored
<1> QED
  BY <1>1, <1>2

LEMMA StoredSeq ==
    ASSUME NEW size \in Nat \ {0}, NEW buffer \in [0 .. size - 1 -> Bytes],
           NEW out \in 0 .. size - 1, NEW n \in 0 .. size
    PROVE  /\ Stored(buffer, out, n, size) \in Seq(Bytes)
           /\ Len(Stored(buffer, out, n, size)) = n
<1>1. ASSUME NEW i \in 1 .. n
      PROVE  (out + i - 1) % size \in 0 .. size - 1
  <2>1. i - 1 \in 0 .. size - 1 /\ out + i - 1 = out + (i - 1)
    OBVIOUS
  <2> QED
    BY <2>1, Slot
<1>2. Stored(buffer, out, n, size) \in [1 .. n -> Bytes]
  BY <1>1 DEF Stored
<1>3. n \in Nat
  OBVIOUS
<1> QED
  BY <1>2, <1>3

(* A byte poked behind those that are stored, once it is counted. *)
LEMMA StoredPut ==
    ASSUME NEW size \in Nat \ {0}, NEW buffer \in [0 .. size - 1 -> Bytes],
           NEW out \in 0 .. size - 1, NEW n \in 0 .. size - 1
    PROVE  Stored(buffer, out, n + 1, size)
             = Append(Stored(buffer, out, n, size), buffer[(out + n) % size])
<1> DEFINE s == Stored(buffer, out, n, size)
           t == Stored(buffer, out, n + 1, size)
           e == buffer[(out + n) % size]
<1>0. out \in Int /\ n \in Int /\ n + 1 \in Int
  OBVIOUS
<1>1. n \in 0 .. size /\ n + 1 \in 0 .. size /\ e \in Bytes
  BY Slot
<1>2. s \in Seq(Bytes) /\ Len(s) = n /\ t \in Seq(Bytes) /\ Len(t) = n + 1
  BY <1>1, StoredSeq
<1>3. /\ \A i \in 1 .. n : s[i] = buffer[(out + (i - 1)) % size]
      /\ \A i \in 1 .. n + 1 : t[i] = buffer[(out + (i - 1)) % size]
  <2>1. ASSUME NEW i \in 1 .. n
        PROVE  s[i] = buffer[(out + (i - 1)) % size]
    BY <1>0, StoredAt
  <2>2. ASSUME NEW i \in 1 .. n + 1
        PROVE  t[i] = buffer[(out + (i - 1)) % size]
    BY <1>0, StoredAt
  <2> QED
    BY <2>1, <2>2
<1> HIDE DEF s, t
<1>4. Append(s, e) \in Seq(Bytes) /\ Len(Append(s, e)) = n + 1
      /\ (\A i \in 1 .. n : Append(s, e)[i] = s[i]) /\ Append(s, e)[n + 1] = e
  BY <1>1, <1>2, AppendProperties
<1>5. ASSUME NEW i \in 1 .. n + 1
      PROVE  t[i] = Append(s, e)[i]
  <2>1. CASE i \in 1 .. n
    BY <1>2, <1>3, <1>4, <2>1
  <2>2. CASE i = n + 1
    <3>1. i - 1 = n
      BY <2>2
    <3> QED
      BY <1>3, <1>4, <2>2, <3>1
  <2>3. i \in 1 .. n \/ i = n + 1
    OBVIOUS
  <2> QED
    BY <2>1, <2>2, <2>3
<1>6. t = Append(s, e)
  BY <1>2, <1>4, <1>5, SeqEqual
<1> QED
  BY <1>6 DEF s, t

(* A slot that stores nothing may be poked. *)
LEMMA StoredElsewhere ==
    ASSUME NEW size \in Nat \ {0}, NEW buffer \in [0 .. size - 1 -> Bytes],
           NEW out \in 0 .. size - 1, NEW n \in 0 .. size - 1, NEW e \in Bytes
    PROVE  LET poked == [buffer EXCEPT ![(out + n) % size] = e]
           IN  /\ poked \in [0 .. size - 1 -> Bytes]
               /\ poked[(out + n) % size] = e
               /\ Stored(poked, out, n, size) = Stored(buffer, out, n, size)
<1> DEFINE p == (out + n) % size
           w == [buffer EXCEPT ![p] = e]
<1>1. p \in 0 .. size - 1 /\ n \in 0 .. size
  BY Slot
<1> HIDE DEF p
<1>2. w \in [0 .. size - 1 -> Bytes] /\ w[p] = e
      /\ \A q \in 0 .. size - 1 : q # p => w[q] = buffer[q]
  BY <1>1
<1> HIDE DEF w
<1>3. ASSUME NEW i \in 1 .. n
      PROVE  w[(out + (i - 1)) % size] = buffer[(out + (i - 1)) % size]
  <2>1. i - 1 \in 0 .. size - 1 /\ i - 1 # n
    OBVIOUS
  <2>2. (out + (i - 1)) % size \in 0 .. size - 1 /\ (out + (i - 1)) % size # p
    BY <2>1, Slot, SlotsDiffer DEF p
  <2> QED
    BY <1>2, <2>2
<1>4. /\ Stored(w, out, n, size) \in Seq(Bytes) /\ Len(Stored(w, out, n, size)) = n
      /\ Stored(buffer, out, n, size) \in Seq(Bytes) /\ Len(Stored(buffer, out, n, size)) = n
  BY <1>1, <1>2, StoredSeq
<1>5. ASSUME NEW i \in 1 .. n
      PROVE  Stored(w, out, n, size)[i] = Stored(buffer, out, n, size)[i]
  <2>1. Stored(w, out, n, size)[i] = w[(out + (i - 1)) % size]
    BY <1>1, <1>2, StoredAt
  <2>2. Stored(buffer, out, n, size)[i] = buffer[(out + (i - 1)) % size]
    BY <1>1, StoredAt
  <2> QED
    BY <1>3, <2>1, <2>2
<1>6. Stored(w, out, n, size) = Stored(buffer, out, n, size)
  BY <1>4, <1>5, SeqEqual
<1> QED
  BY <1>2, <1>6 DEF w, p

(* s is x and behind it t;  the buffers are the same but for one slot. *)
Leads(x, t, s) == s = <<x>> \o t

SameBut(buffer, other, p, size) ==
    \A q \in 0 .. size - 1 : q # p => other[q] = buffer[q]

(* The first byte popped: its slot is cleared, the pointer goes on. *)
LEMMA StoredGet ==
    ASSUME NEW size \in Nat \ {0}, NEW buffer \in [0 .. size - 1 -> Bytes],
           NEW out \in 0 .. size - 1, NEW n \in 1 .. size,
           NEW x \in Bytes, x = buffer[out],
           NEW cleared \in [0 .. size - 1 -> Bytes],
           SameBut(buffer, cleared, out, size)
    PROVE  /\ Stored(cleared, After(out, size), n - 1, size) \in Seq(Bytes)
           /\ Leads(x, Stored(cleared, After(out, size), n - 1, size),
                    Stored(buffer, out, n, size))
<1> DEFINE o == After(out, size)
           s == Stored(buffer, out, n, size)
           t == Stored(cleared, o, n - 1, size)
<1>1. n \in 0 .. size /\ n - 1 \in 0 .. size /\ o \in 0 .. size - 1
  <2>1. 0 \in 0 .. size - 1 /\ (out + 0) % size = out
    BY SlotHere
  <2>2. After((out + 0) % size, size) \in 0 .. size - 1
    BY <2>1, SlotAfter
  <2> QED
    BY <2>1, <2>2
<1>2. \A q \in 0 .. size - 1 : q # out => cleared[q] = buffer[q]
  BY DEF SameBut
<1> HIDE DEF o
<1>3. /\ s \in Seq(Bytes) /\ Len(s) = n
      /\ \A i \in 1 .. n : s[i] = buffer[(out + (i - 1)) % size]
  <2>1. ASSUME NEW i \in 1 .. n
        PROVE  s[i] = buffer[(out + (i - 1)) % size]
    BY <1>1, StoredAt
  <2> QED
    BY <1>1, <2>1, StoredSeq
<1> HIDE DEF s
<1>4. /\ t \in Seq(Bytes) /\ Len(t) = n - 1
      /\ \A i \in 1 .. n - 1 : t[i] = cleared[(o + (i - 1)) % size]
  <2>1. ASSUME NEW i \in 1 .. n - 1
        PROVE  t[i] = cleared[(o + (i - 1)) % size]
    <3>1. o \in Int /\ n - 1 \in Int
      BY <1>1
    <3> QED
      BY <3>1, StoredAt
  <2> QED
    BY <1>1, <2>1, StoredSeq
<1>5. ASSUME NEW i \in 1 .. n - 1
      PROVE  t[i] = s[i + 1]
  <2>1. i - 1 \in Nat /\ (i - 1) + 1 = i /\ i < size /\ i \in 0 .. size - 1 /\ i # 0
    OBVIOUS
  <2>2. (o + (i - 1)) % size = (out + i) % size
    BY <2>1, SlotBehind DEF o
  <2>3. (out + i) % size \in 0 .. size - 1 /\ (out + i) % size # (out + 0) % size
        /\ (out + 0) % size = out
    <3>1. 0 \in 0 .. size - 1 /\ (out + 0) % size = out
      BY SlotHere
    <3>2. (out + i) % size # (out + 0) % size
      BY <2>1, <3>1, SlotsDiffer
    <3> QED
      BY <2>1, <3>1, <3>2, Slot
  <2>4. t[i] = buffer[(out + i) % size]
    BY <1>2, <1>4, <2>2, <2>3
  <2>5. i + 1 \in 1 .. n /\ (i + 1) - 1 = i
    OBVIOUS
  <2> QED
    BY <1>3, <2>4, <2>5
<1>6. s[1] = buffer[out]
  <2>1. 1 \in 1 .. n /\ 1 - 1 = 0
    OBVIOUS
  <2>2. (out + 0) % size = out
    BY SlotHere
  <2> QED
    BY <1>3, <2>1, <2>2
<1> HIDE DEF t
<1>7. <<x>> \in Seq(Bytes) /\ Len(<<x>>) = 1 /\ <<x>>[1] = x
  OBVIOUS
<1>8. /\ <<x>> \o t \in Seq(Bytes) /\ Len(<<x>> \o t) = n
      /\ \A i \in 1 .. n : (<<x>> \o t)[i] = IF i <= 1 THEN <<x>>[i] ELSE t[i - 1]
  <2>1. Len(<<x>>) + Len(t) = n
    BY <1>4, <1>7
  <2> QED
    BY <1>4, <1>7, <2>1, ConcatProperties
<1>9. ASSUME NEW i \in 1 .. n
      PROVE  s[i] = (<<x>> \o t)[i]
  <2>1. CASE i = 1
    BY <1>6, <1>7, <1>8, <2>1
  <2>2. CASE i # 1
    <3>1. i - 1 \in 1 .. n - 1 /\ (i - 1) + 1 = i /\ ~ (i <= 1)
      BY <2>2
    <3> QED
      BY <1>5, <1>8, <3>1
  <2> QED
    BY <2>1, <2>2
<1>10. s = <<x>> \o t
  BY <1>3, <1>8, <1>9, SeqEqual
<1> QED
  BY <1>2, <1>4, <1>10 DEF o, s, t, Leads

(* A byte in front of others is the one to get. *)
LEMMA GetFirst ==
    ASSUME NEW x \in Bytes, NEW s \in Seq(Bytes)
    PROVE  /\ <<x>> \o s \in Seq(Bytes)
           /\ <<x>> \o s # <<>>
           /\ Tail(<<x>> \o s) = s
<1>1. <<x>> \in Seq(Bytes) /\ Len(<<x>>) = 1
  OBVIOUS
<1>2. /\ <<x>> \o s \in Seq(Bytes)
      /\ Len(<<x>> \o s) = 1 + Len(s)
      /\ \A i \in 1 .. 1 + Len(s) : (<<x>> \o s)[i] = IF i <= 1 THEN <<x>>[i] ELSE s[i - 1]
  BY <1>1, ConcatProperties
<1>3. Len(s) \in Nat
  BY LenProperties
<1>4. <<x>> \o s # <<>>
  BY <1>1, ConcatEqualIffEmpty
<1> DEFINE t == Tail(<<x>> \o s)
<1>5. /\ t \in Seq(Bytes) /\ Len(t) = Len(s)
      /\ \A i \in 1 .. Len(s) : t[i] = (<<x>> \o s)[i + 1]
  BY <1>2, <1>3, <1>4, HeadTailProperties
<1>6. ASSUME NEW i \in 1 .. Len(s)
      PROVE  t[i] = s[i]
  <2>1. i + 1 \in 1 .. 1 + Len(s) /\ ~ (i + 1 <= 1) /\ (i + 1) - 1 = i
    BY <1>3
  <2> QED
    BY <1>2, <1>5, <2>1
<1> HIDE DEF t
<1>7. t = s
  BY <1>5, <1>6, SeqEqual
<1> QED
  BY <1>2, <1>4, <1>7 DEF t

(* A byte appended behind both is appended behind the second. *)
LEMMA AppendBehind ==
    ASSUME NEW s \in Seq(Bytes), NEW t \in Seq(Bytes), NEW x \in Bytes
    PROVE  Append(s \o t, x) = s \o Append(t, x)
<1> DEFINE u == <<x>>
<1>1. u \in Seq(Bytes)
  OBVIOUS
<1>2. s \o t \in Seq(Bytes)
  BY ConcatProperties
<1>3. Append(s \o t, x) = (s \o t) \o u /\ Append(t, x) = t \o u
  BY <1>2, AppendIsConcat
<1> HIDE DEF u
<1>4. (s \o t) \o u = s \o (t \o u)
  BY <1>1, ConcatAssociative
<1> QED
  BY <1>3, <1>4

(* The last byte of all, alone. *)
LEMMA LastOnly ==
    ASSUME NEW x \in Bytes, NEW s \in Seq(Bytes)
    PROVE  LET t == s \o <<x>>
           IN  t # <<>> /\ SubSeq(t, Len(t), Len(t)) = <<x>>
<1> DEFINE t == s \o <<x>>
           u == SubSeq(t, Len(t), Len(t))
<1>1. <<x>> \in Seq(Bytes) /\ Len(<<x>>) = 1 /\ <<x>>[1] = x
  OBVIOUS
<1>2. Len(s) \in Nat
  BY LenProperties
<1>3. /\ t \in Seq(Bytes) /\ Len(t) = Len(s) + 1
      /\ \A i \in 1 .. Len(s) + 1 : t[i] = IF i <= Len(s) THEN s[i] ELSE <<x>>[i - Len(s)]
  BY <1>1, ConcatProperties
<1>4. t # <<>>
  BY <1>1, ConcatEqualIffEmpty
<1> HIDE DEF t
<1>5. t[Len(t)] = x
  <2>1. Len(t) \in 1 .. Len(s) + 1 /\ ~ (Len(t) <= Len(s)) /\ Len(t) - Len(s) = 1
    BY <1>2, <1>3
  <2> QED
    BY <1>1, <1>3, <2>1
<1>6. u \in Seq(Bytes) /\ Len(u) = 1 /\ u[1] = x
  <2>1. Len(t) \in Int /\ (\A i \in Len(t) .. Len(t) : t[i] \in Bytes)
    BY <1>2, <1>3, <1>5
  <2>2. /\ u \in Seq(Bytes) /\ Len(u) = IF Len(t) <= Len(t) THEN Len(t) - Len(t) + 1 ELSE 0
        /\ \A i \in 1 .. Len(t) - Len(t) + 1 : u[i] = t[Len(t) + i - 1]
    BY <2>1, SubSeqProperties
  <2>3. Len(t) - Len(t) + 1 = 1 /\ Len(t) + 1 - 1 = Len(t) /\ 1 \in 1 .. 1
    BY <2>1
  <2> QED
    BY <1>5, <2>1, <2>2, <2>3
<1> HIDE DEF u
<1>7. ASSUME NEW i \in 1 .. Len(u)
      PROVE  u[i] = <<x>>[i]
  <2>1. i = 1
    BY <1>6
  <2> QED
    BY <1>1, <1>6, <2>1
<1>8. u = <<x>>
  BY <1>1, <1>6, <1>7, SeqEqual
<1> QED
  BY <1>4, <1>8 DEF t, u

(* Nothing stored is the empty sequence, whatever the buffer holds. *)
LEMMA StoredNone ==
    ASSUME NEW buffer, NEW out, NEW size
    PROVE  Stored(buffer, out, 0, size) = <<>>
BY DEF Stored

-----------------------------------------------------------------------------
(***************************************************************************)
(* Why the receive side keeps the order: until bytes are overwritten, the  *)
(* interrupt routine pokes right behind the bytes that are held, which are *)
(* those counted less the one getc has popped and not uncounted yet.       *)
(***************************************************************************)
Held == IF pc = "dec" THEN rxCount - 1 ELSE rxCount

RxOrder ==
    overrun = "no" => rxCount <= RxSize /\ rxIn = (rxOut + Held) % RxSize

Buffered == Stored(rxBuffer, rxOut, Held, RxSize)

LEMMA RxTypes ==
    ASSUME AInv
    PROVE  /\ RxSize \in Nat \ {0} /\ 0 \in Bytes
           /\ rxBuffer \in [0 .. RxSize - 1 -> Bytes]
           /\ rxIn \in 0 .. RxSize - 1 /\ rxOut \in 0 .. RxSize - 1
           /\ rxCount \in 0 .. Byte - 1
           /\ rdr = <<>> \/ \E n \in Bytes : rdr = <<n>>
           /\ rdr \in Seq(Bytes)
           /\ c \in Bytes /\ arrived \in Bytes
<1>1. RxSize \in Nat \ {0} /\ 0 \in Bytes
  BY SizeAssumption DEF Bytes
<1>2. rdr = <<>> \/ \E n \in Bytes : rdr = <<n>>
  BY DEF AInv, TypeOK, Bytes
<1>3. rdr \in Seq(Bytes)
  <2>1. CASE rdr = <<>>
    BY <2>1
  <2>2. ASSUME NEW n \in Bytes, rdr = <<n>>
        PROVE  rdr \in Seq(Bytes)
    BY <2>2
  <2> QED
    BY <1>2, <2>1, <2>2
<1> QED
  BY <1>1, <1>2, <1>3 DEF AInv, TypeOK, Bytes

LEMMA HeldInBuffer ==
    ASSUME AInv, RxOrder, overrun = "no"
    PROVE  /\ Held \in 0 .. RxSize
           /\ Buffered \in Seq(Bytes)
           /\ Buffered \o rdr \in Seq(Bytes)
           /\ pc # "dec" => Received = Buffered \o rdr
           /\ pc = "dec" => Received = <<c>> \o (Buffered \o rdr)
<1>1. pc = "dec" => rxCount >= 1
  BY DEF AInv, RxInv
<1>2. Held \in 0 .. RxSize
  BY <1>1, RxTypes DEF Held, RxOrder
<1>3. Buffered \in Seq(Bytes)
  BY <1>2, RxTypes, StoredSeq DEF Buffered
<1>4. Buffered \o rdr \in Seq(Bytes)
  BY <1>3, RxTypes, ConcatProperties
<1>5. pc # "dec" => Received = Buffered \o rdr
  BY DEF Received, Buffered, Held
<1>6. pc = "dec" => Received = (<<c>> \o Buffered) \o rdr
  BY DEF Received, Buffered, Held
<1>7. <<c>> \in Seq(Bytes)
  BY RxTypes
<1>8. (<<c>> \o Buffered) \o rdr = <<c>> \o (Buffered \o rdr)
  BY <1>3, <1>7, RxTypes, ConcatAssociative
<1> QED
  BY <1>2, <1>3, <1>4, <1>5, <1>6, <1>8

(* The same of the state behind a step. *)
LEMMA HeldAfter ==
    (AInv /\ RxOrder /\ overrun = "no" /\ pc = "dec"
       => Received = <<c>> \o (Buffered \o rdr))'
<1>1. AInv /\ RxOrder /\ overrun = "no" /\ pc = "dec"
        => Received = <<c>> \o (Buffered \o rdr)
  BY HeldInBuffer
<1> QED
  BY <1>1, PTL

(* A byte that comes in goes behind all the others. *)
LEMMA ReceivePuts ==
    ASSUME AInv, RxOrder, Receive
    PROVE  RxOrder' /\ RxLine!Put
<1>1. /\ rdr = <<>> /\ rdr' = <<arrived>> /\ arrived' = Number(arrived) /\ overrun = "no"
      /\ UNCHANGED <<rxBuffer, rxIn, rxOut, rxCount, pc, c, overrun>>
  BY DEF Receive, RDRF, rx, program
<1>2. RxOrder' /\ Buffered' = Buffered
  BY <1>1 DEF RxOrder, Held, Buffered
<1> DEFINE front == IF pc = "dec" THEN <<c>> \o Buffered ELSE Buffered
<1>3. Received = front \o rdr /\ Received' = front \o rdr'
  BY <1>1 DEF Received, Buffered, Held
<1>4. front \in Seq(Bytes)
  <2>1. Buffered \in Seq(Bytes) /\ c \in Bytes
    BY <1>1, HeldInBuffer, RxTypes
  <2>2. <<c>> \o Buffered \in Seq(Bytes)
    BY <2>1, GetFirst
  <2> QED
    BY <2>1, <2>2
<1> HIDE DEF front
<1>5. front \o <<>> = front
  BY <1>4, ConcatEmptySeq
<1>6. Append(front, arrived) = front \o <<arrived>>
  BY <1>4, RxTypes, AppendIsConcat
<1>7. Received' = Append(Received, arrived)
  BY <1>1, <1>3, <1>5, <1>6
<1> QED
  BY <1>1, <1>2, <1>7 DEF RxLine!Put, Number

(* What the routine pokes was on its way already. *)
LEMMA RxGetKeeps ==
    ASSUME AInv, RxOrder, rx_get
    PROVE  RxOrder' /\ (overrun' = "no" => UNCHANGED <<Received, arrived>>)
<1> SUFFICES ASSUME overrun' = "no"
             PROVE  RxOrder' /\ UNCHANGED <<Received, arrived>>
  BY DEF RxOrder
<1>1. /\ rxBuffer' = [rxBuffer EXCEPT ![rxIn] = Head(rdr)]
      /\ rdr' = <<>> /\ rxIn' = After(rxIn, RxSize)
      /\ rxCount' = rxCount + 1 /\ rxCount' <= RxSize /\ overrun = "no"
      /\ UNCHANGED <<rxOut, arrived, pc, c>>
  <2>1. /\ overrun' = (IF rxCount' = rxCount + 1 /\ rxCount' <= RxSize THEN overrun ELSE "yes")
        /\ overrun' = "no"
    BY DEF rx_get
  <2>2. rxCount' = rxCount + 1 /\ rxCount' <= RxSize /\ overrun = "no"
    BY <2>1
  <2> QED
    BY <2>2 DEF rx_get, program
<1>2. PICK n \in Bytes : rdr = <<n>>
  BY RxTypes DEF AInv, RxInv, rx_get, RDRF
<1>3. Head(rdr) = n
  BY <1>2
<1>4. Held' = Held + 1 /\ Held \in 0 .. RxSize - 1 /\ rxIn = (rxOut + Held) % RxSize
  <2>1. Held \in 0 .. RxSize /\ rxIn = (rxOut + Held) % RxSize
    BY <1>1, HeldInBuffer DEF RxOrder
  <2>2. rxCount \in Int /\ RxSize \in Int
    BY RxTypes
  <2>3. Held <= rxCount /\ Held' = Held + 1
    BY <1>1, <2>2 DEF Held
  <2> QED
    BY <1>1, <2>1, <2>2, <2>3
<1>5. RxOrder'
  <2>1. rxIn' = (rxOut + (Held + 1)) % RxSize
    BY <1>1, <1>4, RxTypes, SlotAfter
  <2> QED
    BY <1>1, <1>4, <2>1 DEF RxOrder
<1> DEFINE poked == [rxBuffer EXCEPT ![rxIn] = n]
<1>6. /\ poked \in [0 .. RxSize - 1 -> Bytes]
      /\ poked[rxIn] = n
      /\ Stored(poked, rxOut, Held, RxSize) = Buffered
  BY <1>4, RxTypes, StoredElsewhere DEF Buffered
<1>7. rxBuffer' = poked
  BY <1>1, <1>3
<1> HIDE DEF poked
<1>8. Buffered' = Append(Buffered, n)
  <2>1. Stored(poked, rxOut, Held + 1, RxSize)
          = Append(Stored(poked, rxOut, Held, RxSize), poked[(rxOut + Held) % RxSize])
    BY <1>4, <1>6, RxTypes, StoredPut
  <2> QED
    BY <1>1, <1>4, <1>6, <1>7, <2>1 DEF Buffered
<1>9. Buffered \in Seq(Bytes)
  BY <1>1, HeldInBuffer
<1>10. Append(Buffered, n) = Buffered \o rdr /\ Append(Buffered, n) \in Seq(Bytes)
  BY <1>2, <1>9, AppendIsConcat, AppendProperties
<1>11. Buffered' \o rdr' = Buffered \o rdr
  <2>1. Append(Buffered, n) \o <<>> = Append(Buffered, n)
    BY <1>10, ConcatEmptySeq
  <2> QED
    BY <1>1, <1>8, <1>10, <2>1
<1>12. Received' = Received
  <2>1. CASE pc # "dec"
    <3>1. Received = Buffered \o rdr /\ Received' = Buffered' \o rdr'
      BY <1>1, <2>1 DEF Received, Buffered, Held
    <3> QED
      BY <1>11, <3>1
  <2>2. CASE pc = "dec"
    <3>1. Received = <<c>> \o (Buffered \o rdr)
      BY <1>1, <2>2, HeldInBuffer
    <3>2. AInv'
      BY RxGetSound
    <3>3. Received' = <<c'>> \o (Buffered' \o rdr')
      BY <1>1, <1>5, <2>2, <3>2, HeldAfter
    <3> QED
      BY <1>1, <1>11, <3>1, <3>3
  <2> QED
    BY <2>1, <2>2
<1> QED
  BY <1>1, <1>5, <1>12

(* What getc pops is on its way until getc has counted it. *)
LEMMA CleanUpKeeps ==
    ASSUME AInv, RxOrder, getc_clean_up_rx
    PROVE  RxOrder' /\ (overrun' = "no" => UNCHANGED <<Received, arrived>>)
<1> SUFFICES ASSUME overrun' = "no"
             PROVE  RxOrder' /\ UNCHANGED <<Received, arrived>>
  BY DEF RxOrder
<1>1. /\ pc = "pop" /\ pc' = "dec" /\ overrun = "no"
      /\ c' = rxBuffer[rxOut]
      /\ rxBuffer' = [rxBuffer EXCEPT ![rxOut] = 0]
      /\ rxOut' = After(rxOut, RxSize)
      /\ UNCHANGED <<rxIn, rxCount, rdr, arrived>>
  BY DEF getc_clean_up_rx, At, Goto, line
<1>2. /\ Held = rxCount /\ Held' = rxCount - 1
      /\ rxCount \in 1 .. RxSize /\ rxIn = (rxOut + rxCount) % RxSize
  <2>1. rxCount >= 1
    BY <1>1 DEF AInv, RxInv
  <2> QED
    BY <1>1, <2>1, RxTypes DEF Held, RxOrder
<1>3. /\ Buffered = <<c'>> \o Buffered'
      /\ Buffered' \in Seq(Bytes) /\ c' \in Bytes
  <2>1. /\ RxSize \in Nat \ {0} /\ rxBuffer \in [0 .. RxSize - 1 -> Bytes]
        /\ rxOut \in 0 .. RxSize - 1 /\ rxCount \in 1 .. RxSize
        /\ rxBuffer' \in [0 .. RxSize - 1 -> Bytes]
        /\ SameBut(rxBuffer, rxBuffer', rxOut, RxSize)
    BY <1>1, <1>2, RxTypes DEF SameBut
  <2>2. c' \in Bytes /\ c' = rxBuffer[rxOut]
    BY <1>1, RxTypes
  <2>3. Leads(c', Stored(rxBuffer', After(rxOut, RxSize), rxCount - 1, RxSize),
              Stored(rxBuffer, rxOut, rxCount, RxSize))
    BY <2>1, <2>2, StoredGet
  <2>4. Stored(rxBuffer', After(rxOut, RxSize), rxCount - 1, RxSize) \in Seq(Bytes)
    BY <2>1, <2>2, StoredGet
  <2> QED
    BY <1>1, <1>2, <2>2, <2>3, <2>4 DEF Buffered, Leads
<1>4. RxOrder'
  <2>1. After(rxOut, RxSize) \in 0 .. RxSize - 1
    BY RxTypes, AfterInRange
  <2>2. (After(rxOut, RxSize) + (rxCount - 1)) % RxSize = (rxOut + rxCount) % RxSize
    BY <1>2, RxTypes, SlotNext
  <2> QED
    BY <1>1, <1>2, <2>2 DEF RxOrder
<1>5. <<c'>> \in Seq(Bytes)
  BY <1>3
<1>6. Received' = (<<c'>> \o Buffered') \o rdr'
  BY <1>1 DEF Received, Buffered, Held
<1>7. Received = Buffered \o rdr
  BY <1>1, HeldInBuffer
<1> QED
  BY <1>1, <1>3, <1>4, <1>6, <1>7

(* Counting it down hands it over. *)
LEMMA DecGets ==
    ASSUME AInv, RxOrder, getc_dec
    PROVE  RxOrder' /\ (overrun' = "no" => RxLine!Get)
<1> SUFFICES ASSUME overrun' = "no"
             PROVE  RxOrder' /\ RxLine!Get
  BY DEF RxOrder
<1>1. /\ pc = "dec" /\ pc' = "main" /\ overrun = "no"
      /\ rxCount' = (rxCount - 1) % Byte
      /\ UNCHANGED <<rxBuffer, rxIn, rxOut, rdr, arrived>>
  BY DEF getc_dec, At, Goto, line
<1>2. rxCount >= 1 /\ rxCount \in 0 .. Byte - 1
  BY <1>1, RxTypes DEF AInv, RxInv
<1>3. rxCount' = rxCount - 1
  BY <1>1, <1>2, SizeAssumption, CountDown
<1>4. Held' = Held /\ Buffered' = Buffered
  BY <1>1, <1>3 DEF Held, Buffered
<1>5. RxOrder'
  BY <1>1, <1>2, <1>3, <1>4, RxTypes DEF RxOrder
<1>6. Received' = Buffered \o rdr
  BY <1>1, <1>4 DEF Received, Buffered, Held
<1>7. Received = <<c>> \o (Buffered \o rdr) /\ Buffered \o rdr \in Seq(Bytes) /\ c \in Bytes
  BY <1>1, HeldInBuffer, RxTypes
<1>8. Received # <<>> /\ Tail(Received) = Buffered \o rdr
  BY <1>7, GetFirst
<1> QED
  BY <1>1, <1>5, <1>6, <1>8 DEF RxLine!Get

(* A flush leaves the byte of the device's register. *)
LEMMA FlushRxFlushes ==
    ASSUME AInv, RxOrder, flush_Rx
    PROVE  RxOrder' /\ (overrun' = "no" => RxLine!Flush \/ UNCHANGED <<Received, arrived>>)
<1> SUFFICES ASSUME overrun' = "no"
             PROVE  RxOrder' /\ (RxLine!Flush \/ UNCHANGED <<Received, arrived>>)
  BY DEF RxOrder
<1>1. /\ pc = "main" /\ pc' = "main" /\ overrun = "no"
      /\ rxIn' = 0 /\ rxOut' = 0 /\ rxCount' = 0
      /\ UNCHANGED <<rdr, arrived>>
  BY DEF flush_Rx, At, line, program
<1>2. Held' = 0
  BY <1>1 DEF Held
<1>3. RxOrder'
  <2>1. 0 \in 0 .. RxSize - 1 /\ (0 + 0) % RxSize = 0 /\ 0 <= RxSize
    BY RxTypes, SlotHere
  <2> QED
    BY <1>1, <1>2, <2>1 DEF RxOrder
<1>4. Received' = rdr
  <2>1. Received' = <<>> \o rdr
    BY <1>1, <1>2, StoredNone DEF Received
  <2> QED
    BY <2>1, RxTypes, ConcatEmptySeq
<1>5. Received = Buffered \o rdr /\ Buffered \in Seq(Bytes) /\ Received \in Seq(Bytes)
  BY <1>1, HeldInBuffer
<1>6. ASSUME rdr = <<>>
      PROVE  RxLine!Flush \/ UNCHANGED <<Received, arrived>>
  <2>1. CASE Received = <<>>
    BY <1>1, <1>4, <1>6, <2>1
  <2>2. CASE Received # <<>>
    BY <1>1, <1>4, <1>6, <2>2, Zenon DEF RxLine!Flush
  <2> QED
    BY <2>1, <2>2
<1>7. ASSUME NEW n \in Bytes, rdr = <<n>>
      PROVE  RxLine!Flush
  <2>1. Received # <<>> /\ SubSeq(Received, Len(Received), Len(Received)) = <<n>>
    BY <1>5, <1>7, LastOnly
  <2> QED
    BY <1>1, <1>4, <1>7, <2>1 DEF RxLine!Flush
<1> QED
  BY <1>3, <1>6, <1>7, RxTypes

(* All other steps leave the receive side alone. *)
LEMMA OthersKeepRx ==
    ASSUME RxOrder, UNCHANGED <<rxBuffer, rxIn, rxOut, rxCount, rdr, arrived, c, overrun>>,
           pc' = "dec" <=> pc = "dec"
    PROVE  RxOrder' /\ UNCHANGED <<Received, arrived>>
BY DEF RxOrder, Held, Received

LEMMA RxStep ==
    ASSUME AInv, RxOrder, [Next]_vars
    PROVE  RxOrder' /\ (overrun' = "no" => RxLine!Next \/ UNCHANGED <<Received, arrived>>)
<1>1. CASE Receive
  BY <1>1, ReceivePuts DEF RxLine!Next
<1>2. CASE rx_get
  BY <1>2, RxGetKeeps
<1>3. CASE getc_clean_up_rx
  BY <1>3, CleanUpKeeps
<1>4. CASE getc_dec
  BY <1>4, DecGets DEF RxLine!Next
<1>5. CASE flush_Rx
  BY <1>5, FlushRxFlushes DEF RxLine!Next
<1> DEFINE same == /\ UNCHANGED <<rxBuffer, rxIn, rxOut, rxCount, rdr, arrived, c, overrun>>
                   /\ pc' = "dec" <=> pc = "dec"
<1>6. CASE Transmit \/ interrupt \/ rx_check \/ tx_send \/ flush_Tx
  <2>1. same
    BY <1>6 DEF Transmit, interrupt, rx_check, tx_send, flush_Tx, rx, line, program
  <2> QED
    BY <2>1, OthersKeepRx
<1>7. CASE Call \/ getc \/ getc_lower
  <2>1. same
    BY <1>7 DEF Call, getc, getc_lower, At, Goto, rx, line
  <2> QED
    BY <2>1, OthersKeepRx
<1>8. CASE putc \/ putc_status \/ putc_direct \/ putc_buffer_tx
  <2>1. same
    BY <1>8 DEF putc, putc_status, putc_direct, putc_buffer_tx, At, Goto, rx, line
  <2> QED
    BY <2>1, OthersKeepRx
<1>9. CASE putc_poke \/ putc_inc \/ putc_buffer_tx_exit \/ putc_enable
  <2>1. same
    BY <1>9 DEF putc_poke, putc_inc, putc_buffer_tx_exit, putc_enable, Retry, At, Goto, rx, line
  <2> QED
    BY <2>1, OthersKeepRx
<1>10. CASE UNCHANGED vars
  <2>1. same
    BY <1>10 DEF vars, rx, line, program
  <2> QED
    BY <2>1, OthersKeepRx
<1> QED
  BY <1>1, <1>2, <1>3, <1>4, <1>5, <1>6, <1>7, <1>8, <1>9, <1>10
     DEF Next, Interrupt, Running

LEMMA RxInit ==
    ASSUME Init
    PROVE  RxOrder /\ RxLine!Init
<1>1. AInv
  BY InitSound
<1>2. 0 \in 0 .. RxSize - 1 /\ (0 + 0) % RxSize = 0 /\ 0 <= RxSize
  BY <1>1, RxTypes, SlotHere
<1>3. RxOrder
  BY <1>2 DEF Init, RxOrder, Held
<1>4. Received = <<>> \o <<>>
  BY StoredNone DEF Init, Received
<1>5. <<>> \o <<>> = <<>>
  BY EmptySeq, ConcatEmptySeq
<1> QED
  BY <1>3, <1>4, <1>5 DEF RxLine!Init

(***************************************************************************)
(* The receive direction implements the channel: what the interrupt        *)
(* routine pokes while getc pops and counts comes out in order, each byte  *)
(* once, until the step that overwrites one.                               *)
(***************************************************************************)
THEOREM AciaRxInOrder == Spec => RxInOrder
<1>1. Init => RxOrder /\ RxLine!Init
  BY RxInit
<1>2. AInv /\ RxOrder /\ [Next]_vars
        => RxOrder' /\ [(overrun = "no")' => RxLine!Next]_<<Received, arrived>>
  BY RxStep
<1> QED
  BY <1>1, <1>2, AciaInvariant, PTL DEF Spec, RxInOrder, RxLine!Spec

-----------------------------------------------------------------------------
(***************************************************************************)
(* Why the transmit side keeps the order: putc pokes right behind the      *)
(* bytes that are counted and its byte stays there until it is counted,    *)
(* and the two ways into the device's register, putc's own and the         *)
(* interrupt routine's, find it empty and nothing to overtake.             *)
(***************************************************************************)
TxOrder ==
    /\ txIn = (txOut + IF pc = "inc" THEN txCount + 1 ELSE txCount) % TxSize
    /\ pc = "inc" => txBuffer[(txOut + txCount) % TxSize] = written
    /\ isr = "tx_send" => TDRE
    /\ pc \in {"status", "direct"} => txCount = 0
    /\ pc = "direct" => TDRE

Waits == Stored(txBuffer, txOut, txCount, TxSize)

LEMMA TxTypes ==
    ASSUME AInv
    PROVE  /\ TxSize \in Nat \ {0} /\ 0 \in Bytes
           /\ txBuffer \in [0 .. TxSize - 1 -> Bytes]
           /\ txIn \in 0 .. TxSize - 1 /\ txOut \in 0 .. TxSize - 1
           /\ txCount \in 0 .. TxSize - 1 /\ txCount \in 0 .. TxSize
           /\ tdr = <<>> \/ \E n \in Bytes : tdr = <<n>>
           /\ tdr \in Seq(Bytes)
           /\ written \in Bytes
<1>1. TxSize \in Nat \ {0} /\ 0 \in Bytes
  BY SizeAssumption DEF Bytes
<1>2. tdr = <<>> \/ \E n \in Bytes : tdr = <<n>>
  BY DEF AInv, TypeOK, Bytes
<1>3. tdr \in Seq(Bytes)
  <2>1. CASE tdr = <<>>
    BY <2>1
  <2>2. ASSUME NEW n \in Bytes, tdr = <<n>>
        PROVE  tdr \in Seq(Bytes)
    BY <2>2
  <2> QED
    BY <1>2, <2>1, <2>2
<1>4. txCount \in 0 .. TxSize - 1 /\ txCount \in 0 .. TxSize
  BY <1>1 DEF AInv, TypeOK
<1> QED
  BY <1>1, <1>2, <1>3, <1>4 DEF AInv, TypeOK, Bytes

LEMMA WaitsSeq ==
    ASSUME AInv
    PROVE  /\ Waits \in Seq(Bytes)
           /\ Unsent = tdr \o Waits
           /\ tdr = <<>> => Unsent = Waits
           /\ Unsent \in Seq(Bytes)
<1>1. Waits \in Seq(Bytes)
  BY TxTypes, StoredSeq DEF Waits
<1>2. Unsent = tdr \o Waits
  BY DEF Unsent, Waits
<1>3. <<>> \o Waits = Waits
  BY <1>1, ConcatEmptySeq
<1>4. tdr \o Waits \in Seq(Bytes)
  BY <1>1, TxTypes, ConcatProperties
<1> QED
  BY <1>1, <1>2, <1>3, <1>4

(* The device sends the byte that is first. *)
LEMMA TransmitGets ==
    ASSUME AInv, TxOrder, Transmit
    PROVE  TxOrder' /\ TxLine!Get
<1>1. /\ tdr # <<>> /\ tdr' = <<>>
      /\ UNCHANGED <<txBuffer, txIn, txOut, txCount, pc, isr, written>>
  BY DEF Transmit, TDRE, tx, program
<1>2. TxOrder'
  BY <1>1 DEF TxOrder, TDRE
<1>3. PICK n \in Bytes : tdr = <<n>>
  BY <1>1, TxTypes
<1>4. Waits \in Seq(Bytes) /\ Unsent = <<n>> \o Waits
  BY <1>3, WaitsSeq
<1>5. Unsent # <<>> /\ Tail(Unsent) = Waits
  BY <1>4, GetFirst
<1>6. Unsent' = Waits
  <2>1. Unsent' = <<>> \o Waits
    BY <1>1 DEF Unsent, Waits
  <2> QED
    BY <1>4, <2>1, ConcatEmptySeq
<1> QED
  BY <1>1, <1>2, <1>5, <1>6 DEF TxLine!Get

(* The interrupt routine hands the byte over that waits first. *)
LEMMA TxSendKeeps ==
    ASSUME AInv, TxOrder, tx_send
    PROVE  TxOrder' /\ UNCHANGED <<Unsent, written>>
<1>1. isr' = "off" /\ pc' = pc /\ written' = written /\ tdr = <<>>
  BY DEF tx_send, program, TxOrder, TDRE
<1>2. CASE UNCHANGED <<tx, tdr>>
  BY <1>1, <1>2 DEF TxOrder, TDRE, Unsent, tx
<1>3. CASE /\ txCount # 0
           /\ tdr' = <<txBuffer[txOut]>>
           /\ txOut' = After(txOut, TxSize)
           /\ txCount' = txCount - 1
           /\ txBuffer' = [txBuffer EXCEPT ![txOut] = 0]
           /\ UNCHANGED txIn
  <2>1. txCount \in 1 .. TxSize /\ txCount \in 1 .. TxSize - 1
    BY <1>3, TxTypes
  <2>2. /\ txBuffer' \in [0 .. TxSize - 1 -> Bytes]
        /\ SameBut(txBuffer, txBuffer', txOut, TxSize)
        /\ txBuffer[txOut] \in Bytes
    BY <1>3, TxTypes DEF SameBut
  <2>3. PICK n \in Bytes : n = txBuffer[txOut]
    BY <2>2
  <2>4. Leads(n, Stored(txBuffer', After(txOut, TxSize), txCount - 1, TxSize),
              Stored(txBuffer, txOut, txCount, TxSize))
    BY <2>1, <2>2, <2>3, TxTypes, StoredGet
  <2>5. Unsent' = <<n>> \o Stored(txBuffer', After(txOut, TxSize), txCount - 1, TxSize)
    BY <1>3, <2>3 DEF Unsent
  <2>6. Unsent' = Unsent
    BY <1>1, <2>4, <2>5, WaitsSeq DEF Leads, Waits
  <2>7. pc # "inc" => txIn' = (txOut' + txCount') % TxSize
    BY <1>3, <2>1, TxTypes, SlotNext DEF TxOrder
  <2>8. ASSUME pc = "inc"
        PROVE  txIn' = (txOut' + (txCount' + 1)) % TxSize
    <3>1. txCount + 1 \in 1 .. TxSize /\ (txCount + 1) - 1 = txCount
          /\ (txCount - 1) + 1 = txCount
      BY <2>1, TxTypes
    <3>2. (After(txOut, TxSize) + txCount) % TxSize = (txOut + (txCount + 1)) % TxSize
      BY <3>1, TxTypes, SlotNext
    <3> QED
      BY <1>3, <2>8, <3>1, <3>2 DEF TxOrder
  <2>9. ASSUME pc = "inc"
        PROVE  txBuffer'[(txOut' + txCount') % TxSize] = written
    <3>1. (txOut' + txCount') % TxSize = (txOut + txCount) % TxSize
      BY <1>3, <2>1, TxTypes, SlotNext
    <3>2. (txOut + txCount) % TxSize \in 0 .. TxSize - 1 /\ (txOut + txCount) % TxSize # txOut
      <4>1. 0 \in 0 .. TxSize - 1 /\ (txOut + 0) % TxSize = txOut
        BY TxTypes, SlotHere
      <4>2. txCount \in 0 .. TxSize - 1 /\ txCount # 0
        BY <2>1
      <4>3. (txOut + txCount) % TxSize # (txOut + 0) % TxSize
        BY <4>1, <4>2, TxTypes, SlotsDiffer
      <4> QED
        BY <4>1, <4>2, <4>3, TxTypes, Slot
    <3>3. txBuffer[(txOut + txCount) % TxSize] = written
      BY <2>9 DEF TxOrder
    <3> QED
      BY <2>2, <3>1, <3>2, <3>3 DEF SameBut
  <2>10. pc \notin {"status", "direct"}
    BY <2>1 DEF TxOrder
  <2> QED
    BY <1>1, <2>6, <2>7, <2>8, <2>9, <2>10 DEF TxOrder
<1> QED
  BY <1>2, <1>3 DEF tx_send

(* A byte that putc gives to the device itself overtakes none. *)
LEMMA DirectPuts ==
    ASSUME AInv, TxOrder, putc_direct
    PROVE  TxOrder' /\ TxLine!Put
<1>1. /\ pc = "direct" /\ pc' = "main" /\ isr = "off" /\ isr' = "off"
      /\ tdr = <<>> /\ tdr' = <<written>> /\ written' = Number(written) /\ txCount = 0
      /\ UNCHANGED <<txBuffer, txIn, txOut, txCount>>
  BY DEF putc_direct, At, Goto, tx, TxOrder, TDRE
<1>2. TxOrder'
  BY <1>1 DEF TxOrder
<1>3. Waits = <<>> /\ Waits' = <<>>
  BY <1>1, StoredNone DEF Waits
<1>4. Unsent = <<>>
  BY <1>1, <1>3, WaitsSeq
<1>5. Unsent' = <<written>> \o <<>>
  BY <1>1, <1>3 DEF Unsent, Waits
<1>6. <<written>> \in Seq(Bytes) /\ Append(<<>>, written) = <<written>>
  BY TxTypes
<1>7. Unsent' = Append(Unsent, written)
  BY <1>4, <1>5, <1>6, ConcatEmptySeq
<1> QED
  BY <1>1, <1>2, <1>7 DEF TxLine!Put, Number

(* A byte that is poked is behind those that are counted, *)
LEMMA PokeKeeps ==
    ASSUME AInv, TxOrder, putc_poke
    PROVE  TxOrder' /\ UNCHANGED <<Unsent, written>>
<1>1. /\ pc = "poke" /\ pc' = "inc" /\ isr = "off" /\ isr' = "off"
      /\ txBuffer' = [txBuffer EXCEPT ![txIn] = written]
      /\ txIn' = After(txIn, TxSize)
      /\ UNCHANGED <<txOut, txCount, tdr, written>>
  BY DEF putc_poke, At, Goto, line
<1>2. txIn = (txOut + txCount) % TxSize
  BY <1>1 DEF TxOrder
<1> DEFINE poked == [txBuffer EXCEPT ![txIn] = written]
<1>3. poked[txIn] = written /\ Stored(poked, txOut, txCount, TxSize) = Waits
  BY <1>2, TxTypes, StoredElsewhere DEF Waits
<1>4. txIn' = (txOut + (txCount + 1)) % TxSize
  BY <1>1, <1>2, TxTypes, SlotAfter
<1>5. TxOrder'
  BY <1>1, <1>2, <1>3, <1>4 DEF TxOrder
<1>6. Unsent' = Unsent
  BY <1>1, <1>3 DEF Unsent, Waits
<1> QED
  BY <1>1, <1>5, <1>6

(* and goes in when it is counted. *)
LEMMA IncPuts ==
    ASSUME AInv, TxOrder, putc_inc
    PROVE  TxOrder' /\ TxLine!Put
<1>1. /\ pc = "inc" /\ pc' = "exit" /\ isr = "off" /\ isr' = "off"
      /\ txCount' = txCount + 1 /\ written' = Number(written)
      /\ UNCHANGED <<txBuffer, txIn, txOut, tdr>>
  BY DEF putc_inc, At, Goto, line
<1>2. TxOrder'
  BY <1>1 DEF TxOrder
<1>3. Waits' = Append(Waits, written)
  <2>1. Stored(txBuffer, txOut, txCount + 1, TxSize)
          = Append(Stored(txBuffer, txOut, txCount, TxSize), txBuffer[(txOut + txCount) % TxSize])
    BY TxTypes, StoredPut
  <2> QED
    BY <1>1, <2>1 DEF Waits, TxOrder
<1>4. Waits \in Seq(Bytes) /\ Unsent = tdr \o Waits /\ Unsent' = tdr \o Waits'
      /\ Unsent \in Seq(Bytes)
  BY <1>1, WaitsSeq DEF Unsent, Waits
<1>5. Append(tdr \o Waits, written) = tdr \o Append(Waits, written)
  BY <1>4, TxTypes, AppendBehind
<1>6. Unsent' = Append(Unsent, written)
  BY <1>3, <1>4, <1>5
<1> QED
  BY <1>1, <1>2, <1>6 DEF TxLine!Put, Number

LEMMA FirstOnly ==
    ASSUME NEW x \in Bytes, NEW s \in Seq(Bytes)
    PROVE  <<x>> \o s # <<>> /\ SubSeq(<<x>> \o s, 1, 1) = <<x>>
<1>1. <<x>> \in Seq(Bytes) /\ Len(<<x>>) = 1 /\ 1 \in 1 .. Len(<<x>>)
  OBVIOUS
<1>2. SubSeq(<<x>> \o s, 1, 1) = SubSeq(<<x>>, 1, 1)
  BY <1>1, SubSeqOfConcat1
<1>3. SubSeq(<<x>>, 1, Len(<<x>>)) = <<x>>
  BY <1>1, SubSeqFull
<1> QED
  BY <1>1, <1>2, <1>3, GetFirst

(* A flush leaves the byte of the device's register. *)
LEMMA FlushTxFlushes ==
    ASSUME AInv, TxOrder, flush_Tx
    PROVE  TxOrder' /\ (TxLine!Flush \/ UNCHANGED <<Unsent, written>>)
<1>1. /\ pc = "main" /\ pc' = "main" /\ isr = "off" /\ isr' = "off"
      /\ txIn' = 0 /\ txOut' = 0 /\ txCount' = 0
      /\ UNCHANGED <<tdr, written>>
  BY DEF flush_Tx, At, line, program
<1>2. TxOrder'
  <2>1. (0 + 0) % TxSize = 0
    <3>1. 0 \in 0 .. TxSize - 1
      BY TxTypes
    <3> QED
      BY <3>1, TxTypes, SlotHere
  <2> QED
    BY <1>1, <2>1 DEF TxOrder
<1>3. Unsent' = tdr
  <2>1. Unsent' = tdr \o <<>>
    BY <1>1, StoredNone DEF Unsent
  <2> QED
    BY <2>1, TxTypes, ConcatEmptySeq
<1>4. Unsent = tdr \o Waits /\ Waits \in Seq(Bytes)
  BY WaitsSeq
<1>5. ASSUME tdr = <<>>
      PROVE  TxLine!Flush \/ UNCHANGED <<Unsent, written>>
  <2>1. CASE Unsent = <<>>
    BY <1>1, <1>3, <1>5, <2>1
  <2>2. CASE Unsent # <<>>
    BY <1>1, <1>3, <1>5, <2>2, Zenon DEF TxLine!Flush
  <2> QED
    BY <2>1, <2>2
<1>6. ASSUME NEW n \in Bytes, tdr = <<n>>
      PROVE  TxLine!Flush
  <2>1. Unsent # <<>> /\ SubSeq(Unsent, 1, 1) = <<n>>
    BY <1>4, <1>6, FirstOnly
  <2> QED
    BY <1>1, <1>3, <1>6, <2>1 DEF TxLine!Flush
<1> QED
  BY <1>2, <1>5, <1>6, TxTypes

(* All other steps leave the transmit side alone. *)
LEMMA OthersKeepTx ==
    ASSUME TxOrder, UNCHANGED <<txBuffer, txIn, txOut, txCount, tdr, written>>,
           pc' = "inc" <=> pc = "inc",
           isr' = "tx_send" => TDRE,
           pc' \in {"status", "direct"} => txCount = 0,
           pc' = "direct" => TDRE
    PROVE  TxOrder' /\ UNCHANGED <<Unsent, written>>
BY DEF TxOrder, TDRE, Unsent

LEMMA TxStep ==
    ASSUME AInv, TxOrder, [Next]_vars
    PROVE  TxOrder' /\ (TxLine!Next \/ UNCHANGED <<Unsent, written>>)
<1>1. CASE Transmit
  BY <1>1, TransmitGets DEF TxLine!Next
<1>2. CASE tx_send
  BY <1>2, TxSendKeeps
<1>3. CASE putc_direct
  BY <1>3, DirectPuts DEF TxLine!Next
<1>4. CASE putc_poke
  BY <1>4, PokeKeeps
<1>5. CASE putc_inc
  BY <1>5, IncPuts DEF TxLine!Next
<1>6. CASE flush_Tx
  BY <1>6, FlushTxFlushes DEF TxLine!Next
<1> DEFINE same == /\ UNCHANGED <<txBuffer, txIn, txOut, txCount, tdr, written>>
                   /\ pc' = "inc" <=> pc = "inc"
                   /\ isr' = "tx_send" => TDRE
                   /\ pc' \in {"status", "direct"} => txCount = 0
                   /\ pc' = "direct" => TDRE
<1>7. CASE Receive \/ interrupt \/ rx_get \/ rx_check \/ flush_Rx
  <2>1. same
    BY <1>7 DEF TxOrder, Receive, interrupt, rx_get, rx_check, flush_Rx, TDRE, tx, line, program
  <2> QED
    BY <2>1, OthersKeepTx
<1>8. CASE Call \/ getc \/ getc_lower \/ getc_clean_up_rx \/ getc_dec
  <2>1. same
    BY <1>8 DEF TxOrder, Call, getc, getc_lower, getc_clean_up_rx, getc_dec, At, Goto, tx, line
  <2> QED
    BY <2>1, OthersKeepTx
<1>9. CASE putc \/ putc_status \/ putc_buffer_tx \/ putc_buffer_tx_exit \/ putc_enable
  <2>1. same
    BY <1>9 DEF TxOrder, putc, putc_status, putc_buffer_tx, putc_buffer_tx_exit, putc_enable,
                Retry, At, Goto, tx, line, TDRE
  <2> QED
    BY <2>1, OthersKeepTx
<1>10. CASE UNCHANGED vars
  <2>1. same
    BY <1>10 DEF TxOrder, vars, tx, line, program, TDRE
  <2> QED
    BY <2>1, OthersKeepTx
<1> QED
  BY <1>1, <1>2, <1>3, <1>4, <1>5, <1>6, <1>7, <1>8, <1>9, <1>10
     DEF Next, Interrupt, Running

LEMMA TxInit ==
    ASSUME Init
    PROVE  TxOrder /\ TxLine!Init
<1>1. AInv
  BY InitSound
<1>2. (0 + 0) % TxSize = 0
  <2>1. 0 \in 0 .. TxSize - 1
    BY <1>1, TxTypes
  <2> QED
    BY <1>1, <2>1, TxTypes, SlotHere
<1>3. TxOrder
  BY <1>2 DEF Init, TxOrder
<1>4. Unsent = <<>> \o <<>>
  BY StoredNone DEF Init, Unsent
<1>5. <<>> \o <<>> = <<>>
  BY EmptySeq, ConcatEmptySeq
<1> QED
  BY <1>3, <1>4, <1>5 DEF TxLine!Init

(***************************************************************************)
(* The transmit direction implements the channel: whether putc gives a     *)
(* byte to the device itself or pokes it while the interrupt routine       *)
(* sends, the bytes go out in the order of the calls, each once.           *)
(***************************************************************************)
THEOREM AciaTxInOrder == Spec => TxInOrder
<1>1. Init => TxOrder /\ TxLine!Init
  BY TxInit
<1>2. AInv /\ TxOrder /\ [Next]_vars
        => TxOrder' /\ [TRUE' => TxLine!Next]_<<Unsent, written>>
  BY TxStep
<1> QED
  BY <1>1, <1>2, AciaInvariant, PTL DEF Spec, TxInOrder, TxLine!Spec

=============================================================================
