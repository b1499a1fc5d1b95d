----------------------------- MODULE AciaProofs -----------------------------
(***************************************************************************)
(* The status register of the ACIA tells the truth, for every word length, *)
(* divisor and sequence of register accesses, clocks and modem events; and *)
(* what it sends over a line looped back to it is what it receives.        *)
(***************************************************************************)
EXTENDS AciaHistory, AciaLoopback, SequenceTheorems, FiniteSetTheorems, TLAPS

\* A start bit in progress leaves room for one more clock.
ClockInv ==
  /\ ClocksInRange
  /\ rx.state = "START" => \E d \in Divisors : rx.clocks + 1 <= d

\* The flags and the machine they describe agree.
StatusInv == TdreIsSafe /\ FlagsFollowRdr /\ IrqBitMirrorsLine

Inv == TypeOK /\ StatusInv /\ ClockInv

\* The words the shift registers hold.
LEMMA WordFacts ==
  /\ Zero \in Word
  /\ \A w \in Word : ShiftRight(w) \in Word /\ w[1] \in {0, 1}
BY AciaAssumption DEF AciaAssumption, Zero, Word, ShiftRight

\* Power on.
LEMMA InitInv == Init => Inv
<1> SUFFICES ASSUME Init PROVE Inv
  OBVIOUS
<1> USE AciaAssumption DEF AciaAssumption
<1>1. ctl \in Format
  BY DEF Init, Format
<1>2. tx \in Transmitter /\ rx \in Receiver
  BY WordFacts DEF Init, UnusedTransmitter, UnusedReceiver, Transmitter, Receiver, Counts, TxStates, RxStates
<1>3. TypeOK
  BY <1>1, <1>2 DEF Init, TypeOK, Flags
<1>4. StatusInv
  BY DEF Init, UnusedTransmitter, UnusedReceiver, StatusInv, TdreIsSafe, FlagsFollowRdr, IrqBitMirrorsLine
<1>5. ClockInv
  BY DEF Init, UnusedReceiver, ClockInv, ClocksInRange
<1> QED
  BY <1>3, <1>4, <1>5 DEF Inv

\* A master reset.
LEMMA ResetStep == Inv /\ MasterReset => Inv'
<1> SUFFICES ASSUME Inv, MasterReset PROVE Inv'
  OBVIOUS
<1>1. tx' \in Transmitter /\ rx' \in Receiver
  <2>1. tx \in Transmitter /\ rx \in Receiver
    BY DEF Inv, TypeOK
  <2>2. tx' = [tx EXCEPT !.data = Zero, !.full = FALSE, !.shift = Zero, !.state = "IDLE"]
    BY DEF MasterReset
  <2>3. tx' \in Transmitter
    BY <2>1, <2>2, WordFacts DEF Transmitter, TxStates
  <2>4. 0 \in Counts
    BY AciaAssumption DEF AciaAssumption, Counts
  <2>5. rx' = [rx EXCEPT !.full = FALSE, !.data = Zero, !.shift = Zero, !.parity = 0,
                        !.count = 0, !.overrunPending = FALSE, !.overrun = FALSE,
                        !.state = "IDLE"]
    BY DEF MasterReset
  <2>6. rx' \in Receiver
    BY <2>1, <2>4, <2>5, WordFacts DEF Receiver, RxStates
  <2> QED
    BY <2>3, <2>6
<1>2. sr' \subseteq Flags /\ irq' \in BOOLEAN
  BY DEF Inv, TypeOK, MasterReset, ClearInterrupt, Flags
<1>3. TypeOK'
  BY <1>1, <1>2 DEF Inv, TypeOK, MasterReset
<1>4. StatusInv'
  BY DEF Inv, MasterReset, ClearInterrupt, TypeOK, Transmitter, Receiver, StatusInv,
         TdreIsSafe, FlagsFollowRdr, IrqBitMirrorsLine
<1>5. ClockInv'
  BY DEF Inv, MasterReset, TypeOK, Receiver, ClockInv, ClocksInRange
<1> QED
  BY <1>3, <1>4, <1>5 DEF Inv

\* What write_ctl() makes of a control word.
LEMMA ProtocolType == \A c \in ControlWords : Protocol(c) \in Format /\ c.div \in Nat \ {0}
<1> SUFFICES ASSUME NEW c \in ControlWords PROVE Protocol(c) \in Format /\ c.div \in Nat \ {0}
  OBVIOUS
<1>1. c.div \in Divisors /\ c.div \in Nat \ {0}
  BY AciaAssumption DEF AciaAssumption, Control
<1>2. /\ Protocol(c).div = c.div
      /\ Protocol(c).word \in {ShortWord, LongWord}
      /\ Protocol(c).stop \in 1..2
      /\ Protocol(c).parity \in 0..2
  BY DEF Protocol
<1>3. Protocol(c) \in Format
  BY <1>1, <1>2 DEF Protocol, Format
<1> QED
  BY <1>1, <1>3

\* A control write.
LEMMA ControlStep == ASSUME NEW c \in ControlWords, Inv, WriteControl(c) PROVE Inv'
<1>1. ctl' \in Format
  BY ProtocolType DEF WriteControl
<1>2. tx' \in Transmitter /\ tx'.full = tx.full
  BY ProtocolType DEF Inv, TypeOK, WriteControl, Transmitter
<1>3. sr' \subseteq Flags /\ irq' \in BOOLEAN
  BY DEF Inv, TypeOK, WriteControl, RaiseInterrupt, KeepInterrupt, Flags
<1>4. txInt' \in BOOLEAN /\ txBreak' \in BOOLEAN /\ rxInt' \in BOOLEAN
  BY AciaAssumption DEF AciaAssumption, WriteControl, Control
<1>5. TypeOK'
  BY <1>1, <1>2, <1>3, <1>4 DEF Inv, TypeOK, WriteControl
<1>6. StatusInv'
  BY <1>2 DEF Inv, TypeOK, WriteControl, RaiseInterrupt, KeepInterrupt, StatusInv,
              TdreIsSafe, FlagsFollowRdr, IrqBitMirrorsLine
<1>7. ClockInv'
  BY DEF Inv, WriteControl, ClockInv, ClocksInRange
<1> QED
  BY <1>5, <1>6, <1>7 DEF Inv

\* A read of the status register.
LEMMA StatusReadStep == Inv /\ ReadStatus => Inv'
BY DEF Inv, ReadStatus, TypeOK, StatusInv, TdreIsSafe, FlagsFollowRdr, IrqBitMirrorsLine,
       ClockInv, ClocksInRange

\* A read of the RDR.
LEMMA DataReadStep == Inv /\ ReadRdr => Inv'
<1> SUFFICES ASSUME Inv, ReadRdr PROVE Inv'
  OBVIOUS
<1>1. rx' \in Receiver
  BY DEF Inv, TypeOK, ReadRdr, Receiver
<1>2. AfterRead \subseteq sr \cup {"OVRN"}
  BY DEF AfterRead
<1>3. sr' \subseteq Flags /\ irq' \in BOOLEAN
  BY <1>2 DEF Inv, TypeOK, ReadRdr, ClearInterrupt, Flags
<1>4. TypeOK'
  BY <1>1, <1>3 DEF Inv, TypeOK, ReadRdr
<1>5. TdreIsSafe'
  BY <1>2 DEF Inv, StatusInv, ReadRdr, ClearInterrupt, TdreIsSafe
<1>6. FlagsFollowRdr'
  <2>1. /\ rx'.full = FALSE /\ rx'.overrun = rx.overrunPending
        /\ rx.full \in BOOLEAN /\ rx.overrun \in BOOLEAN /\ rx.overrunPending \in BOOLEAN
    BY DEF Inv, TypeOK, ReadRdr, Receiver
  <2>2. /\ "RDRF" \notin AfterRead /\ "FE" \notin AfterRead /\ "PE" \notin AfterRead
        /\ "OVRN" \in AfterRead <=> rx.overrunPending
    BY <2>1 DEF Inv, StatusInv, FlagsFollowRdr, AfterRead
  <2>3. \A f \in {"RDRF", "FE", "PE", "OVRN"} : f \in sr' <=> f \in AfterRead
    BY DEF ReadRdr, ClearInterrupt
  <2> QED
    BY <2>1, <2>2, <2>3 DEF FlagsFollowRdr
<1>7. IrqBitMirrorsLine'
  <2>1. "IRQ" \in AfterRead <=> irq
    BY DEF Inv, StatusInv, IrqBitMirrorsLine, AfterRead
  <2> QED
    BY <2>1 DEF Inv, TypeOK, ReadRdr, ClearInterrupt, IrqBitMirrorsLine
<1>8. ClockInv'
  BY DEF Inv, TypeOK, ReadRdr, Receiver, ClockInv, ClocksInRange
<1> QED
  BY <1>4, <1>5, <1>6, <1>7, <1>8 DEF Inv, StatusInv

\* A write to the TDR.
LEMMA DataWriteStep == ASSUME NEW ch \in Chars, Inv, WriteTdr(ch) PROVE Inv'
<1>1. tx' \in Transmitter
  BY AciaAssumption DEF AciaAssumption, Inv, TypeOK, WriteTdr, Transmitter, Word
<1>2. TypeOK'
  BY <1>1 DEF Inv, TypeOK, WriteTdr
<1>3. StatusInv'
  BY DEF Inv, WriteTdr, StatusInv, TdreIsSafe, FlagsFollowRdr, IrqBitMirrorsLine
<1>4. ClockInv'
  BY DEF Inv, WriteTdr, ClockInv, ClocksInRange
<1> QED
  BY <1>2, <1>3, <1>4 DEF Inv

\* The interrupt and the flags after tdr_went_empty().
LEMMA EmptyFacts ==
  ASSUME NEW s, NEW c, Inv, TdrWentEmpty(s, c), s \subseteq Flags,
         c \in BOOLEAN, "IRQ" \in s <=> irq
  PROVE  /\ sr' \subseteq Flags /\ irq' \in BOOLEAN
         /\ "IRQ" \in sr' <=> irq'
         /\ \A f \in Flags \ {"TDRE", "IRQ"} : f \in sr' <=> f \in s
         /\ "TDRE" \in sr' => "TDRE" \in s \/ (~por /\ ~c)
<1>1. por \in BOOLEAN /\ txInt \in BOOLEAN /\ irq \in BOOLEAN
  BY DEF Inv, TypeOK
<1>2. CASE por \/ c
  BY <1>1, <1>2 DEF TdrWentEmpty, KeepInterrupt
<1>3. CASE ~(por \/ c) /\ ~txInt
  <2>1. irq' = irq /\ sr' = s \cup {"TDRE"}
    BY <1>3 DEF TdrWentEmpty, KeepInterrupt
  <2> QED
    BY <1>1, <1>3, <2>1 DEF Flags
<1>4. CASE ~(por \/ c) /\ txInt
  BY <1>1, <1>4 DEF TdrWentEmpty, RaiseInterrupt, Flags
<1> QED
  BY <1>1, <1>2, <1>3, <1>4

\* A clock of the transmitter.
LEMMA TransmitStep == Inv /\ TxClock => Inv'
<1> SUFFICES ASSUME Inv, TxClock PROVE Inv'
  OBVIOUS
<1>1. tx \in Transmitter /\ ctl \in Format /\ ctl.div \in Nat \ {0}
  BY AciaAssumption DEF AciaAssumption, Inv, TypeOK, Format
<1>2. ClockInv'
  BY DEF Inv, TxClock, ClockInv, ClocksInRange
<1>3. ASSUME LoadShiftRegister PROVE TypeOK' /\ StatusInv'
  <2>1. tx' \in Transmitter /\ tx'.full = FALSE
    <3>1. 0 \in Counts
      BY AciaAssumption DEF AciaAssumption, Counts
    <3> QED
      BY <1>1, <1>3, <3>1 DEF LoadShiftRegister, Transmitter, TxStates
  <2>2. /\ sr' \subseteq Flags /\ irq' \in BOOLEAN
        /\ "IRQ" \in sr' <=> irq'
        /\ \A f \in Flags \ {"TDRE", "IRQ"} : f \in sr' <=> f \in sr
        /\ "TDRE" \in sr' => "TDRE" \in sr \/ (~por /\ ~cts)
    BY <1>3, EmptyFacts DEF Inv, TypeOK, StatusInv, IrqBitMirrorsLine, LoadShiftRegister
  <2>3. TypeOK'
    BY <2>1, <2>2 DEF Inv, TypeOK, TxClock
  <2>4. TdreIsSafe'
    BY <2>1, <2>2 DEF Inv, StatusInv, TdreIsSafe, TxClock
  <2>5. FlagsFollowRdr'
    BY <2>2 DEF Inv, StatusInv, FlagsFollowRdr, TxClock, Flags
  <2> QED
    BY <2>2, <2>3, <2>4, <2>5 DEF StatusInv, IrqBitMirrorsLine
<1>4. ASSUME tx' \in Transmitter, tx'.full = tx.full, KeepInterrupt(sr)
      PROVE  TypeOK' /\ StatusInv'
  BY <1>4 DEF Inv, TypeOK, StatusInv, TdreIsSafe, FlagsFollowRdr, IrqBitMirrorsLine,
              KeepInterrupt, TxClock
<1>5. ASSUME tx.ticks # 1, tx' = [tx EXCEPT !.ticks = @ - 1]
      PROVE  tx' \in Transmitter /\ tx'.full = tx.full
  BY <1>1, <1>5 DEF Transmitter
<1>6. ASSUME tx' = [tx EXCEPT !.out = 0, !.ticks = ctl.div]
      PROVE  tx' \in Transmitter /\ tx'.full = tx.full
  BY <1>1, <1>6 DEF Transmitter
<1>7. ShiftedOut \in Transmitter /\ ShiftedOut.full = tx.full
  <2>1. /\ tx.shift[1] \in {0, 1} /\ ShiftRight(tx.shift) \in Word
        /\ (tx.count + 1) % CountModulus \in Counts
        /\ (tx.parity + tx.shift[1]) % 2 \in {0, 1}
    BY <1>1, WordFacts, AciaAssumption DEF AciaAssumption, Transmitter, Counts
  <2>2. AfterBits \in TxStates
    BY DEF AfterBits, TxStates
  <2>3. tx.state \in TxStates
    BY <1>1 DEF Transmitter
  <2> QED
    BY <1>1, <2>1, <2>2, <2>3 DEF ShiftedOut, Transmitter, TxStates
<1> QED
  BY <1>2, <1>3, <1>4, <1>5, <1>6, <1>7 DEF Inv, TxClock

\* A clock of the receiver.
LEMMA ReceiveStep == ASSUME NEW b \in {0, 1}, Inv, RxClock(b) PROVE Inv'
<1>1. rx \in Receiver /\ ctl \in Format /\ ctl.div \in Nat \ {0} /\ ctl.div \in Divisors
  BY AciaAssumption DEF AciaAssumption, Inv, TypeOK, Format
<1>2. 0 \in Counts /\ \A n \in Counts : (n + 1) % CountModulus \in Counts
  BY AciaAssumption DEF AciaAssumption, Counts
<1>3. \E d \in Divisors : 0 <= d /\ 1 <= d
  BY AciaAssumption DEF AciaAssumption
\* Every branch but the last leaves the RDR, the overrun and the flags alone.
<1> DEFINE Quiet == /\ rx' \in Receiver
                    /\ rx'.full = rx.full /\ rx'.overrun = rx.overrun
                    /\ sr' = sr /\ irq' = irq
<1>4. ASSUME Quiet PROVE TypeOK' /\ StatusInv'
  BY <1>4 DEF Inv, TypeOK, StatusInv, TdreIsSafe, FlagsFollowRdr, IrqBitMirrorsLine, RxClock
<1>5. ASSUME NEW n \in {0, 1}
      PROVE  /\ BeginCharacter(n) \in Receiver
             /\ BeginCharacter(n).full = rx.full /\ BeginCharacter(n).overrun = rx.overrun
             /\ BeginCharacter(n).clocks = n /\ BeginCharacter(n).state = "DATA"
  <2>1. n \in Nat /\ "DATA" \in RxStates
    BY DEF RxStates
  <2> QED
    BY <1>1, <1>2, <2>1, WordFacts DEF BeginCharacter, Receiver
<1>6. CASE rx.state \in {"IDLE", "START"}
  <2>1. rx' = HuntForStart(b) /\ sr' = sr /\ irq' = irq
    BY <1>6 DEF RxClock, KeepInterrupt
  <2>2. CASE rx' = rx
    BY <1>1, <1>4, <2>1, <2>2 DEF Inv, ClockInv, ClocksInRange
  <2>3. CASE \E n \in {0, 1} : rx' = BeginCharacter(n)
    <3>1. Quiet /\ rx'.state = "DATA" /\ rx'.clocks \in {0, 1}
      BY <1>5, <2>1, <2>3
    <3>2. ClockInv'
      BY <1>3, <3>1 DEF ClockInv, ClocksInRange
    <3> QED
      BY <1>4, <3>1, <3>2 DEF Inv
  <2>4. CASE rx' = [rx EXCEPT !.clocks = 1, !.state = "START"] /\ ctl.div # 1
    <3>1. Quiet /\ rx'.clocks = 1
      <4>1. 1 \in Nat /\ "START" \in RxStates
        BY DEF RxStates
      <4> QED
        BY <1>1, <2>1, <2>4, <4>1 DEF Receiver
    <3>2. rx'.clocks + 1 <= ctl.div /\ rx'.clocks <= ctl.div
      BY <1>1, <2>4, <3>1
    <3>3. ClockInv'
      BY <1>1, <3>2 DEF ClockInv, ClocksInRange
    <3> QED
      BY <1>4, <3>1, <3>3 DEF Inv
  <2>5. CASE rx.state = "START" /\ rx' = [rx EXCEPT !.clocks = @ + 1, !.state = "IDLE"]
    <3>1. Quiet /\ rx'.clocks = rx.clocks + 1 /\ rx'.state = "IDLE"
      <4>1. rx.clocks + 1 \in Nat /\ "IDLE" \in RxStates
        BY <1>1 DEF Receiver, RxStates
      <4> QED
        BY <1>1, <2>1, <2>5, <4>1 DEF Receiver
    <3>2. ClockInv'
      BY <2>5, <3>1 DEF Inv, ClockInv, ClocksInRange
    <3> QED
      BY <1>4, <3>1, <3>2 DEF Inv
  <2>6. CASE rx' = [rx EXCEPT !.clocks = @ + 1] /\ ~(rx.clocks + 1 >= ctl.div \div 2)
    <3>1. Quiet /\ rx'.clocks = rx.clocks + 1 /\ rx.clocks \in Nat
      BY <1>1, <2>1, <2>6 DEF Receiver
    <3>2. rx'.clocks + 1 <= ctl.div /\ rx'.clocks <= ctl.div
      BY <1>1, <2>6, <3>1
    <3>3. ClockInv'
      BY <1>1, <3>2 DEF ClockInv, ClocksInRange
    <3> QED
      BY <1>4, <3>1, <3>3 DEF Inv
  <2> QED
    BY <1>6, <2>1, <2>2, <2>3, <2>4, <2>5, <2>6 DEF HuntForStart
<1>7. CASE /\ rx.state \notin {"IDLE", "START"} /\ ~SampleNow
           /\ rx' = [rx EXCEPT !.clocks = @ + 1] /\ KeepInterrupt(sr)
  <2>1. Quiet /\ rx'.clocks = rx.clocks + 1 /\ rx'.state = rx.state /\ rx.clocks \in Nat
    BY <1>1, <1>7 DEF Receiver, KeepInterrupt
  <2>2. rx'.clocks <= ctl.div
    BY <1>1, <1>7, <2>1 DEF SampleNow
  <2>3. ClockInv'
    BY <1>1, <1>7, <2>1, <2>2 DEF ClockInv, ClocksInRange
  <2> QED
    BY <1>4, <2>1, <2>3 DEF Inv
\* The end of a bit clears the count or, with divisor 1, leaves it.
<1>8. ASSUME Quiet, rx'.clocks = 0 \/ rx'.clocks = rx.clocks, rx'.state # "START" PROVE Inv'
  <2>1. ClockInv'
    BY <1>3, <1>8 DEF Inv, ClockInv, ClocksInRange
  <2> QED
    BY <1>4, <1>8, <2>1 DEF Inv
<1>9. CASE rx.state = "DATA" /\ SampleNow /\ ReceiveData(b) /\ KeepInterrupt(sr)
  <2>1. rx.count \in Counts /\ rx.shift \in Word /\ rx.parity \in {0, 1}
    BY <1>1 DEF Receiver
  <2>2. (rx.count + 1) % CountModulus \in Counts /\ (rx.parity + b) % 2 \in {0, 1}
    BY <1>2, <2>1
  <2>3. ShiftIn(b) \subseteq Word
    BY <2>1, AciaAssumption DEF AciaAssumption, ShiftIn, Word, Counts
  <2>4. PICK word \in Word :
          LET n == (rx.count + 1) % CountModulus
          IN  rx' = [rx EXCEPT !.shift = word, !.count = n,
                         !.parity = IF ctl.parity # 0 THEN (@ + b) % 2 ELSE @,
                         !.clocks = IF ctl.div = 1 /\ n # ctl.word THEN @ ELSE 0,
                         !.state = IF n # ctl.word THEN "DATA"
                                   ELSE IF ctl.parity # 0 THEN "PARITY" ELSE "STOP"]
    BY <1>9, <2>3 DEF ReceiveData
  <2>5. /\ Quiet
        /\ rx'.clocks = 0 \/ rx'.clocks = rx.clocks
        /\ rx'.state # "START"
    BY <1>1, <1>9, <2>1, <2>2, <2>4 DEF Receiver, RxStates, KeepInterrupt
  <2> QED
    BY <1>8, <2>5
<1>10. CASE rx.state = "PARITY" /\ SampleNow /\ ReceiveParity(b) /\ KeepInterrupt(sr)
  BY <1>1, <1>8, <1>10 DEF ReceiveParity, Receiver, RxStates, KeepInterrupt
<1>11. CASE rx.state = "STOP" /\ SampleNow /\ ReceiveStop(b)
  <2> DEFINE Ended == [rx EXCEPT !.clocks = IF ctl.div = 1 THEN @ ELSE 0, !.state = "IDLE"]
  <2>1. /\ rx.full \in BOOLEAN /\ rx.data \in Word /\ rx.shift \in Word
        /\ "IDLE" \in RxStates /\ 0 \in Nat
    BY <1>1 DEF Receiver, RxStates
  <2>2. /\ Ended \in Receiver
        /\ Ended.full = rx.full /\ Ended.overrun = rx.overrun /\ Ended.state = "IDLE"
        /\ Ended.clocks = 0 \/ Ended.clocks = rx.clocks
    BY <1>1, <2>1 DEF Receiver
  <2> HIDE DEF Ended
  <2>3. CASE rx.full
    <3>1. rx' = [Ended EXCEPT !.overrunPending = TRUE] /\ sr' = sr /\ irq' = irq
      BY <1>11, <2>3 DEF ReceiveStop, KeepInterrupt, Ended
    <3>2. /\ rx' \in Receiver
          /\ rx'.full = Ended.full /\ rx'.overrun = Ended.overrun
          /\ rx'.clocks = Ended.clocks /\ rx'.state = Ended.state
      BY <2>2, <3>1 DEF Receiver
    <3> QED
      BY <1>8, <2>2, <3>1, <3>2
  <2>4. CASE ~rx.full
    <3>1. /\ rx' \in Receiver /\ rx'.full = TRUE /\ rx'.overrun = rx.overrun
          /\ rx'.clocks = 0 \/ rx'.clocks = rx.clocks
          /\ rx'.state = "IDLE"
      <4>1. rx' = [Ended EXCEPT !.data = rx.shift, !.full = TRUE]
        BY <1>11, <2>4 DEF ReceiveStop, Ended
      <4>2. /\ rx' \in Receiver /\ rx'.full = TRUE
            /\ rx'.overrun = Ended.overrun
            /\ rx'.clocks = Ended.clocks /\ rx'.state = Ended.state
        BY <2>1, <2>2, <4>1 DEF Receiver
      <4> QED
        BY <2>2, <4>2
    <3>2. /\ sr' \subseteq Flags /\ irq' \in BOOLEAN
          /\ "IRQ" \in sr' <=> irq'
          /\ "RDRF" \in sr'
          /\ "TDRE" \in sr' <=> "TDRE" \in sr
          /\ "OVRN" \in sr' <=> "OVRN" \in sr
      <4>1. PICK s \in SUBSET Flags :
              /\ s \subseteq sr \cup {"RDRF", "FE", "PE"} /\ sr \cup {"RDRF"} \subseteq s
              /\ IF rxInt THEN RaiseInterrupt(s) ELSE KeepInterrupt(s)
        <5> DEFINE t == sr \cup {"RDRF"}
                           \cup (IF b = 0 THEN {"FE"} ELSE {})
                           \cup (IF ctl.parity # 0 /\ rx.parityError THEN {"PE"} ELSE {})
        <5>1. t \subseteq sr \cup {"RDRF", "FE", "PE"} /\ sr \cup {"RDRF"} \subseteq t
          OBVIOUS
        <5>2. sr \cup {"RDRF", "FE", "PE"} \subseteq Flags
          BY DEF Inv, TypeOK, Flags
        <5>3. IF rxInt THEN RaiseInterrupt(t) ELSE KeepInterrupt(t)
          BY <1>11, <2>4 DEF ReceiveStop
        <5> HIDE DEF t
        <5> QED
          BY <5>1, <5>2, <5>3
      <4>2. /\ "IRQ" \in s <=> irq
            /\ "TDRE" \in s <=> "TDRE" \in sr
            /\ "OVRN" \in s <=> "OVRN" \in sr
            /\ "RDRF" \in s
        BY <4>1 DEF Inv, StatusInv, IrqBitMirrorsLine
      <4>3. irq \in BOOLEAN /\ "IRQ" \in Flags
        BY DEF Inv, TypeOK, Flags
      <4>4. CASE rxInt
        BY <4>1, <4>2, <4>3, <4>4 DEF RaiseInterrupt
      <4>5. CASE ~rxInt
        BY <4>1, <4>2, <4>3, <4>5 DEF KeepInterrupt
      <4> QED
        BY <4>4, <4>5
    <3>3. TypeOK'
      BY <3>1, <3>2 DEF Inv, TypeOK, RxClock
    <3>4. StatusInv'
      BY <3>1, <3>2 DEF Inv, StatusInv, TdreIsSafe, FlagsFollowRdr, IrqBitMirrorsLine, RxClock
    <3>5. ClockInv'
      BY <1>3, <3>1 DEF Inv, ClockInv, ClocksInRange
    <3> QED
      BY <3>3, <3>4, <3>5 DEF Inv
  <2> QED
    BY <2>1, <2>3, <2>4
<1> QED
  BY <1>6, <1>7, <1>9, <1>10, <1>11 DEF RxClock

\* CTS* becomes active.
LEMMA ClearToSendStep == Inv /\ ClearCts => Inv'
<1> SUFFICES ASSUME Inv, ClearCts PROVE Inv'
  OBVIOUS
<1>1. tx.full \in BOOLEAN
  BY DEF Inv, TypeOK, Transmitter
<1>2. CASE tx.full
  <2>1. sr' = sr \ {"CTS"} /\ irq' = irq
    BY <1>2 DEF ClearCts, KeepInterrupt
  <2> QED
    BY <2>1 DEF Inv, ClearCts, TypeOK, StatusInv, TdreIsSafe, FlagsFollowRdr,
                IrqBitMirrorsLine, ClockInv, ClocksInRange
<1>3. CASE ~tx.full
  <2> DEFINE s == sr \ {"CTS"}
  <2>1. /\ TdrWentEmpty(s, FALSE) /\ s \subseteq Flags
        /\ "IRQ" \in s <=> irq
    BY <1>3 DEF Inv, TypeOK, StatusInv, IrqBitMirrorsLine, ClearCts
  <2>2. /\ sr' \subseteq Flags /\ irq' \in BOOLEAN
        /\ "IRQ" \in sr' <=> irq'
        /\ \A f \in Flags \ {"TDRE", "IRQ"} : f \in sr' <=> f \in s
        /\ "TDRE" \in sr' => "TDRE" \in s \/ ~por
    BY <2>1, EmptyFacts
  <2>3. TypeOK'
    BY <2>2 DEF Inv, TypeOK, ClearCts
  <2>4. TdreIsSafe'
    BY <1>3, <2>2 DEF Inv, StatusInv, TdreIsSafe, ClearCts
  <2>5. FlagsFollowRdr'
    BY <2>2 DEF Inv, StatusInv, FlagsFollowRdr, ClearCts, Flags
  <2>6. ClockInv'
    BY DEF Inv, ClearCts, ClockInv, ClocksInRange
  <2> QED
    BY <2>2, <2>3, <2>4, <2>5, <2>6 DEF Inv, StatusInv, IrqBitMirrorsLine
<1> QED
  BY <1>1, <1>2, <1>3

\* CTS* becomes inactive.
LEMMA NotClearToSendStep == Inv /\ RaiseCts => Inv'
BY DEF Inv, RaiseCts, KeepInterrupt, TypeOK, Flags, StatusInv, TdreIsSafe, FlagsFollowRdr,
       IrqBitMirrorsLine, ClockInv, ClocksInRange

\* The carrier arrives.
LEMMA CarrierStep == Inv /\ ApplyCarrier => Inv'
BY DEF Inv, ApplyCarrier, KeepInterrupt, TypeOK, Flags, StatusInv, TdreIsSafe, FlagsFollowRdr,
       IrqBitMirrorsLine, ClockInv, ClocksInRange

\* The carrier drops.
LEMMA NoCarrierStep == Inv /\ DropCarrier => Inv'
<1> SUFFICES ASSUME Inv, DropCarrier PROVE Inv'
  OBVIOUS
<1>1. /\ rx' \in Receiver /\ rx'.full = FALSE /\ rx'.overrun = FALSE
      /\ rx'.clocks = 0 /\ rx'.state = "IDLE"
  <2>1. 0 \in Counts /\ 0 \in Nat /\ "IDLE" \in RxStates /\ rx \in Receiver
    BY AciaAssumption DEF AciaAssumption, Counts, RxStates, Inv, TypeOK
  <2> QED
    BY <2>1 DEF DropCarrier, Receiver
<1> DEFINE s == (sr \ {"RDRF", "FE", "OVRN", "PE"}) \cup {"DCD"}
<1>2. /\ s \subseteq Flags
      /\ "IRQ" \in s <=> irq
      /\ \A f \in {"RDRF", "FE", "OVRN", "PE"} : f \notin s
      /\ "TDRE" \in s <=> "TDRE" \in sr
  BY DEF Inv, TypeOK, Flags, StatusInv, IrqBitMirrorsLine
<1>3. /\ sr' = s \/ sr' = s \cup {"IRQ"}
      /\ irq' \in BOOLEAN
      /\ "IRQ" \in sr' <=> irq'
  <2>1. irq \in BOOLEAN /\ rxInt \in BOOLEAN
    BY DEF Inv, TypeOK
  <2>2. IF rxInt THEN RaiseInterrupt(s) ELSE KeepInterrupt(s)
    BY DEF DropCarrier
  <2> HIDE DEF s
  <2>3. CASE rxInt
    BY <1>2, <2>1, <2>2, <2>3 DEF RaiseInterrupt
  <2>4. CASE ~rxInt
    BY <1>2, <2>1, <2>2, <2>4 DEF KeepInterrupt
  <2> QED
    BY <2>3, <2>4
<1> HIDE DEF s
<1>4. TypeOK'
  BY <1>1, <1>2, <1>3 DEF Inv, TypeOK, Flags, DropCarrier
<1>5. StatusInv'
  BY <1>1, <1>2, <1>3 DEF Inv, StatusInv, TdreIsSafe, FlagsFollowRdr, IrqBitMirrorsLine,
                          DropCarrier
<1>6. ClockInv'
  BY <1>1, AciaAssumption DEF AciaAssumption, ClockInv, ClocksInRange
<1> QED
  BY <1>4, <1>5, <1>6 DEF Inv

\* Every access, clock and modem event keeps the invariant.
LEMMA InductiveStep == Inv /\ [Next]_vars => Inv'
<1> SUFFICES ASSUME Inv, [Next]_vars PROVE Inv'
  OBVIOUS
<1>1. CASE Cpu
  BY <1>1, ResetStep, StatusReadStep, DataReadStep, ControlStep, DataWriteStep DEF Cpu
<1>2. CASE SerialUla
  BY <1>2, TransmitStep, ReceiveStep, ClearToSendStep, NotClearToSendStep, CarrierStep,
     NoCarrierStep DEF SerialUla
<1>3. CASE UNCHANGED vars
  BY <1>3 DEF vars, Inv, TypeOK, StatusInv, TdreIsSafe, FlagsFollowRdr, IrqBitMirrorsLine,
              ClockInv, ClocksInRange
<1> QED
  BY <1>1, <1>2, <1>3 DEF Next

\* The inductive invariant of the chip.
THEOREM Invariant == Spec => []Inv
BY InitInv, InductiveStep, PTL DEF Spec

\* Every field of the chip keeps its type: in particular the shift counters,
\* which wrap, stay in their eight bits.
THEOREM TypeCorrect == Spec => []TypeOK
BY Invariant, PTL DEF Inv

\* TDRE is set only when a character may be written: with the TDR empty, CTS*
\* active and the power-on reset released.
THEOREM WritesAreSafe == Spec => []TdreIsSafe
BY Invariant, PTL DEF Inv, StatusInv

\* RDRF, FE, PE and OVRN describe the character in the RDR.
THEOREM ReceiveFlagsAreTrue == Spec => []FlagsFollowRdr
BY Invariant, PTL DEF Inv, StatusInv

\* The interrupt bit of the status register is the interrupt line.
THEOREM InterruptBitIsTrue == Spec => []IrqBitMirrorsLine
BY Invariant, PTL DEF Inv, StatusInv

\* The 8-bit receive clock count never passes the largest divisor.
THEOREM ClocksStayInRange == Spec => []ClocksInRange
BY Invariant, PTL DEF Inv, ClockInv

-----------------------------------------------------------------------------
(***************************************************************************)
(* What the CPU was shown.  The history variables watch the chip without   *)
(* steering it, so everything above holds of it with them.                 *)
(***************************************************************************)
LEMMA HistoryWatches == HNext => Next
BY DEF HNext, Next, Cpu, SerialUla

\* A behaviour of the chip with its history is one of the chip.
THEOREM HistoryIsAcia == HSpec => Spec
<1>1. HInit => Init
  BY DEF HInit
<1>2. [HNext]_hvars => [Next]_vars
  BY HistoryWatches DEF hvars
<1> QED
  BY <1>1, <1>2, PTL DEF HSpec, Spec

\* The invariant of the chip with its history.
LEMMA WatchedInv == HSpec => []Inv
BY HistoryIsAcia, Invariant, PTL

\* What is owed to the CPU has been shown to it: a lost character is pending
\* until the one in the RDR is read, and OVRN from then on.
GapInv ==
  /\ dropped <=> rx.overrunPending
  /\ rx.overrunPending => rx.full
  /\ owed => shown

\* The second half of clearing a loss of carrier follows the first.
SequenceInv == latch = "data" => statusRead

\* Every step of the watched chip keeps the account of lost characters.
LEMMA GapStep == Inv /\ GapInv /\ [HNext]_hvars => GapInv'
<1> SUFFICES ASSUME Inv, GapInv, [HNext]_hvars PROVE GapInv'
  OBVIOUS
<1>1. /\ rx \in Receiver /\ rx.full \in BOOLEAN /\ rx.overrunPending \in BOOLEAN
      /\ sr \subseteq Flags
  BY DEF Inv, TypeOK, Receiver
<1>2. ASSUME rx'.full = rx.full, rx'.overrunPending = rx.overrunPending,
             UNCHANGED <<dropped, owed>>, shown => shown'
      PROVE  GapInv'
  BY <1>2 DEF GapInv
<1>3. CASE /\ MasterReset
           /\ dropped' = FALSE /\ owed' = FALSE /\ shown' = FALSE
  <2>1. ~rx'.overrunPending
    BY <1>1, <1>3 DEF MasterReset, Receiver
  <2> QED
    BY <1>3, <2>1 DEF GapInv
<1>4. CASE ReadStatus /\ UNCHANGED <<dropped, owed, shown>>
  BY <1>2, <1>4 DEF ReadStatus
<1>5. CASE /\ ReadRdr
           /\ IF rx.full
              THEN owed' = dropped /\ dropped' = FALSE /\ shown' = ("OVRN" \in sr')
              ELSE Shows /\ UNCHANGED <<dropped, owed>>
  <2>1. ~rx'.overrunPending
    BY <1>1, <1>5 DEF ReadRdr, Receiver
  <2>2. rx.overrunPending => "OVRN" \in sr'
    BY <1>5 DEF ReadRdr, AfterRead, ClearInterrupt
  <2>3. CASE rx.full
    BY <1>5, <2>1, <2>2, <2>3 DEF GapInv
  <2>4. CASE ~rx.full
    BY <1>1, <1>5, <2>1, <2>4 DEF GapInv, Shows
  <2> QED
    BY <1>1, <2>3, <2>4
<1>6. CASE /\ \/ \E c \in ControlWords : WriteControl(c)
              \/ \E ch \in Chars : WriteTdr(ch)
           /\ UNCHANGED history
  BY <1>2, <1>6 DEF WriteControl, WriteTdr, history
<1>7. CASE /\ \E b \in {0, 1} : RxClock(b)
           /\ dropped' = (dropped \/ (Completes /\ rx.full))
           /\ Shows /\ UNCHANGED owed
  <2>1. PICK b \in {0, 1} : RxClock(b)
    BY <1>7
  <2>2. shown => shown'
    BY <1>7 DEF Shows
  <2>3. CASE Completes /\ rx.full
    <3>1. rx.state = "STOP" /\ SampleNow
      BY <2>3 DEF Completes
    <3>2. ReceiveStop(b)
      BY <2>1, <3>1 DEF RxClock
    <3>3. rx'.overrunPending = TRUE /\ rx'.full = rx.full
      BY <1>1, <2>3, <3>2 DEF ReceiveStop, Receiver
    <3> QED
      BY <1>7, <2>2, <2>3, <3>3 DEF GapInv
  <2>4. CASE Completes /\ ~rx.full
    <3>1. rx.state = "STOP" /\ SampleNow
      BY <2>4 DEF Completes
    <3>2. ReceiveStop(b)
      BY <2>1, <3>1 DEF RxClock
    <3>3. rx'.overrunPending = rx.overrunPending /\ ~rx.overrunPending
      BY <1>1, <2>4, <3>2 DEF ReceiveStop, Receiver, GapInv
    <3> QED
      BY <1>7, <2>2, <2>4, <3>3 DEF GapInv
  <2>5. CASE ~Completes
    <3>1. ~(rx.state = "STOP" /\ SampleNow)
      BY <2>1, <2>5 DEF Completes, RxClock
    <3>2. rx'.full = rx.full /\ rx'.overrunPending = rx.overrunPending
      BY <1>1, <2>1, <3>1 DEF RxClock, HuntForStart, BeginCharacter, ReceiveData, ReceiveParity, Receiver
    <3> QED
      BY <1>7, <2>2, <2>5, <3>2 DEF GapInv
  <2> QED
    BY <2>3, <2>4, <2>5
<1>8. CASE (TxClock \/ ClearCts \/ RaiseCts \/ ApplyCarrier) /\ UNCHANGED history
  BY <1>2, <1>8 DEF TxClock, ClearCts, RaiseCts, ApplyCarrier, history
<1>9. CASE DropCarrier /\ dropped' = FALSE /\ owed' = FALSE
  <2>1. ~rx'.overrunPending
    BY <1>1, <1>9 DEF DropCarrier, Receiver
  <2> QED
    BY <1>9, <2>1 DEF GapInv
<1>10. CASE UNCHANGED hvars
  BY <1>2, <1>10 DEF hvars, vars, history
<1> QED
  BY <1>3, <1>4, <1>5, <1>6, <1>7, <1>8, <1>9, <1>10 DEF HNext

\* Every step keeps the order of the DCD sequence.
LEMMA SequenceStep == SequenceInv /\ [HNext]_hvars => SequenceInv'
<1> SUFFICES ASSUME SequenceInv, [HNext]_hvars PROVE SequenceInv'
  OBVIOUS
<1>1. CASE MasterReset \/ DropCarrier
  BY <1>1 DEF MasterReset, DropCarrier, SequenceInv
<1>2. CASE ReadStatus /\ statusRead' = TRUE
  BY <1>2 DEF SequenceInv
<1>3. CASE ReadRdr /\ UNCHANGED statusRead
  BY <1>3 DEF ReadRdr, SequenceInv
<1>4. CASE UNCHANGED <<latch, statusRead>>
  BY <1>4 DEF SequenceInv
<1> QED
  BY <1>1, <1>2, <1>3, <1>4
  DEF HNext, WriteControl, WriteTdr, RxClock, TxClock, ClearCts, RaiseCts, ApplyCarrier,
      hvars, vars, history

\* No character is lost without the CPU having been shown OVRN before it
\* reads on.
THEOREM NoSilentLoss == HSpec => GapsAreShown
<1>1. HInit => GapInv
  BY DEF HInit, Init, UnusedReceiver, GapInv
<1>2. GapInv /\ [HNext]_hvars => [ReadRdr /\ rx.full /\ owed => shown]_hvars
  BY DEF GapInv
<1> QED
  BY <1>1, <1>2, GapStep, WatchedInv, PTL DEF HSpec, GapsAreShown

\* Every step but a master reset and the last of the sequence keeps the flag.
LEMMA DcdStays ==
  ASSUME [Next]_vars, "DCD" \in sr, "DCD" \notin sr', ~MasterReset
  PROVE  ReadRdr /\ latch = "data" /\ carrier
<1>1. \A s : RaiseInterrupt(s) \/ KeepInterrupt(s) \/ ClearInterrupt(s) =>
               ("DCD" \in s => "DCD" \in sr')
  BY DEF RaiseInterrupt, KeepInterrupt, ClearInterrupt
<1>2. \A s, c : TdrWentEmpty(s, c) => ("DCD" \in s => "DCD" \in sr')
  BY DEF TdrWentEmpty, RaiseInterrupt, KeepInterrupt
<1>3. ~(\E c \in ControlWords : WriteControl(c)) /\ ~(\E ch \in Chars : WriteTdr(ch))
  BY <1>1 DEF WriteControl, WriteTdr
<1>4. ~TxClock /\ ~ClearCts
  BY <1>1, <1>2 DEF TxClock, LoadShiftRegister, ClearCts
<1>5. ~(\E b \in {0, 1} : RxClock(b))
  BY <1>1 DEF RxClock, ReceiveStop
<1>6. ~RaiseCts /\ ~ApplyCarrier /\ ~ReadStatus /\ ~UNCHANGED vars
  BY <1>1 DEF RaiseCts, ApplyCarrier, ReadStatus, vars
<1>7. ~DropCarrier
  BY <1>1 DEF DropCarrier
<1>8. ReadRdr
  BY <1>3, <1>4, <1>5, <1>6, <1>7 DEF Next, Cpu, SerialUla
<1>9. "DCD" \notin AfterRead
  BY <1>1, <1>8 DEF ReadRdr
<1>10. latch = "data" /\ carrier
  BY <1>9 DEF AfterRead
<1> QED
  BY <1>8, <1>10

\* A loss of carrier is shown to the CPU before it is forgotten: apart from a
\* master reset, DCD is cleared only by a data read with the carrier back, after
\* a status read since the last loss.
THEOREM NoLossIsHidden == HSpec => LossesAreShown
<1> DEFINE Clears == ("DCD" \in sr /\ "DCD" \notin sr' /\ ~MasterReset)
                       => ReadRdr /\ statusRead /\ carrier
<1>1. HInit => SequenceInv
  BY DEF HInit, Init, SequenceInv
<1>2. SequenceInv /\ [HNext]_hvars => [Clears]_hvars
  BY HistoryWatches, DcdStays DEF SequenceInv, hvars
<1> QED
  BY <1>1, <1>2, SequenceStep, PTL DEF HSpec, LossesAreShown

-----------------------------------------------------------------------------
(***************************************************************************)
(* The looped line.  The receiver's clocks are compared with those of the  *)
(* transmitter: it has sampled the cell on the line, or the one before it, *)
(* and its shift register, count and parity are those of that cell.        *)
(***************************************************************************)
LEMMA LoopSteps == Inv /\ [LNext]_lvars => [Next]_vars
<1> SUFFICES ASSUME Inv, [LNext]_lvars PROVE [Next]_vars
  OBVIOUS
<1>1. Setup => Next
  BY DEF Setup, Next, Cpu, SerialUla
<1>2. Write => Next
  BY DEF Write, Next, Cpu
<1>3. Read => Next
  BY DEF Read, Next, Cpu
<1>4. Clock => Next
  <2>1. tx.out \in {0, 1}
    BY DEF Inv, TypeOK, Transmitter
  <2> QED
    BY <2>1 DEF Clock, Next, SerialUla
<1> QED
  BY <1>1, <1>2, <1>3, <1>4 DEF LNext, lvars

\* A behaviour of the looped chip is one of the chip: the bit on the line is
\* one the receiver may sample.
THEOREM LoopIsAcia == LSpec => Spec
<1>1. LInit => Init
  BY DEF LInit
<1>2. Inv /\ [Next]_vars => Inv'
  BY InductiveStep
<1> QED
  BY <1>1, <1>2, LoopSteps, InitInv, PTL DEF LSpec, Spec

Running   == stage \in {"tx", "rx"}
HasParity == ctl.parity # 0
StopCell  == ctl.word + (IF HasParity THEN 2 ELSE 1)

\* The clocks from the edge of a cell to the sample the receiver takes of it,
\* and the clocks it has had since the edge of the cell now on the line.
Confirm == IF ctl.div = 1 THEN 1 ELSE IF ctl.div <= 3 THEN 2 ELSE ctl.div \div 2
Heard   == IF stage = "rx" THEN ctl.div - tx.ticks ELSE ctl.div - tx.ticks + 1

\* The cell now on the line, 0 for the start bit, and the last one sampled.
Cell ==
  IF tx.state = "BITS" THEN tx.count
  ELSE IF tx.state = "PARITY" THEN ctl.word
  ELSE IF tx.state = "STOP_BIT_1" THEN StopCell - 1 ELSE StopCell
Sampled == IF Heard >= Confirm THEN Cell ELSE Cell - 1

\* The character on its way from one shift register to the other.
OnLine  == tx.state \in {"START_BIT", "BITS", "PARITY", "STOP_BIT_1"} \/ rx.state # "IDLE"
Current == sent[Arrived + 1]

Count(b)      == IF b THEN 1 ELSE 0
Complement(p) == IF ctl.parity = 1 THEN 1 - p ELSE p

\* The characters received, with the one in the RDR, and the place of a
\* delivered character among them.
Received   == IF rx.full THEN Append(got, rx.data) ELSE got
Rank(i, S) == Cardinality({j \in S : j <= i})

SetupInv ==
  /\ stage \in {"reset", "control", "cts", "carrier", "tx", "rx"}
  /\ ~Running => /\ tx.state = "IDLE" /\ ~tx.full /\ tx.out = 1
                 /\ rx.state = "IDLE" /\ ~rx.full /\ sent = <<>>
  /\ stage \notin {"reset", "control"} => tx.ticks \in 1..ctl.div
  /\ ~txBreak
  /\ "FE" \notin sr /\ "PE" \notin sr

\* Every character is read, lost, in the RDR, on the line or in the TDR.
CountInv ==
  /\ sent \in Seq(Word) /\ got \in Seq(Word) /\ IsFiniteSet(lost)
  /\ lost \subseteq 1..Arrived
  /\ Len(sent) = Arrived + Count(OnLine) + Count(tx.full)
  /\ \A n \in 1..Len(sent), i \in 1..LongWord : i > ctl.word => sent[n][i] = 0
  /\ tx.full => \A i \in 1..ctl.word : sent[Len(sent)][i] = tx.data[i]

HistoryInv ==
  /\ Cardinality(Delivered) = Len(Received)
  /\ \A n \in 1..Len(Received) :
       \E i \in Delivered : Rank(i, Delivered) = n /\ Received[n] = sent[i]

\* The bit on the line is that of its cell, and the transmitter holds the rest.
SendInv ==
  /\ tx.state = "START_BIT" => /\ tx.count = 0 /\ tx.out = 1
                               /\ tx.parity = Complement(0)
                               /\ \A i \in 1..ctl.word : tx.shift[i] = Current[i]
  /\ tx.state = "BITS" => /\ tx.count \in 0..(ctl.word - 1)
                          /\ tx.out = IF tx.count = 0 THEN 0 ELSE Current[tx.count]
                          /\ tx.count = 0 => tx.parity = Complement(0)
                          /\ \A i \in 1..(ctl.word - tx.count) :
                               tx.shift[i] = Current[i + tx.count]
  /\ tx.state = "PARITY" => HasParity /\ tx.out = Current[ctl.word]
  /\ tx.state = "STOP_BIT_1" => tx.out = IF HasParity THEN tx.parity ELSE Current[ctl.word]
  /\ tx.state \in {"STOP_BIT_2", "IDLE"} => tx.out = 1

\* The count of receive clocks, modulo the divisor, is that since the sample.
Clocked ==
  ctl.div > 1 => rx.clocks = IF Heard >= Confirm THEN Heard - Confirm
                             ELSE Heard - Confirm + ctl.div

\* The two parities differ by the bit that is sent and not yet sampled.
ParityAgrees ==
  HasParity => tx.parity = Complement(IF Sampled = Cell \/ Cell > ctl.word THEN rx.parity
                                      ELSE (rx.parity + tx.out) % 2)

\* The receiver follows one sample behind.
ReceiveInv ==
  /\ rx.state = "IDLE" => \/ tx.state \in {"IDLE", "START_BIT", "STOP_BIT_2"}
                          \/ tx.state = "BITS" /\ tx.count = 0 /\ Heard = 0
  /\ rx.state = "START" => /\ tx.state = "BITS" /\ tx.count = 0
                           /\ Heard \in 1..(Confirm - 1) /\ rx.clocks = Heard
  /\ rx.state \in {"DATA", "PARITY", "STOP"} => Clocked /\ ~rx.parityError
  /\ rx.state = "DATA" => /\ tx.state \in {"BITS", "PARITY", "STOP_BIT_1"} /\ Cell <= ctl.word
                          /\ Sampled \in 0..(ctl.word - 1) /\ rx.count = Sampled
                          /\ ParityAgrees
                          /\ \A i \in 1..LongWord :
                               rx.shift[i] = IF i <= Sampled THEN Current[i] ELSE 0
  /\ rx.state = "PARITY" => /\ tx.state \in {"PARITY", "STOP_BIT_1"} /\ HasParity
                            /\ Sampled = ctl.word
                            /\ ParityAgrees
  /\ rx.state = "STOP" => /\ tx.state \in {"STOP_BIT_1", "STOP_BIT_2", "IDLE"}
                          /\ Sampled = StopCell - 1
  /\ rx.state \in {"PARITY", "STOP"} => rx.shift = Current

LineInv == Running => SendInv /\ ReceiveInv

LoopInv == SetupInv /\ CountInv /\ HistoryInv /\ LineInv

\* What the proofs below use of the types.
LEMMA LoopTypes ==
  ASSUME Inv, CountInv
  PROVE  /\ ctl.div \in Nat \ {0} /\ ctl.word \in 1..LongWord /\ LongWord \in Nat
         /\ ctl.parity \in 0..2 /\ HasParity \in BOOLEAN
         /\ CountModulus \in Nat /\ CountModulus > LongWord
         /\ Confirm \in 1..ctl.div /\ (ctl.div > 1 => Confirm >= 2)
         /\ Cardinality(lost) \in Nat /\ Len(got) \in Nat /\ Len(sent) \in Nat
         /\ Arrived \in Nat
         /\ tx \in Transmitter /\ rx \in Receiver
<1>1. /\ ctl.div \in Nat \ {0} /\ ctl.word \in 1..LongWord /\ LongWord \in Nat
      /\ ctl.parity \in 0..2
      /\ CountModulus \in Nat /\ CountModulus > LongWord
  <2>1. ctl.div \in Divisors /\ ctl.word \in {ShortWord, LongWord} /\ ctl.parity \in 0..2
    BY DEF Inv, TypeOK, Format
  <2>2. /\ ShortWord \in Nat \ {0} /\ LongWord \in Nat /\ LongWord > ShortWord
        /\ CountModulus \in Nat /\ CountModulus > LongWord /\ Divisors \subseteq Nat \ {0}
    BY AciaAssumption DEF AciaAssumption
  <2>3. ctl.div \in Nat \ {0}
    BY <2>1, <2>2
  <2>4. ctl.word \in 1..LongWord
    BY <2>1, <2>2
  <2> QED
    BY <2>1, <2>2, <2>3, <2>4
<1>2. Confirm \in 1..ctl.div /\ (ctl.div > 1 => Confirm >= 2)
  BY <1>1 DEF Confirm
<1>3. Cardinality(lost) \in Nat /\ Len(got) \in Nat /\ Len(sent) \in Nat
  BY FS_CardinalityType DEF CountInv
<1>4. Arrived \in Nat
  BY <1>3 DEF Arrived
<1> QED
  BY <1>1, <1>2, <1>3, <1>4 DEF HasParity, Inv, TypeOK

\* The character on the line is one that was sent.
LEMMA OnLineFacts ==
  ASSUME Inv, CountInv, OnLine
  PROVE  /\ Arrived + 1 \in 1..Len(sent) /\ Current \in Word
         /\ \A i \in 1..LongWord : i > ctl.word => Current[i] = 0
<1>1. Len(sent) = Arrived + 1 + Count(tx.full) /\ Count(tx.full) \in {0, 1}
  BY DEF CountInv, Count
<1>2. Arrived + 1 \in 1..Len(sent)
  BY <1>1, LoopTypes
<1>3. sent \in Seq(Word) /\ \A n \in 1..Len(sent), i \in 1..LongWord : i > ctl.word => sent[n][i] = 0
  BY DEF CountInv
<1> QED
  BY <1>2, <1>3 DEF Current

\* A step that moves no character: none is accepted, completed or read.
LEMMA NothingMoves ==
  ASSUME Inv, CountInv, HistoryInv, UNCHANGED <<sent, got, lost>>,
         rx'.full = rx.full, tx'.full = tx.full, OnLine' <=> OnLine,
         rx.full => rx'.data = rx.data,
         ctl'.word = ctl.word \/ sent = <<>>, ctl'.word \in Nat,
         tx.full => tx'.data = tx.data
  PROVE  CountInv' /\ HistoryInv' /\ Arrived' = Arrived /\ Current' = Current
<1>1. Arrived' = Arrived
  BY DEF Arrived
<1>2. Current' = Current
  BY <1>1 DEF Current
<1>3. Delivered' = Delivered
  BY <1>1 DEF Delivered
<1>4. Received' = Received
  BY DEF Received
<1>5. HistoryInv'
  BY <1>3, <1>4 DEF HistoryInv
<1>6. Len(sent') = Arrived' + Count(OnLine') + Count(tx'.full)
  BY <1>1 DEF CountInv, Count
<1>7. \A n \in 1..Len(sent'), i \in 1..LongWord : i > ctl'.word => sent'[n][i] = 0
  BY DEF CountInv
<1>8. tx'.full => \A i \in 1..ctl'.word : sent'[Len(sent')][i] = tx'.data[i]
  <2>1. tx.full => sent # <<>>
    BY <1>1, LoopTypes DEF CountInv, Count
  <2> QED
    BY <2>1 DEF CountInv
<1>9. CountInv'
  BY <1>1, <1>6, <1>7, <1>8 DEF CountInv
<1> QED
  BY <1>1, <1>2, <1>5, <1>9

\* The TDR accepts a character.
LEMMA WriteCounts ==
  ASSUME Inv, CountInv, HistoryInv, LineInv, Running, Write
  PROVE  CountInv' /\ HistoryInv' /\ LineInv'
<1>1. PICK ch \in Chars : WriteTdr(ch) /\ sent' = Append(sent, Sent(ch))
  BY DEF Write
<1>2. ch \in Word /\ Sent(ch) \in Word
  BY AciaAssumption DEF AciaAssumption, Sent, Word
<1>3. /\ tx.full = FALSE /\ tx' = [tx EXCEPT !.data = ch, !.full = TRUE] /\ rx' = rx
      /\ UNCHANGED <<got, lost, stage, ctl>>
  BY <1>1, Zenon DEF Write, WriteTdr, Inv, StatusInv, TdreIsSafe, TypeOK, Transmitter
<1>4. /\ tx'.full = TRUE /\ tx'.data = ch /\ tx'.state = tx.state /\ tx'.ticks = tx.ticks
      /\ tx'.count = tx.count /\ tx'.out = tx.out /\ tx'.parity = tx.parity
      /\ tx'.shift = tx.shift
  BY <1>3, LoopTypes DEF Transmitter
<1>5. /\ Arrived' = Arrived /\ (OnLine' <=> OnLine) /\ Delivered' = Delivered
      /\ Received' = Received
  BY <1>3, <1>4 DEF Arrived, OnLine, Delivered, Received
<1>6. sent \in Seq(Word)
  BY DEF CountInv
<1>7. /\ sent' \in Seq(Word) /\ Len(sent') = Len(sent) + 1 /\ sent'[Len(sent')] = Sent(ch)
      /\ \A n \in 1..Len(sent) : sent'[n] = sent[n]
  BY <1>1, <1>2, <1>6
<1>8. Delivered \subseteq 1..Len(sent)
  BY LoopTypes DEF Delivered, CountInv, Count
<1>9. HistoryInv'
  BY <1>5, <1>7, <1>8 DEF HistoryInv
<1>10. \A n \in 1..Len(sent'), i \in 1..LongWord : i > ctl'.word => sent'[n][i] = 0
  <2> SUFFICES ASSUME NEW n \in 1..Len(sent'), NEW i \in 1..LongWord, i > ctl'.word
               PROVE  sent'[n][i] = 0
    OBVIOUS
  <2>1. CASE n = Len(sent')
    BY <1>3, <1>7, <2>1, LoopTypes DEF Sent
  <2>2. CASE n # Len(sent')
    BY <1>3, <1>7, <2>2, LoopTypes DEF CountInv
  <2> QED
    BY <2>1, <2>2
<1>11. \A i \in 1..ctl'.word : sent'[Len(sent')][i] = tx'.data[i]
  BY <1>3, <1>4, <1>7, LoopTypes DEF Sent
<1>12. CountInv'
  BY <1>3, <1>4, <1>5, <1>7, <1>10, <1>11, LoopTypes DEF CountInv, Count
<1>13. OnLine => Current' = Current
  BY <1>5, <1>7, OnLineFacts DEF Current
<1>14. LineInv'
  <2>1. SendInv'
    BY <1>3, <1>4, <1>13 DEF LineInv, SendInv, OnLine, HasParity, Complement
  <2>2. Heard' = Heard /\ Cell' = Cell /\ Confirm' = Confirm /\ StopCell' = StopCell
    BY <1>3, <1>4 DEF Heard, Cell, Confirm, StopCell, HasParity
  <2>3. Sampled' = Sampled /\ (Clocked' <=> Clocked) /\ (ParityAgrees' <=> ParityAgrees)
    BY <1>3, <1>4, <2>2 DEF Sampled, Clocked, ParityAgrees, HasParity, Complement
  <2>4. ReceiveInv'
    BY <1>3, <1>4, <1>13, <2>2, <2>3 DEF LineInv, ReceiveInv, OnLine, HasParity
  <2> QED
    BY <2>1, <2>4 DEF LineInv
<1> QED
  BY <1>9, <1>12, <1>14

\* The character in the RDR is read.
LEMMA ReadCounts ==
  ASSUME Inv, SetupInv, CountInv, HistoryInv, LineInv, Read
  PROVE  CountInv' /\ HistoryInv' /\ LineInv' /\ SetupInv'
<1>1. /\ ReadRdr /\ got' = Append(got, rx.data) /\ UNCHANGED <<stage, sent, lost>>
      /\ "RDRF" \in sr
  BY DEF Read
<1>2. rx.full = TRUE
  <2>1. rx.full \in BOOLEAN
    BY DEF Inv, TypeOK, Receiver
  <2> QED
    BY <1>1, <2>1 DEF Inv, StatusInv, FlagsFollowRdr
<1>3. /\ tx' = tx /\ ctl' = ctl /\ txBreak' = txBreak
      /\ rx' = [rx EXCEPT !.full = FALSE, !.overrunPending = FALSE, !.overrun = rx.overrunPending]
  BY <1>1 DEF ReadRdr
<1>4. /\ rx'.full = FALSE /\ rx'.state = rx.state /\ rx'.shift = rx.shift
      /\ rx'.count = rx.count /\ rx'.clocks = rx.clocks /\ rx'.parity = rx.parity
      /\ rx'.parityError = rx.parityError
  BY <1>3, LoopTypes DEF Receiver
<1>5. rx.data \in Word /\ got \in Seq(Word)
  BY LoopTypes DEF Receiver, CountInv
<1>6. got' \in Seq(Word) /\ Len(got') = Len(got) + 1
  BY <1>1, <1>5
<1>7. Arrived' = Arrived
  BY <1>1, <1>2, <1>4, <1>6, LoopTypes DEF Arrived
<1>8. Current' = Current /\ Delivered' = Delivered /\ Received' = Received /\ (OnLine' <=> OnLine)
  BY <1>1, <1>2, <1>3, <1>4, <1>7 DEF Current, Delivered, Received, OnLine
<1>9. HistoryInv'
  BY <1>1, <1>8 DEF HistoryInv
<1>10. CountInv'
  BY <1>1, <1>3, <1>6, <1>7, <1>8 DEF CountInv, Count
<1>11. LineInv'
  <2>1. SendInv' <=> SendInv
    BY <1>3, <1>8 DEF SendInv, HasParity, Complement
  <2>2. Heard' = Heard /\ Cell' = Cell /\ Confirm' = Confirm /\ StopCell' = StopCell
    BY <1>1, <1>3 DEF Heard, Cell, Confirm, StopCell, HasParity
  <2>3. Sampled' = Sampled /\ (Clocked' <=> Clocked) /\ (ParityAgrees' <=> ParityAgrees)
    BY <1>3, <1>4, <2>2 DEF Sampled, Clocked, ParityAgrees, HasParity, Complement
  <2>4. ReceiveInv' <=> ReceiveInv
    BY <1>3, <1>4, <1>8, <2>2, <2>3 DEF ReceiveInv, HasParity
  <2> QED
    BY <1>1, <2>1, <2>4 DEF LineInv, Running
<1>12. "FE" \notin sr' /\ "PE" \notin sr'
  BY <1>1 DEF SetupInv, ReadRdr, AfterRead, ClearInterrupt
<1>13. Running
  BY <1>2 DEF SetupInv
<1>14. SetupInv'
  BY <1>1, <1>3, <1>12, <1>13 DEF SetupInv, Running
<1> QED
  BY <1>9, <1>10, <1>11, <1>14

\* A character that is completed reaches an empty RDR.
LEMMA DeliveryCounts ==
  ASSUME Inv, CountInv, HistoryInv, OnLine, ~OnLine', tx' = tx,
         UNCHANGED <<sent, got, lost, ctl>>,
         ~rx.full, rx'.full, rx'.data = Current
  PROVE  CountInv' /\ HistoryInv'
<1>1. Arrived' = Arrived + 1
  BY LoopTypes DEF Arrived
<1>2. Arrived + 1 \in 1..Len(sent) /\ Current \in Word
  BY OnLineFacts
<1>3. lost \subseteq 1..Arrived /\ got \in Seq(Word)
  BY DEF CountInv
<1>4. Delivered' = Delivered \cup {Arrived + 1} /\ Arrived + 1 \notin Delivered
  BY <1>1, <1>3, LoopTypes DEF Delivered
<1>5. Delivered \subseteq 1..Arrived /\ IsFiniteSet(Delivered)
  <2>1. Delivered \subseteq 1..Arrived
    BY DEF Delivered
  <2>2. IsFiniteSet(1..Arrived)
    BY LoopTypes, FS_Interval
  <2> QED
    BY <2>1, <2>2, FS_Subset
<1>6. Cardinality(Delivered') = Cardinality(Delivered) + 1
  BY <1>4, <1>5, FS_AddElement
<1>7. Received = got /\ Received' = Append(got, Current)
  BY DEF Received
<1>8. /\ Len(Received') = Len(got) + 1 /\ Received'[Len(got) + 1] = Current
      /\ \A n \in 1..Len(got) : Received'[n] = got[n]
  BY <1>2, <1>3, <1>7
<1>9. \A i \in Delivered : Rank(i, Delivered') = Rank(i, Delivered)
  <2> SUFFICES ASSUME NEW i \in Delivered PROVE Rank(i, Delivered') = Rank(i, Delivered)
    OBVIOUS
  <2>1. ~(Arrived + 1 <= i)
    BY <1>5, LoopTypes
  <2>2. {j \in Delivered' : j <= i} = {j \in Delivered : j <= i}
    BY <1>4, <2>1
  <2> QED
    BY <2>2 DEF Rank
<1>10. Rank(Arrived + 1, Delivered') = Len(got) + 1
  <2>1. \A j \in 1..Arrived : j <= Arrived + 1
    BY LoopTypes
  <2>2. \A j \in Delivered' : j <= Arrived + 1
    BY <1>4, <1>5, <2>1, LoopTypes
  <2>3. {j \in Delivered' : j <= Arrived + 1} = Delivered'
    BY <2>2
  <2> QED
    BY <1>6, <1>7, <2>3 DEF Rank, HistoryInv
<1>11. HistoryInv'
  <2>1. Cardinality(Delivered') = Len(Received')
    BY <1>6, <1>7, <1>8 DEF HistoryInv
  <2>2. ASSUME NEW n \in 1..Len(Received')
        PROVE  \E i \in Delivered' : Rank(i, Delivered') = n /\ Received'[n] = sent'[i]
    <3>1. CASE n = Len(got) + 1
      <4>1. Received'[n] = sent'[Arrived + 1]
        BY <1>8, <3>1 DEF Current
      <4> QED
        BY <1>4, <1>10, <3>1, <4>1
    <3>2. CASE n # Len(got) + 1
      <4>1. n \in 1..Len(Received)
        BY <1>7, <1>8, <2>2, <3>2, LoopTypes
      <4>2. PICK i \in Delivered : Rank(i, Delivered) = n /\ Received[n] = sent[i]
        BY <4>1 DEF HistoryInv
      <4> QED
        BY <1>4, <1>7, <1>8, <1>9, <4>1, <4>2
    <3> QED
      BY <3>1, <3>2
  <2> QED
    BY <2>1, <2>2 DEF HistoryInv
<1>12. Len(sent') = Arrived' + Count(OnLine') + Count(tx'.full)
  BY <1>1, LoopTypes DEF CountInv, Count
<1>13. lost' \subseteq 1..Arrived'
  <2>1. 1..Arrived \subseteq 1..(Arrived + 1)
    BY LoopTypes
  <2> QED
    BY <1>1, <1>3, <2>1
<1> QED
  BY <1>11, <1>12, <1>13 DEF CountInv

\* A character that is completed while the RDR is full is lost.
LEMMA LossCounts ==
  ASSUME Inv, CountInv, HistoryInv, OnLine, ~OnLine', tx' = tx,
         UNCHANGED <<sent, got, ctl>>, lost' = lost \cup {Arrived + 1},
         rx.full, rx'.full, rx'.data = rx.data
  PROVE  CountInv' /\ HistoryInv'
<1>1. lost \subseteq 1..Arrived /\ IsFiniteSet(lost)
  BY DEF CountInv
<1>2. Arrived + 1 \notin lost
  BY <1>1, LoopTypes
<1>3. IsFiniteSet(lost') /\ Cardinality(lost') = Cardinality(lost) + 1
  BY <1>1, <1>2, FS_AddElement
<1>4. Arrived' = Arrived + 1
  BY <1>3, LoopTypes DEF Arrived
<1>5. Delivered' = Delivered
  BY <1>1, <1>4, LoopTypes DEF Delivered
<1>6. Received' = Received
  BY DEF Received
<1>7. HistoryInv'
  BY <1>5, <1>6 DEF HistoryInv
<1>8. Len(sent') = Arrived' + Count(OnLine') + Count(tx'.full)
  BY <1>4, LoopTypes DEF CountInv, Count
<1>9. lost' \subseteq 1..Arrived'
  <2>1. Arrived \in Nat
    BY LoopTypes
  <2>2. 1..Arrived \subseteq 1..(Arrived + 1) /\ Arrived + 1 \in 1..(Arrived + 1)
    BY <2>1
  <2> QED
    BY <1>1, <1>4, <2>2
<1> QED
  BY <1>3, <1>7, <1>8, <1>9 DEF CountInv

\* The character in the TDR goes to the shift register.
LEMMA LoadCounts ==
  ASSUME Inv, CountInv, HistoryInv, ~OnLine, OnLine', rx' = rx,
         UNCHANGED <<sent, got, lost, ctl>>, tx.full, ~tx'.full
  PROVE  /\ CountInv' /\ HistoryInv' /\ Current' = Current
         /\ \A i \in 1..ctl.word : Current[i] = tx.data[i]
<1>1. Arrived' = Arrived /\ Delivered' = Delivered /\ Received' = Received
  BY DEF Arrived, Delivered, Received
<1>2. HistoryInv'
  BY <1>1 DEF HistoryInv
<1>3. Len(sent) = Arrived + 1
  BY LoopTypes DEF CountInv, Count
<1>4. Len(sent') = Arrived' + Count(OnLine') + Count(tx'.full)
  BY <1>1, <1>3, LoopTypes DEF Count
<1>5. \A i \in 1..ctl.word : Current[i] = tx.data[i]
  BY <1>3 DEF CountInv, Current
<1>6. Current' = Current
  BY <1>1 DEF Current
<1> QED
  BY <1>1, <1>2, <1>4, <1>5, <1>6 DEF CountInv

\* The clocks of a cell on both sides of the step of the transmitter.
LEMMA HeardFacts ==
  ASSUME Inv, SetupInv, CountInv, Running
  PROVE  /\ tx.ticks \in 1..ctl.div
         /\ stage = "tx" => Heard = ctl.div - tx.ticks + 1 /\ Heard \in 1..ctl.div
         /\ stage = "rx" => Heard = ctl.div - tx.ticks /\ Heard \in 0..(ctl.div - 1)
<1>1. tx.ticks \in 1..ctl.div
  BY DEF SetupInv, Running
<1> QED
  BY <1>1, LoopTypes DEF Heard

\* At the end of a cell its sample has been taken.
LEMMA CellEnds ==
  ASSUME Inv, SetupInv, CountInv, stage = "tx", tx.ticks = 1
  PROVE  Heard = ctl.div /\ Sampled = Cell /\ Confirm - 1 < Heard /\ Heard # 0
<1>1. Heard = ctl.div
  BY HeardFacts, LoopTypes DEF Running
<1> QED
  BY <1>1, LoopTypes DEF Sampled

\* At the start of a cell it has not.
LEMMA CellBegins ==
  ASSUME Inv, CountInv, stage' = "rx", tx'.ticks = ctl.div, ctl' = ctl
  PROVE  /\ Heard' = 0 /\ Confirm' = Confirm /\ StopCell' = StopCell
         /\ Sampled' = Cell' - 1
<1>1. Heard' = 0
  BY LoopTypes DEF Heard
<1>2. Confirm' = Confirm /\ StopCell' = StopCell
  BY DEF Confirm, StopCell, HasParity
<1> QED
  BY <1>1, <1>2, LoopTypes DEF Sampled

\* A clock of the transmitter within a cell.
LEMMA TicksStep ==
  ASSUME Inv, LoopInv, stage = "tx", stage' = "rx", UNCHANGED <<sent, got, lost>>,
         TxClock, tx.ticks # 1
  PROVE  CountInv' /\ HistoryInv' /\ LineInv' /\ tx'.ticks \in 1..ctl.div
<1>1. tx' = [tx EXCEPT !.ticks = @ - 1] /\ UNCHANGED <<rx, ctl>>
  BY DEF TxClock
<1>2. /\ tx'.ticks = tx.ticks - 1 /\ tx'.full = tx.full /\ tx'.data = tx.data
      /\ tx'.state = tx.state /\ tx'.count = tx.count /\ tx'.out = tx.out
      /\ tx'.parity = tx.parity /\ tx'.shift = tx.shift
  BY <1>1, LoopTypes DEF Transmitter, LoopInv
<1>3. OnLine' <=> OnLine
  BY <1>1, <1>2 DEF OnLine
<1>4. CountInv' /\ HistoryInv' /\ Current' = Current
  BY <1>1, <1>2, <1>3, NothingMoves, LoopTypes DEF LoopInv
<1>5. Heard' = Heard /\ tx'.ticks \in 1..ctl.div
  <2>1. tx.ticks \in 1..ctl.div /\ Heard = ctl.div - tx.ticks + 1
    BY HeardFacts DEF LoopInv, Running
  <2>2. Heard' = ctl.div - (tx.ticks - 1)
    BY <1>1, <1>2 DEF Heard
  <2> QED
    BY <1>2, <2>1, <2>2, LoopTypes DEF LoopInv
<1>6. Cell' = Cell /\ Confirm' = Confirm /\ StopCell' = StopCell
  BY <1>1, <1>2 DEF Cell, Confirm, StopCell, HasParity
<1>7. SendInv' <=> SendInv
  BY <1>1, <1>2, <1>4 DEF SendInv, HasParity, Complement
<1>8. Sampled' = Sampled /\ (Clocked' <=> Clocked) /\ (ParityAgrees' <=> ParityAgrees)
  BY <1>1, <1>2, <1>5, <1>6 DEF Sampled, Clocked, ParityAgrees, HasParity, Complement
<1>9. ReceiveInv' <=> ReceiveInv
  BY <1>1, <1>2, <1>4, <1>5, <1>6, <1>8 DEF ReceiveInv, HasParity
<1>10. LineInv'
  BY <1>7, <1>9 DEF LoopInv, LineInv, Running
<1> QED
  BY <1>4, <1>5, <1>10

\* The transmitter takes the character of the TDR.
LEMMA LoadStep ==
  ASSUME Inv, LoopInv, stage = "tx", stage' = "rx", UNCHANGED <<sent, got, lost>>,
         TxClock, tx.ticks = 1, LoadShiftRegister
  PROVE  CountInv' /\ HistoryInv' /\ LineInv' /\ tx'.ticks \in 1..ctl.div
<1>1. /\ tx.state = "IDLE" /\ tx.full /\ UNCHANGED <<rx, ctl>>
      /\ tx' = [tx EXCEPT !.shift = tx.data, !.full = FALSE, !.count = 0, !.state = "START_BIT",
                      !.parity = IF ctl.parity = 1 THEN 1 ELSE 0, !.ticks = ctl.div]
  BY DEF TxClock, LoadShiftRegister
<1>2. /\ tx'.shift = tx.data /\ tx'.full = FALSE /\ tx'.count = 0 /\ tx'.state = "START_BIT"
      /\ tx'.parity = Complement(0) /\ tx'.ticks = ctl.div /\ tx'.out = tx.out
  BY <1>1, LoopTypes DEF Transmitter, Complement, LoopInv
<1>3. rx.state = "IDLE"
  <2>1. Cell = StopCell /\ Sampled = Cell /\ Confirm - 1 < Heard
    BY <1>1, CellEnds DEF LoopInv, Cell
  <2>2. StopCell \in Nat
    BY LoopTypes DEF LoopInv, StopCell
  <2>3. ReceiveInv /\ rx.state \in RxStates
    BY LoopTypes DEF LoopInv, LineInv, Running, Receiver
  <2> QED
    BY <1>1, <2>1, <2>2, <2>3, LoopTypes DEF ReceiveInv, RxStates
<1>4. ~OnLine /\ OnLine'
  BY <1>1, <1>2, <1>3 DEF OnLine
<1>5. /\ CountInv' /\ HistoryInv' /\ Current' = Current
      /\ \A i \in 1..ctl.word : Current[i] = tx.data[i]
  BY <1>1, <1>2, <1>4, LoadCounts DEF LoopInv
<1>6. tx.out = 1
  BY <1>1 DEF LoopInv, LineInv, Running, SendInv
<1>7. SendInv'
  BY <1>1, <1>2, <1>5, <1>6 DEF SendInv, Complement
<1>8. ReceiveInv'
  BY <1>1, <1>2, <1>3 DEF ReceiveInv
<1>9. tx'.ticks \in 1..ctl.div
  BY <1>2, LoopTypes DEF LoopInv
<1> QED
  BY <1>5, <1>7, <1>8, <1>9 DEF LineInv

\* The transmitter after one bit, state by state.
LEMMA ShiftedFields ==
  ASSUME Inv, tx' = ShiftedOut
  PROVE  /\ tx'.ticks = ctl.div /\ tx'.full = tx.full /\ tx'.data = tx.data
         /\ tx.state = "IDLE" => tx'.state = "IDLE" /\ tx'.out = tx.out
         /\ tx.state = "START_BIT" =>
              /\ tx'.state = "BITS" /\ tx'.out = 0
              /\ tx'.count = tx.count /\ tx'.parity = tx.parity /\ tx'.shift = tx.shift
         /\ tx.state = "BITS" =>
              /\ tx'.state = IF (tx.count + 1) % CountModulus = ctl.word THEN AfterBits ELSE "BITS"
              /\ tx'.out = tx.shift[1]
              /\ tx'.count = (tx.count + 1) % CountModulus
              /\ tx'.parity = IF HasParity THEN (tx.parity + tx.shift[1]) % 2 ELSE tx.parity
              /\ tx'.shift = ShiftRight(tx.shift)
         /\ tx.state = "PARITY" =>
              tx'.state = "STOP_BIT_1" /\ tx'.out = tx.parity /\ tx'.parity = tx.parity
         /\ tx.state = "STOP_BIT_1" =>
              /\ tx'.state = IF ctl.stop = 2 THEN "STOP_BIT_2" ELSE "IDLE"
              /\ tx'.out = 1 /\ tx'.parity = tx.parity
         /\ tx.state = "STOP_BIT_2" => tx'.state = "IDLE" /\ tx'.out = 1
<1>1. tx \in Transmitter /\ tx.state \in TxStates
  BY DEF Inv, TypeOK, Transmitter
<1> DEFINE next == [tx EXCEPT !.ticks = ctl.div]
<1>2. /\ DOMAIN next = {"full", "data", "shift", "count", "parity", "state", "ticks", "out"}
      /\ next.ticks = ctl.div /\ next.full = tx.full /\ next.data = tx.data
      /\ next.state = tx.state /\ next.count = tx.count /\ next.out = tx.out
      /\ next.parity = tx.parity /\ next.shift = tx.shift
  BY <1>1 DEF Transmitter
<1>3. CASE tx.state = "IDLE"
  BY <1>2, <1>3 DEF ShiftedOut
<1>4. CASE tx.state = "START_BIT"
  BY <1>2, <1>4 DEF ShiftedOut
<1>5. CASE tx.state = "BITS"
  BY <1>2, <1>5 DEF ShiftedOut, HasParity
<1>6. CASE tx.state = "PARITY"
  BY <1>2, <1>6 DEF ShiftedOut
<1>7. CASE tx.state = "STOP_BIT_1"
  BY <1>2, <1>7 DEF ShiftedOut
<1>8. CASE tx.state = "STOP_BIT_2"
  BY <1>2, <1>8 DEF ShiftedOut
<1> QED
  BY <1>1, <1>3, <1>4, <1>5, <1>6, <1>7, <1>8 DEF TxStates

\* Cells are numbered from the start bit.
LEMMA CellType == ASSUME Inv, CountInv PROVE Cell \in Nat /\ StopCell \in Nat
<1>1. tx.count \in Nat
  BY LoopTypes, AciaAssumption DEF AciaAssumption, Transmitter, Counts
<1>2. StopCell \in Nat /\ StopCell - 1 \in Nat
  BY LoopTypes DEF StopCell
<1> QED
  BY <1>1, <1>2, LoopTypes DEF Cell

\* The transmitter moves on by one cell, its parity by the bit it puts out.
LEMMA CellAdvances ==
  ASSUME Inv, LoopInv, stage = "tx", ctl' = ctl, tx' = ShiftedOut,
         tx.state \in {"BITS", "PARITY", "STOP_BIT_1"}, Current' = Current
  PROVE  /\ Cell' = Cell + 1 /\ SendInv'
         /\ Cell' <= ctl.word => tx'.state \in {"BITS", "PARITY", "STOP_BIT_1"}
         /\ HasParity /\ Cell' <= ctl.word => tx'.parity = (tx.parity + tx'.out) % 2
         /\ Cell' > ctl.word => tx'.parity = tx.parity
         /\ HasParity /\ Cell' = ctl.word + 1 => tx'.state = "STOP_BIT_1"
         /\ HasParity /\ Cell' = ctl.word => tx'.state = "PARITY"
         /\ Cell' = StopCell => tx'.state \in {"STOP_BIT_2", "IDLE"}
<1>1. SendInv /\ tx \in Transmitter
  BY LoopTypes DEF LoopInv, LineInv, Running
<1>2. StopCell = (IF HasParity THEN ctl.word + 2 ELSE ctl.word + 1) /\ StopCell' = StopCell
  BY DEF StopCell, HasParity
<1>3. /\ ctl.word \in 1..LongWord /\ LongWord \in Nat
      /\ CountModulus \in Nat /\ CountModulus > LongWord
  BY LoopTypes DEF LoopInv
<1>4. CASE tx.state = "BITS"
  <2>1. /\ tx.count \in 0..(ctl.word - 1)
        /\ \A i \in 1..(ctl.word - tx.count) : tx.shift[i] = Current[i + tx.count]
    BY <1>1, <1>4 DEF SendInv
  <2>2. (tx.count + 1) % CountModulus = tx.count + 1
    BY <1>3, <2>1
  <2>3. /\ tx'.state = IF tx.count + 1 = ctl.word THEN AfterBits ELSE "BITS"
        /\ tx'.out = tx.shift[1] /\ tx'.count = tx.count + 1
        /\ tx'.parity = IF HasParity THEN (tx.parity + tx'.out) % 2 ELSE tx.parity
        /\ tx'.shift = ShiftRight(tx.shift)
    BY <1>4, <2>2, ShiftedFields
  <2>4. tx'.out = Current[tx.count + 1]
    BY <1>3, <2>1, <2>3
  <2>5. Cell = tx.count
    BY <1>4 DEF Cell
  <2>6. CASE tx.count + 1 = ctl.word
    <3>1. tx'.state = IF HasParity THEN "PARITY" ELSE "STOP_BIT_1"
      BY <2>3, <2>6 DEF AfterBits, HasParity
    <3>2. Cell' = ctl.word
      BY <1>2, <1>3, <3>1 DEF Cell, HasParity
    <3>3. SendInv'
      BY <2>4, <2>6, <3>1 DEF SendInv, HasParity
    <3> QED
      BY <1>2, <1>3, <2>3, <2>5, <2>6, <3>1, <3>2, <3>3
  <2>7. CASE tx.count + 1 # ctl.word
    <3>1. tx'.state = "BITS" /\ tx'.count \in 0..(ctl.word - 1) /\ tx'.count # 0
      BY <1>3, <2>1, <2>3, <2>7
    <3>2. Cell' = tx.count + 1
      BY <2>3, <3>1 DEF Cell
    <3>3. \A i \in 1..(ctl.word - tx'.count) : tx'.shift[i] = Current[i + tx'.count]
      <4> SUFFICES ASSUME NEW i \in 1..(ctl.word - tx'.count)
                   PROVE  tx'.shift[i] = Current[i + tx'.count]
        OBVIOUS
      <4>1. i \in 1..LongWord /\ i < LongWord /\ i + 1 \in 1..(ctl.word - tx.count)
        BY <1>3, <2>1, <2>3
      <4>2. tx'.shift[i] = tx.shift[i + 1]
        BY <2>3, <4>1 DEF ShiftRight
      <4>3. (i + 1) + tx.count = i + tx'.count
        BY <2>1, <2>3, <4>1
      <4> QED
        BY <2>1, <4>1, <4>2, <4>3
    <3>4. SendInv'
      BY <2>3, <2>4, <3>1, <3>3 DEF SendInv
    <3> QED
      BY <1>2, <1>3, <2>1, <2>3, <2>5, <3>1, <3>2, <3>4
  <2> QED
    BY <2>6, <2>7
<1>5. CASE tx.state = "PARITY"
  <2>1. HasParity /\ Cell = ctl.word
    BY <1>1, <1>5 DEF SendInv, Cell
  <2>2. tx'.state = "STOP_BIT_1" /\ tx'.out = tx.parity /\ tx'.parity = tx.parity
    BY <1>5, ShiftedFields
  <2>3. Cell' = ctl.word + 1
    BY <1>2, <1>3, <2>1, <2>2 DEF Cell
  <2>4. SendInv'
    BY <2>1, <2>2 DEF SendInv, HasParity
  <2> QED
    BY <1>2, <1>3, <2>1, <2>2, <2>3, <2>4
<1>6. CASE tx.state = "STOP_BIT_1"
  <2>1. Cell = StopCell - 1
    BY <1>6 DEF Cell
  <2>2. /\ tx'.state \in {"STOP_BIT_2", "IDLE"}
        /\ tx'.out = 1 /\ tx'.parity = tx.parity
    BY <1>6, ShiftedFields
  <2>3. Cell' = StopCell
    BY <1>2, <2>2 DEF Cell
  <2>4. SendInv'
    BY <2>2 DEF SendInv
  <2> QED
    BY <1>2, <1>3, <2>1, <2>2, <2>3, <2>4
<1> QED
  BY <1>4, <1>5, <1>6

\* The transmitter puts out a bit, or stays idle.
LEMMA ShiftStep ==
  ASSUME Inv, LoopInv, stage = "tx", stage' = "rx", UNCHANGED <<sent, got, lost>>,
         TxClock, tx.ticks = 1, tx' = ShiftedOut, ~(tx.state = "IDLE" /\ tx.full)
  PROVE  CountInv' /\ HistoryInv' /\ LineInv' /\ tx'.ticks \in 1..ctl.div
<1>1. UNCHANGED <<rx, ctl>>
  BY DEF TxClock
<1>2. tx'.ticks = ctl.div /\ tx'.full = tx.full /\ tx'.data = tx.data
  BY ShiftedFields
<1>3. tx'.ticks \in 1..ctl.div
  BY <1>2, LoopTypes DEF LoopInv
<1>4. Heard = ctl.div /\ Sampled = Cell /\ Confirm - 1 < Heard /\ Heard # 0
  BY CellEnds DEF LoopInv
<1>5. Heard' = 0 /\ Confirm' = Confirm /\ StopCell' = StopCell /\ Sampled' = Cell' - 1
  BY <1>1, <1>2, CellBegins DEF LoopInv
<1>6. SendInv /\ ReceiveInv /\ rx.state \in RxStates
  BY LoopTypes DEF LoopInv, LineInv, Running, Receiver
<1>7. ASSUME OnLine' <=> OnLine
      PROVE  CountInv' /\ HistoryInv' /\ Current' = Current
  BY <1>1, <1>2, <1>7, NothingMoves, LoopTypes DEF LoopInv
<1>8. CASE rx.state = "IDLE"
  <2>1. tx.state \in {"IDLE", "START_BIT", "STOP_BIT_2"}
    BY <1>4, <1>6, <1>8 DEF ReceiveInv
  <2>2. CASE tx.state = "START_BIT"
    <3>1. /\ tx'.state = "BITS" /\ tx'.out = 0
          /\ tx'.count = tx.count /\ tx'.parity = tx.parity /\ tx'.shift = tx.shift
      BY <2>2, ShiftedFields
    <3>2. OnLine' <=> OnLine
      BY <2>2, <3>1 DEF OnLine
    <3>3. tx.count = 0 /\ tx.parity = Complement(0) /\ \A i \in 1..ctl.word : tx.shift[i] = Current[i]
      BY <1>6, <2>2 DEF SendInv
    <3>4. SendInv'
      BY <1>1, <1>7, <3>1, <3>2, <3>3, LoopTypes DEF SendInv, Complement, LoopInv
    <3>5. ReceiveInv'
      BY <1>1, <1>5, <1>8, <3>1, <3>3 DEF ReceiveInv
    <3> QED
      BY <1>3, <1>7, <3>2, <3>4, <3>5 DEF LineInv
  <2>3. CASE tx.state # "START_BIT"
    <3>1. tx'.state = "IDLE" /\ tx'.out = 1
      BY <1>6, <2>1, <2>3, ShiftedFields DEF SendInv
    <3>2. OnLine' <=> OnLine
      BY <1>1, <2>1, <2>3, <3>1 DEF OnLine
    <3>3. SendInv' /\ ReceiveInv'
      BY <1>1, <1>8, <3>1 DEF SendInv, ReceiveInv
    <3> QED
      BY <1>3, <1>7, <3>2, <3>3 DEF LineInv
  <2> QED
    BY <2>2, <2>3
<1>9. CASE rx.state = "START"
  BY <1>4, <1>6, <1>9, LoopTypes DEF ReceiveInv, LoopInv
<1>10. CASE rx.state \in {"DATA", "PARITY", "STOP"}
  <2>1. CountInv' /\ HistoryInv' /\ Current' = Current
    BY <1>1, <1>7, <1>10 DEF OnLine
  <2>2. tx.state \in {"BITS", "PARITY", "STOP_BIT_1"}
    <3>1. tx.state \in {"STOP_BIT_2", "IDLE"} => Cell = StopCell /\ StopCell \in Nat
      BY LoopTypes DEF Cell, StopCell, LoopInv
    <3> QED
      BY <1>4, <1>6, <1>10, <3>1 DEF ReceiveInv
  <2>3. /\ Cell' = Cell + 1 /\ SendInv'
        /\ Cell' <= ctl.word => tx'.state \in {"BITS", "PARITY", "STOP_BIT_1"}
        /\ HasParity /\ Cell' <= ctl.word => tx'.parity = (tx.parity + tx'.out) % 2
        /\ Cell' > ctl.word => tx'.parity = tx.parity
        /\ HasParity /\ Cell' = ctl.word + 1 => tx'.state = "STOP_BIT_1"
        /\ HasParity /\ Cell' = ctl.word => tx'.state = "PARITY"
        /\ Cell' = StopCell => tx'.state \in {"STOP_BIT_2", "IDLE"}
    BY <1>1, <2>1, <2>2, CellAdvances
  <2>4. Sampled' = Sampled
    BY <1>4, <1>5, <2>3, CellType DEF LoopInv
  <2>5. Clocked' <=> Clocked
    BY <1>1, <1>4, <1>5, LoopTypes DEF Clocked, LoopInv
  <2>6. Sampled' # Cell' /\ (HasParity' <=> HasParity)
    BY <1>1, <1>5, <2>3, CellType DEF HasParity, LoopInv
  <2>7. ASSUME HasParity, ParityAgrees PROVE ParityAgrees'
    <3>1. tx.parity = Complement(rx.parity)
      BY <1>4, <2>7 DEF ParityAgrees
    <3>2. rx.parity \in {0, 1} /\ tx'.out \in {0, 1}
      <4>1. tx' \in Transmitter
        BY InductiveStep DEF Inv, TypeOK, Next, SerialUla
      <4> QED
        BY <4>1, LoopTypes DEF LoopInv, Transmitter, Receiver
    <3>3. CASE Cell' > ctl.word
      <4>1. tx'.parity = Complement(rx.parity)
        BY <2>3, <3>1, <3>3
      <4> QED
        BY <1>1, <3>3, <4>1 DEF ParityAgrees, Complement
    <3>4. CASE ~(Cell' > ctl.word)
      <4>1. tx'.parity = (Complement(rx.parity) + tx'.out) % 2
        BY <2>3, <2>7, <3>1, <3>4, CellType, LoopTypes DEF LoopInv
      <4>2. tx'.parity = Complement((rx.parity + tx'.out) % 2)
        BY <3>2, <4>1 DEF Complement
      <4> QED
        BY <1>1, <2>6, <3>4, <4>2 DEF ParityAgrees, Complement
    <3> QED
      BY <3>3, <3>4
  <2>8. ASSUME rx.state = "DATA" PROVE ReceiveInv'
    <3>1. /\ Sampled \in 0..(ctl.word - 1) /\ rx.count = Sampled /\ ParityAgrees
          /\ Clocked /\ ~rx.parityError
          /\ \A i \in 1..LongWord : rx.shift[i] = IF i <= Sampled THEN Current[i] ELSE 0
      BY <1>6, <2>8 DEF ReceiveInv
    <3>2. Cell' <= ctl.word
      BY <1>4, <2>3, <3>1, LoopTypes DEF LoopInv
    <3>3. ParityAgrees'
      BY <2>6, <2>7, <3>1 DEF ParityAgrees
    <3> QED
      BY <1>1, <2>1, <2>3, <2>4, <2>5, <2>8, <3>1, <3>2, <3>3 DEF ReceiveInv
  <2>9. ASSUME rx.state = "PARITY" PROVE ReceiveInv'
    <3>1. /\ HasParity /\ Sampled = ctl.word /\ ParityAgrees
          /\ Clocked /\ ~rx.parityError /\ rx.shift = Current
      BY <1>6, <2>9 DEF ReceiveInv
    <3>2. tx'.state = "STOP_BIT_1"
      BY <1>4, <2>3, <3>1
    <3> QED
      BY <1>1, <2>1, <2>4, <2>5, <2>6, <2>7, <2>9, <3>1, <3>2 DEF ReceiveInv
  <2>10. ASSUME rx.state = "STOP" PROVE ReceiveInv'
    <3>1. Sampled = StopCell - 1 /\ Clocked /\ ~rx.parityError /\ rx.shift = Current
      BY <1>6, <2>10 DEF ReceiveInv
    <3>2. Cell' = StopCell
      BY <1>4, <2>3, <3>1, CellType DEF LoopInv
    <3> QED
      BY <1>1, <1>5, <2>1, <2>3, <2>4, <2>5, <2>10, <3>1, <3>2 DEF ReceiveInv
  <2> QED
    BY <1>3, <1>10, <2>1, <2>3, <2>8, <2>9, <2>10 DEF LineInv
<1> QED
  BY <1>6, <1>8, <1>9, <1>10 DEF RxStates

\* A clock of the receiver is one more clock of the cell on the line.
LEMMA ClockIsHeard ==
  ASSUME Inv, LoopInv, stage = "rx", stage' = "tx", UNCHANGED <<tx, ctl>>
  PROVE  /\ Heard \in 0..(ctl.div - 1) /\ Heard' = Heard + 1
         /\ Cell' = Cell /\ Confirm' = Confirm /\ StopCell' = StopCell
         /\ HasParity' <=> HasParity
         /\ Heard + 1 = Confirm => Sampled = Cell - 1 /\ Sampled' = Cell
         /\ Heard + 1 # Confirm => Sampled' = Sampled
<1>1. Heard \in 0..(ctl.div - 1) /\ Heard = ctl.div - tx.ticks /\ tx.ticks \in 1..ctl.div
  BY HeardFacts DEF LoopInv, Running
<1>2. Heard' = Heard + 1
  BY <1>1, LoopTypes DEF Heard, LoopInv
<1>3. Cell' = Cell /\ Confirm' = Confirm /\ StopCell' = StopCell /\ (HasParity' <=> HasParity)
  BY DEF Cell, Confirm, StopCell, HasParity
<1> QED
  BY <1>1, <1>2, <1>3, LoopTypes DEF Sampled, LoopInv

\* The receiver samples at the same clock of every cell.
LEMMA SampleTime ==
  ASSUME Inv, LoopInv, stage = "rx", rx.state \in {"DATA", "PARITY", "STOP"}
  PROVE  SampleNow <=> Heard + 1 = Confirm
<1>1. Heard \in 0..(ctl.div - 1)
  BY HeardFacts DEF LoopInv, Running
<1>2. Clocked
  BY DEF LoopInv, LineInv, Running, ReceiveInv
<1>3. CASE ctl.div = 1
  BY <1>1, <1>3 DEF SampleNow, Confirm
<1>4. CASE ctl.div # 1
  <2>1. rx.clocks = IF Heard >= Confirm THEN Heard - Confirm ELSE Heard - Confirm + ctl.div
    BY <1>2, <1>4, LoopTypes DEF Clocked, LoopInv
  <2> QED
    BY <1>1, <1>4, <2>1, LoopTypes DEF SampleNow, LoopInv
<1> QED
  BY <1>3, <1>4

\* What the transmitter holds does not change.
LEMMA SendStays ==
  ASSUME SendInv, UNCHANGED <<tx, ctl>>,
         tx.state \in {"START_BIT", "BITS", "PARITY", "STOP_BIT_1"} => Current' = Current
  PROVE  SendInv'
BY DEF SendInv, HasParity, Complement

\* The receiver waits for the start bit, and then for its middle.
LEMMA HuntStep ==
  ASSUME Inv, LoopInv, stage = "rx", stage' = "tx", UNCHANGED <<sent, got, lost, tx, ctl>>,
         rx.state \in {"IDLE", "START"}, rx' = HuntForStart(tx.out)
  PROVE  CountInv' /\ HistoryInv' /\ LineInv'
<1>1. /\ Heard \in 0..(ctl.div - 1) /\ Heard' = Heard + 1
      /\ Cell' = Cell /\ Confirm' = Confirm
      /\ Heard + 1 = Confirm => Sampled' = Cell
  BY ClockIsHeard
<1>2. SendInv /\ ReceiveInv
  BY DEF LoopInv, LineInv, Running
<1>3. rx \in Receiver /\ ctl.word \in 1..LongWord
  BY LoopTypes DEF LoopInv
<1>4. ASSUME rx'.full = rx.full, rx'.data = rx.data, OnLine' <=> OnLine
      PROVE  CountInv' /\ HistoryInv' /\ SendInv'
  <2>1. CountInv' /\ HistoryInv' /\ Current' = Current
    BY <1>3, <1>4, NothingMoves DEF LoopInv
  <2> QED
    BY <1>2, <2>1, SendStays
<1>5. CASE tx.out = 1
  <2>1. rx.state = "IDLE" /\ tx.state \in {"IDLE", "START_BIT", "STOP_BIT_2"}
    BY <1>2, <1>5 DEF ReceiveInv, SendInv
  <2>2. rx' = rx
    BY <1>5, <2>1 DEF HuntForStart
  <2>3. ReceiveInv'
    BY <2>1, <2>2 DEF ReceiveInv
  <2> QED
    BY <1>4, <2>2, <2>3 DEF LineInv, OnLine
<1>6. CASE tx.out # 1
  <2>1. /\ tx.state = "BITS" /\ tx.count = 0
        /\ rx.state = "IDLE" => Heard = 0
        /\ rx.state = "START" => Heard \in 1..(Confirm - 1) /\ rx.clocks = Heard
    BY <1>2, <1>6 DEF ReceiveInv, SendInv
  <2>2. Cell = 0 /\ tx.parity = Complement(0) /\ OnLine /\ OnLine'
    BY <1>2, <2>1 DEF Cell, SendInv, OnLine
  <2>3. ASSUME NEW n \in {0, 1}, rx' = BeginCharacter(n), Heard + 1 = Confirm,
               ctl.div > 1 => n = 0
        PROVE  CountInv' /\ HistoryInv' /\ LineInv'
    <3>1. /\ rx'.full = rx.full /\ rx'.data = rx.data /\ rx'.shift = Zero /\ rx'.count = 0
          /\ rx'.parity = 0 /\ rx'.parityError = FALSE /\ rx'.clocks = n /\ rx'.state = "DATA"
      BY <1>3, <2>3 DEF BeginCharacter, Receiver
    <3>2. Sampled' = 0 /\ Cell' = 0
      BY <1>1, <2>2, <2>3
    <3>3. Clocked'
      BY <1>1, <2>3, <3>1, LoopTypes DEF Clocked, LoopInv
    <3>4. ParityAgrees'
      BY <2>2, <3>1, <3>2 DEF ParityAgrees, Complement
    <3>5. \A i \in 1..LongWord : rx'.shift[i] = 0
      BY <3>1 DEF Zero
    <3>6. ReceiveInv'
      BY <1>3, <2>1, <3>1, <3>2, <3>3, <3>4, <3>5 DEF ReceiveInv
    <3> QED
      BY <1>4, <2>2, <3>1, <3>6 DEF LineInv
  <2>4. ASSUME NEW n \in Nat, rx' = [rx EXCEPT !.clocks = n, !.state = "START"],
               n = Heard + 1, Heard + 1 # Confirm
        PROVE  CountInv' /\ HistoryInv' /\ LineInv'
    <3>1. /\ rx'.full = rx.full /\ rx'.data = rx.data
          /\ rx'.clocks = n /\ rx'.state = "START"
      BY <1>3, <2>4 DEF Receiver
    <3>2. Heard' \in 1..(Confirm' - 1)
      <4>1. rx.state = "IDLE" => 2 <= Confirm
        BY <2>1, <2>4, LoopTypes DEF LoopInv
      <4> QED
        BY <1>1, <2>1, <2>4, <4>1, LoopTypes DEF LoopInv
    <3>3. ReceiveInv'
      BY <1>1, <2>1, <2>4, <3>1, <3>2 DEF ReceiveInv
    <3> QED
      BY <1>4, <2>2, <3>1, <3>3 DEF LineInv
  <2>5. CASE rx.state = "IDLE"
    <3>1. CASE ctl.div = 1
      BY <1>6, <2>1, <2>3, <2>5, <3>1 DEF HuntForStart, Confirm
    <3>2. CASE ctl.div # 1
      <4>1. rx' = [rx EXCEPT !.clocks = 1, !.state = "START"]
        BY <1>6, <2>5, <3>2 DEF HuntForStart
      <4>2. Heard + 1 = 1 /\ Confirm # 1
        BY <2>1, <2>5, <3>2, LoopTypes DEF LoopInv
      <4> QED
        BY <2>4, <4>1, <4>2
    <3> QED
      BY <3>1, <3>2
  <2>6. CASE rx.state = "START"
    <3>1. rx.clocks = Heard /\ Heard \in 1..(Confirm - 1) /\ ctl.div > 1
      BY <2>1, <2>6, LoopTypes DEF LoopInv, Confirm
    <3>2. Heard + 1 >= ctl.div \div 2 <=> Heard + 1 = Confirm
      BY <3>1, LoopTypes DEF LoopInv, Confirm
    <3>3. CASE Heard + 1 = Confirm
      <4>1. rx' = BeginCharacter(0)
        BY <1>6, <2>6, <3>1, <3>2, <3>3 DEF HuntForStart
      <4> QED
        BY <2>3, <3>3, <4>1
    <3>4. CASE Heard + 1 # Confirm
      <4>1. rx' = [rx EXCEPT !.clocks = @ + 1]
        BY <1>6, <2>6, <3>1, <3>2, <3>4 DEF HuntForStart
      <4>2. rx' = [rx EXCEPT !.clocks = Heard + 1, !.state = "START"]
        BY <1>3, <2>6, <3>1, <4>1 DEF Receiver
      <4>3. Heard + 1 \in Nat
        BY <3>1
      <4> QED
        BY <2>4, <3>4, <4>2, <4>3
    <3> QED
      BY <3>3, <3>4
  <2> QED
    BY <2>5, <2>6
<1> QED
  BY <1>5, <1>6

\* The receiver counts the clocks between two samples.
LEMMA WaitStep ==
  ASSUME Inv, LoopInv, stage = "rx", stage' = "tx", UNCHANGED <<sent, got, lost, tx, ctl>>,
         rx.state \in {"DATA", "PARITY", "STOP"}, ~SampleNow, rx' = [rx EXCEPT !.clocks = @ + 1]
  PROVE  CountInv' /\ HistoryInv' /\ LineInv'
<1>1. Heard + 1 # Confirm
  BY SampleTime
<1>2. /\ Heard \in 0..(ctl.div - 1) /\ Heard' = Heard + 1
      /\ Cell' = Cell /\ Confirm' = Confirm /\ StopCell' = StopCell
      /\ HasParity' <=> HasParity
      /\ Sampled' = Sampled
  BY <1>1, ClockIsHeard
<1>3. SendInv /\ ReceiveInv /\ rx \in Receiver /\ ctl.word \in 1..LongWord
  BY LoopTypes DEF LoopInv, LineInv, Running
<1>4. /\ rx'.full = rx.full /\ rx'.data = rx.data /\ rx'.state = rx.state
      /\ rx'.shift = rx.shift /\ rx'.count = rx.count /\ rx'.parity = rx.parity
      /\ rx'.parityError = rx.parityError /\ rx'.clocks = rx.clocks + 1
  BY <1>3 DEF Receiver
<1>5. OnLine' <=> OnLine
  BY <1>4 DEF OnLine
<1>6. CountInv' /\ HistoryInv' /\ Current' = Current
  BY <1>3, <1>4, <1>5, NothingMoves DEF LoopInv
<1>7. SendInv'
  BY <1>3, <1>6, SendStays
<1>8. Clocked'
  <2>1. ctl.div \in Nat /\ Confirm \in Nat /\ Heard \in Nat
    BY <1>2, LoopTypes DEF LoopInv
  <2>2. ctl.div > 1 => rx.clocks = IF Heard >= Confirm THEN Heard - Confirm
                                   ELSE Heard - Confirm + ctl.div
    BY <1>3 DEF ReceiveInv, Clocked
  <2>3. ctl'.div = ctl.div /\ rx'.clocks = rx.clocks + 1
    BY <1>4
  <2>4. ctl'.div > 1 => rx'.clocks = IF Heard' >= Confirm' THEN Heard' - Confirm'
                                     ELSE Heard' - Confirm' + ctl'.div
    <3> SUFFICES ASSUME ctl.div > 1
                 PROVE  rx'.clocks = IF Heard + 1 >= Confirm THEN Heard + 1 - Confirm
                                     ELSE Heard + 1 - Confirm + ctl.div
      BY <1>2, <2>1, <2>3
    <3>1. CASE Heard >= Confirm
      BY <2>1, <2>2, <2>3, <3>1
    <3>2. CASE ~(Heard >= Confirm)
      BY <1>1, <2>1, <2>2, <2>3, <3>2
    <3> QED
      BY <3>1, <3>2
  <2> QED
    BY <2>4 DEF Clocked
<1>9. ParityAgrees => ParityAgrees'
  BY <1>2, <1>4 DEF ParityAgrees, Complement
<1>10. ReceiveInv'
  BY <1>2, <1>3, <1>4, <1>6, <1>8, <1>9 DEF ReceiveInv
<1> QED
  BY <1>6, <1>7, <1>10 DEF LineInv

\* In every data cell the bit of that cell is on the line.
LEMMA LineBit ==
  ASSUME Inv, LoopInv, Running, tx.state \in {"BITS", "PARITY", "STOP_BIT_1"},
         Cell \in 1..ctl.word
  PROVE  /\ tx.out = Current[Cell]
         /\ Cell = ctl.word => tx.state = IF HasParity THEN "PARITY" ELSE "STOP_BIT_1"
<1>1. SendInv /\ ctl.word \in 1..LongWord /\ LongWord \in Nat
  BY LoopTypes DEF LoopInv, LineInv
<1>2. CASE tx.state = "BITS"
  BY <1>1, <1>2 DEF SendInv, Cell
<1>3. CASE tx.state = "PARITY"
  BY <1>1, <1>3 DEF SendInv, Cell
<1>4. CASE tx.state = "STOP_BIT_1"
  <2>1. Cell = IF HasParity THEN ctl.word + 1 ELSE ctl.word
    BY <1>1, <1>4 DEF Cell, StopCell
  <2>2. ~HasParity /\ Cell = ctl.word
    BY <1>1, <2>1
  <2> QED
    BY <1>1, <1>4, <2>2 DEF SendInv
<1> QED
  BY <1>2, <1>3, <1>4

\* Two words with the same bits are the same.
LEMMA WordsEqual ==
  ASSUME NEW v \in Word, NEW w \in Word, \A i \in 1..LongWord : v[i] = w[i]
  PROVE  v = w
<1>1. v = [i \in 1..LongWord |-> v[i]] /\ w = [i \in 1..LongWord |-> w[i]]
  BY Zenon DEF Word
<1> QED
  BY <1>1, Zenon

\* A data bit is sampled.
LEMMA DataStep ==
  ASSUME Inv, LoopInv, stage = "rx", stage' = "tx", UNCHANGED <<sent, got, lost, tx, ctl>>,
         rx.state = "DATA", SampleNow, ReceiveData(tx.out)
  PROVE  CountInv' /\ HistoryInv' /\ LineInv'
<1>1. SendInv /\ ReceiveInv /\ rx \in Receiver /\ tx \in Transmitter
  BY LoopTypes DEF LoopInv, LineInv, Running
<1>2. /\ ctl.word \in 1..LongWord /\ LongWord \in Nat /\ CountModulus \in Nat
      /\ CountModulus > LongWord /\ tx.out \in {0, 1} /\ rx.parity \in {0, 1}
  BY <1>1, LoopTypes DEF LoopInv, Transmitter, Receiver
<1>3. /\ tx.state \in {"BITS", "PARITY", "STOP_BIT_1"} /\ Cell <= ctl.word
      /\ Sampled \in 0..(ctl.word - 1) /\ rx.count = Sampled
      /\ ParityAgrees /\ ~rx.parityError
      /\ \A i \in 1..LongWord : rx.shift[i] = IF i <= Sampled THEN Current[i] ELSE 0
  BY <1>1 DEF ReceiveInv
<1>4. /\ Sampled = Cell - 1 /\ Sampled' = Cell /\ Cell' = Cell /\ StopCell' = StopCell
      /\ Heard' = Heard + 1 /\ Confirm' = Confirm /\ Heard + 1 = Confirm
      /\ HasParity' <=> HasParity
  BY ClockIsHeard, SampleTime
<1>5. Cell \in 1..ctl.word
  BY <1>2, <1>3, <1>4, CellType DEF LoopInv
<1>6. /\ tx.out = Current[Cell]
      /\ Cell = ctl.word => tx.state = IF HasParity THEN "PARITY" ELSE "STOP_BIT_1"
  BY <1>3, <1>5, LineBit DEF Running
<1>7. /\ rx.count = Cell - 1 /\ rx.count < LongWord /\ rx.count + 1 = Cell
      /\ (rx.count + 1) % CountModulus = Cell
  BY <1>2, <1>3, <1>4, <1>5
<1> DEFINE word == [rx.shift EXCEPT ![Cell] = IF tx.out = 1 THEN 1 ELSE @]
<1>8. rx' = [rx EXCEPT !.shift = word, !.count = Cell,
                       !.parity = IF ctl.parity # 0 THEN (@ + tx.out) % 2 ELSE @,
                       !.clocks = IF ctl.div = 1 /\ Cell # ctl.word THEN @ ELSE 0,
                       !.state = IF Cell # ctl.word THEN "DATA"
                                 ELSE IF ctl.parity # 0 THEN "PARITY" ELSE "STOP"]
  BY <1>7, Zenon DEF ReceiveData, ShiftIn
<1>9. /\ rx'.full = rx.full /\ rx'.data = rx.data /\ rx'.parityError = rx.parityError
      /\ rx'.shift = word /\ rx'.count = Cell
      /\ rx'.parity = IF HasParity THEN (rx.parity + tx.out) % 2 ELSE rx.parity
      /\ ctl.div > 1 => rx'.clocks = 0
      /\ rx'.state = IF Cell # ctl.word THEN "DATA" ELSE IF HasParity THEN "PARITY" ELSE "STOP"
  BY <1>1, <1>8 DEF Receiver, HasParity
<1>10. OnLine /\ OnLine'
  BY <1>9 DEF OnLine
<1>11. CountInv' /\ HistoryInv' /\ Current' = Current
  BY <1>2, <1>9, <1>10, NothingMoves DEF LoopInv
<1>12. SendInv'
  BY <1>1, <1>11, SendStays
<1>13. Clocked' /\ ParityAgrees'
  <2>1. Heard' \in Nat /\ Confirm' \in Nat /\ ctl.div \in Nat /\ Heard' = Confirm'
    BY <1>4, LoopTypes DEF LoopInv
  <2>2. Clocked'
    BY <1>9, <2>1 DEF Clocked
  <2>3. ~(Sampled = Cell \/ Cell > ctl.word)
    BY <1>2, <1>4, <1>5
  <2>4. HasParity => tx.parity = Complement((rx.parity + tx.out) % 2)
    BY <1>3, <2>3 DEF ParityAgrees
  <2> QED
    BY <1>4, <1>9, <2>2, <2>4 DEF ParityAgrees, Complement
<1>14. rx.shift \in [1..LongWord -> {0, 1}] /\ Cell \in 1..LongWord
  BY <1>1, <1>2, <1>5 DEF Receiver, Word
<1>15. \A i \in 1..LongWord : rx'.shift[i] = IF i <= Cell THEN Current[i] ELSE 0
  <2> SUFFICES ASSUME NEW i \in 1..LongWord
               PROVE  rx'.shift[i] = IF i <= Cell THEN Current[i] ELSE 0
    OBVIOUS
  <2>1. rx'.shift[i] = IF i = Cell THEN (IF tx.out = 1 THEN 1 ELSE rx.shift[i]) ELSE rx.shift[i]
    BY <1>9, <1>14
  <2>2. rx.shift[i] = IF i <= Cell - 1 THEN Current[i] ELSE 0
    BY <1>3, <1>4
  <2>3. CASE i = Cell
    BY <1>2, <1>5, <1>6, <2>1, <2>2, <2>3
  <2>4. CASE i # Cell
    BY <1>2, <1>5, <2>1, <2>2, <2>4
  <2> QED
    BY <2>3, <2>4
<1>16. CASE Cell # ctl.word
  <2>1. Cell \in 0..(ctl.word - 1)
    BY <1>2, <1>5, <1>16
  <2>2. rx'.state = "DATA"
    BY <1>9, <1>16
  <2>3. ReceiveInv'
    BY <1>3, <1>4, <1>9, <1>11, <1>13, <1>15, <2>1, <2>2 DEF ReceiveInv
  <2> QED
    BY <1>11, <1>12, <2>3 DEF LineInv
<1>17. CASE Cell = ctl.word
  <2>1. rx'.shift = Current
    <3>1. Current \in Word /\ \A i \in 1..LongWord : i > ctl.word => Current[i] = 0
      BY <1>10, OnLineFacts DEF LoopInv
    <3>2. \A i \in 1..LongWord : i <= ctl.word \/ i > ctl.word
      BY <1>2
    <3>3. \A i \in 1..LongWord : rx'.shift[i] = Current[i]
      BY <1>15, <1>17, <3>1, <3>2
    <3>4. rx'.shift \in Word
      BY <1>9, <1>14 DEF Word
    <3> QED
      BY <3>1, <3>3, <3>4, WordsEqual
  <2>2. ~HasParity => Cell = StopCell - 1
    BY <1>2, <1>17 DEF StopCell
  <2>3. ReceiveInv'
    BY <1>3, <1>4, <1>6, <1>9, <1>11, <1>13, <1>17, <2>1, <2>2 DEF ReceiveInv
  <2> QED
    BY <1>11, <1>12, <2>3 DEF LineInv
<1> QED
  BY <1>16, <1>17

\* The parity bit is sampled, and is the one expected.
LEMMA ParityStep ==
  ASSUME Inv, LoopInv, stage = "rx", stage' = "tx", UNCHANGED <<sent, got, lost, tx, ctl>>,
         rx.state = "PARITY", SampleNow, ReceiveParity(tx.out)
  PROVE  CountInv' /\ HistoryInv' /\ LineInv'
<1>1. SendInv /\ ReceiveInv /\ rx \in Receiver /\ ctl.word \in 1..LongWord /\ ctl.div \in Nat
  BY LoopTypes DEF LoopInv, LineInv, Running
<1>2. /\ tx.state \in {"PARITY", "STOP_BIT_1"} /\ HasParity /\ Sampled = ctl.word
      /\ ParityAgrees /\ rx.shift = Current
  BY <1>1 DEF ReceiveInv
<1>3. /\ Sampled = Cell - 1 /\ Sampled' = Cell /\ Cell' = Cell /\ StopCell' = StopCell
      /\ Heard' = Heard + 1 /\ Confirm' = Confirm /\ Heard + 1 = Confirm
  BY ClockIsHeard, SampleTime
<1>4. Cell = ctl.word + 1 /\ StopCell = ctl.word + 2
  BY <1>1, <1>2, <1>3, CellType DEF LoopInv, StopCell
<1>5. tx.state = "STOP_BIT_1"
  BY <1>1, <1>2, <1>4 DEF Cell
<1>6. tx.out = Complement(rx.parity)
  <2>1. tx.out = tx.parity
    BY <1>1, <1>2, <1>5 DEF SendInv
  <2>2. Cell > ctl.word
    BY <1>1, <1>4
  <2> QED
    BY <1>2, <2>1, <2>2 DEF ParityAgrees
<1>7. rx' = [rx EXCEPT !.parityError = FALSE, !.clocks = 0, !.state = "STOP"]
  BY <1>6 DEF ReceiveParity, Complement
<1>8. /\ rx'.full = rx.full /\ rx'.data = rx.data /\ rx'.shift = rx.shift
      /\ rx'.parityError = FALSE /\ rx'.clocks = 0 /\ rx'.state = "STOP"
  BY <1>1, <1>7 DEF Receiver
<1>9. OnLine /\ OnLine'
  BY <1>2, <1>8 DEF OnLine
<1>10. CountInv' /\ HistoryInv' /\ Current' = Current
  BY <1>1, <1>8, <1>9, NothingMoves DEF LoopInv
<1>11. SendInv'
  BY <1>1, <1>10, SendStays
<1>12. Clocked'
  BY <1>3, <1>8, LoopTypes DEF Clocked, LoopInv
<1>13. Sampled' = StopCell' - 1
  BY <1>1, <1>3, <1>4
<1>14. ReceiveInv'
  BY <1>2, <1>5, <1>8, <1>10, <1>12, <1>13 DEF ReceiveInv
<1> QED
  BY <1>10, <1>11, <1>14 DEF LineInv

\* The stop bit is sampled: the character is complete.
LEMMA StopStep ==
  ASSUME Inv, LoopInv, stage = "rx", stage' = "tx", UNCHANGED <<sent, got, tx, ctl>>,
         rx.state = "STOP", SampleNow, ReceiveStop(tx.out),
         lost' = IF rx.state = "STOP" /\ rx'.state = "IDLE" /\ rx.full
                 THEN lost \cup {Arrived + 1} ELSE lost
  PROVE  CountInv' /\ HistoryInv' /\ LineInv' /\ "FE" \notin sr' /\ "PE" \notin sr'
<1>1. SendInv /\ ReceiveInv /\ rx \in Receiver
  BY LoopTypes DEF LoopInv, LineInv, Running
<1>2. /\ tx.state \in {"STOP_BIT_1", "STOP_BIT_2", "IDLE"} /\ Sampled = StopCell - 1
      /\ ~rx.parityError /\ rx.shift = Current
  BY <1>1 DEF ReceiveInv
<1>3. Sampled = Cell - 1
  BY ClockIsHeard, SampleTime
<1>4. tx.state \in {"STOP_BIT_2", "IDLE"} /\ tx.out = 1
  <2>1. Cell = StopCell
    BY <1>2, <1>3, CellType DEF LoopInv
  <2>2. tx.state \in {"STOP_BIT_2", "IDLE"}
    BY <1>2, <2>1, CellType DEF LoopInv, Cell
  <2> QED
    BY <1>1, <2>2 DEF SendInv
<1>5. rx'.state = "IDLE"
  BY <1>1 DEF ReceiveStop, Receiver
<1>6. OnLine /\ ~OnLine'
  BY <1>4, <1>5 DEF OnLine
<1>7. SendInv'
  BY <1>1, <1>4, SendStays
<1>8. ReceiveInv'
  BY <1>4, <1>5 DEF ReceiveInv
<1>9. CASE rx.full
  <2>1. /\ rx'.full /\ rx'.data = rx.data /\ lost' = lost \cup {Arrived + 1} /\ sr' = sr
    BY <1>1, <1>5, <1>9 DEF ReceiveStop, Receiver, KeepInterrupt
  <2>2. CountInv' /\ HistoryInv'
    BY <1>6, <1>9, <2>1, LossCounts DEF LoopInv
  <2> QED
    BY <1>7, <1>8, <2>1, <2>2 DEF LineInv, LoopInv, SetupInv
<1>10. CASE ~rx.full
  <2>1. rx'.full /\ rx'.data = Current /\ lost' = lost
    BY <1>1, <1>2, <1>10 DEF ReceiveStop, Receiver
  <2>2. CountInv' /\ HistoryInv'
    BY <1>6, <1>10, <2>1, DeliveryCounts DEF LoopInv
  <2>3. "FE" \notin sr' /\ "PE" \notin sr'
    <3>1. "FE" \notin sr /\ "PE" \notin sr
      BY DEF LoopInv, SetupInv
    <3>2. \A s : RaiseInterrupt(s) \/ KeepInterrupt(s) => sr' \subseteq s \cup {"IRQ"}
      BY DEF RaiseInterrupt, KeepInterrupt
    <3> QED
      BY <1>2, <1>4, <1>10, <3>1, <3>2 DEF ReceiveStop
  <2> QED
    BY <1>7, <1>8, <2>2, <2>3 DEF LineInv
<1> QED
  BY <1>9, <1>10

\* The looped chip at power on.
LEMMA LoopStarts == LInit => LoopInv
<1> SUFFICES ASSUME LInit PROVE LoopInv
  OBVIOUS
<1>1. /\ stage = "reset" /\ sent = <<>> /\ got = <<>> /\ lost = {} /\ ~txBreak /\ sr = {"CTS"}
      /\ tx = UnusedTransmitter /\ rx = UnusedReceiver
  BY DEF LInit, Init
<1>2. /\ tx.state = "IDLE" /\ tx.full = FALSE /\ tx.out = 1
      /\ rx.state = "IDLE" /\ rx.full = FALSE
  BY <1>1 DEF UnusedTransmitter, UnusedReceiver
<1>3. Arrived = 0 /\ IsFiniteSet(lost)
  BY <1>1, <1>2, FS_EmptySet DEF Arrived
<1>4. Delivered = {} /\ Received = <<>>
  BY <1>1, <1>2, <1>3 DEF Delivered, Received
<1>5. SetupInv /\ LineInv
  BY <1>1, <1>2 DEF SetupInv, LineInv, Running
<1>6. CountInv
  BY <1>1, <1>2, <1>3 DEF CountInv, Count, OnLine
<1>7. HistoryInv
  BY <1>4, FS_EmptySet DEF HistoryInv
<1> QED
  BY <1>5, <1>6, <1>7 DEF LoopInv

\* Setting the chip up leaves both halves idle.
LEMMA SetupStep == ASSUME Inv, LoopInv, Setup PROVE LoopInv'
<1>1. UNCHANGED <<sent, got, lost>> /\ ~Running
  BY DEF Setup, Running
<1>2. /\ tx.state = "IDLE" /\ tx.full = FALSE /\ tx.out = 1
      /\ rx.state = "IDLE" /\ rx.full = FALSE
      /\ ~txBreak /\ "FE" \notin sr /\ "PE" \notin sr
      /\ tx \in Transmitter /\ rx \in Receiver
  BY <1>1, LoopTypes DEF LoopInv, SetupInv, Transmitter, Receiver
<1>3. sent = <<>>
  BY <1>1 DEF LoopInv, SetupInv
<1> DEFINE Idle == /\ tx'.state = "IDLE" /\ tx'.full = FALSE /\ tx'.out = 1
                   /\ rx'.state = "IDLE" /\ rx'.full = FALSE
<1>4. ASSUME Idle, ~txBreak', "FE" \notin sr', "PE" \notin sr', ctl'.word \in Nat,
             stage' \in {"control", "cts", "carrier", "tx"},
             stage' # "control" => tx'.ticks \in 1..ctl'.div
      PROVE  LoopInv'
  <2>1. CountInv' /\ HistoryInv'
    BY <1>1, <1>2, <1>3, <1>4, NothingMoves DEF LoopInv, OnLine
  <2>2. SetupInv' /\ LineInv'
    BY <1>1, <1>3, <1>4 DEF SetupInv, LineInv, Running, SendInv, ReceiveInv
  <2> QED
    BY <2>1, <2>2 DEF LoopInv
<1>5. CASE stage = "reset" /\ MasterReset /\ stage' = "control"
  <2>1. Idle /\ ctl' = ctl /\ txBreak' = txBreak /\ sr' \subseteq (sr \ {"FE", "PE"}) \cup {"DCD"}
    BY <1>2, <1>5 DEF MasterReset, ClearInterrupt, Transmitter, Receiver
  <2> HIDE DEF Idle
  <2> QED
    BY <1>2, <1>4, <1>5, <2>1, LoopTypes DEF LoopInv
<1>6. CASE stage = "control" /\ (\E c \in ControlWords : WriteControl(c)) /\ stage' = "cts"
  <2>1. PICK c \in ControlWords : WriteControl(c)
    BY <1>6
  <2>2. c.tx # 3
    BY LoopbackAssumption DEF LoopbackAssumption
  <2>3. /\ ctl' = Protocol(c) /\ txBreak' = FALSE /\ rx' = rx
        /\ tx' = [tx EXCEPT !.ticks = c.div, !.out = @]
        /\ sr' \subseteq sr \cup {"IRQ"}
    BY <2>1, <2>2 DEF WriteControl, RaiseInterrupt, KeepInterrupt
  <2>4. Idle /\ tx'.ticks = c.div
    BY <1>2, <2>3 DEF Transmitter
  <2>5. /\ Protocol(c).div = c.div /\ Protocol(c).word \in {ShortWord, LongWord}
        /\ c.div \in Nat \ {0}
    BY ProtocolType DEF Protocol
  <2>6. ctl'.word \in Nat /\ ctl'.div = c.div
    BY <2>3, <2>5, AciaAssumption DEF AciaAssumption
  <2> HIDE DEF Idle
  <2> QED
    BY <1>2, <1>4, <1>6, <2>3, <2>4, <2>5, <2>6
<1>7. CASE stage = "cts" /\ ClearCts /\ stage' = "carrier"
  <2>1. UNCHANGED <<tx, rx, ctl, txBreak>> /\ sr' \subseteq sr \cup {"TDRE", "IRQ"}
    BY <1>7 DEF ClearCts, TdrWentEmpty, RaiseInterrupt, KeepInterrupt
  <2>2. tx.ticks \in 1..ctl.div
    BY <1>7 DEF LoopInv, SetupInv
  <2>3. Idle
    BY <1>2, <2>1
  <2> HIDE DEF Idle
  <2> QED
    BY <1>2, <1>4, <1>7, <2>1, <2>2, <2>3, LoopTypes DEF LoopInv
<1>8. CASE stage = "carrier" /\ ApplyCarrier /\ stage' = "tx"
  <2>1. UNCHANGED <<tx, rx, ctl, txBreak>> /\ sr' \subseteq sr \cup {"DCD"}
    BY <1>8 DEF ApplyCarrier, KeepInterrupt
  <2>2. tx.ticks \in 1..ctl.div
    BY <1>8 DEF LoopInv, SetupInv
  <2>3. Idle
    BY <1>2, <2>1
  <2> HIDE DEF Idle
  <2> QED
    BY <1>2, <1>4, <1>8, <2>1, <2>2, <2>3, LoopTypes DEF LoopInv
<1> QED
  BY <1>5, <1>6, <1>7, <1>8 DEF Setup

\* A write to the TDR.
LEMMA WriteStep == ASSUME Inv, LoopInv, Write PROVE LoopInv'
<1>1. Running /\ stage' = stage
  BY DEF Write, Running
<1>2. CountInv' /\ HistoryInv' /\ LineInv'
  BY <1>1, WriteCounts DEF LoopInv
<1>3. PICK ch \in Chars : WriteTdr(ch)
  BY DEF Write
<1>4. /\ UNCHANGED <<ctl, txBreak>> /\ sr' \subseteq sr
      /\ tx' = [tx EXCEPT !.data = ch, !.full = TRUE]
  BY <1>3 DEF WriteTdr
<1>5. tx'.ticks = tx.ticks
  BY <1>4, LoopTypes DEF Transmitter, LoopInv
<1>6. SetupInv'
  BY <1>1, <1>4, <1>5 DEF LoopInv, SetupInv, Running
<1> QED
  BY <1>2, <1>6 DEF LoopInv

\* A read of the RDR.
LEMMA ReadStep == ASSUME Inv, LoopInv, Read PROVE LoopInv'
BY ReadCounts DEF LoopInv

\* A clock of the transmitter.
LEMMA SendClock ==
  ASSUME Inv, LoopInv, stage = "tx", TxClock, stage' = "rx", UNCHANGED <<sent, got, lost>>
  PROVE  LoopInv'
<1>1. ~txBreak /\ "FE" \notin sr /\ "PE" \notin sr
  BY DEF LoopInv, SetupInv
<1>2. CountInv' /\ HistoryInv' /\ LineInv' /\ tx'.ticks \in 1..ctl.div
  <2>1. CASE tx.ticks # 1
    BY <2>1, TicksStep
  <2>2. CASE tx.ticks = 1 /\ LoadShiftRegister
    BY <2>2, LoadStep
  <2>3. CASE tx.ticks = 1 /\ ~LoadShiftRegister
    BY <1>1, <2>3, ShiftStep DEF TxClock
  <2> QED
    BY <2>1, <2>2, <2>3
<1>3. UNCHANGED <<ctl, txBreak>>
  BY DEF TxClock
<1>4. sr' \subseteq sr \cup {"TDRE", "IRQ"}
  BY DEF TxClock, LoadShiftRegister, TdrWentEmpty, RaiseInterrupt, KeepInterrupt
<1>5. SetupInv'
  BY <1>1, <1>2, <1>3, <1>4 DEF SetupInv, Running
<1> QED
  BY <1>2, <1>5 DEF LoopInv

\* A clock of the receiver.
LEMMA ReceiveClock ==
  ASSUME Inv, LoopInv, stage = "rx", RxClock(tx.out), stage' = "tx", UNCHANGED <<sent, got>>,
         lost' = IF rx.state = "STOP" /\ rx'.state = "IDLE" /\ rx.full
                 THEN lost \cup {Arrived + 1} ELSE lost
  PROVE  LoopInv'
<1>1. UNCHANGED <<tx, ctl, txBreak>> /\ rx.state \in RxStates
  BY LoopTypes DEF RxClock, LoopInv, Receiver
<1>2. "FE" \notin sr /\ "PE" \notin sr /\ ~txBreak /\ tx.ticks \in 1..ctl.div
  BY DEF LoopInv, SetupInv
<1>3. CountInv' /\ HistoryInv' /\ LineInv' /\ "FE" \notin sr' /\ "PE" \notin sr'
  <2>1. CASE rx.state \in {"IDLE", "START"}
    BY <1>1, <1>2, <2>1, HuntStep DEF RxClock, KeepInterrupt
  <2>2. CASE rx.state \in {"DATA", "PARITY", "STOP"} /\ ~SampleNow
    <3>1. rx' = [rx EXCEPT !.clocks = @ + 1] /\ sr' = sr
      BY <2>2 DEF RxClock, KeepInterrupt
    <3>2. rx'.state = rx.state
      BY <3>1, LoopTypes DEF LoopInv, Receiver
    <3>3. lost' = lost
      BY <2>2, <3>2
    <3> QED
      BY <1>1, <1>2, <2>2, <3>1, <3>3, WaitStep
  <2>3. CASE rx.state = "DATA" /\ SampleNow
    BY <1>1, <1>2, <2>3, DataStep DEF RxClock, KeepInterrupt
  <2>4. CASE rx.state = "PARITY" /\ SampleNow
    BY <1>1, <1>2, <2>4, ParityStep DEF RxClock, KeepInterrupt
  <2>5. CASE rx.state = "STOP" /\ SampleNow
    BY <1>1, <2>5, StopStep DEF RxClock
  <2> QED
    BY <1>1, <2>1, <2>2, <2>3, <2>4, <2>5 DEF RxStates
<1>4. SetupInv'
  BY <1>1, <1>2, <1>3 DEF SetupInv, Running
<1> QED
  BY <1>3, <1>4 DEF LoopInv

\* The inductive invariant of the looped chip.
LEMMA LoopInvariant == LSpec => [](Inv /\ LoopInv)
<1>1. Inv /\ LoopInv /\ [LNext]_lvars => LoopInv'
  <2> SUFFICES ASSUME Inv, LoopInv, [LNext]_lvars PROVE LoopInv'
    OBVIOUS
  <2>1. CASE Setup
    BY <2>1, SetupStep
  <2>2. CASE Write
    BY <2>2, WriteStep
  <2>3. CASE Read
    BY <2>3, ReadStep
  <2>4. CASE Clock
    BY <2>4, SendClock, ReceiveClock DEF Clock
  <2>5. CASE UNCHANGED lvars
    <3>1. UNCHANGED <<stage, sent, got, lost, ctl, txBreak, sr, tx, rx>>
      BY <2>5 DEF lvars, vars
    <3>2. /\ Arrived' = Arrived /\ (OnLine' <=> OnLine) /\ Delivered' = Delivered
          /\ Received' = Received /\ Current' = Current
      BY <3>1 DEF Arrived, OnLine, Delivered, Received, Current
    <3>3. CountInv' /\ HistoryInv' /\ SetupInv'
      BY <3>1, <3>2 DEF LoopInv, CountInv, HistoryInv, SetupInv, Running, Count
    <3>4. /\ Heard' = Heard /\ Cell' = Cell /\ Confirm' = Confirm /\ StopCell' = StopCell
      BY <3>1 DEF Heard, Cell, Confirm, StopCell, HasParity
    <3>5. /\ Sampled' = Sampled /\ (Clocked' <=> Clocked) /\ (ParityAgrees' <=> ParityAgrees)
      BY <3>1, <3>4 DEF Sampled, Clocked, ParityAgrees, HasParity, Complement
    <3>6. LineInv'
      BY <3>1, <3>2, <3>4, <3>5
      DEF LoopInv, LineInv, Running, SendInv, ReceiveInv, HasParity, Complement
    <3> QED
      BY <3>3, <3>6 DEF LoopInv
  <2> QED
    BY <2>1, <2>2, <2>3, <2>4, <2>5 DEF LNext
<1> QED
  BY <1>1, LoopIsAcia, Invariant, LoopStarts, PTL DEF LSpec

\* Whatever the CPU reads from a looped line is what it wrote, in order, with
\* every divisor and in every format: no bit is lost, doubled or taken from
\* the wrong cell, and no character goes astray but those an overrun drops.
THEOREM LoopedIsReceived == LSpec => []ReceivedIsSent
<1>1. Inv /\ LoopInv => ReceivedIsSent
  <2> SUFFICES ASSUME Inv, LoopInv PROVE ReceivedIsSent
    OBVIOUS
  <2>1. ASSUME NEW n \in 1..Len(got)
        PROVE  \E i \in Delivered : /\ Cardinality({j \in Delivered : j <= i}) = n
                                    /\ got[n] = sent[i]
    <3>1. got \in Seq(Word) /\ rx.data \in Word
      BY LoopTypes DEF LoopInv, CountInv, Receiver
    <3>2. n \in 1..Len(Received) /\ Received[n] = got[n]
      BY <3>1 DEF Received
    <3> QED
      BY <3>2 DEF LoopInv, HistoryInv, Rank
  <2>2. sr \cap {"FE", "PE"} = {}
    BY DEF LoopInv, SetupInv
  <2>3. tx.state = "IDLE" /\ ~tx.full /\ rx.state = "IDLE" => Arrived = Len(sent)
    BY LoopTypes DEF LoopInv, CountInv, Count, OnLine
  <2> QED
    BY <2>1, <2>2, <2>3 DEF ReceivedIsSent
<1> QED
  BY <1>1, LoopInvariant, PTL
=============================================================================
