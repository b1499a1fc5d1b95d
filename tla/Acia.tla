-------------------------------- MODULE Acia --------------------------------
(***************************************************************************)
(* The 6850 ACIA: its status register and interrupt, the transmitter, the  *)
(* receiver and the two modem inputs CTS* and DCD* (the carrier).          *)
(*                                                                         *)
(* The CPU reads and writes two registers; the serial ULA clocks the       *)
(* transmitter and the receiver, sets the receive line and drives the      *)
(* modem inputs.  A character is the function from bit numbers to bits,    *)
(* least significant first.  RTS, which nothing reads, and the value put   *)
(* on the bus are left out.  The shift counters are compared with the word *)
(* length for equality only, so a control write in the middle of a         *)
(* character can carry them past it: they then count on until they wrap.   *)
(***************************************************************************)
EXTENDS Naturals, FiniteSets

CONSTANTS
  ShortWord, LongWord,  \* the two word lengths (7 and 8)
  IntWidth,             \* the bits of an int (32)
  CountModulus,         \* where the 8-bit shift counters wrap (256)
  Divisors,             \* the clock divisors (1, 16 and 64)
  Chars,                \* the characters the CPU sends
  ControlWords          \* the values it writes to the control register

\* What write_ctl() reads from a control register value that is not a master
\* reset: the divisor, the word select bits (0 to 7), the transmit control
\* bits (0 to 3) and the receive interrupt enable.
Control == [div : Divisors, word : 0..7, tx : 0..3, rx : BOOLEAN]

ASSUME AciaAssumption ==
  /\ ShortWord \in Nat \ {0} /\ LongWord \in Nat /\ LongWord > ShortWord
  /\ IntWidth \in Nat /\ IntWidth > LongWord
  /\ CountModulus \in Nat /\ CountModulus > IntWidth
  /\ Divisors \subseteq Nat \ {0} /\ 1 \in Divisors
  /\ Chars \subseteq [1..LongWord -> {0, 1}]
  /\ ControlWords \subseteq Control

VARIABLES
  por,      \* needs_power_on_reset_
  ctl,      \* clk_divisor_, word_length_, stop_bits_, parity_
  txInt,    \* tx_int_enabled_
  rxInt,    \* rx_int_enabled_
  txBreak,  \* tx_break_
  sr,       \* status_register_: the flags that are set
  irq,      \* irq_asserted_
  cts,      \* cts_: the CTS* input, TRUE when inactive
  carrier,  \* carrier_present_
  latch,    \* sr2_high_wait_for_sr_read_ ("sr"), ..._data_read_ ("data")
  tx,       \* the transmitter
  rx        \* the receiver

vars == <<por, ctl, txInt, rxInt, txBreak, sr, irq, cts, carrier, latch, tx, rx>>

Flags    == {"IRQ", "PE", "OVRN", "FE", "CTS", "DCD", "TDRE", "RDRF"}
TxStates == {"IDLE", "START_BIT", "BITS", "PARITY", "STOP_BIT_1", "STOP_BIT_2"}
RxStates == {"IDLE", "START", "DATA", "PARITY", "STOP"}
Word     == [1..LongWord -> {0, 1}]
Zero     == [i \in 1..LongWord |-> 0]
Counts   == 0..(CountModulus - 1)

\* The serial format in force, and the fields of the two halves.
Format == [div : Divisors, word : {ShortWord, LongWord}, stop : 1..2, parity : 0..2]

Transmitter ==
  [full : BOOLEAN, data : Word, shift : Word, count : Counts,
   parity : {0, 1}, state : TxStates, ticks : Nat \ {0}, out : {0, 1}]

Receiver ==
  [full : BOOLEAN, data : Word, shift : Word, count : Counts,
   clocks : Nat, parity : {0, 1}, parityError : BOOLEAN, state : RxStates,
   overrunPending : BOOLEAN, overrun : BOOLEAN]

UnusedTransmitter ==
  [full |-> FALSE, data |-> Zero, shift |-> Zero, count |-> 0, parity |-> 0,
   state |-> "IDLE", ticks |-> 1, out |-> 1]

UnusedReceiver ==
  [full |-> FALSE, data |-> Zero, shift |-> Zero, count |-> 0, clocks |-> 0, parity |-> 0,
   parityError |-> FALSE, state |-> "IDLE", overrunPending |-> FALSE, overrun |-> FALSE]

Init ==
  /\ por = TRUE
  /\ ctl = [div |-> 1, word |-> ShortWord, stop |-> 2, parity |-> 2]
  /\ txInt = FALSE /\ rxInt = FALSE /\ txBreak = FALSE
  /\ sr = {"CTS"}
  /\ irq = FALSE
  /\ cts = TRUE
  /\ carrier = FALSE
  /\ latch = "none"
  /\ tx = UnusedTransmitter
  /\ rx = UnusedReceiver

\* raise_interrupt() after the status flags have become s.
RaiseInterrupt(s) ==
  /\ irq' = TRUE
  /\ sr' = IF irq THEN s ELSE s \cup {"IRQ"}

\* clear_interrupt() likewise.
ClearInterrupt(s) ==
  /\ irq' = FALSE
  /\ sr' = IF irq THEN s \ {"IRQ"} ELSE s

KeepInterrupt(s) == irq' = irq /\ sr' = s

-----------------------------------------------------------------------------
(***************************************************************************)
(* Registers.                                                              *)
(***************************************************************************)

\* Variant of MasterReset: the interrupt output is released and bit 7 of the
\* status register is forgotten.
MasterResetKeepIrqBit ==
  /\ irq' = FALSE
  /\ sr' = (sr \ {"FE", "OVRN", "PE", "RDRF", "DCD"})
           \cup (IF carrier THEN {"DCD"} ELSE {})
  /\ por' = FALSE
  /\ tx' = [tx EXCEPT !.data = Zero, !.full = FALSE, !.shift = Zero, !.state = "IDLE"]
  /\ rx' = [rx EXCEPT !.full = FALSE, !.data = Zero, !.shift = Zero, !.parity = 0,
                      !.count = 0, !.overrunPending = FALSE, !.overrun = FALSE,
                      !.state = "IDLE"]
  /\ latch' = "none"
  /\ UNCHANGED <<ctl, txInt, rxInt, txBreak, cts, carrier>>

\* perform_master_reset().  TDRE is left alone.
MasterReset ==
  /\ ClearInterrupt((sr \ {"FE", "OVRN", "PE", "RDRF", "DCD"})
                    \cup (IF carrier THEN {"DCD"} ELSE {}))
  /\ por' = FALSE
  /\ tx' = [tx EXCEPT !.data = Zero, !.full = FALSE, !.shift = Zero, !.state = "IDLE"]
  /\ rx' = [rx EXCEPT !.full = FALSE, !.data = Zero, !.shift = Zero, !.parity = 0,
                      !.count = 0, !.overrunPending = FALSE, !.overrun = FALSE,
                      !.state = "IDLE"]
  /\ latch' = "none"
  /\ UNCHANGED <<ctl, txInt, rxInt, txBreak, cts, carrier>>

\* configure_serial_protocol()
Protocol(c) ==
  [div    |-> c.div,
   word   |-> IF c.word >= 4 THEN LongWord ELSE ShortWord,
   stop   |-> IF c.word \in {2, 3, 5, 6, 7} THEN 1 ELSE 2,
   parity |-> IF c.word \in {4, 5} THEN 0 ELSE IF c.word % 2 = 1 THEN 1 ELSE 2]

\* write_ctl(): ignored until the first master reset.
WriteControl(c) ==
  /\ ~por
  /\ ctl' = Protocol(c)
  /\ txInt' = (c.tx = 1)
  /\ txBreak' = (c.tx = 3)
  /\ tx' = [tx EXCEPT !.ticks = c.div, !.out = IF c.tx = 3 THEN 0 ELSE @]
  /\ rxInt' = c.rx
  /\ IF (c.tx = 1 /\ "TDRE" \in sr) \/ (c.rx /\ (rx.full \/ "OVRN" \in sr))
     THEN RaiseInterrupt(sr) ELSE KeepInterrupt(sr)
  /\ UNCHANGED <<por, cts, carrier, latch, rx>>

\* read_status(): the first half of clearing a latched loss of carrier.
ReadStatus ==
  /\ latch' = IF latch = "sr" THEN "data" ELSE latch
  /\ UNCHANGED <<por, ctl, txInt, rxInt, txBreak, sr, irq, cts, carrier, tx, rx>>

\* Variant of AfterRead: the error flags of the character stay.
AfterReadKeepErrors ==
  LET s1 == IF latch = "data" /\ carrier THEN sr \ {"DCD"} ELSE sr
      s2 == IF rx.full THEN s1 \ {"RDRF"} ELSE s1
  IN  IF rx.overrunPending THEN s2 \cup {"OVRN"} ELSE s2 \ {"OVRN"}

\* The flags after the character, if any, has been taken from the RDR: an
\* overrun that was pending becomes visible, one that was visible ends.
AfterRead ==
  LET s1 == IF latch = "data" /\ carrier THEN sr \ {"DCD"} ELSE sr
      s2 == IF rx.full THEN s1 \ {"RDRF", "FE", "PE"} ELSE s1
  IN  IF rx.overrunPending THEN s2 \cup {"OVRN"}
      ELSE IF rx.overrun THEN s2 \ {"OVRN"} ELSE s2

\* read_rdr()
ReadRdr ==
  /\ latch' = IF latch = "data" THEN "none" ELSE latch
  /\ IF rx.full /\ txInt /\ "TDRE" \in sr
     THEN irq' = TRUE /\ sr' = AfterRead \cup {"IRQ"}
     ELSE ClearInterrupt(AfterRead)
  /\ rx' = [rx EXCEPT !.full = FALSE, !.overrunPending = FALSE, !.overrun = rx.overrunPending]
  /\ UNCHANGED <<por, ctl, txInt, rxInt, txBreak, cts, carrier, tx>>

\* write_tdr(): refused unless the register is empty.
WriteTdr(ch) ==
  /\ "TDRE" \in sr
  /\ tx' = [tx EXCEPT !.data = ch, !.full = TRUE]
  /\ irq' = FALSE
  /\ sr' = sr \ {"TDRE", "IRQ"}
  /\ UNCHANGED <<por, ctl, txInt, rxInt, txBreak, cts, carrier, latch, rx>>

-----------------------------------------------------------------------------
(***************************************************************************)
(* The transmitter.                                                        *)
(***************************************************************************)
\* tdr_went_empty() after the status flags have become s and CTS* is c.
TdrWentEmpty(s, c) ==
  IF por \/ c THEN KeepInterrupt(s)
  ELSE IF txInt THEN RaiseInterrupt(s \cup {"TDRE"}) ELSE KeepInterrupt(s \cup {"TDRE"})

\* maybe_load_shift_register(): takes the bit time in which the line is idle.
LoadShiftRegister ==
  /\ tx.state = "IDLE"
  /\ tx.full
  /\ tx' = [tx EXCEPT !.shift = tx.data, !.full = FALSE, !.count = 0, !.state = "START_BIT",
                      !.parity = IF ctl.parity = 1 THEN 1 ELSE 0, !.ticks = ctl.div]
  /\ TdrWentEmpty(sr, cts)

\* Variant of AfterBits: nothing follows the bits of a word without parity.
AfterBitsParityOnly == IF ctl.parity # 0 THEN "PARITY" ELSE "BITS"

AfterBits == IF ctl.parity # 0 THEN "PARITY" ELSE "STOP_BIT_1"

ShiftRight(word) == [i \in 1..LongWord |-> IF i < LongWord THEN word[i + 1] ELSE 0]

\* shift_out_data(), one bit: the transmitter after it.
ShiftedOut ==
  LET bit  == tx.shift[1]
      sent == [tx EXCEPT !.ticks = ctl.div]
  IN  CASE tx.state = "IDLE" -> sent
        [] tx.state = "START_BIT" -> [sent EXCEPT !.out = 0, !.state = "BITS"]
        [] tx.state = "BITS" ->
             [sent EXCEPT !.out = bit, !.shift = ShiftRight(@), !.count = (@ + 1) % CountModulus,
                          !.parity = IF ctl.parity # 0 THEN (@ + bit) % 2 ELSE @,
                          !.state = IF (tx.count + 1) % CountModulus = ctl.word THEN AfterBits ELSE @]
        [] tx.state = "PARITY" -> [sent EXCEPT !.out = tx.parity, !.state = "STOP_BIT_1"]
        [] tx.state = "STOP_BIT_1" ->
             [sent EXCEPT !.out = 1, !.state = IF ctl.stop = 2 THEN "STOP_BIT_2" ELSE "IDLE"]
        [] tx.state = "STOP_BIT_2" -> [sent EXCEPT !.out = 1, !.state = "IDLE"]

\* tx_clock(): nothing moves while CTS* is inactive.
TxClock ==
  /\ ~cts
  /\ \/ /\ tx.ticks # 1
        /\ tx' = [tx EXCEPT !.ticks = @ - 1]
        /\ KeepInterrupt(sr)
     \/ /\ tx.ticks = 1 /\ txBreak
        /\ tx' = [tx EXCEPT !.out = 0, !.ticks = ctl.div]
        /\ KeepInterrupt(sr)
     \/ /\ tx.ticks = 1 /\ ~txBreak
        /\ LoadShiftRegister
     \/ /\ tx.ticks = 1 /\ ~txBreak /\ ~(tx.state = "IDLE" /\ tx.full)
        /\ tx' = ShiftedOut
        /\ KeepInterrupt(sr)
  /\ UNCHANGED <<por, ctl, txInt, rxInt, txBreak, cts, carrier, latch, rx>>

-----------------------------------------------------------------------------
(***************************************************************************)
(* The receiver.                                                           *)
(***************************************************************************)
\* The start bit is confirmed: the next sample is the first data bit.
BeginCharacter(clocks) ==
  [rx EXCEPT !.shift = Zero, !.count = 0, !.parity = 0, !.parityError = FALSE,
             !.clocks = clocks, !.state = "DATA"]

\* RX_IDLE and RX_START on sampling b, with false start bit deletion.
HuntForStart(b) ==
  IF rx.state = "IDLE"
  THEN IF b = 1 THEN rx
       ELSE IF ctl.div = 1 THEN BeginCharacter(1)
       ELSE [rx EXCEPT !.clocks = 1, !.state = "START"]
  ELSE IF b = 1 THEN [rx EXCEPT !.clocks = @ + 1, !.state = "IDLE"]
       ELSE IF rx.clocks + 1 >= ctl.div \div 2 THEN BeginCharacter(0)
       ELSE [rx EXCEPT !.clocks = @ + 1]

\* A bit is sampled at every clock with divisor 1, otherwise once per divisor.
SampleNow == ctl.div = 1 \/ rx.clocks + 1 >= ctl.div

\* The receive shift register once b has been or-ed in.  Past the register
\* the bit is cut off; a shift by the width of an int or more is undefined.
ShiftIn(b) ==
  IF rx.count < LongWord
  THEN {[rx.shift EXCEPT ![rx.count + 1] = IF b = 1 THEN 1 ELSE @]}
  ELSE IF rx.count < IntWidth THEN {rx.shift} ELSE Word

\* rx_receive_data_bit()
ReceiveData(b) ==
  LET n == (rx.count + 1) % CountModulus
  IN  \E word \in ShiftIn(b) :
        rx' = [rx EXCEPT !.shift = word, !.count = n,
                         !.parity = IF ctl.parity # 0 THEN (@ + b) % 2 ELSE @,
                         !.clocks = IF ctl.div = 1 /\ n # ctl.word THEN @ ELSE 0,
                         !.state = IF n # ctl.word THEN "DATA"
                                   ELSE IF ctl.parity # 0 THEN "PARITY" ELSE "STOP"]

\* Variant of ReceiveParity: the receiver stays in the parity bit.
ReceiveParityStays(b) ==
  LET expected == IF ctl.parity = 1 THEN 1 - rx.parity ELSE rx.parity
  IN  rx' = [rx EXCEPT !.parityError = (b # expected), !.clocks = 0]

\* rx_receive_parity_bit(): odd parity expects the complement.
ReceiveParity(b) ==
  LET expected == IF ctl.parity = 1 THEN 1 - rx.parity ELSE rx.parity
  IN  rx' = [rx EXCEPT !.parityError = (b # expected), !.clocks = 0, !.state = "STOP"]

\* Variant of ReceiveStop: a character that finds the RDR full replaces it.
ReceiveStopOver(b) ==
  /\ rx' = [rx EXCEPT !.clocks = IF ctl.div = 1 THEN @ ELSE 0, !.state = "IDLE",
                      !.data = rx.shift, !.full = TRUE]
  /\ LET s == sr \cup {"RDRF"} IN IF rxInt THEN RaiseInterrupt(s) ELSE KeepInterrupt(s)

\* rx_receive_stop_bit(): a character that finds the RDR full is dropped.
ReceiveStop(b) ==
  LET r == [rx EXCEPT !.clocks = IF ctl.div = 1 THEN @ ELSE 0, !.state = "IDLE"]
      s == sr \cup {"RDRF"}
              \cup (IF b = 0 THEN {"FE"} ELSE {})
              \cup (IF ctl.parity # 0 /\ rx.parityError THEN {"PE"} ELSE {})
  IN  IF rx.full
      THEN rx' = [r EXCEPT !.overrunPending = TRUE] /\ KeepInterrupt(sr)
      ELSE /\ rx' = [r EXCEPT !.data = rx.shift, !.full = TRUE]
           /\ IF rxInt THEN RaiseInterrupt(s) ELSE KeepInterrupt(s)

\* set_rx_data(b), which the serial ULA calls before every clock, and
\* rx_clock(): the receiver is idle without a carrier.
RxClock(b) ==
  /\ carrier
  /\ \/ /\ rx.state \in {"IDLE", "START"}
        /\ rx' = HuntForStart(b)
        /\ KeepInterrupt(sr)
     \/ /\ rx.state \notin {"IDLE", "START"}
        /\ ~SampleNow
        /\ rx' = [rx EXCEPT !.clocks = @ + 1]
        /\ KeepInterrupt(sr)
     \/ /\ rx.state = "DATA" /\ SampleNow
        /\ ReceiveData(b)
        /\ KeepInterrupt(sr)
     \/ /\ rx.state = "PARITY" /\ SampleNow
        /\ ReceiveParity(b)
        /\ KeepInterrupt(sr)
     \/ /\ rx.state = "STOP" /\ SampleNow
        /\ ReceiveStop(b)
  /\ UNCHANGED <<por, ctl, txInt, rxInt, txBreak, cts, carrier, latch, tx>>

-----------------------------------------------------------------------------
(***************************************************************************)
(* The modem inputs.                                                       *)
(***************************************************************************)
\* clear_cts()
ClearCts ==
  /\ cts
  /\ cts' = FALSE
  /\ IF tx.full THEN KeepInterrupt(sr \ {"CTS"}) ELSE TdrWentEmpty(sr \ {"CTS"}, FALSE)
  /\ UNCHANGED <<por, ctl, txInt, rxInt, txBreak, carrier, latch, tx, rx>>

\* Variant of RaiseCts: TDRE is not inhibited.
RaiseCtsKeepTdre ==
  /\ ~cts
  /\ cts' = TRUE
  /\ KeepInterrupt(sr \cup {"CTS"})
  /\ UNCHANGED <<por, ctl, txInt, rxInt, txBreak, carrier, latch, tx, rx>>

\* raise_cts()
RaiseCts ==
  /\ ~cts
  /\ cts' = TRUE
  /\ KeepInterrupt((sr \ {"TDRE"}) \cup {"CTS"})
  /\ UNCHANGED <<por, ctl, txInt, rxInt, txBreak, carrier, latch, tx, rx>>

\* apply_carrier(), carrier_detected()
ApplyCarrier ==
  /\ ~carrier
  /\ carrier' = TRUE
  /\ KeepInterrupt(IF latch = "none" THEN sr \cup {"DCD"} ELSE sr)
  /\ UNCHANGED <<por, ctl, txInt, rxInt, txBreak, cts, latch, tx, rx>>

\* Variant of DropCarrier: a clear sequence in progress is not aborted.
DropCarrierKeepSequence ==
  /\ carrier
  /\ carrier' = FALSE
  /\ LET s == (sr \ {"RDRF", "FE", "OVRN", "PE"}) \cup {"DCD"}
     IN  IF rxInt THEN RaiseInterrupt(s) ELSE KeepInterrupt(s)
  /\ rx' = [rx EXCEPT !.full = FALSE, !.overrunPending = FALSE, !.overrun = FALSE,
                      !.state = "IDLE", !.count = 0, !.clocks = 0]
  /\ latch' = IF latch = "none" THEN "sr" ELSE latch
  /\ UNCHANGED <<por, ctl, txInt, rxInt, txBreak, cts, tx>>

\* drop_carrier(), carrier_dropped()
DropCarrier ==
  /\ carrier
  /\ carrier' = FALSE
  /\ LET s == (sr \ {"RDRF", "FE", "OVRN", "PE"}) \cup {"DCD"}
     IN  IF rxInt THEN RaiseInterrupt(s) ELSE KeepInterrupt(s)
  /\ rx' = [rx EXCEPT !.full = FALSE, !.overrunPending = FALSE, !.overrun = FALSE,
                      !.state = "IDLE", !.count = 0, !.clocks = 0]
  /\ latch' = "sr"
  /\ UNCHANGED <<por, ctl, txInt, rxInt, txBreak, cts, tx>>

Cpu == \/ MasterReset \/ ReadStatus \/ ReadRdr
       \/ \E c \in ControlWords : WriteControl(c)
       \/ \E ch \in Chars : WriteTdr(ch)

SerialUla == \/ TxClock \/ ClearCts \/ RaiseCts \/ ApplyCarrier \/ DropCarrier
             \/ \E b \in {0, 1} : RxClock(b)

Next == Cpu \/ SerialUla

Spec == Init /\ [][Next]_vars

-----------------------------------------------------------------------------
TypeOK ==
  /\ por \in BOOLEAN /\ txInt \in BOOLEAN /\ rxInt \in BOOLEAN /\ txBreak \in BOOLEAN
  /\ irq \in BOOLEAN /\ cts \in BOOLEAN /\ carrier \in BOOLEAN
  /\ ctl \in Format
  /\ sr \subseteq Flags
  /\ latch \in {"none", "sr", "data"}
  /\ tx \in Transmitter
  /\ rx \in Receiver

\* TDRE invites the CPU to write: it is never set while a character waits in
\* the TDR, while CTS* is inactive or before the first master reset, so no
\* character is overwritten or stuck behind an inactive CTS*.
TdreIsSafe == "TDRE" \in sr => ~tx.full /\ ~cts /\ ~por

\* The receive flags describe the character in the RDR: RDRF says there is
\* one, FE and PE only ever belong to one that is there, and OVRN follows the
\* overrun state, through resets, lost carriers and overruns.
FlagsFollowRdr ==
  /\ "RDRF" \in sr <=> rx.full
  /\ "FE" \in sr \/ "PE" \in sr => rx.full
  /\ "OVRN" \in sr <=> rx.overrun

\* Bit 7 of the status register is the interrupt output, whichever of the
\* eight places that raise or clear it ran last.
IrqBitMirrorsLine == "IRQ" \in sr <=> irq

\* The 8-bit count of receive clocks stays within the largest divisor, however
\* the divisor is changed in the middle of a bit: it never wraps.
ClocksInRange == \E d \in Divisors : rx.clocks <= d
=============================================================================
