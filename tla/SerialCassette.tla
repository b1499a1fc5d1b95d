--------------------------- MODULE SerialCassette ---------------------------
(***************************************************************************)
(* The serial ULA between the ACIA and the cassette port, with a tape in   *)
(* the player.                                                             *)
(*                                                                         *)
(* The serial ULA clocks the ACIA's receiver, advances the tape once per   *)
(* bit, counts carrier bits until it is locked on and tells the ACIA when  *)
(* the carrier comes and goes.  A write to its control register (SCR)      *)
(* selects the cassette or RS423, and with it CTS*, and drives the motor.  *)
(* A call that makes two calls to the ACIA takes two steps here; `stage'   *)
(* keeps everything else out in between, as the one thread does.  The      *)
(* receive clock is what is left when a counter divides the board's 16 MHz *)
(* clock; every write to the SCR reloads that counter, so a CPU that       *)
(* writes fast enough holds the clock back for as long as it likes.  The   *)
(* transmit side is left out: a UEF tape ignores what is written to it.    *)
(***************************************************************************)
EXTENDS Acia, UefTape

CONSTANTS
  RxPeriod,       \* the 16 MHz ticks to a receive clock (13 * 64)
  LockThreshold,  \* CARRIER_LOCK_THRESHOLD (100)
  ScrValues,      \* what the CPU writes to the SCR
  Tapes           \* the tapes that are inserted

ASSUME CassetteAssumption ==
  /\ RxPeriod \in Nat \ {0}
  /\ LockThreshold \in Nat \ {0}
  /\ ScrValues \subseteq [motor : BOOLEAN, rs423 : BOOLEAN]
  /\ Tapes \subseteq Seq(Chunk)
  /\ ByteBits = LongWord

VARIABLES
  scr,      \* serial_control_register_: bits 7 and 6
  port,     \* cassette_port_: whether there is one, and its motor_on_
  divider,  \* rx_clock_counter_
  counter,  \* rx_tape_counter_
  rxBit,    \* current_rx_bit_
  lock,     \* carrier_bit_count_, held at LockThreshold + 1
  stage     \* "idle", or the rest of a call: "motorOn", "motorOff", "clock"

ulaVars == <<scr, port, counter, rxBit, lock>>
cvars == <<vars, tapeVars, ulaVars, divider, stage>>

\* The SCR and the divider are not initialised.
CInit ==
  /\ Init
  /\ NoTape
  /\ scr \in [motor : BOOLEAN, rs423 : BOOLEAN]
  /\ port = [present |-> FALSE, motor |-> FALSE]
  /\ divider \in 1..RxPeriod
  /\ counter = 0
  /\ rxBit = 1
  /\ lock = 0
  /\ stage = "idle"

-----------------------------------------------------------------------------
(***************************************************************************)
(* The cassette port.                                                      *)
(***************************************************************************)
\* rx_data(): the tape only moves while the motor is on.
RxData == IF port.motor THEN BitOnTape ELSE 1

MoveTape == IF port.motor THEN NextBit ELSE UNCHANGED tapeVars

\* has_carrier(), asked after rx_data()
HasCarrier == port.motor /\ lastCarrier'

\* load_tape() and set_cassette_port() while the machine does not run: a new
\* port, its motor set from the SCR.  The lock is left as it is.
LoadTape(chunks) ==
  /\ stage = "idle"
  /\ InsertTape(chunks)
  /\ port' = [present |-> TRUE, motor |-> scr.motor]
  /\ UNCHANGED <<vars, scr, divider, counter, rxBit, lock, stage>>

-----------------------------------------------------------------------------
(***************************************************************************)
(* Writing the SCR.                                                        *)
(***************************************************************************)
SelectInput(rs423) ==
  IF rs423 THEN RaiseCts \/ (cts /\ UNCHANGED vars)
  ELSE ClearCts \/ (~cts /\ UNCHANGED vars)

\* mmio_write(), as far as the input selection.  The divider starts again; its
\* period with RS423 selected is that of the cassette here, as nothing is clocked
\* then.
WriteScr(v) ==
  /\ stage = "idle"
  /\ scr' = v
  /\ divider' = RxPeriod
  /\ SelectInput(v.rs423)
  /\ stage' = IF port.present /\ v.motor # scr.motor
              THEN (IF v.motor THEN "motorOn" ELSE "motorOff") ELSE "idle"
  /\ UNCHANGED <<tapeVars, port, counter, rxBit, lock>>

\* Variant of SwitchMotor: the lock is left to the next clock.
SwitchMotorKeepLock ==
  /\ stage \in {"motorOn", "motorOff"}
  /\ port' = [port EXCEPT !.motor = (stage = "motorOn")]
  /\ IF stage = "motorOff" /\ ~scr.rs423
     THEN DropCarrier \/ (~carrier /\ UNCHANGED vars) ELSE UNCHANGED vars
  /\ stage' = "idle"
  /\ UNCHANGED <<tapeVars, scr, divider, counter, rxBit, lock>>

\* ... and the motor.  In RS423 mode a motor that stops leaves the carrier and
\* the lock alone.
SwitchMotor ==
  /\ stage \in {"motorOn", "motorOff"}
  /\ port' = [port EXCEPT !.motor = (stage = "motorOn")]
  /\ IF stage = "motorOff" /\ ~scr.rs423
     THEN /\ lock' = 0
          /\ DropCarrier \/ (~carrier /\ UNCHANGED vars)
     ELSE UNCHANGED <<vars, lock>>
  /\ stage' = "idle"
  /\ UNCHANGED <<tapeVars, scr, divider, counter, rxBit>>

-----------------------------------------------------------------------------
(***************************************************************************)
(* The receive clock.                                                      *)
(***************************************************************************)
\* A bit has been read from the tape: count it as carrier or lose the lock.
CountCarrier ==
  IF HasCarrier
  THEN /\ lock' = IF lock > LockThreshold THEN lock ELSE lock + 1
       /\ IF lock + 1 = LockThreshold /\ ~carrier THEN ApplyCarrier ELSE UNCHANGED vars
  ELSE /\ lock' = 0
       /\ IF lock >= LockThreshold /\ carrier THEN DropCarrier ELSE UNCHANGED vars

\* Variant of TapeAdvances: the tape moves at every receive clock.
TapeAdvancesAlways == TRUE

\* The tape runs at the baud rate: one bit per clock divisor.
TapeAdvances == counter + 1 >= ctl.div

\* Variant of Listening: the clock stops with the motor.
ListeningMotorOn == ~scr.rs423 /\ port.present /\ port.motor

\* The early return of maybe_rx_clock_tick().
Listening == ~scr.rs423 /\ port.present

\* maybe_rx_clock_tick() while the divider has not run out, or nobody listens.
Divide ==
  /\ stage = "idle"
  /\ divider = 1 => ~Listening
  /\ divider' = IF divider = 1 THEN RxPeriod ELSE divider - 1
  /\ UNCHANGED <<vars, tapeVars, ulaVars, stage>>

\* ... and when it has: a new bit if one is due, ...
RxTick ==
  /\ stage = "idle"
  /\ Listening
  /\ divider = 1
  /\ divider' = RxPeriod
  /\ IF TapeAdvances
     THEN /\ counter' = 0
          /\ rxBit' = RxData
          /\ MoveTape
          /\ CountCarrier
     ELSE /\ counter' = counter + 1
          /\ UNCHANGED <<vars, tapeVars, rxBit, lock>>
  /\ stage' = "clock"
  /\ UNCHANGED <<scr, port>>

\* ... then set_rx_data() and rx_clock().
ClockReceiver ==
  /\ stage = "clock"
  /\ RxClock(rxBit) \/ (~carrier /\ UNCHANGED vars)
  /\ stage' = "idle"
  /\ UNCHANGED <<tapeVars, ulaVars, divider>>

\* The CPU at the ACIA, between calls.
Register ==
  /\ stage = "idle"
  /\ MasterReset \/ ReadStatus \/ ReadRdr \/ \E c \in ControlWords : WriteControl(c)
  /\ UNCHANGED <<tapeVars, ulaVars, divider, stage>>

-----------------------------------------------------------------------------
\* The ACIA has a carrier exactly while the serial ULA is locked on to one,
\* whatever the motor, the input selection and the tapes did since: the two
\* chips count and flag separately and are updated in five places.
LockMeansCarrier == carrier <=> lock >= LockThreshold

\* "Motor off: no tape movement = no carrier": a motor that is off with the
\* cassette selected costs the ACIA the carrier, even if the motor was switched
\* off while RS423 was selected and the carrier left standing, once the CPU
\* writes the SCR no more while the cassette is selected: with such writes it may
\* hold back the clock that would notice.
StoppedTapeLosesCarrier ==
  <>[][~ (Listening /\ \E v \in ScrValues : WriteScr(v))]_cvars
    => (port.present /\ ~scr.motor /\ ~scr.rs423 ~> ~carrier \/ scr.motor \/ scr.rs423)
=============================================================================
