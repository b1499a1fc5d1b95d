----------------------------- MODULE AciaClocks -----------------------------
(***************************************************************************)
(* The ACIA with the clocks the serial ULA supplies, for what must happen  *)
(* in the end.  The transmit clock runs for ever.  The receive clock runs  *)
(* while the cassette is selected: with RS423 selected, which is what      *)
(* raises CTS*, the serial ULA returns before it clocks the receiver, and  *)
(* it touches the carrier no more.  A write to the SCR reloads both clock  *)
(* counters and a write to the control register changes the format, so     *)
(* nothing is promised of a CPU that writes them over and over: `quiet'    *)
(* says that it has stopped.  A machine is followed while it uses one      *)
(* direction of the line.                                                  *)
(***************************************************************************)
EXTENDS Acia

VARIABLES
  rs423,  \* bit 6 of the SCR
  quiet   \* the CPU writes neither the SCR nor a format to the ACIA again

clockVars == <<vars, rs423, quiet>>

\* The SCR is not initialised; CTS* is inactive until it is written.
ClocksInit == Init /\ rs423 \in BOOLEAN /\ quiet = FALSE

\* mmio_write() of the serial ULA.
WriteScr ==
  /\ ~quiet
  /\ rs423' \in BOOLEAN
  /\ IF rs423' THEN RaiseCts \/ (cts /\ UNCHANGED vars)
     ELSE ClearCts \/ (~cts /\ UNCHANGED vars)
  /\ UNCHANGED quiet

BeQuiet ==
  /\ ~quiet
  /\ quiet' = TRUE
  /\ UNCHANGED <<vars, rs423>>

\* One direction: there is no carrier and the receiver is unused, or there is
\* nothing to send.
MaySend == ~carrier /\ rx = UnusedReceiver
MayReceive == [tx EXCEPT !.ticks = 1, !.out = 1] = UnusedTransmitter

\* The CPU at the registers.
SetFormat == ~quiet /\ \E c \in ControlWords : WriteControl(c)

UseRegisters ==
  /\ \/ SetFormat
     \/ MasterReset
     \/ MaySend /\ \E ch \in Chars : WriteTdr(ch)
     \/ MayReceive /\ ReadRdr
  /\ UNCHANGED <<rs423, quiet>>

\* maybe_tx_clock_tick(), when its counter has run out.
Sending == MaySend /\ TxClock /\ UNCHANGED <<rs423, quiet>>

\* maybe_rx_clock_tick(), past its early return: the carrier, then the clock.
Carrier == MayReceive /\ ~rs423 /\ (ApplyCarrier \/ DropCarrier) /\ UNCHANGED <<rs423, quiet>>

Receiving ==
  /\ MayReceive
  /\ ~rs423
  /\ \E b \in {0, 1} : RxClock(b)
  /\ UNCHANGED <<rs423, quiet>>

ClocksNext == WriteScr \/ BeQuiet \/ UseRegisters \/ Sending \/ Carrier \/ Receiving

\* Of a CPU that has stopped writing formats and the SCR, both clocks go on.
ClocksFairness ==
  /\ WF_clockVars(quiet /\ Sending)
  /\ WF_clockVars(quiet /\ Receiving)

ClocksSpec == ClocksInit /\ [][ClocksNext]_clockVars /\ ClocksFairness

-----------------------------------------------------------------------------
\* Once the CPU leaves the format and the SCR alone, a character in the TDR is
\* moved to the shift register, unless CTS* is inactive or a break is sent: even
\* if the word length was changed in the middle of the character before it and
\* the shift counter has passed the new one.
TdrDrains == quiet /\ tx.full ~> ~tx.full \/ cts \/ txBreak

\* Likewise a character that is being received from the cassette ends, whatever
\* the line does and whatever format it began in, even if RS423 was selected in
\* the middle of it for a while.  One that is left with RS423 selected stays as
\* it is: its clock has stopped.
CharacterEnds ==
  quiet /\ ~rs423 /\ rx.state \in {"DATA", "PARITY", "STOP"} ~> rx.state = "IDLE" \/ ~carrier
=============================================================================
