----------------------------- MODULE AciaHistory -----------------------------
(***************************************************************************)
(* The ACIA with history variables that remember what happened on the line *)
(* and what the CPU was shown, and its properties.                         *)
(***************************************************************************)
EXTENDS Acia

VARIABLES
  dropped,    \* a character was lost since the one in the RDR arrived
  owed,       \* characters were lost between the last one read and the next
  shown,      \* OVRN was in the status register since a character was last read
  statusRead  \* the status register was read since the carrier last dropped

history == <<dropped, owed, shown, statusRead>>
hvars == <<vars, history>>

HInit == Init /\ dropped = FALSE /\ owed = FALSE /\ shown = FALSE /\ statusRead = FALSE

\* A character is completed, a character is read.
Completes == carrier /\ rx.state = "STOP" /\ SampleNow
Shows == shown' = (shown \/ "OVRN" \in sr')

HNext ==
  \/ /\ MasterReset
     /\ dropped' = FALSE /\ owed' = FALSE /\ shown' = FALSE
     /\ UNCHANGED statusRead
  \/ /\ ReadStatus
     /\ statusRead' = TRUE
     /\ UNCHANGED <<dropped, owed, shown>>
  \/ /\ ReadRdr
     /\ IF rx.full
        THEN owed' = dropped /\ dropped' = FALSE /\ shown' = ("OVRN" \in sr')
        ELSE Shows /\ UNCHANGED <<dropped, owed>>
     /\ UNCHANGED statusRead
  \/ /\ \/ \E c \in ControlWords : WriteControl(c)
        \/ \E ch \in Chars : WriteTdr(ch)
     /\ UNCHANGED history
  \/ /\ \E b \in {0, 1} : RxClock(b)
     /\ dropped' = (dropped \/ (Completes /\ rx.full))
     /\ Shows
     /\ UNCHANGED <<owed, statusRead>>
  \/ /\ TxClock \/ ClearCts \/ RaiseCts \/ ApplyCarrier
     /\ UNCHANGED history
  \/ /\ DropCarrier
     /\ dropped' = FALSE /\ owed' = FALSE /\ shown' = FALSE /\ statusRead' = FALSE

HSpec == HInit /\ [][HNext]_hvars

-----------------------------------------------------------------------------
\* A character that is lost to an overrun is never lost silently: when the
\* CPU reads the character after the gap, OVRN has been visible to it since
\* it read the one before the gap.
GapsAreShown == [][ReadRdr /\ rx.full /\ owed => shown]_hvars

\* A loss of carrier is shown to the CPU before it is forgotten: apart from a
\* master reset, DCD is cleared only by a data read with the carrier back, when
\* the status register was read since the last loss, however often the carrier
\* came and went before.  That read may be earlier than the return of the
\* carrier: carrier_dropped() arms the sequence (acia_6850.cpp:629), where the
\* tests say that the return does (test_acia.cpp:243, 278).
LossesAreShown ==
  [][("DCD" \in sr /\ "DCD" \notin sr' /\ ~MasterReset)
       => ReadRdr /\ statusRead /\ carrier]_hvars

=============================================================================
