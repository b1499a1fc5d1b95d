---------------------------- MODULE AciaLoopback ----------------------------
(***************************************************************************)
(* An ACIA whose transmit line is wired to its own receive line: what the  *)
(* transmitter serialises is what the receiver must assemble.  Each clock  *)
(* of the serial ULA runs the transmitter and then the receiver, as        *)
(* tick_16mhz() does with equal dividers.  The CPU sets the chip up as the *)
(* tests do and then writes when TDRE is set and reads when RDRF is.       *)
(***************************************************************************)
EXTENDS Acia, Sequences

CONSTANT MaxSent  \* the characters the CPU sends

\* No control word sends a break: the tests never do while the line is looped.
ASSUME LoopbackAssumption ==
  /\ MaxSent \in Nat \ {0}
  /\ \A c \in ControlWords : c.tx # 3

VARIABLES
  stage,  \* the setup still to do: "reset", "control", "cts", "carrier", then
          \* whose clock comes next: "tx" or "rx"
  sent,   \* the characters the TDR accepted
  got,    \* the characters read from the RDR
  lost    \* the positions in sent of characters dropped by an overrun

lvars == <<vars, stage, sent, got, lost>>

LInit == Init /\ stage = "reset" /\ sent = <<>> /\ got = <<>> /\ lost = {}

Setup ==
  /\ \/ stage = "reset" /\ MasterReset /\ stage' = "control"
     \/ stage = "control" /\ (\E c \in ControlWords : WriteControl(c)) /\ stage' = "cts"
     \/ stage = "cts" /\ ClearCts /\ stage' = "carrier"
     \/ stage = "carrier" /\ ApplyCarrier /\ stage' = "tx"
  /\ UNCHANGED <<sent, got, lost>>

\* The transmitter sends the low bits of the character.
Sent(ch) == [i \in 1..LongWord |-> IF i <= ctl.word THEN ch[i] ELSE 0]

Write ==
  /\ stage \in {"tx", "rx"}
  /\ Len(sent) < MaxSent
  /\ \E ch \in Chars : WriteTdr(ch) /\ sent' = Append(sent, Sent(ch))
  /\ UNCHANGED <<stage, got, lost>>

Read ==
  /\ "RDRF" \in sr
  /\ ReadRdr
  /\ got' = Append(got, rx.data)
  /\ UNCHANGED <<stage, sent, lost>>

\* The number of characters that have reached the end of the line.
Arrived == Len(got) + Cardinality(lost) + (IF rx.full THEN 1 ELSE 0)

Clock ==
  \/ stage = "tx" /\ TxClock /\ stage' = "rx" /\ UNCHANGED <<sent, got, lost>>
  \/ /\ stage = "rx" /\ RxClock(tx.out) /\ stage' = "tx"
     /\ lost' = IF rx.state = "STOP" /\ rx'.state = "IDLE" /\ rx.full
                THEN lost \cup {Arrived + 1} ELSE lost
     /\ UNCHANGED <<sent, got>>

LNext == Setup \/ Write \/ Read \/ Clock

LSpec == LInit /\ [][LNext]_lvars

-----------------------------------------------------------------------------
\* The positions in sent of the characters that reached the RDR.
Delivered == {i \in 1..Arrived : i \notin lost}

\* Everything the CPU reads is what it wrote, in that order and without the
\* characters an overrun dropped, in every word format and with every clock
\* divisor; nothing on the line is taken for an error, nor for a character that
\* was not sent, and once the line is quiet every character is accounted for:
\* no bit is lost, doubled or sampled in the wrong cell.
ReceivedIsSent ==
  /\ \A n \in 1..Len(got) :
       \E i \in Delivered : /\ Cardinality({j \in Delivered : j <= i}) = n
                            /\ got[n] = sent[i]
  /\ sr \cap {"FE", "PE"} = {}
  /\ tx.state = "IDLE" /\ ~tx.full /\ rx.state = "IDLE" => Arrived = Len(sent)
=============================================================================
