---------------------------- MODULE CassetteLoad ----------------------------
(***************************************************************************)
(* The cassette system in use, against a definition of what is on a tape   *)
(* that reads the chunks one bit at a time and knows no segments.          *)
(*                                                                         *)
(* A machine is used freely, with tapes changed, the motor switched and    *)
(* the chips reprogrammed at any time, or it loads a recording: it is set  *)
(* up, the recording is inserted and the motor left on until its end,      *)
(* while the CPU reads the status and the data registers when it likes.    *)
(***************************************************************************)
EXTENDS SerialCassette

CONSTANT Recordings  \* the tapes that are loaded from beginning to end

ASSUME RecordingsAssumption == Recordings \subseteq Seq(Chunk)

VARIABLES
  setup,   \* "free", or how far a load has come: "reset", "control", "motor",
           \* "tape", "done"
  tape,    \* the chunks of the tape in the player
  played,  \* how many bits of it have been read
  got      \* the characters the receiver completed during a load

loadVars == <<cvars, setup, tape, played, got>>

LoadInit ==
  /\ CInit
  /\ setup \in {"free", "reset"}
  /\ tape = <<>>
  /\ played = 0
  /\ got = <<>>

-----------------------------------------------------------------------------
(***************************************************************************)
(* What a tape sounds like: bits paired with whether there is a carrier.   *)
(***************************************************************************)
Sound(bits) == [i \in DOMAIN bits |-> [bit |-> bits[i], carrier |-> TRUE]]
Tone(n) == [i \in 1..n |-> [bit |-> 1, carrier |-> TRUE]]
Silence(n) == [i \in 1..n |-> [bit |-> 1, carrier |-> FALSE]]

\* Bit k of a run of 8N1 frames.
FrameBit(bytes, k) ==
  LET at   == (k - 1) % (ByteBits + 2)
      byte == bytes[((k - 1) \div (ByteBits + 2)) + 1]
  IN  IF at = 0 THEN 0 ELSE IF at = ByteBits + 1 THEN 1 ELSE byte[at]

Frames(bytes) == Sound([k \in 1..((ByteBits + 2) * Len(bytes)) |-> FrameBit(bytes, k)])

ChunkSound(chunk) ==
  CASE chunk.kind = "tone"  -> Tone(chunk.count)
    [] chunk.kind = "toneWithByte" -> Tone(chunk.pre) \o Frames(<<DummyByte>>) \o Tone(chunk.post)
    [] chunk.kind = "data"  -> Frames(chunk.bytes)
    [] chunk.kind = "raw"   -> Sound(chunk.bits)
    [] chunk.kind = "gap"   -> Silence(chunk.count)
    [] chunk.kind = "other" -> <<>>

TapeSound == FlattenSeq([i \in DOMAIN tape |-> ChunkSound(tape[i])])

\* The bytes of the data chunks, in order.
TapeBytes ==
  FlattenSeq([i \in DOMAIN tape |-> IF tape[i].kind = "data" THEN tape[i].bytes ELSE <<>>])

\* A tape as the Acorn filing systems write it: every data chunk comes after a
\* leader that is long enough to lock on to, and nothing else carries bits.
WellRecorded ==
  \A i \in DOMAIN tape :
    /\ tape[i].kind \in {"tone", "gap", "data"}
    /\ tape[i].kind = "data" => /\ i > 1 /\ tape[i - 1].kind = "tone"
                                /\ tape[i - 1].count >= LockThreshold

-----------------------------------------------------------------------------
\* rx_data() reads the next bit of the tape in this tick.
BitRead == TapeAdvances /\ port.motor

Tick ==
  /\ RxTick
  /\ played' = IF BitRead /\ played < Len(TapeSound) THEN played + 1 ELSE played

Insert(t) == LoadTape(t) /\ tape' = t /\ played' = 0

\* What the serial ULA does by itself, and what is done to it.
FreeTick == setup = "free" /\ Tick /\ UNCHANGED <<setup, tape, got>>
FreeDivide == setup = "free" /\ Divide /\ UNCHANGED <<setup, tape, played, got>>
FreeClock == setup = "free" /\ ClockReceiver /\ UNCHANGED <<setup, tape, played, got>>
FreeMotor == setup = "free" /\ SwitchMotor /\ UNCHANGED <<setup, tape, played, got>>

FreeUse ==
  /\ setup = "free"
  /\ \/ \E t \in Tapes : Insert(t)
     \/ /\ (\E v \in ScrValues : WriteScr(v)) \/ Register
        /\ UNCHANGED <<tape, played>>
  /\ UNCHANGED <<setup, got>>

\* The ACIA is set to the format of the recordings, eight bits and no parity.
Setup ==
  /\ \/ /\ setup = "reset" /\ MasterReset
        /\ setup' = "control"
        /\ UNCHANGED <<tapeVars, ulaVars, divider, stage, tape, played>>
     \/ /\ setup = "control"
        /\ \E c \in ControlWords : c.word \in {4, 5} /\ WriteControl(c)
        /\ setup' = "motor"
        /\ UNCHANGED <<tapeVars, ulaVars, divider, stage, tape, played>>
     \/ /\ setup = "motor" /\ WriteScr([motor |-> TRUE, rs423 |-> FALSE])
        /\ setup' = "tape"
        /\ UNCHANGED <<tape, played>>
     \/ /\ setup = "tape" /\ \E t \in Recordings : Insert(t)
        /\ setup' = "done"
  /\ UNCHANGED got

\* The receiver takes a stop bit.
Completes == stage = "clock" /\ carrier /\ rx.state = "STOP" /\ SampleNow

\* The end of the tape is played once and then stands still.
TapeOver == EndOfTape /\ ~carrier /\ counter = 0

Playing ==
  /\ setup = "done"
  /\ \/ Tick /\ ~TapeOver /\ UNCHANGED got
     \/ Divide /\ UNCHANGED <<got, played>>
     \/ /\ ClockReceiver
        /\ got' = IF Completes THEN Append(got, [char |-> rx.shift, stop |-> rxBit]) ELSE got
        /\ UNCHANGED played
     \/ /\ stage = "idle" /\ (ReadStatus \/ ReadRdr)
        /\ UNCHANGED <<tapeVars, ulaVars, divider, stage, got, played>>
  /\ UNCHANGED <<setup, tape>>

LoadNext == FreeTick \/ FreeDivide \/ FreeClock \/ FreeMotor \/ FreeUse \/ Setup \/ Playing

\* The serial ULA is given every 16 MHz tick of the board, and finishes its calls.
LoadSpec ==
  /\ LoadInit /\ [][LoadNext]_loadVars
  /\ WF_loadVars(FreeTick \/ FreeDivide) /\ WF_loadVars(FreeClock) /\ WF_loadVars(FreeMotor)

-----------------------------------------------------------------------------
\* Every bit the serial ULA reads, and the carrier it sees with it, is the next
\* one on the tape, whatever chunks and empty chunks it is made of and however
\* often the motor stops in between; after the last one the line is idle.
PlaysTheTape ==
  [][RxTick /\ BitRead => [bit |-> rxBit', carrier |-> lastCarrier']
                  = IF played < Len(TapeSound) THEN TapeSound[played + 1]
                    ELSE [bit |-> 1, carrier |-> FALSE]]_loadVars

\* A load is faithful: the characters the receiver completes are the bytes on
\* the tape, in order, each with a good stop bit, and all of them when the tape
\* is over.  The tape's bit clock and the sampling of the ACIA stay in step over
\* leaders, gaps and blocks of any length, no leader or gap is taken for data,
\* and no byte, the last one included, straddles the loss of the carrier.  What counts
\* is reception: a completed character the CPU has not read when the carrier
\* drops is discarded with RDRF (acia_6850.cpp:618), which Acia has.
LoadIsFaithful ==
  setup = "done" /\ WellRecorded =>
    LET bytes == [i \in DOMAIN TapeBytes |-> [char |-> TapeBytes[i], stop |-> 1]]
    IN  /\ IsPrefix(got, bytes)
        /\ stage = "idle" /\ TapeOver /\ tape # <<>> => got = bytes
=============================================================================
