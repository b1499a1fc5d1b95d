------------------------------ MODULE UefTape -------------------------------
(***************************************************************************)
(* A UEF file as a stream of bits.  The constructor turns the file's       *)
(* chunks into segments; next_bit() walks the segments, and at_carrier()   *)
(* reports on the bit it returned last.                                    *)
(*                                                                         *)
(* A chunk is [kind |-> "tone", count], [kind |-> "toneWithByte", pre,     *)
(* post], [kind |-> "data", bytes], [kind |-> "raw", bits], [kind |->      *)
(* "gap", count] or [kind |-> "other"].  Durations are numbers of bits.    *)
(***************************************************************************)
EXTENDS Naturals, SequencesExt

CONSTANTS
  ByteBits,   \* the bits of a byte (8)
  DummyByte   \* the byte in a tone with a dummy byte (0xAA)

Byte == [1..ByteBits -> {0, 1}]

ASSUME TapeAssumption == ByteBits \in Nat \ {0} /\ DummyByte \in Byte

\* What build_segments() sees of a chunk.
Chunk ==
  [kind : {"tone", "gap"}, count : Nat] \cup [kind : {"toneWithByte"}, pre : Nat, post : Nat]
    \cup [kind : {"data"}, bytes : Seq(Byte)] \cup [kind : {"raw"}, bits : Seq({0, 1})]
    \cup [kind : {"other"}]

VARIABLES
  segments,     \* segments_
  segIdx,       \* seg_idx_, from 1
  bitPos,       \* bit_pos_
  lastCarrier   \* last_carrier_

tapeVars == <<segments, segIdx, bitPos, lastCarrier>>

\* One byte of expand_8n1(): start bit, data bits from the least significant,
\* stop bit.
Framed(byte) == <<0>> \o [i \in 1..ByteBits |-> byte[i]] \o <<1>>

Expand8n1(bytes) == FlattenSeq([i \in DOMAIN bytes |-> Framed(bytes[i])])

\* Variant of Marks: an empty carrier or gap is a segment too.
MarksEvenEmpty(kind, count) == <<[kind |-> kind, bits |-> <<>>, count |-> count]>>

\* A carrier or a gap is so many mark bits, and a segment only if there are any.
Marks(kind, count) ==
  IF count > 0 THEN <<[kind |-> kind, bits |-> <<>>, count |-> count]>> ELSE <<>>

Data(bits) == IF bits # <<>> THEN <<[kind |-> "DATA", bits |-> bits, count |-> 0]>> ELSE <<>>

\* What build_segments() makes of one chunk.
SegmentsOf(chunk) ==
  CASE chunk.kind = "tone"  -> Marks("CARRIER", chunk.count)
    [] chunk.kind = "toneWithByte" ->
         Marks("CARRIER", chunk.pre) \o Data(Expand8n1(<<DummyByte>>)) \o Marks("CARRIER", chunk.post)
    [] chunk.kind = "data"  -> Data(Expand8n1(chunk.bytes))
    [] chunk.kind = "raw"   -> Data(chunk.bits)
    [] chunk.kind = "gap"   -> Marks("GAP", chunk.count)
    [] chunk.kind = "other" -> <<>>

BuildSegments(chunks) == FlattenSeq([i \in DOMAIN chunks |-> SegmentsOf(chunks[i])])

\* A tape that has not been loaded, and the constructor.
NoTape == segments = <<>> /\ segIdx = 1 /\ bitPos = 0 /\ lastCarrier = FALSE

InsertTape(chunks) ==
  LET built == BuildSegments(chunks)
  IN  /\ segments' = built
      /\ segIdx' = 1
      /\ bitPos' = 0
      /\ lastCarrier' = (built # <<>> /\ built[1].kind # "GAP")

EndOfTape == segIdx > Len(segments)

SegmentSize(s) == IF s.kind = "DATA" THEN Len(s.bits) ELSE s.count

\* The bit that next_bit() returns, ...
BitOnTape ==
  IF EndOfTape THEN 1
  ELSE LET seg == segments[segIdx]
       IN  IF seg.kind = "DATA" THEN seg.bits[bitPos + 1] ELSE 1

\* ... and what the call does: the carrier is that of the bit it returns.
NextBit ==
  IF EndOfTape
  THEN lastCarrier' = FALSE /\ UNCHANGED <<segments, segIdx, bitPos>>
  ELSE /\ lastCarrier' = (segments[segIdx].kind # "GAP")
       /\ IF bitPos + 1 >= SegmentSize(segments[segIdx])
          THEN segIdx' = segIdx + 1 /\ bitPos' = 0
          ELSE bitPos' = bitPos + 1 /\ UNCHANGED segIdx
       /\ UNCHANGED segments
=============================================================================
