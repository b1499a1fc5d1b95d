--------------------------- MODULE MCCassetteLoad ---------------------------
(***************************************************************************)
(* The cassette system for TLC, with bytes of two bits and no parity.      *)
(* Free use has every SCR value, divisors that change on the way and one   *)
(* short tape.  The recordings are tapes of two blocks with leaders of at  *)
(* least the lock threshold, with and without a trailer, among them one    *)
(* that ends with its last stop bit, and tapes of any two chunks, the      *)
(* empty ones included.                                                    *)
(***************************************************************************)
EXTENDS CassetteLoad

MCChars == {}
MCDummyByte == [i \in 1..ByteBits |-> 0]
MCByte == [i \in 1..ByteBits |-> i % 2]
MCScrValues == [motor : BOOLEAN, rs423 : BOOLEAN]
MCControlWords == [div : Divisors, word : {5}, tx : {0}, rx : {TRUE}]

Leader(n) == [kind |-> "tone", count |-> n]
Gap(n) == [kind |-> "gap", count |-> n]
Block(bytes) == [kind |-> "data", bytes |-> bytes]

MCTapes == {<<Leader(LockThreshold), Gap(1), Block(<<MCDummyByte>>)>>}

MCChunks ==
  [kind : {"tone", "gap"}, count : 0..2]
    \cup [kind : {"toneWithByte"}, pre : 0..1, post : {1}]
    \cup {Block(b) : b \in {<<>>, <<MCByte, MCDummyByte>>}}
    \cup {[kind |-> "raw", bits |-> b] : b \in {<<>>, <<0, 1, 1>>}}
    \cup {[kind |-> "other"]}

MCRecordings ==
  {<<Leader(LockThreshold + l), Block(<<MCByte, MCDummyByte>>), Leader(t), Gap(g),
     Leader(LockThreshold), Block(<<MCDummyByte, MCByte>>), Leader(t)>> :
     l \in 0..1, t \in 0..1, g \in 1..2}
    \cup {<<c, d>> : c, d \in MCChunks}
=============================================================================
