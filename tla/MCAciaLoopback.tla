--------------------------- MODULE MCAciaLoopback ---------------------------
(***************************************************************************)
(* The looped back ACIA for TLC: three- and four-bit words, every format,  *)
(* characters with an even and an odd number of ones.                      *)
(***************************************************************************)
EXTENDS AciaLoopback

MCChars == {[i \in 1..LongWord |-> i % 2], [i \in 1..LongWord |-> IF i = 2 THEN 0 ELSE 1]}

MCFormats == [div : Divisors, word : 0..7, tx : {0}, rx : {TRUE}]
=============================================================================
