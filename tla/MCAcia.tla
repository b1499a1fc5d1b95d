------------------------------- MODULE MCAcia -------------------------------
(***************************************************************************)
(* The ACIA's registers for TLC.  The status register and the interrupts:  *)
(* one character to send, one word format with parity, every combination   *)
(* of the interrupt enables.                                               *)
(***************************************************************************)
EXTENDS AciaHistory

MCChars == {Zero}

MCControlWords == [div : Divisors, word : {3}, tx : {0, 1}, rx : BOOLEAN]

=============================================================================
