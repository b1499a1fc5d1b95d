---------------------------- MODULE MCAciaFormats ----------------------------
(***************************************************************************)
(* The ACIA for TLC while the CPU rewrites the control register and the    *)
(* SCR: a short format with parity and a long one without, two divisors    *)
(* and a break.                                                            *)
(***************************************************************************)
EXTENDS AciaClocks

MCChars == {[i \in 1..LongWord |-> i % 2]}

MCFormats ==
  [div : Divisors, word : {3, 5}, tx : {0}, rx : {FALSE}]
    \cup [div : {2}, word : {3}, tx : {3}, rx : {FALSE}]
=============================================================================
