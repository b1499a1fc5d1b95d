----------------------------- MODULE MCSystemVia ----------------------------
(***************************************************************************)
(* The system VIA for TLC.                                                 *)
(***************************************************************************)
EXTENDS SystemVia

Do(reg, values) == [rw : {"W"}, reg : {reg}, data : values]
See(reg) == {[rw |-> "R", reg |-> reg]}

\* Key codes, column in the low digit: 10, 11, 12 and the DIP switch at 02.
\* The code 0F has no key.
KEY_Q == {4}
KEY_3 == {0, 4}
KEY_4 == {1, 4}
KEY_DIP_7 == {1}
NO_SUCH_KEY == 0..3

\* Letters are the same key with SHIFT and without; a digit need not be.
MCKeymap ==
  [SHIFT |-> [s \in BOOLEAN |-> [key |-> KEY_SHIFT, shift |-> FALSE]],
   q     |-> [s \in BOOLEAN |-> [key |-> KEY_Q, shift |-> FALSE]],
   four  |-> [s \in BOOLEAN |-> [key |-> IF s THEN KEY_3 ELSE KEY_4, shift |-> s]]]

Menu(cpu, keys, mouse, vsync) == [cpu |-> cpu, keys |-> keys, mouse |-> mouse, vsync |-> vsync]

\* Keys come and go while the autoscan interrupts, and while the mouse does.
Typing == Menu(Do("IFR", {{"CA2"}}), {HostShift, "q", "four"}, FALSE, FALSE)
Leaving == Menu(Do("IFR", {{"CA2"}}), {"q", "four"}, TRUE, FALSE)

\* The keyboard is asked for one key after the other.
Reading ==
  Menu(Do("DDRA", {0..6}) \cup Do("DDRB", {0..3}) \cup Do("IORB", {{0, 1}})
         \cup Do("IORA", {KEY_Q, KEY_4, NO_SUCH_KEY}) \cup See("IORA"),
       {"q", "four"}, FALSE, FALSE)
ReadingModifiers ==
  Menu(Do("DDRA", {0..6}) \cup Do("DDRB", {0..3}) \cup Do("IORB", {{0, 1}, {0, 1, 3}})
         \cup Do("IORA", {KEY_SHIFT, KEY_DIP_7}) \cup See("IORA"),
       {HostShift}, FALSE, FALSE)

Lights ==
  Menu(Do("DDRB", {0..3, {3}}) \cup Do("IORB", {{1, 2}, {1, 2, 3}, {0, 1, 2}, {0, 1, 2, 3}}),
       {}, FALSE, FALSE)

\* Timers and their interrupts.
Timers ==
  Menu(UNION {Do(r, 0..(Digit - 1)) : r \in {"T1L_L", "T1L_H", "T1C_H", "T2C_L", "T2C_H"}}
         \cup Do("ACR", {{}, {"T1_CTL", "T1_PB7"}, {"T2_CTL"}}) \cup Do("IFR", {{"T1"}, {"T1", "T2"}})
         \cup Do("IER_SET", {{"T1"}, {"T2"}}) \cup Do("IER_CLEAR", {{"T1"}}) \cup See("T1C_L"),
       {}, FALSE, FALSE)

\* Vertical syncs, port A latched by them.
Latching ==
  Menu(Do("ACR", {{"PA_LATCH", "T2_CTL"}, {"T2_CTL"}}) \cup Do("PCR", {{}, {"CA1_POS"}, {"CA2_IND"}})
         \cup Do("IER_SET", {{"CA1", "CA2"}}) \cup Do("IFR", {{"CA1"}}) \cup See("IORA")
         \cup Do("DDRA", {0..6}) \cup Do("IORA", {KEY_Q}),
       {}, FALSE, TRUE)

MCMenus == {Typing, Leaving, Reading, ReadingModifiers, Lights, Timers, Latching}
=============================================================================
