-------------------------------- MODULE Via ---------------------------------
(***************************************************************************)
(* A 6522 VIA: two ports, two timers and the interrupt flags.              *)
(*                                                                         *)
(* ACR and PCR are the sets of their bits that mean something; a flag of   *)
(* IFR or IER goes by the name of its source.  A timer value has two       *)
(* digits, which the CPU writes one by one.  The shift register, CB1, CB2  *)
(* and the level of CA2 have no effect on anything in the program, and the *)
(* values of registers other than port A that the CPU reads are left out.  *)
(***************************************************************************)
EXTENDS ViaConnections

CONSTANTS
  Digit,           \* the values of half a timer register are 0..Digit-1 (256)
  Uninitialised    \* bound: what timer 2, which is not initialised, may hold

ASSUME ViaAssumption ==
  /\ Digit \in Nat \ {0, 1}
  /\ Uninitialised \subseteq 0..(Digit - 1)

VARIABLES
  ddra, ora,        \* data direction and output registers
  ddrb, orb,
  acr,              \* PA_LATCH, T2_CTL, T1_CTL, T1_PB7
  pcr,              \* CA1_POS: positive edges count; CA2_IND: CA2 is independent
  ca1,              \* the level of CA1
  pa_latch,         \* port A at the last active edge
  irqs,             \* ifr, ier and irq_active_
  timer1_count, timer1_latch, pb7,
  timer2_count, timer2_latch

portVars == <<ddra, ora, ddrb, orb>>
controlVars == <<acr, pcr>>
timerVars == <<timer1_count, timer1_latch, pb7, timer2_count, timer2_latch>>
inputVars == <<ca1, pa_latch, pa_provider, ca1_provider, ca2_provider>>
outputVars == <<pa_sub, pb_sub>>
viaVars == <<portVars, controlVars, irqs, timerVars, inputVars, outputVars>>

Sources == {"CA2", "CA1", "SR", "CB2", "CB1", "T2", "T1"}
AcrBits == {"PA_LATCH", "T2_CTL", "T1_CTL", "T1_PB7"}
PcrBits == {"CA1_POS", "CA2_IND"}
TimerModulus == Digit * Digit
Low(t) == t % Digit
High(t) == t \div Digit

PaMask == 0..6    \* what the keyboard listens to
PbMask == 0..3    \* what the addressable latch listens to

-----------------------------------------------------------------------------
(***************************************************************************)
(* Interrupts.  Bit 7 of IFR and of IER is stored as the flag "IRQ".       *)
(***************************************************************************)
update_irq_cache(i) == [i EXCEPT !.active = (i.ifr \cap i.ier) \ {"IRQ"} # {}]

raise_irq(i, s) ==
  IF s \in i.ifr THEN i ELSE update_irq_cache([i EXCEPT !.ifr = @ \cup {s, "IRQ"}])

\* Variant of clear_irq: the stored bit 7 stays.
clear_irq_keep_bit7(i, ss) ==
  IF ss \cap i.ifr = {} THEN i ELSE update_irq_cache([i EXCEPT !.ifr = @ \ ss])

\* clear_irq(), for one source or, as a write to IFR calls it, for several.
clear_irq(i, ss) ==
  LET left == i.ifr \ ss
  IN IF left = i.ifr THEN i
     ELSE update_irq_cache([i EXCEPT !.ifr = IF left = {"IRQ"} THEN {} ELSE left])

\* Bit 7 of what is written says whether to set or to clear, and is kept in IER.
write_irq_enable(set, bits) ==
  irqs' = update_irq_cache([irqs EXCEPT !.ier = IF set THEN @ \cup bits \cup {"IRQ"}
                                                ELSE @ \ (bits \cup {"IRQ"})])

-----------------------------------------------------------------------------
(***************************************************************************)
(* Ports.                                                                  *)
(***************************************************************************)
Driven(out, ddr) == (out \cap ddr) \cup (Bits \ ddr)

\* The value of port A; it is taken from the provider.
read_port_a ==
  (IF pa_provider.has THEN pa_provider.data \ ddra ELSE {}) \cup (ora \cap ddra)
PaRead == IF "PA_LATCH" \in acr THEN pa_latch ELSE read_port_a

write_port_a(data) ==
  /\ ora' = data
  /\ pa_sub' = IF ddra = {} THEN pa_sub ELSE Notified(pa_sub, PaMask, Driven(data, ddra), ddra)
  /\ irqs' = clear_irq(irqs, {"CA1"} \cup (IF ddra # {} /\ "CA2_IND" \notin pcr THEN {"CA2"} ELSE {}))
  /\ UNCHANGED <<ddra, ddrb, orb, controlVars, timerVars, inputVars, pb_sub>>

write_port_b(data) ==
  LET pins == Driven(data, ddrb)
      pb == IF "T1_PB7" \in acr THEN (pins \ {7}) \cup (IF pb7 = 1 THEN {7} ELSE {}) ELSE pins
  IN /\ orb' = data
     /\ pb_sub' = IF ddrb = {} THEN pb_sub ELSE Notified(pb_sub, PbMask, pb, ddrb)
     /\ UNCHANGED <<ddra, ora, ddrb, controlVars, irqs, timerVars, inputVars, pa_sub>>

-----------------------------------------------------------------------------
(***************************************************************************)
(* Register accesses.                                                      *)
(***************************************************************************)
mmio_read(reg) ==
  \/ /\ reg = "IORA"
     /\ pa_provider' = IF "PA_LATCH" \in acr THEN pa_provider ELSE Taken(pa_provider)
     /\ irqs' = clear_irq(irqs, {"CA1"})
     /\ UNCHANGED <<portVars, controlVars, timerVars, ca1, pa_latch, ca1_provider, ca2_provider,
                    outputVars>>
  \/ /\ reg = "T1C_L"
     /\ irqs' = clear_irq(irqs, {"T1"})
     /\ UNCHANGED <<portVars, controlVars, timerVars, inputVars, outputVars>>

\* A write to half of the latch of timer 1, to its counter, and to timer 2.
WriteLatch(low, high) ==
  /\ timer1_latch' = Digit * high + low
  /\ UNCHANGED <<portVars, controlVars, irqs, timer1_count, pb7, timer2_count, timer2_latch,
                 inputVars, outputVars>>
WriteT1CH(data) ==
  /\ timer1_latch' = Digit * data + Low(timer1_latch)
  /\ timer1_count' = timer1_latch'
  /\ pb7' = IF "T1_PB7" \in acr THEN 0 ELSE pb7
  /\ irqs' = clear_irq(irqs, {"T1"})
  /\ UNCHANGED <<portVars, controlVars, timer2_count, timer2_latch, inputVars, outputVars>>
WriteT2CL(data) ==
  /\ timer2_latch' = data
  /\ UNCHANGED <<portVars, controlVars, irqs, timer1_count, timer1_latch, pb7, timer2_count,
                 inputVars, outputVars>>
WriteT2CH(data) ==
  /\ timer2_count' = Digit * data + timer2_latch
  /\ irqs' = clear_irq(irqs, {"T2"})
  /\ UNCHANGED <<portVars, controlVars, timer1_count, timer1_latch, pb7, timer2_latch,
                 inputVars, outputVars>>

mmio_write(reg, data) ==
  \/ reg = "IORB" /\ write_port_b(data)
  \/ reg = "IORA" /\ write_port_a(data)
  \/ /\ reg = "DDRB" /\ ddrb' = data
     /\ UNCHANGED <<ddra, ora, orb, controlVars, irqs, timerVars, inputVars, outputVars>>
  \/ /\ reg = "DDRA" /\ ddra' = data
     /\ UNCHANGED <<ora, ddrb, orb, controlVars, irqs, timerVars, inputVars, outputVars>>
  \/ reg = "T1L_L" /\ WriteLatch(data, High(timer1_latch))
  \/ reg = "T1L_H" /\ WriteLatch(Low(timer1_latch), data)
  \/ reg = "T1C_H" /\ WriteT1CH(data)
  \/ reg = "T2C_L" /\ WriteT2CL(data)
  \/ reg = "T2C_H" /\ WriteT2CH(data)
  \/ /\ reg = "ACR" /\ acr' = data
     /\ UNCHANGED <<portVars, pcr, irqs, timerVars, inputVars, outputVars>>
  \/ /\ reg = "PCR" /\ pcr' = data
     /\ UNCHANGED <<portVars, acr, irqs, timerVars, inputVars, outputVars>>
  \/ /\ reg = "IFR" /\ irqs' = clear_irq(irqs, data)
     /\ UNCHANGED <<portVars, controlVars, timerVars, inputVars, outputVars>>
  \/ /\ reg = "IER_SET" /\ write_irq_enable(TRUE, data)
     /\ UNCHANGED <<portVars, controlVars, timerVars, inputVars, outputVars>>
  \/ /\ reg = "IER_CLEAR" /\ write_irq_enable(FALSE, data)
     /\ UNCHANGED <<portVars, controlVars, timerVars, inputVars, outputVars>>

-----------------------------------------------------------------------------
(***************************************************************************)
(* tick_timers(): both timers, then CA1, then CA2.                         *)
(***************************************************************************)
T1Expires == timer1_count = 1
T2Counts == "T2_CTL" \notin acr
T2Expires == T2Counts /\ timer2_count = 1

\* What timer 1 counts after this tick.
T1Next ==
  CASE timer1_count = 0 -> 0
    [] T1Expires -> IF "T1_CTL" \in acr THEN timer1_latch ELSE 0
    [] OTHER -> timer1_count - 1

check_timers ==
  /\ timer1_count' = T1Next
  /\ pb7' = IF ~T1Expires \/ "T1_PB7" \notin acr THEN pb7
             ELSE IF "T1_CTL" \in acr THEN 1 - pb7 ELSE 1
  /\ timer2_count' = IF T2Counts THEN (timer2_count + TimerModulus - 1) % TimerModulus
                     ELSE timer2_count
  /\ UNCHANGED <<timer1_latch, timer2_latch>>

Raised(i, s, on) == IF on THEN raise_irq(i, s) ELSE i

\* check_ca1() with set_ca1(): a new level that is the active one.
Ca1Level == IF ca1_provider.has THEN (IF 0 \in ca1_provider.data THEN 1 ELSE 0) ELSE ca1
Ca1Edge == Ca1Level # ca1 /\ (Ca1Level = 1) = ("CA1_POS" \in pcr)
Ca1Latches == Ca1Edge /\ "PA_LATCH" \in acr

check_ca1 ==
  /\ ca1' = Ca1Level
  /\ ca1_provider' = Taken(ca1_provider)
  /\ pa_latch' = IF Ca1Latches THEN read_port_a ELSE pa_latch
  /\ pa_provider' = IF Ca1Latches THEN Taken(pa_provider) ELSE pa_provider

\* check_ca2(): the keyboard pulls CA2 low.
Ca2Falls == ca2_provider.has /\ ca2_provider.data = {}
check_ca2 == ca2_provider' = Taken(ca2_provider)

tick_timers ==
  /\ check_timers
  /\ check_ca1
  /\ check_ca2
  /\ irqs' = Raised(Raised(Raised(Raised(irqs, "T1", T1Expires), "T2", T2Expires),
                           "CA1", Ca1Edge), "CA2", Ca2Falls)
  /\ UNCHANGED <<portVars, controlVars>>

\* The counter and the latch of timer 2 are not initialised.
ViaInit ==
  /\ ddra = {} /\ ora = {} /\ ddrb = {} /\ orb = {}
  /\ acr = {} /\ pcr = {}
  /\ ca1 = 0 /\ pa_latch = {}
  /\ irqs = [ifr |-> {}, ier |-> {}, active |-> FALSE]
  /\ timer1_count = 0 /\ timer1_latch = 0 /\ pb7 = 0
  /\ timer2_latch \in Uninitialised
  /\ \E high, low \in Uninitialised : timer2_count = Digit * high + low
  /\ pa_provider = NewProvider({}) /\ ca1_provider = NewProvider({})
  /\ ca2_provider = NewProvider({0})
  /\ pa_sub = NewSubscriber /\ pb_sub = NewSubscriber

-----------------------------------------------------------------------------
(***************************************************************************)
(* Properties.                                                             *)
(***************************************************************************)
\* What update_irq_cache(), raise_irq() and clear_irq() keep between them.
Consistent(i) ==
  /\ i.active <=> \E s \in Sources : s \in i.ifr /\ s \in i.ier
  /\ "IRQ" \in i.ifr <=> i.ifr \ {"IRQ"} # {}

\* The interrupt output, cached in irq_active_, is asserted exactly when an
\* enabled flag is set, and the stored bit 7 of IFR is set exactly when any
\* flag is, through every order of timers, edges and register accesses.
IrqIsConsistent == Consistent(irqs)
=============================================================================
