----------------------------- MODULE BusTiming -----------------------------
(***************************************************************************)
(* The clocks of the machine and what Beeb::tick() does on each edge.      *)
(*                                                                         *)
(* The CPU runs on a 2 MHz clock, CLK_E_2_MHZ, that is stretched whenever  *)
(* it addresses a device of the 1 MHz bus; devices look at the bus only    *)
(* when the 1 MHz clock falls.  Reading or writing a device has side       *)
(* effects, so everything depends on each CPU access meeting exactly one   *)
(* falling edge.  The CPU and the devices are external to this module: an  *)
(* access is to memory, to a 1 MHz device or to the video ULA, and devices *)
(* raise and drop their interrupts as they like when they are ticked.      *)
(***************************************************************************)
EXTENDS Naturals, Sequences

VARIABLES
  ticks,      \* Clock::ticks_
  clks,       \* Clock::clks_: the clocks that are high
  stretch,    \* Clock::stretch_time_ and stretch_seq_: what is left of the sequence
  resetting,  \* Beeb::reset() is under way
  access,     \* what the CPU's bus cycle addresses; "none" before the first
  served,     \* history: times a 1 MHz device was ticked in this bus cycle
  memOps,     \* history: memory reads and writes in this bus cycle
  irq,        \* some device asserts its interrupt
  cachedIrq,  \* cached_irq_
  unseen      \* history: CPU ticks since irq is asserted without the CPU seeing it

clockVars == <<ticks, clks, stretch>>
busVars   == <<access, served, memOps>>
irqVars   == <<irq, cachedIrq, unseen>>
vars == <<clockVars, resetting, busVars, irqVars>>

Clocks == {"1M", "E2M", "2M", "4M", "8M", "16M"}

\* is_1mhz_device_address(): FRED, JIM, and the SHEILA devices, which all say
\* is_1mhz_device().  Only the latter are ticked.
Accesses == {"memory", "sheila", "fred_jim", "vula"}
SlowAccesses == {"sheila", "fred_jim"}

Init ==
  /\ ticks = 0
  /\ clks = {}
  /\ stretch = << >>
  /\ resetting = TRUE
  /\ access = "none"
  /\ served = 0
  /\ memOps = 0
  /\ irq = FALSE
  /\ cachedIrq = FALSE
  /\ unseen = 0

-----------------------------------------------------------------------------
(***************************************************************************)
(* Clock.  The stretch sequences are consumed from their last element.     *)
(***************************************************************************)
InPhaseSeq == <<FALSE, FALSE, TRUE>>
OutOfPhaseSeq == <<FALSE, FALSE, TRUE, FALSE, FALSE>>

NextTick == (ticks + 1) % 16

ShouldFlip == IF stretch = << >> THEN TRUE ELSE stretch[Len(stretch)]

\* The clocks that change level in the next Clock::tick().
Edges ==
  {"16M"} \cup
  (IF NextTick % 2 = 0 THEN {"8M"} ELSE {}) \cup
  (IF NextTick % 4 = 0 THEN {"4M"} ELSE {}) \cup
  (IF NextTick % 8 = 0 THEN {"2M"} ELSE {}) \cup
  (IF NextTick % 16 = 0 THEN {"1M"} ELSE {}) \cup
  (IF NextTick % 8 = 0 /\ ShouldFlip THEN {"E2M"} ELSE {})

\* The levels after it, and went_high(), went_low().
Levels == (clks \ Edges) \cup (Edges \ clks)
WentHigh(c) == c \in Edges \ clks
WentLow(c) == c \in Edges \cap clks

\* What is left of the stretch sequence after it.
Remaining ==
  IF NextTick % 8 = 0 /\ stretch # << >> THEN SubSeq(stretch, 1, Len(stretch) - 1) ELSE stretch

\* Clock::tick()
ClockTick == ticks' = NextTick /\ clks' = Levels

\* begin_time_stretch(), called just after the clock's tick.
BeginTimeStretch ==
  IF ("E2M" \in Levels) = ("1M" \in Levels) THEN InPhaseSeq ELSE OutOfPhaseSeq

-----------------------------------------------------------------------------
(***************************************************************************)
(* Beeb::tick(), in the order of its sections.                             *)
(***************************************************************************)
CpuTicks == WentHigh("E2M")

\* Variant of CpuSection: FRED and JIM stretch the clock, SHEILA does not.
CpuSectionNoSheila ==
  IF CpuTicks
  THEN /\ access' \in Accesses
       /\ stretch' = IF access' = "fred_jim" THEN BeginTimeStretch ELSE Remaining
  ELSE access' = access /\ stretch' = Remaining

\* The CPU samples the interrupt line and moves to its next bus cycle.
CpuSection ==
  IF CpuTicks
  THEN /\ access' \in Accesses
       /\ stretch' = IF access' \in SlowAccesses THEN BeginTimeStretch ELSE Remaining
  ELSE access' = access /\ stretch' = Remaining

\* The CPU has the RAM in one half of each 2 MHz cycle, the CRTC in the other.
MemoryTurn == WentHigh("4M") /\ "2M" \in Levels

DeviceTurn == WentLow("1M")

Capped(n) == IF n > 2 THEN 2 ELSE n

\* Page-table dispatch, and the SHEILA dispatch of the 1 MHz section.
Dispatch ==
  /\ memOps' = Capped((IF CpuTicks THEN 0 ELSE memOps)
                      + (IF MemoryTurn /\ access' = "memory" THEN 1 ELSE 0))
  /\ served' = Capped((IF CpuTicks THEN 0 ELSE served)
                      + (IF DeviceTurn /\ access' = "sheila" THEN 1 ELSE 0))

\* Variant of Interrupts: the cache is brought up to date only when a device
\* was addressed.
InterruptsWhenAddressed ==
  \E i \in BOOLEAN :
    /\ ~DeviceTurn => i = irq
    /\ cachedIrq' = IF DeviceTurn /\ access' = "sheila" THEN i ELSE cachedIrq
    /\ irq' \in (IF WentLow("16M") THEN BOOLEAN ELSE {i})
    /\ unseen' = IF ~irq \/ ~i \/ ~irq' \/ (CpuTicks /\ cachedIrq) THEN 0
                 ELSE IF CpuTicks THEN Capped(unseen) + 1 ELSE unseen

\* Interrupts: devices may change theirs when the 1 MHz clock falls, and then
\* the cache is brought up to date; the ACIA may change its own whenever the
\* serial ULA clocks it, as the 16 MHz clock falls.
Interrupts ==
  \E i \in BOOLEAN :
    /\ ~DeviceTurn => i = irq
    /\ cachedIrq' = IF DeviceTurn THEN i ELSE cachedIrq
    /\ irq' \in (IF WentLow("16M") THEN BOOLEAN ELSE {i})
    /\ unseen' = IF ~irq \/ ~i \/ ~irq' \/ (CpuTicks /\ cachedIrq) THEN 0
                 ELSE IF CpuTicks THEN unseen + 1 ELSE unseen

BeebTick ==
  /\ ~resetting
  /\ ClockTick
  /\ CpuSection
  /\ Dispatch
  /\ Interrupts
  /\ UNCHANGED resetting

\* BREAK: Beeb::reset() begins, wherever the clocks are.
BeginReset ==
  /\ ~resetting
  /\ resetting' = TRUE
  /\ access' = "none" /\ served' = 0 /\ memOps' = 0 /\ unseen' = 0
  /\ UNCHANGED <<clockVars, irq, cachedIrq>>

\* One pass of the loop in Beeb::reset(): only the clock advances with the
\* CPU, and no edge of it is acted on, until the CPU fetches.
ResetTick ==
  /\ resetting
  /\ ClockTick
  /\ stretch' = Remaining
  /\ resetting' \in BOOLEAN
  /\ UNCHANGED <<busVars, irqVars>>

Next == BeebTick \/ BeginReset \/ ResetTick

Spec == Init /\ [][Next]_vars

-----------------------------------------------------------------------------
\* Each bus cycle in which the CPU addresses a 1 MHz device of SHEILA ticks the
\* device exactly once before the CPU goes on, and each bus cycle to memory is
\* one read or write of it in the CPU's half of the 2 MHz cycle, whatever the
\* phase of the clocks, also after a reset: a register with a read side effect
\* is read once, a write happens once.
AccessServedOnce ==
  [][BeebTick /\ CpuTicks
       => /\ access = "sheila" => served = 1
          /\ access = "memory" => memOps = 1]_vars

\* An interrupt a device keeps asserting reaches the CPU by its third tick.
InterruptIsSeen == unseen <= 2
=============================================================================
