-------------------------- MODULE BusTimingProofs --------------------------
(***************************************************************************)
(* The stretched clock gives every access of the CPU its one turn, and the *)
(* interrupt cache is never older than the CPU can notice.                 *)
(***************************************************************************)
EXTENDS BusTiming, SequenceTheorems, TLAPS

-----------------------------------------------------------------------------
(***************************************************************************)
(* The phases of the clocks.  The count says what all of them do but the   *)
(* slowest, which halves once more, and the CPU's, which is stretched.     *)
(***************************************************************************)
CountsClocks ==
  /\ ticks \in 0..15
  /\ "4M" \in clks <=> ticks \in (4..7) \cup (12..15)
  /\ "2M" \in clks <=> ticks >= 8

High(c) == c \in clks

\* Both sequences, and what is left of either, have their one TRUE in the third
\* place: the only thing to know is how much is left.
Left(n) == [i \in 1..n |-> i = 3]

\* Where the CPU's clock can be: high or low, how much of a stretch sequence is
\* left, in which half of the 2 MHz cycle, and, during a stretch, in which half
\* of the 1 MHz cycle.
PhaseInv ==
  \/ High("E2M") /\ stretch = Left(0) /\ ticks >= 8
  \/ High("E2M") /\ stretch = Left(5) /\ ticks >= 8 /\ ~High("1M")
  \/ High("E2M") /\ stretch = Left(4) /\ ticks < 8 /\ High("1M")
  \/ High("E2M") /\ stretch = Left(3) /\ ticks >= 8 /\ High("1M")
  \/ ~High("E2M") /\ stretch = Left(2) /\ ticks < 8 /\ ~High("1M")
  \/ ~High("E2M") /\ stretch = Left(1) /\ ticks >= 8 /\ ~High("1M")
  \/ ~High("E2M") /\ stretch = Left(0) /\ ticks < 8

ClockInv == CountsClocks /\ PhaseInv

\* What the sections of a tick see of the clocks, in terms of the count.
LEMMA TurnsOfTheClock ==
  ASSUME CountsClocks
  PROVE  /\ NextTick = IF ticks = 15 THEN 0 ELSE ticks + 1
         /\ "4M" \in Levels <=> NextTick \in (4..7) \cup (12..15)
         /\ "2M" \in Levels <=> NextTick >= 8
         /\ "1M" \in Levels <=> (High("1M") <=> ticks # 15)
         /\ "E2M" \in Levels <=> (High("E2M") <=> ~(ticks \in {7, 15} /\ ShouldFlip))
         /\ MemoryTurn <=> ticks = 11
         /\ DeviceTurn <=> ticks = 15 /\ High("1M")
         /\ CpuTicks <=> ticks \in {7, 15} /\ ShouldFlip /\ ~High("E2M")
         /\ NextTick % 8 = 0 <=> ticks \in {7, 15}
<1>1. /\ NextTick = IF ticks = 15 THEN 0 ELSE ticks + 1
      /\ NextTick % 4 = 0 <=> ticks \in {3, 7, 11, 15}
      /\ NextTick % 8 = 0 <=> ticks \in {7, 15}
      /\ NextTick % 16 = 0 <=> ticks = 15
  BY DEF CountsClocks, NextTick
<1>2. /\ "4M" \in Edges <=> ticks \in {3, 7, 11, 15}
      /\ "2M" \in Edges <=> ticks \in {7, 15}
      /\ "1M" \in Edges <=> ticks = 15
      /\ "E2M" \in Edges <=> ticks \in {7, 15} /\ ShouldFlip
  BY <1>1 DEF Edges
<1>3. /\ "4M" \in Levels <=> NextTick \in (4..7) \cup (12..15)
      /\ "2M" \in Levels <=> NextTick >= 8
      /\ "1M" \in Levels <=> (High("1M") <=> ticks # 15)
      /\ "E2M" \in Levels <=> (High("E2M") <=> ~(ticks \in {7, 15} /\ ShouldFlip))
  BY <1>1, <1>2 DEF Levels, CountsClocks, High
<1>4. MemoryTurn <=> ticks = 11
  BY <1>1, <1>2, <1>3 DEF MemoryTurn, WentHigh, CountsClocks
<1>5. /\ DeviceTurn <=> ticks = 15 /\ High("1M")
      /\ CpuTicks <=> ticks \in {7, 15} /\ ShouldFlip /\ ~High("E2M")
  BY <1>2 DEF DeviceTurn, CpuTicks, WentHigh, WentLow, High
<1> QED
  BY <1>1, <1>3, <1>4, <1>5

\* The two stretch sequences, by what is left of them.
LEMMA SequencesAreLeft ==
  Left(0) = << >> /\ Left(3) = InPhaseSeq /\ Left(5) = OutOfPhaseSeq
<1>1. /\ Left(3) = <<1 = 3, 2 = 3, 3 = 3>>
      /\ Left(5) = <<1 = 3, 2 = 3, 3 = 3, 4 = 3, 5 = 3>>
      /\ Left(0) = << >>
  BY DEF Left
<1>2. ~(1 = 3) /\ ~(2 = 3) /\ 3 = 3 /\ ~(4 = 3) /\ ~(5 = 3)
  OBVIOUS
<1> QED
  BY <1>1, <1>2 DEF InPhaseSeq, OutOfPhaseSeq

\* The clock consumes a sequence from its end.
LEMMA LeftShrinks ==
  ASSUME NEW n \in 1..5
  PROVE  /\ Left(n) # << >> /\ Len(Left(n)) = n
         /\ Left(n)[n] <=> n = 3
         /\ SubSeq(Left(n), 1, n - 1) = Left(n - 1)
<1>1. /\ Left(n) \in Seq(BOOLEAN) /\ Len(Left(n)) = n
      /\ Left(n - 1) \in Seq(BOOLEAN) /\ Len(Left(n - 1)) = n - 1
  BY DEF Left
<1>2. /\ Left(n)[n] <=> n = 3
      /\ \A i \in 1..(n - 1) : Left(n)[i] = Left(n - 1)[i]
  <2>1. \A m \in 0..5 : \A i \in 1..m : Left(m)[i] = (i = 3)
    BY DEF Left
  <2>2. n \in 0..5 /\ n - 1 \in 0..5 /\ n \in 1..n /\ 1..(n - 1) \subseteq 1..n
    OBVIOUS
  <2>3. \A i \in 1..(n - 1) : Left(n)[i] = (i = 3) /\ Left(n - 1)[i] = (i = 3)
    BY <2>1, <2>2
  <2>4. Left(n)[n] = (n = 3)
    BY <2>1, <2>2
  <2> HIDE DEF Left
  <2>5. \A i \in 1..(n - 1) : Left(n)[i] = Left(n - 1)[i]
    BY <2>3, Zenon
  <2> QED
    BY <2>4, <2>5
<1> HIDE DEF Left
<1> DEFINE front == SubSeq(Left(n), 1, n - 1)
<1>3. /\ front \in Seq(BOOLEAN)
      /\ Len(front) = n - 1
      /\ \A i \in 1..(n - 1) : front[i] = Left(n)[i]
  <2>1. \A i \in 1..(n - 1) : Left(n)[i] \in BOOLEAN
    BY <1>1
  <2>2. 1 \in Int /\ n - 1 \in Int
    OBVIOUS
  <2> QED
    BY <2>1, <2>2, SubSeqProperties
<1> HIDE DEF front
<1>4. front = Left(n - 1)
  BY <1>1, <1>2, <1>3, SeqEqual
<1> QED
  BY <1>1, <1>2, <1>4 DEF front

\* What an edge of the 2 MHz clock does with what is left.
LEMMA StretchElements ==
  ASSUME NEW n \in 0..5, stretch = Left(n)
  PROVE  /\ ShouldFlip <=> n \in {0, 3}
         /\ Remaining = Left(IF NextTick % 8 = 0 /\ n > 0 THEN n - 1 ELSE n)
<1>1. CASE n = 0
  BY <1>1, SequencesAreLeft DEF ShouldFlip, Remaining
<1>2. CASE n \in 1..5
  <2>1. /\ stretch # << >> /\ Len(stretch) = n
        /\ stretch[n] <=> n = 3
        /\ SubSeq(stretch, 1, n - 1) = Left(n - 1)
    BY <1>2, LeftShrinks
  <2>2. ShouldFlip <=> n = 3
    BY <2>1, Zenon DEF ShouldFlip
  <2>3. Remaining = IF NextTick % 8 = 0 THEN Left(n - 1) ELSE Left(n)
    BY <1>2, <2>1 DEF Remaining
  <2> QED
    BY <1>2, <2>2, <2>3
<1>3. n = 0 \/ n \in 1..5
  OBVIOUS
<1> QED
  BY <1>1, <1>2, <1>3

-----------------------------------------------------------------------------
(***************************************************************************)
(* The CPU's clock rises only half way through a 1 MHz half-cycle, where   *)
(* no stretch is left, and is stretched to fall with the 1 MHz clock.      *)
(***************************************************************************)
\* A device is served as the stretched clock falls, memory three ticks before
\* the clock's fall.
BusInv ==
  /\ served \in Nat /\ memOps \in Nat
  /\ resetting => access = "none"
  /\ access = "sheila" => IF High("E2M") THEN stretch # Left(0) /\ served = 0 ELSE served = 1
  /\ access = "memory" => stretch = Left(0) /\ memOps = IF High("E2M") /\ ticks < 12 THEN 0 ELSE 1

\* How often the CPU's clock can have risen since the cache was brought up to date.
RisesSince ==
  (IF ticks >= 8 THEN 1 ELSE 0) + (IF High("1M") THEN 1 ELSE 0)

IrqInv ==
  /\ irq \in BOOLEAN /\ cachedIrq \in BOOLEAN
  /\ unseen \in 0..2
  /\ ~cachedIrq => unseen <= RisesSince
  /\ resetting => unseen = 0

BoardInv == ClockInv /\ BusInv /\ IrqInv

\* The board at power on.
LEMMA BoardInit == Init => BoardInv
<1> SUFFICES ASSUME Init PROVE BoardInv
  OBVIOUS
<1>1. ticks = 0 /\ clks = {} /\ stretch = Left(0)
  BY SequencesAreLeft DEF Init
<1>2. ClockInv
  BY <1>1 DEF ClockInv, CountsClocks, PhaseInv, High
<1>3. BusInv
  BY DEF Init, BusInv
<1>4. IrqInv
  <2>1. irq \in BOOLEAN /\ cachedIrq \in BOOLEAN
    BY Zenon DEF Init
  <2> QED
    BY <2>1 DEF Init, IrqInv, RisesSince
<1> QED
  BY <1>2, <1>3, <1>4 DEF BoardInv

\* The CPU's clock rises where the stretch is over, with the 2 MHz clock.
LEMMA CpuTurn ==
  ASSUME ClockInv
  PROVE  CpuTicks <=> ticks = 7 /\ stretch = Left(0) /\ ~High("E2M")
<1> DEFINE rises == ticks \in {7, 15} /\ ShouldFlip /\ ~High("E2M")
<1>1. CpuTicks <=> rises
  BY TurnsOfTheClock DEF ClockInv
<1>2. \A n \in 0..5 : stretch = Left(n) => (ShouldFlip <=> n \in {0, 3})
  BY StretchElements
<1>3. CASE High("E2M")
  BY <1>1, <1>3
<1>4. CASE ~High("E2M") /\ stretch = Left(2) /\ ticks < 8
  <2>1. ~ShouldFlip /\ stretch # Left(0)
    <3>1. Left(0) = << >> /\ Left(2) # << >>
      BY SequencesAreLeft, LeftShrinks
    <3> QED
      BY <1>2, <1>4, <3>1
  <2> QED
    BY <1>1, <2>1
<1>5. CASE ~High("E2M") /\ stretch = Left(1) /\ ticks >= 8
  <2>1. ~ShouldFlip
    BY <1>2, <1>5
  <2> QED
    BY <1>1, <1>5, <2>1 DEF ClockInv, CountsClocks
<1>6. CASE ~High("E2M") /\ stretch = Left(0) /\ ticks < 8
  <2>1. ShouldFlip
    BY <1>2, <1>6
  <2> QED
    BY <1>1, <1>6, <2>1
<1> QED
  BY <1>3, <1>4, <1>5, <1>6 DEF ClockInv, PhaseInv

\* A stretch begins on the sequence that fits the 1 MHz clock.
LEMMA StretchBegins ==
  ASSUME ClockInv, CpuTicks
  PROVE  BeginTimeStretch = IF High("1M") THEN Left(3) ELSE Left(5)
<1>1. ticks = 7 /\ ~High("E2M") /\ ShouldFlip
  BY CpuTurn, TurnsOfTheClock DEF ClockInv
<1>2. "E2M" \in Levels /\ ("1M" \in Levels <=> High("1M"))
  BY <1>1, TurnsOfTheClock DEF ClockInv
<1>3. BeginTimeStretch = IF "1M" \in Levels THEN InPhaseSeq ELSE OutOfPhaseSeq
  BY <1>2, Zenon DEF BeginTimeStretch
<1> QED
  BY <1>2, <1>3, SequencesAreLeft

\* A tick of the clock, after which the CPU may stretch it.
LEMMA ClockStep ==
  ASSUME ClockInv, ClockTick,
         stretch' = Remaining \/ (CpuTicks /\ stretch' = BeginTimeStretch)
  PROVE  ClockInv'
<1>1. /\ ticks \in 0..15
      /\ ticks' = IF ticks = 15 THEN 0 ELSE ticks + 1
      /\ High("1M")' <=> (High("1M") <=> ticks # 15)
      /\ High("E2M")' <=> (High("E2M") <=> ~(ticks \in {7, 15} /\ ShouldFlip))
  BY TurnsOfTheClock DEF ClockInv, CountsClocks, ClockTick, High
<1>2. CountsClocks'
  <2>1. /\ "4M" \in clks' <=> ticks' \in (4..7) \cup (12..15)
        /\ "2M" \in clks' <=> ticks' >= 8
    BY TurnsOfTheClock DEF ClockInv, ClockTick
  <2> QED
    BY <1>1, <2>1 DEF CountsClocks
<1>3. ASSUME NEW n \in 0..5, stretch = Left(n)
      PROVE  /\ ShouldFlip <=> n \in {0, 3}
             /\ Remaining = Left(IF ticks \in {7, 15} /\ n > 0 THEN n - 1 ELSE n)
  BY <1>3, StretchElements, TurnsOfTheClock DEF ClockInv
<1>4. CASE CpuTicks /\ stretch' = BeginTimeStretch
  <2>1. stretch' = IF High("1M") THEN Left(3) ELSE Left(5)
    BY <1>4, StretchBegins
  <2>2. ticks = 7 /\ ~High("E2M") /\ ShouldFlip
    BY <1>3, <1>4, CpuTurn
  <2>3. ticks' >= 8 /\ High("E2M")' /\ (High("1M")' <=> High("1M"))
    BY <1>1, <2>2
  <2> QED
    BY <1>2, <2>1, <2>3 DEF ClockInv, PhaseInv
<1>5. CASE stretch' = Remaining
  <2>1. CASE High("E2M") /\ stretch = Left(0) /\ ticks >= 8
    BY <1>1, <1>2, <1>3, <1>5, <2>1 DEF ClockInv, PhaseInv
  <2>2. CASE High("E2M") /\ stretch = Left(5) /\ ticks >= 8 /\ ~High("1M")
    BY <1>1, <1>2, <1>3, <1>5, <2>2 DEF ClockInv, PhaseInv
  <2>3. CASE High("E2M") /\ stretch = Left(4) /\ ticks < 8 /\ High("1M")
    BY <1>1, <1>2, <1>3, <1>5, <2>3 DEF ClockInv, PhaseInv
  <2>4. CASE High("E2M") /\ stretch = Left(3) /\ ticks >= 8 /\ High("1M")
    BY <1>1, <1>2, <1>3, <1>5, <2>4 DEF ClockInv, PhaseInv
  <2>5. CASE ~High("E2M") /\ stretch = Left(2) /\ ticks < 8 /\ ~High("1M")
    BY <1>1, <1>2, <1>3, <1>5, <2>5 DEF ClockInv, PhaseInv
  <2>6. CASE ~High("E2M") /\ stretch = Left(1) /\ ticks >= 8 /\ ~High("1M")
    BY <1>1, <1>2, <1>3, <1>5, <2>6 DEF ClockInv, PhaseInv
  <2>7. CASE ~High("E2M") /\ stretch = Left(0) /\ ticks < 8
    BY <1>1, <1>2, <1>3, <1>5, <2>7 DEF ClockInv, PhaseInv
  <2> QED
    BY <2>1, <2>2, <2>3, <2>4, <2>5, <2>6, <2>7 DEF ClockInv, PhaseInv
<1> QED
  BY <1>4, <1>5

\* A stretch in progress is not an empty one.
LEMMA SomethingLeft == \A n \in 1..5 : Left(n) # Left(0)
BY LeftShrinks, SequencesAreLeft

\* What a tick of the board does to the clocks and counts.
LEMMA BoardTick ==
  ASSUME BoardInv, BeebTick
  PROVE  /\ ClockInv'
         /\ ticks' = IF ticks = 15 THEN 0 ELSE ticks + 1
         /\ High("1M")' <=> (High("1M") <=> ticks # 15)
         /\ High("E2M")' <=> (High("E2M") <=> ~(ticks \in {7, 15} /\ ShouldFlip))
         /\ memOps' = Capped((IF CpuTicks THEN 0 ELSE memOps)
                             + (IF ticks = 11 /\ access' = "memory" THEN 1 ELSE 0))
         /\ served' = Capped((IF CpuTicks THEN 0 ELSE served)
                             + (IF ticks = 15 /\ High("1M") /\ access' = "sheila" THEN 1 ELSE 0))
<1>1. ClockInv /\ CountsClocks
  BY DEF BoardInv, ClockInv
<1>2. ClockInv'
  BY <1>1, ClockStep DEF BeebTick, CpuSection
<1>3. /\ ticks' = IF ticks = 15 THEN 0 ELSE ticks + 1
      /\ High("1M")' <=> (High("1M") <=> ticks # 15)
      /\ High("E2M")' <=> (High("E2M") <=> ~(ticks \in {7, 15} /\ ShouldFlip))
  BY <1>1, TurnsOfTheClock DEF BeebTick, ClockTick, High
<1>4. (MemoryTurn <=> ticks = 11) /\ (DeviceTurn <=> ticks = 15 /\ High("1M"))
  BY <1>1, TurnsOfTheClock
<1> QED
  BY <1>2, <1>3, <1>4 DEF BeebTick, Dispatch

\* A tick keeps the account of the access on the bus.
LEMMA BusStep ==
  ASSUME BoardInv, BeebTick
  PROVE  BusInv'
<1>1. /\ served \in Nat /\ memOps \in Nat /\ ticks \in 0..15
      /\ served' \in Nat /\ memOps' \in Nat
      /\ ~resetting /\ ~resetting'
  BY BoardTick DEF BoardInv, ClockInv, CountsClocks, BusInv, Capped, BeebTick
<1>2. CASE CpuTicks
  <2>1. ticks = 7 /\ stretch = Left(0) /\ ~High("E2M") /\ ShouldFlip
    BY <1>2, CpuTurn, StretchElements DEF BoardInv
  <2>2. ticks' = 8 /\ High("E2M")' /\ memOps' = 0 /\ served' = 0
    BY <1>2, <2>1, BoardTick DEF Capped
  <2>3. stretch' = IF access' \in SlowAccesses THEN BeginTimeStretch ELSE Remaining
    BY <1>2 DEF BeebTick, CpuSection
  <2>4. Remaining = Left(0)
    BY <2>1, StretchElements
  <2>5. BeginTimeStretch # Left(0)
    BY <1>2, StretchBegins, SomethingLeft DEF BoardInv
  <2> QED
    BY <1>1, <2>2, <2>3, <2>4, <2>5 DEF BusInv, SlowAccesses
<1>3. CASE ~CpuTicks
  <2>1. access' = access /\ stretch' = Remaining
    BY <1>3 DEF BeebTick, CpuSection
  <2>2. ASSUME NEW n \in 0..5, stretch = Left(n)
        PROVE  /\ ShouldFlip <=> n \in {0, 3}
               /\ stretch' = Left(IF ticks \in {7, 15} /\ n > 0 THEN n - 1 ELSE n)
    BY <2>1, <2>2, StretchElements, TurnsOfTheClock DEF BoardInv, ClockInv
  <2>3. ASSUME access = "sheila"
        PROVE  IF High("E2M")' THEN stretch' # Left(0) /\ served' = 0 ELSE served' = 1
    <3>1. served' = Capped(served + (IF ticks = 15 /\ High("1M") THEN 1 ELSE 0))
      BY <1>3, <2>1, <2>3, BoardTick
    <3>2. IF High("E2M") THEN stretch # Left(0) /\ served = 0 ELSE served = 1
      BY <2>3 DEF BoardInv, BusInv
    <3>3. CASE High("E2M") /\ stretch = Left(5) /\ ticks >= 8 /\ ~High("1M")
      BY <1>1, <2>2, <3>1, <3>2, <3>3, BoardTick, SomethingLeft DEF Capped
    <3>4. CASE High("E2M") /\ stretch = Left(4) /\ ticks < 8 /\ High("1M")
      BY <1>1, <2>2, <3>1, <3>2, <3>4, BoardTick, SomethingLeft DEF Capped
    <3>5. CASE High("E2M") /\ stretch = Left(3) /\ ticks >= 8 /\ High("1M")
      BY <1>1, <2>2, <3>1, <3>2, <3>5, BoardTick, SomethingLeft DEF Capped
    <3>6. CASE ~High("E2M") /\ ~(ticks = 15 /\ High("1M"))
      <4>1. served' = 1
        BY <3>1, <3>2, <3>6 DEF Capped
      <4>2. ~High("E2M")'
        <5>1. ~(ticks \in {7, 15} /\ ShouldFlip)
          BY <1>3, <3>6, TurnsOfTheClock DEF BoardInv, ClockInv
        <5> QED
          BY <3>6, <5>1, BoardTick
      <4> QED
        BY <4>1, <4>2
    <3> QED
      BY <3>2, <3>3, <3>4, <3>5, <3>6 DEF BoardInv, ClockInv, PhaseInv
  <2>4. ASSUME access = "memory"
        PROVE  stretch' = Left(0) /\ memOps' = IF High("E2M")' /\ ticks' < 12 THEN 0 ELSE 1
    <3>1. memOps' = Capped(memOps + (IF ticks = 11 THEN 1 ELSE 0))
      BY <1>3, <2>1, <2>4, BoardTick
    <3>2. stretch = Left(0) /\ memOps = IF High("E2M") /\ ticks < 12 THEN 0 ELSE 1
      BY <2>4 DEF BoardInv, BusInv
    <3>3. stretch' = Left(0) /\ ShouldFlip
      BY <2>2, <3>2
    <3>4. CASE High("E2M")
      <4>1. ticks >= 8
        BY <3>2, <3>4, SomethingLeft DEF BoardInv, ClockInv, PhaseInv
      <4> QED
        BY <1>1, <3>1, <3>2, <3>3, <3>4, <4>1, BoardTick DEF Capped
    <3>5. CASE ~High("E2M")
      <4>1. ticks < 8 /\ ticks # 7
        BY <1>3, <3>2, <3>5, CpuTurn, SomethingLeft DEF BoardInv, ClockInv, PhaseInv
      <4> QED
        BY <1>1, <3>1, <3>2, <3>3, <3>5, <4>1, BoardTick DEF Capped
    <3> QED
      BY <3>4, <3>5
  <2> QED
    BY <1>1, <2>1, <2>3, <2>4 DEF BusInv
<1> QED
  BY <1>2, <1>3

\* The cache is brought up to date once per microsecond, in which the CPU's
\* clock rises twice.
LEMMA IrqStep ==
  ASSUME BoardInv, BeebTick
  PROVE  IrqInv'
<1>1. PICK i \in BOOLEAN :
        /\ ~DeviceTurn => i = irq
        /\ cachedIrq' = IF DeviceTurn THEN i ELSE cachedIrq
        /\ irq' \in (IF WentLow("16M") THEN BOOLEAN ELSE {i})
        /\ unseen' = IF ~irq \/ ~i \/ ~irq' \/ (CpuTicks /\ cachedIrq) THEN 0
                     ELSE IF CpuTicks THEN unseen + 1 ELSE unseen
  BY DEF BeebTick, Interrupts
<1>2. /\ irq \in BOOLEAN /\ cachedIrq \in BOOLEAN /\ unseen \in 0..2
      /\ ~cachedIrq => unseen <= RisesSince
  BY DEF BoardInv, IrqInv
<1>3. irq' \in BOOLEAN /\ cachedIrq' \in BOOLEAN
  BY <1>1, <1>2, Zenon
<1>4. ~resetting'
  BY DEF BeebTick
<1>5. DeviceTurn <=> ticks = 15 /\ High("1M")
  BY TurnsOfTheClock DEF BoardInv, ClockInv
<1>6. CpuTicks => ticks = 7
  BY CpuTurn DEF BoardInv
<1>7. ticks \in 0..15
  BY DEF BoardInv, ClockInv, CountsClocks
<1>8. unseen' = 0 \/ unseen' = unseen \/ (CpuTicks /\ ~cachedIrq /\ unseen' = unseen + 1)
  BY <1>1
<1>9. CASE DeviceTurn
  <2>1. ~cachedIrq' => unseen' = 0
    BY <1>1, <1>9, Zenon
  <2>2. unseen' \in 0..2
    BY <1>2, <1>5, <1>6, <1>8, <1>9
  <2>3. RisesSince' >= 0
    BY DEF RisesSince
  <2> QED
    BY <1>3, <1>4, <2>1, <2>2, <2>3 DEF IrqInv
<1>10. CASE ~DeviceTurn
  <2>1. cachedIrq' <=> cachedIrq
    BY <1>1, <1>10, Zenon
  <2>2. RisesSince \in 0..2 /\ (ticks = 7 => RisesSince <= 1)
    BY <1>7 DEF RisesSince
  <2>3. RisesSince' = IF ticks = 7 THEN RisesSince + 1 ELSE RisesSince
    <3>1. /\ ticks' = IF ticks = 15 THEN 0 ELSE ticks + 1
          /\ High("1M")' <=> (High("1M") <=> ticks # 15)
      BY BoardTick
    <3> QED
      BY <1>5, <1>7, <1>10, <3>1 DEF RisesSince
  <2> QED
    BY <1>2, <1>3, <1>4, <1>6, <1>8, <2>1, <2>2, <2>3 DEF IrqInv
<1> QED
  BY <1>9, <1>10

-----------------------------------------------------------------------------
\* Every step of the board keeps its invariant.
LEMMA BoardStep == BoardInv /\ [Next]_vars => BoardInv'
<1> SUFFICES ASSUME BoardInv, [Next]_vars PROVE BoardInv'
  OBVIOUS
<1>1. CASE BeebTick
  BY <1>1, BoardTick, BusStep, IrqStep DEF BoardInv
<1>2. CASE BeginReset
  <2>1. UNCHANGED <<ticks, clks, stretch, irq, cachedIrq>>
    BY <1>2 DEF BeginReset, clockVars
  <2>2. ClockInv'
    BY <2>1 DEF BoardInv, ClockInv, CountsClocks, PhaseInv, High
  <2>3. BusInv'
    BY <1>2 DEF BeginReset, BusInv
  <2>4. RisesSince' >= 0
    BY DEF RisesSince
  <2>5. IrqInv'
    BY <1>2, <2>1, <2>4 DEF BeginReset, BoardInv, IrqInv
  <2> QED
    BY <2>2, <2>3, <2>5 DEF BoardInv
<1>3. CASE ResetTick
  <2>1. ClockInv'
    BY <1>3, ClockStep DEF ResetTick, BoardInv
  <2>2. access' = "none" /\ served' \in Nat /\ memOps' \in Nat
    BY <1>3 DEF ResetTick, BoardInv, BusInv, busVars
  <2>3. unseen' = 0 /\ irq' \in BOOLEAN /\ cachedIrq' \in BOOLEAN
    BY <1>3 DEF ResetTick, BoardInv, IrqInv, irqVars
  <2>4. RisesSince' >= 0
    BY DEF RisesSince
  <2> QED
    BY <2>1, <2>2, <2>3, <2>4 DEF BoardInv, BusInv, IrqInv
<1>4. CASE UNCHANGED vars
  BY <1>4 DEF vars, clockVars, busVars, irqVars, BoardInv, ClockInv, CountsClocks, PhaseInv, High,
              BusInv, IrqInv, RisesSince
<1> QED
  BY <1>1, <1>2, <1>3, <1>4 DEF Next

\* Whatever the phase of the clocks when the CPU begins an access, and however
\* often and whenever BREAK is pressed, a device is ticked once for it, or the
\* memory read or written once.
THEOREM AccessesAreServedOnce == Spec => AccessServedOnce
<1>1. BoardInv /\ [Next]_vars
        => [BeebTick /\ CpuTicks => /\ access = "sheila" => served = 1
                                    /\ access = "memory" => memOps = 1]_vars
  <2> SUFFICES ASSUME BoardInv, BeebTick, CpuTicks
               PROVE  /\ access = "sheila" => served = 1
                      /\ access = "memory" => memOps = 1
    OBVIOUS
  <2>1. ~High("E2M")
    BY CpuTurn DEF BoardInv
  <2> QED
    BY <2>1 DEF BoardInv, BusInv
<1> QED
  BY BoardInit, BoardStep, <1>1, PTL DEF Spec, AccessServedOnce

\* No device waits longer than two ticks of the CPU for its interrupt to be seen.
THEOREM InterruptsAreSeen == Spec => []InterruptIsSeen
<1>1. BoardInv => InterruptIsSeen
  BY DEF BoardInv, IrqInv, InterruptIsSeen
<1> QED
  BY BoardInit, BoardStep, <1>1, PTL DEF Spec
=============================================================================
