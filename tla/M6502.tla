------------------------------- MODULE M6502 -------------------------------
(***************************************************************************)
(* The 6502, cycle by cycle: M6502::tick() and the cycle handlers, with a  *)
(* memory that answers every bus cycle before the next.  Module            *)
(* CycleHandlers says which handlers an opcode has; this one says what     *)
(* each does to the registers and the bus.                                 *)
(*                                                                         *)
(* The memory is external: a partial function of the bytes that were put   *)
(* there, over a fixed background.  The interrupt request is an input that *)
(* is sampled when an opcode is on the bus.  NMIs are not connected        *)
(* (raise_nmi() is empty), so BRK_NMI and BRK_RST are never set.           *)
(***************************************************************************)
EXTENDS Integers, Sequences, FiniteSets, Bitwise, CycleHandlers, OpCodes

CONSTANTS
  Scenarios,      \* what to start from: sets of register files (regs) and of
                  \* programs (code), the rest of memory (image), how many
                  \* instructions to run and the inputs there may be
  Background(_)   \* the byte at an address nobody has written

VARIABLES
  cpu,      \* pc, a, x, y, sp, p (flags_ as a set), t (temp_addr_),
            \* op and cyc (ir_), brk (brk_flags_ as a set)
  bus,      \* addr, data, sync
  mem,      \* the bytes written so far
  reset,    \* 0, or the reset cycle that comes next
  thrown,   \* do_cycle() found no handler and threw
  left,     \* bound: instructions that may still start
  inputs,   \* the inputs this program may get: "irq", "reset"
  start,    \* history: registers and memory when what is going on began, and
            \* whether that is an instruction, an interrupt or a reset
  previous, \* history: start, one instruction, interrupt or reset earlier
  elapsed   \* history: cycles since start

vars == <<cpu, bus, mem, reset, thrown, left, inputs, start, previous, elapsed>>

Flags == {"N", "V", "X", "B", "D", "I", "Z", "C"}
FlagBit == [N |-> 128, V |-> 64, X |-> 32, B |-> 16, D |-> 8, I |-> 4, Z |-> 2, C |-> 1]

\* The status register as a byte, and a byte as the status register.
FlagsOf(byte) == {f \in Flags : (byte \div FlagBit[f]) % 2 = 1}
ByteOf(flags) ==
  LET bit(f) == IF f \in flags THEN FlagBit[f] ELSE 0
  IN bit("N") + bit("V") + bit("X") + bit("B") + bit("D") + bit("I") + bit("Z") + bit("C")

Low8(n) == n % 256
High8(n) == (n \div 256) % 256
LowDigit(n) == n % 16
HighDigit(n) == n \div 16
Word(high, low) == 256 * high + low
Bit7(n) == (n \div 128) % 2 = 1
Put(flags, f, on) == IF on THEN flags \cup {f} ELSE flags \ {f}
SetNZ(flags, v) == Put(Put(flags, "Z", v % 256 = 0), "N", Bit7(v))

\* What is in memory m at address a.
ByteAt(m, a) == IF a \in DOMAIN m THEN m[a] ELSE Background(a)

State(m, c) ==
  [pc |-> c.pc, a |-> c.a, x |-> c.x, y |-> c.y, sp |-> Low8(c.sp), p |-> c.p, mem |-> m]

-----------------------------------------------------------------------------
(***************************************************************************)
(* Arithmetic.  Each operation maps a CPU and a byte to a CPU.             *)
(***************************************************************************)
Carry(c) == IF "C" \in c.p THEN 1 ELSE 0

do_cmp(c, reg, val) ==
  LET t == (reg - val) % 65536
  IN [c EXCEPT !.p = Put(SetNZ(@, Low8(t)), "C", High8(t) = 0)]

do_add_binary(c, val) ==
  LET sum == c.a + val + Carry(c)
  IN [c EXCEPT !.a = Low8(sum),
               !.p = SetNZ(Put(Put(@, "V", Bit7(c.a) = Bit7(val) /\ Bit7(c.a) # Bit7(sum)),
                               "C", High8(sum) # 0), sum)]

do_add_bcd(c, val) ==
  LET low == LowDigit(c.a) + LowDigit(val) + Carry(c)
      al == IF low > 9 THEN low + 6 ELSE low
      high == HighDigit(c.a) + HighDigit(val) + (IF al > 15 THEN 1 ELSE 0)
      ah == IF high > 9 THEN high + 6 ELSE high
      zero == Low8(c.a + val + Carry(c)) = 0
      negative == (high \div 8) % 2 = 1
  IN [c EXCEPT !.a = Low8(16 * ah + LowDigit(al)),
               !.p = Put(Put(Put(Put(@, "Z", zero), "N", ~zero /\ negative),
                             "V", Bit7(c.a) = Bit7(val) /\ Bit7(c.a) # negative),
                         "C", ah > 15)]

do_sub_binary(c, val) ==
  LET diff == (c.a - val - (1 - Carry(c))) % 65536
  IN [c EXCEPT !.a = Low8(diff),
               !.p = SetNZ(Put(Put(@, "V", Bit7(c.a) # Bit7(val) /\ Bit7(c.a) # Bit7(diff)),
                               "C", High8(diff) = 0), diff)]

\* Variant of do_sub_bcd: the borrow of the low digit is taken before its
\* correction is known, and dropped.
do_sub_bcd_noborrow(c, val) ==
  LET borrow == 1 - Carry(c)
      diff == (c.a - val - borrow) % 65536
      low == (LowDigit(c.a) - LowDigit(val) - borrow) % 256
      al == IF Bit7(low) THEN (low - 6) % 256 ELSE low
      high == (HighDigit(c.a) - HighDigit(val)) % 256
      ah == IF Bit7(high) THEN (high - 6) % 256 ELSE high
  IN [c EXCEPT !.a = Low8(16 * ah + LowDigit(al)),
               !.p = Put(Put(SetNZ(@, diff),
                             "V", Bit7(c.a) # Bit7(val) /\ Bit7(c.a) # Bit7(diff)),
                         "C", High8(diff) = 0)]

do_sub_bcd(c, val) ==
  LET borrow == 1 - Carry(c)
      diff == (c.a - val - borrow) % 65536
      low == (LowDigit(c.a) - LowDigit(val) - borrow) % 256
      al == IF Bit7(low) THEN (low - 6) % 256 ELSE low
      high == (HighDigit(c.a) - HighDigit(val) - (IF Bit7(al) THEN 1 ELSE 0)) % 256
      ah == IF Bit7(high) THEN (high - 6) % 256 ELSE high
  IN [c EXCEPT !.a = Low8(16 * ah + LowDigit(al)),
               !.p = Put(Put(SetNZ(@, diff),
                             "V", Bit7(c.a) # Bit7(val) /\ Bit7(c.a) # Bit7(diff)),
                         "C", High8(diff) = 0)]

do_add(c, val) == IF "D" \in c.p THEN do_add_bcd(c, val) ELSE do_add_binary(c, val)
do_sub(c, val) == IF "D" \in c.p THEN do_sub_bcd(c, val) ELSE do_sub_binary(c, val)

\* do_asl(), do_lsr(), do_rol() and do_ror() return a value and set flags.
Shifted(flags, v, carry) == [v |-> v, p |-> Put(SetNZ(flags, v), "C", carry)]
do_asl(c, val) == Shifted(c.p, Low8(2 * val), Bit7(val))
do_lsr(c, val) == Shifted(c.p, val \div 2, val % 2 = 1)
do_rol(c, val) == Shifted(c.p, Low8(2 * val) + Carry(c), Bit7(val))
do_ror(c, val) == Shifted(c.p, (val \div 2) + 128 * Carry(c), val % 2 = 1)

do_bit(c, val) ==
  [c EXCEPT !.p = Put(Put(Put(@, "N", Bit7(val)), "V", (val \div 64) % 2 = 1),
                      "Z", val & c.a = 0)]

Loaded(c, r, v) == [c EXCEPT ![r] = v, !.p = SetNZ(@, v)]

\* What a reading instruction does with the byte it has read.
ReadOp(c, op, val) ==
  CASE op = "lda" -> Loaded(c, "a", val)
    [] op = "ldx" -> Loaded(c, "x", val)
    [] op = "ldy" -> Loaded(c, "y", val)
    [] op = "ora" -> Loaded(c, "a", c.a | val)
    [] op = "and" -> Loaded(c, "a", c.a & val)
    [] op = "eor" -> Loaded(c, "a", c.a ^^ val)
    [] op = "adc" -> do_add(c, val)
    [] op = "sbc" -> do_sub(c, val)
    [] op = "cmp" -> do_cmp(c, c.a, val)
    [] op = "cpx" -> do_cmp(c, c.x, val)
    [] op = "cpy" -> do_cmp(c, c.y, val)
    [] op = "bit" -> do_bit(c, val)

\* What a read-modify-write instruction makes of a byte.
ModifyOp(c, op, val) ==
  CASE op = "asl" -> do_asl(c, val)
    [] op = "lsr" -> do_lsr(c, val)
    [] op = "rol" -> do_rol(c, val)
    [] op = "ror" -> do_ror(c, val)
    [] op = "inc" -> [v |-> Low8(val + 1), p |-> SetNZ(c.p, val + 1)]
    [] op = "dec" -> [v |-> (val - 1) % 256, p |-> SetNZ(c.p, (val - 1) % 256)]

FlagChange == [clc |-> <<"C", FALSE>>, sec |-> <<"C", TRUE>>, cli |-> <<"I", FALSE>>,
               sei |-> <<"I", TRUE>>, cld |-> <<"D", FALSE>>, sed |-> <<"D", TRUE>>,
               clv |-> <<"V", FALSE>>]

\* What an instruction without an operand does.
ImpliedOp(c, op) ==
  CASE op \in {"asl", "lsr", "rol", "ror"} ->
         [c EXCEPT !.a = ModifyOp(c, op, c.a).v, !.p = ModifyOp(c, op, c.a).p]
    [] op \in DOMAIN FlagChange ->
         [c EXCEPT !.p = Put(@, FlagChange[op][1], FlagChange[op][2])]
    [] op = "inx" -> Loaded(c, "x", Low8(c.x + 1))
    [] op = "iny" -> Loaded(c, "y", Low8(c.y + 1))
    [] op = "dex" -> Loaded(c, "x", (c.x - 1) % 256)
    [] op = "dey" -> Loaded(c, "y", (c.y - 1) % 256)
    [] op = "tax" -> Loaded(c, "x", c.a)
    [] op = "tay" -> Loaded(c, "y", c.a)
    [] op = "tsx" -> Loaded(c, "x", Low8(c.sp))
    [] op = "txa" -> Loaded(c, "a", c.x)
    [] op = "tya" -> Loaded(c, "a", c.y)
    [] op = "txs" -> [c EXCEPT !.sp = c.x]

-----------------------------------------------------------------------------
(***************************************************************************)
(* A bus cycle, and the handlers.  c is the CPU with ir_ already on the    *)
(* next cycle, h the handler.                                              *)
(***************************************************************************)
Read(c, a) ==
  /\ cpu' = c
  /\ bus' = [addr |-> a, data |-> ByteAt(mem, a), sync |-> FALSE]
  /\ mem' = mem

Write(c, a, v) ==
  /\ cpu' = c
  /\ bus' = [addr |-> a, data |-> v, sync |-> FALSE]
  /\ mem' = [i \in DOMAIN mem \cup {a} |-> IF i = a THEN v ELSE mem[i]]

\* fetch(): the instruction is over, the opcode of the next comes.
Fetch(c) ==
  /\ cpu' = c
  /\ bus' = [addr |-> c.pc, data |-> ByteAt(mem, c.pc), sync |-> TRUE]
  /\ mem' = mem

IncPC(c) == [c EXCEPT !.pc = (@ + 1) % 65536]
DecSP(c) == [c EXCEPT !.sp = (@ - 1) % 65536]
IncSP(c) == [c EXCEPT !.sp = (@ + 1) % 65536]
Stack(c) == 256 + Low8(c.sp)
Temp(c, t) == [c EXCEPT !.t = t]
TempHigh(c, high) == [c EXCEPT !.t = @ | (256 * high)]
TempPage(c) == 256 * High8(c.t)

\* An address cycle that reads, or writes register r.
Address(c, a, r) == IF r = "" THEN Read(c, a) ELSE Write(c, a, c[r])

\* Variant of SkipCycle: no cycle is skipped.
SkipNoCycle(c, offset) == c

\* skip_cycle_on_page_crossing() with its test of the page.
SkipCycle(c, offset) ==
  IF High8(c.t) = (c.t + offset) \div 256 THEN [c EXCEPT !.cyc = @ + 1] ELSE c

\* The cycle that completes an indexed address but for its carry.
Index(c, offset, how) ==
  LET t == TempHigh(c, bus.data)
      next == IF how = "skip" THEN SkipCycle(t, offset) ELSE t
  IN Read(next, TempPage(t) + Low8(Low8(t.t) + offset))

\* do_branch_1() and do_branch_2()
Signed(byte) == IF byte < 128 THEN byte ELSE byte - 256
Branch1(c, flag, set) ==
  LET t == Temp(c, (c.pc + Signed(bus.data)) % 65536)
  IN IF (flag \in c.p) = set THEN Read(t, c.pc) ELSE Fetch(t)
Branch2(c) ==
  IF TempPage(c) = 256 * High8(c.pc)
  THEN Fetch([c EXCEPT !.pc = c.t])
  ELSE Read(c, 256 * High8(c.pc) + Low8(c.t))

\* What a push writes.
Pushed(c, what) ==
  CASE what = "a" -> c.a
    [] what = "p" -> ByteOf(c.p \cup {"X"})
    [] what = "pch" -> High8(c.pc)
    [] what = "pcl" -> Low8(c.pc)
PushByte(c, what) == Write(DecSP(c), Stack(c), Pushed(c, what))

PulledFlags(byte) == (FlagsOf(byte) \cup {"B"}) \ {"X"}

\* Variant of Brk1: an interrupt skips a byte as BRK does.
Brk1Always(c) == PushByte(IncPC(c), "pch")

\* The second cycle of BRK: an interrupt returns to the instruction it
\* displaced, BRK to the byte after next.
Brk1(c) == LET next == IF "IRQ" \in c.brk THEN c ELSE IncPC(c) IN PushByte(next, "pch")
Brk3(c) == PushByte(Temp(c, \hFFFE), "p")
Brk4(c) == Read([Temp(c, c.t + 1) EXCEPT !.p = @ \cup {"I", "B"}, !.brk = {}], c.t)

Jump(c) == Word(bus.data, Low8(c.t))

\* One handler; h[1] is its name.
Handle(h, c) ==
  \/ h[1] = "peek" /\ Read(c, c.pc)
  \/ h[1] \in {"operand", "branch0"} /\ Read(IncPC(c), c.pc)
  \/ h[1] = "low" /\ Read(Temp(IncPC(c), bus.data), c.pc)
  \/ h[1] = "pointer" /\ Read(Temp(c, bus.data), bus.data)
  \/ h[1] = "pointerX" /\ Read(Temp(c, Low8(c.t + c.x)), Low8(c.t + c.x))
  \/ h[1] = "pointerHi" /\ Read(Temp(c, bus.data), Low8(c.t + 1))
  \/ h[1] = "zp" /\ Address(c, bus.data, h[2])
  \/ h[1] = "zpX" /\ Address(c, Low8(c.t + c.x), h[2])
  \/ h[1] = "zpY" /\ Address(c, Low8(c.t + c.y), h[2])
  \/ h[1] = "address" /\ Address(c, Word(bus.data, Low8(c.t)), h[2])
  \/ h[1] = "indexX" /\ Index(c, c.x, h[2])
  \/ h[1] = "indexY" /\ Index(c, c.y, h[2])
  \/ h[1] = "overX" /\ Address(c, (c.t + c.x) % 65536, h[2])
  \/ h[1] = "overY" /\ Address(c, (c.t + c.y) % 65536, h[2])
  \/ h[1] = "read" /\ Fetch(ReadOp(c, h[2], bus.data))
  \/ h[1] = "hold" /\ Write(Temp(c, bus.data), bus.addr, bus.data)
  \/ /\ h[1] = "modify"
     /\ LET m == ModifyOp(c, h[2], Low8(c.t)) IN Write([c EXCEPT !.p = m.p], bus.addr, m.v)
  \/ h[1] = "implied" /\ Fetch(ImpliedOp(c, h[2]))
  \/ h[1] = "end" /\ Fetch(c)
  \/ h[1] = "branch1" /\ Branch1(c, h[2], h[3])
  \/ h[1] = "branch2" /\ Branch2(c)
  \/ h[1] = "branch3" /\ Fetch([c EXCEPT !.pc = c.t])
  \/ h[1] = "jump" /\ Fetch([c EXCEPT !.pc = Jump(c)])
  \/ h[1] = "vector" /\ LET t == TempHigh(c, bus.data) IN Read(t, t.t)
  \/ h[1] = "vectorHi" /\ Read(Temp(c, bus.data), TempPage(c) + Low8(c.t + 1))
  \/ h[1] = "push" /\ PushByte(c, h[2])
  \/ h[1] = "stack" /\ Read(c, Stack(c))
  \/ h[1] = "stackLow" /\ Read(Temp(c, bus.data), Stack(c))
  \/ h[1] = "pull" /\ Read(IncSP(c), Stack(IncSP(c)))
  \/ h[1] = "pullLow" /\ Read(Temp(IncSP(c), bus.data), Stack(IncSP(c)))
  \/ h[1] = "pullFlags" /\ Read([IncSP(c) EXCEPT !.p = PulledFlags(bus.data)], Stack(IncSP(c)))
  \/ h[1] = "plp" /\ Fetch([c EXCEPT !.p = PulledFlags(bus.data)])
  \/ h[1] = "return" /\ Read([c EXCEPT !.pc = (Jump(c) + 1) % 65536], Jump(c))
  \/ h[1] = "brk1" /\ Brk1(c)
  \/ h[1] = "brk3" /\ Brk3(c)
  \/ h[1] = "brk4" /\ Brk4(c)
  \/ h[1] = "brk5" /\ Read(Temp(c, bus.data), c.t)

-----------------------------------------------------------------------------
(***************************************************************************)
(* M6502::tick().                                                          *)
(***************************************************************************)
\* cycle_handler(), null for an opcode or a cycle that has none.
NoHandler == <<"none">>
cycle_handler(c) ==
  IF c.op \in DOMAIN handler_table /\ c.cyc < Len(handler_table[c.op])
  THEN handler_table[c.op][c.cyc + 1]
  ELSE NoHandler

\* maybe_handle_sync(): an opcode is on the bus; take it, or an interrupt.
TakesIrq(irq) == irq /\ "I" \notin cpu.p
maybe_handle_sync(irq) ==
  IF ~bus.sync THEN cpu
  ELSE IF TakesIrq(irq)
  THEN [cpu EXCEPT !.brk = @ \cup {"IRQ"}, !.p = @ \ {"B"}, !.op = 0, !.cyc = 0]
  ELSE [IncPC(cpu) EXCEPT !.op = bus.data, !.cyc = 0]

\* do_cycle()
do_cycle(c) ==
  LET h == cycle_handler(c)
  IN IF h = NoHandler
     THEN thrown' = TRUE /\ UNCHANGED <<cpu, bus, mem>>
     ELSE Handle(h, [c EXCEPT !.cyc = @ + 1]) /\ UNCHANGED thrown

tick ==
  /\ reset = 0
  /\ ~thrown
  /\ bus.sync => left > 0
  /\ \E irq \in (IF bus.sync /\ "irq" \in inputs THEN BOOLEAN ELSE {FALSE}) :
       /\ do_cycle(maybe_handle_sync(irq))
       /\ start' = IF bus.sync
                   THEN [kind |-> IF TakesIrq(irq) THEN "irq" ELSE "instruction",
                         arch |-> State(mem, cpu)]
                   ELSE start
  /\ previous' = IF bus.sync THEN start ELSE previous
  /\ left' = IF bus.sync THEN left - 1 ELSE left
  /\ elapsed' = IF bus.sync THEN 1 ELSE elapsed + 1
  /\ UNCHANGED <<reset, inputs>>

\* Beeb::reset() between two instructions: SYNC is dropped and RST is low for
\* one tick.
Reset ==
  /\ "reset" \in inputs
  /\ reset = 0
  /\ bus.sync
  /\ left > 0
  /\ bus' = [bus EXCEPT !.sync = FALSE]
  /\ reset' = 1
  /\ previous' = start
  /\ start' = [kind |-> "reset", arch |-> State(mem, cpu)]
  /\ left' = left - 1
  /\ elapsed' = 0
  /\ UNCHANGED <<cpu, mem, thrown, inputs>>

\* maybe_handle_reset() once RST is high again, with the address it leaves on
\* the bus in each of its seven cycles.
ResetCpu ==
  CASE reset = 1 -> [cpu EXCEPT !.sp = 0]
    [] reset = 5 -> [cpu EXCEPT !.sp = \hFD]
    [] reset = 6 -> Temp(cpu, bus.data)
    [] reset = 7 -> [cpu EXCEPT !.pc = Word(bus.data, cpu.t)]
    [] OTHER -> cpu
ResetAddress ==
  <<bus.addr, 256 + cpu.sp, 256 + cpu.sp - 1, 256 + cpu.sp - 2, \hFFFC, \hFFFD, ResetCpu.pc>>

\* Variant of maybe_handle_reset: the last cycle does not raise SYNC.
ResetWithoutSync ==
  /\ reset > 0
  /\ cpu' = ResetCpu
  /\ LET a == ResetAddress[reset]
     IN bus' = [addr |-> a, data |-> ByteAt(mem, a), sync |-> FALSE]
  /\ reset' = (reset + 1) % 8
  /\ elapsed' = elapsed + 1
  /\ UNCHANGED <<mem, thrown, left, inputs, start, previous>>

maybe_handle_reset ==
  /\ reset > 0
  /\ cpu' = ResetCpu
  /\ LET a == ResetAddress[reset]
     IN bus' = [addr |-> a, data |-> ByteAt(mem, a), sync |-> reset = 7]
  /\ reset' = (reset + 1) % 8
  /\ elapsed' = elapsed + 1
  /\ UNCHANGED <<mem, thrown, left, inputs, start, previous>>

\* A program starts with its first opcode on the bus.  B is set in flags_ from
\* the first BRK, interrupt, PLP or RTI on.
Load(image, pc, code) ==
  [i \in DOMAIN image \cup {(pc + j - 1) % 65536 : j \in DOMAIN code} |->
     IF i \in DOMAIN image THEN image[i] ELSE code[((i - pc) % 65536) + 1]]

Init ==
  \E s \in Scenarios : \E regs \in s.regs, code \in s.code :
    /\ cpu = regs
    /\ mem = Load(s.image, regs.pc, code)
    /\ bus = [addr |-> regs.pc, data |-> code[1], sync |-> TRUE]
    /\ reset = 0
    /\ thrown = FALSE
    /\ left = s.instructions
    /\ inputs = s.inputs
    /\ start = [kind |-> "power on", arch |-> State(mem, cpu)]
    /\ previous = start
    /\ elapsed = 0

Next == tick \/ Reset \/ maybe_handle_reset

Spec == Init /\ [][Next]_vars /\ WF_vars(tick \/ maybe_handle_reset)

-----------------------------------------------------------------------------
(***************************************************************************)
(* Properties.                                                             *)
(***************************************************************************)
Boundary == bus.sync /\ reset = 0
Done == Boundary /\ start.kind # "power on"

\* The registers and the memory as a program sees them: those at the last
\* boundary between instructions.
ISA == INSTANCE InstructionSet WITH
  arch <- IF Boundary THEN State(mem, cpu) ELSE start.arch

\* The cycle handlers implement the instruction set: seen from one opcode
\* fetch to the next, the registers, the flags, the stack and the memory
\* change as one instruction, one interrupt that was not masked, or one reset
\* changes them, whatever temp_addr_ and the cycle counter did in between.
ImplementsInstructionSet == ISA!Spec

\* An interrupt whose handler returns at once is not noticed: program counter,
\* flags (I and B among them), stack pointer and registers are what they were
\* when it was taken, wherever the stack wraps.
Returned(kind) ==
  Done /\ previous.kind = kind /\ start.kind = "instruction" /\ ISA!Entry(start.arch).name = "rti"
Registers(s) == [r \in {"pc", "a", "x", "y", "sp", "p"} |-> s[r]]
InterruptIsTransparent ==
  Returned("irq") => Registers(State(mem, cpu)) = Registers(previous.arch)

\* What an instruction takes.  The opcode table has the cycles of LDA zp and
\* LDA # the wrong way round.
BaseCycles(e) ==
  CASE e.hex = \hA5 -> 3
    [] e.hex = \hA9 -> 2
    [] OTHER -> e.cycles
Modifies(e) == e.name \in {"asl", "lsr", "rol", "ror", "inc", "dec"}
CyclesOf(s) ==
  LET e == ISA!Entry(s)
  IN BaseCycles(e)
     + (IF ISA!CrossesPage(s) /\ e.name \notin DOMAIN ISA!Stores THEN 1 ELSE 0)
     - (IF Modifies(e) /\ e.addressing_mode = "absX" THEN 1 ELSE 0)
     + (IF ~ISA!BranchTaken(s) THEN 0
        ELSE IF ISA!BranchTarget(s) \div 256 = ISA!Following(s) \div 256 THEN 1 ELSE 2)

\* Every instruction takes the cycles the opcode table gives it, one more
\* when indexing crosses a page and one or two more when a branch is taken;
\* interrupts and resets take seven.  Two entries of the table are wrong, and
\* a read-modify-write of an absolute address indexed by X that stays in its
\* page is a cycle short of what the table says.
TakesItsCycles ==
  Done => elapsed = IF start.kind = "instruction" THEN CyclesOf(start.arch) ELSE 7

\* Every instruction ends: whatever is under way, SYNC comes, which is all that
\* tick_one_instruction() and Beeb::reset() wait for.  No cycle of a known
\* opcode, a skipped one included, runs off the end of its handlers, where
\* do_cycle() throws and the machine stops.
SyncComes == ~Boundary ~> Boundary
=============================================================================
