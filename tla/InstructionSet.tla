--------------------------- MODULE InstructionSet ---------------------------
(***************************************************************************)
(* What the 6502 promises, an instruction at a time: the programmer's view *)
(* of the machine, written from the meaning of the instructions rather     *)
(* than from the cycle handlers.  One step is one instruction, one         *)
(* interrupt or one reset.  Names and addressing modes of the opcodes come *)
(* from the debugger's table.                                              *)
(*                                                                         *)
(* Arithmetic is stated on numbers: a byte is read as signed, unsigned or  *)
(* decimal, and the logical operations work on sets of bits.  In decimal   *)
(* mode both operands must be decimal.                                     *)
(***************************************************************************)
EXTENDS Integers, FiniteSetsExt

CONSTANTS
  Background(_),  \* the byte at an address nobody has written
  for_value(_)    \* the name and the addressing mode of an opcode

VARIABLE arch   \* [pc, a, x, y, sp, p, mem]

Byte(s, a) == IF a \in DOMAIN s.mem THEN s.mem[a] ELSE Background(a)
\* A word whose high byte is in the same page as its low byte.
WordInPage(s, a) == Byte(s, a) + 256 * Byte(s, 256 * (a \div 256) + ((a + 1) % 256))
Store(s, a, v) ==
  [s EXCEPT !.mem = [i \in DOMAIN s.mem \cup {a} |-> IF i = a THEN v ELSE s.mem[i]]]

Bits(n) == {i \in 0..7 : (n \div 2^i) % 2 = 1}
Number(bits) == SumSet({2^i : i \in bits})
StatusBits == <<"C", "Z", "I", "D", "B", "X", "V", "N">>
Status(flags) == Number({i \in 0..7 : StatusBits[i + 1] \in flags})
Unstatus(n) == {StatusBits[i + 1] : i \in Bits(n)}
Asserted(f, holds) == IF holds THEN {f} ELSE {}
SignOf(v) == Asserted("Z", v = 0) \cup Asserted("N", v > 127)
CarryIn(s) == IF "C" \in s.p THEN 1 ELSE 0

-----------------------------------------------------------------------------
Lengths == [acc |-> 1, imp |-> 1, imm |-> 2, zp |-> 2, zpX |-> 2, zpY |-> 2, rel |-> 2,
            indX |-> 2, indY |-> 2, abs |-> 3, absX |-> 3, absY |-> 3, ind |-> 3]

Entry(s) == for_value(Byte(s, s.pc))
Operand1(s) == Byte(s, (s.pc + 1) % 65536)
OperandWord(s) == Operand1(s) + 256 * Byte(s, (s.pc + 2) % 65536)
Following(s) == (s.pc + Lengths[Entry(s).addressing_mode]) % 65536

\* The address before indexing, the index, and the effective address.
Base(s) ==
  CASE Entry(s).addressing_mode \in {"abs", "absX", "absY"} -> OperandWord(s)
    [] Entry(s).addressing_mode = "indY" -> WordInPage(s, Operand1(s))
    [] OTHER -> 0
Offset(s) ==
  CASE Entry(s).addressing_mode = "absX" -> s.x
    [] Entry(s).addressing_mode \in {"absY", "indY"} -> s.y
    [] OTHER -> 0
EffectiveAddress(s) ==
  CASE Entry(s).addressing_mode = "zp" -> Operand1(s)
    [] Entry(s).addressing_mode = "zpX" -> (Operand1(s) + s.x) % 256
    [] Entry(s).addressing_mode = "zpY" -> (Operand1(s) + s.y) % 256
    [] Entry(s).addressing_mode = "indX" -> WordInPage(s, (Operand1(s) + s.x) % 256)
    [] Entry(s).addressing_mode = "ind" -> WordInPage(s, OperandWord(s))
    [] OTHER -> (Base(s) + Offset(s)) % 65536
CrossesPage(s) == Base(s) \div 256 # (Base(s) + Offset(s)) \div 256

Value(s) ==
  CASE Entry(s).addressing_mode = "acc" -> s.a
    [] Entry(s).addressing_mode = "imm" -> Operand1(s)
    [] OTHER -> Byte(s, EffectiveAddress(s))

-----------------------------------------------------------------------------
Signed8(v) == IF v < 128 THEN v ELSE v - 256
Decimal(v) == 10 * (v \div 16) + (v % 16)
ToDecimal(n) == 16 * (n \div 10) + (n % 10)
Load(s, r, v) == [s EXCEPT ![r] = v, !.p = (@ \ {"N", "Z"}) \cup SignOf(v)]

\* Addition of two bytes and a carry; subtraction adds the complement.
Plus(s, v) ==
  LET sum == s.a + v + CarryIn(s)
      signed == Signed8(s.a) + Signed8(v) + CarryIn(s)
  IN [Load(s, "a", sum % 256) EXCEPT
        !.p = (@ \ {"C", "V"}) \cup Asserted("C", sum > 255)
                \cup Asserted("V", signed \notin -128..127)]

\* In decimal mode the 6502 takes Z from the binary sum, and N and V from the
\* sum before its high digit is corrected.
DecimalPlus(s, v) ==
  LET sum == Decimal(s.a) + Decimal(v) + CarryIn(s)
      half == IF (s.a % 16) + (v % 16) + CarryIn(s) > 9 THEN 1 ELSE 0
      high == (s.a \div 16) + (v \div 16) + half
      signedHigh == (Signed8(16 * (s.a \div 16)) + Signed8(16 * (v \div 16)) + 16 * half) \div 16
      zero == (s.a + v + CarryIn(s)) % 256 = 0
  IN [s EXCEPT !.a = ToDecimal(sum % 100),
               !.p = (@ \ {"N", "V", "Z", "C"}) \cup Asserted("C", sum > 99)
                       \cup Asserted("Z", zero) \cup Asserted("N", ~zero /\ high % 16 > 7)
                       \cup Asserted("V", signedHigh \notin -8..7)]
DecimalMinus(s, v) ==
  [Plus(s, 255 - v) EXCEPT
     !.a = ToDecimal((Decimal(s.a) - Decimal(v) - (1 - CarryIn(s))) % 100)]

Compare(s, r, v) ==
  [s EXCEPT !.p = (@ \ {"N", "Z", "C"}) \cup SignOf((r - v) % 256) \cup Asserted("C", r >= v)]

\* Rotations and shifts of one bit: the value, and the bit that falls out.
Rotated(s, name, v) ==
  CASE name = "asl" -> <<(2 * v) % 256, v \div 128>>
    [] name = "rol" -> <<(2 * v + CarryIn(s)) % 256, v \div 128>>
    [] name = "lsr" -> <<v \div 2, v % 2>>
    [] name = "ror" -> <<(256 * CarryIn(s) + v) \div 2, v % 2>>

PushOn(s, v) == [Store(s, 256 + s.sp, v) EXCEPT !.sp = (@ - 1) % 256]
Pulled(s, n) == Byte(s, 256 + ((s.sp + n) % 256))
Pop(s, n) == [s EXCEPT !.sp = (@ + n) % 256]
PushAddress(s, a) == PushOn(PushOn(s, a \div 256), a % 256)
Enter(s, return, flags) ==
  [PushOn(PushAddress(s, return), Status(flags \cup {"X"})) EXCEPT
     !.p = @ \cup {"I"}, !.pc = WordInPage(s, \hFFFE)]

Loads == [lda |-> "a", ldx |-> "x", ldy |-> "y"]
Stores == [sta |-> "a", stx |-> "x", sty |-> "y"]
Compares == [cmp |-> "a", cpx |-> "x", cpy |-> "y"]
Counts == [inx |-> <<"x", 1>>, dex |-> <<"x", -1>>, iny |-> <<"y", 1>>, dey |-> <<"y", -1>>]
Transfers == [tax |-> <<"a", "x">>, tay |-> <<"a", "y">>, txa |-> <<"x", "a">>,
              tya |-> <<"y", "a">>, tsx |-> <<"sp", "x">>]
Clears == [clc |-> "C", cld |-> "D", cli |-> "I", clv |-> "V"]
Sets == [sec |-> "C", sed |-> "D", sei |-> "I"]
Branches == [bcc |-> <<"C", FALSE>>, bcs |-> <<"C", TRUE>>, bne |-> <<"Z", FALSE>>,
             beq |-> <<"Z", TRUE>>, bpl |-> <<"N", FALSE>>, bmi |-> <<"N", TRUE>>,
             bvc |-> <<"V", FALSE>>, bvs |-> <<"V", TRUE>>]
Logic == {"and", "ora", "eor"}
Combined(name, v, w) ==
  CASE name = "and" -> Number(Bits(v) \cap Bits(w))
    [] name = "ora" -> Number(Bits(v) \cup Bits(w))
    [] name = "eor" -> Number(SymDiff(Bits(v), Bits(w)))

BranchTaken(s) ==
  LET n == Entry(s).name
  IN n \in DOMAIN Branches /\ (Branches[n][1] \in s.p) = Branches[n][2]
BranchTarget(s) == (Following(s) + Signed8(Operand1(s))) % 65536

\* The effect of the instruction at s0.pc: s has passed it, n is its name, v its
\* operand and ea its effective address.
Effect(s0) ==
  LET s == [s0 EXCEPT !.pc = Following(s0)]
      n == Entry(s0).name
      v == Value(s0)
      ea == EffectiveAddress(s0)
  IN
  CASE n \in DOMAIN Loads -> Load(s, Loads[n], v)
    [] n \in DOMAIN Stores -> Store(s, ea, s[Stores[n]])
    [] n \in DOMAIN Compares -> Compare(s, s[Compares[n]], v)
    [] n \in DOMAIN Counts -> Load(s, Counts[n][1], (s[Counts[n][1]] + Counts[n][2]) % 256)
    [] n \in DOMAIN Transfers -> Load(s, Transfers[n][2], s[Transfers[n][1]])
    [] n = "txs" -> [s EXCEPT !.sp = s.x]
    [] n \in DOMAIN Clears -> [s EXCEPT !.p = @ \ {Clears[n]}]
    [] n \in DOMAIN Sets -> [s EXCEPT !.p = @ \cup {Sets[n]}]
    [] n \in Logic -> Load(s, "a", Combined(n, s.a, v))
    [] n = "bit" -> [s EXCEPT !.p = (@ \ {"N", "V", "Z"}) \cup (Unstatus(v) \cap {"N", "V"})
                                      \cup Asserted("Z", Bits(v) \cap Bits(s.a) = {})]
    [] n = "adc" -> IF "D" \in s.p THEN DecimalPlus(s, v) ELSE Plus(s, v)
    [] n = "sbc" -> IF "D" \in s.p THEN DecimalMinus(s, v) ELSE Plus(s, 255 - v)
    [] n \in {"inc", "dec"} ->
         LET w == (v + (IF n = "inc" THEN 1 ELSE -1)) % 256
         IN [Store(s, ea, w) EXCEPT !.p = (@ \ {"N", "Z"}) \cup SignOf(w)]
    [] n \in {"asl", "lsr", "rol", "ror"} ->
         LET r == Rotated(s, n, v)
             t == [s EXCEPT !.p = (@ \ {"N", "Z", "C"}) \cup SignOf(r[1])
                                    \cup Asserted("C", r[2] = 1)]
         IN IF Entry(s0).addressing_mode = "acc" THEN [t EXCEPT !.a = r[1]] ELSE Store(t, ea, r[1])
    [] n \in DOMAIN Branches -> IF BranchTaken(s0) THEN [s EXCEPT !.pc = BranchTarget(s0)] ELSE s
    [] n = "jmp" -> [s EXCEPT !.pc = ea]
    [] n = "jsr" -> [PushAddress(s, (s.pc - 1) % 65536) EXCEPT !.pc = ea]
    [] n = "rts" -> [Pop(s, 2) EXCEPT !.pc = (Pulled(s, 1) + 256 * Pulled(s, 2) + 1) % 65536]
    [] n = "rti" -> [Pop(s, 3) EXCEPT !.p = (Unstatus(Pulled(s, 1)) \cup {"B"}) \ {"X"},
                                      !.pc = Pulled(s, 2) + 256 * Pulled(s, 3)]
    [] n = "brk" -> Enter(s, (s.pc + 1) % 65536, s.p \cup {"B"})
    [] n = "pha" -> PushOn(s, s.a)
    [] n = "php" -> PushOn(s, Status(s.p \cup {"B", "X"}))
    [] n = "pla" -> Load(Pop(s, 1), "a", Pulled(s, 1))
    [] n = "plp" -> [Pop(s, 1) EXCEPT !.p = (Unstatus(Pulled(s, 1)) \cup {"B"}) \ {"X"}]
    [] n = "nop" -> s

-----------------------------------------------------------------------------
Instruction == arch' = Effect(arch)

Interrupt ==
  /\ "I" \notin arch.p
  /\ arch' = Enter(arch, arch.pc, arch.p \ {"B"})

\* A reset keeps A, X, Y and the flags, I among them.
Reset == arch' = [arch EXCEPT !.sp = \hFD, !.pc = WordInPage(arch, \hFFFC)]

Init == arch.pc \in 0..65535 /\ "B" \in arch.p

Next == Instruction \/ Interrupt \/ Reset

Spec == Init /\ [][Next]_arch
=============================================================================
