---------------------------- MODULE CycleHandlers ----------------------------
(***************************************************************************)
(* The table of the 6502's cycle handlers: for every opcode the CPU knows, *)
(* the handlers of its cycles in order.  The code gives every cycle of     *)
(* every opcode a lambda of its own; here a handler is a tuple, its name   *)
(* and its arguments, and an opcode is an addressing mode applied to what  *)
(* is done there.  Module M6502 says what each handler does.               *)
(*                                                                         *)
(* <<"zp", r>>, <<"zpX", r>>, <<"address", r>>, <<"overX", r>> and their   *)
(* like put an address on the bus; r is the register that is written       *)
(* there, "" when the cycle reads.                                         *)
(***************************************************************************)
EXTENDS Naturals, Sequences, TLC

Peek == <<"peek">>
Operand == <<"operand">>
Low == <<"low">>
Pointer == <<"pointer">>
PointerX == <<"pointerX">>
PointerHi == <<"pointerHi">>
End == <<"end">>

(***************************************************************************)
(* Addressing modes.                                                       *)
(***************************************************************************)
Implied(op) == <<Peek, <<"implied", op>>>>

\* Reading instructions.
Immediate(op) == <<Operand, <<"read", op>>>>
ZeroPage(op) == <<Operand, <<"zp", "">>, <<"read", op>>>>
ZeroPageX(op) == <<Operand, Pointer, <<"zpX", "">>, <<"read", op>>>>
ZeroPageY(op) == <<Operand, Pointer, <<"zpY", "">>, <<"read", op>>>>
Absolute(op) == <<Operand, Low, <<"address", "">>, <<"read", op>>>>
AbsoluteX(op) == <<Operand, Low, <<"indexX", "skip">>, <<"overX", "">>, <<"read", op>>>>
AbsoluteY(op) == <<Operand, Low, <<"indexY", "skip">>, <<"overY", "">>, <<"read", op>>>>
IndirectX(op) ==
  <<Operand, Pointer, PointerX, PointerHi, <<"address", "">>, <<"read", op>>>>
IndirectY(op) ==
  <<Operand, Pointer, PointerHi, <<"indexY", "skip">>, <<"overY", "">>, <<"read", op>>>>

\* Stores: no cycle is skipped, and the address cycle writes.
ZeroPageStore(r) == <<Operand, <<"zp", r>>, End>>
ZeroPageXStore(r) == <<Operand, Pointer, <<"zpX", r>>, End>>
ZeroPageYStore(r) == <<Operand, Pointer, <<"zpY", r>>, End>>
AbsoluteStore(r) == <<Operand, Low, <<"address", r>>, End>>
AbsoluteXStore(r) == <<Operand, Low, <<"indexX", "stay">>, <<"overX", r>>, End>>
AbsoluteYStore(r) == <<Operand, Low, <<"indexY", "stay">>, <<"overY", r>>, End>>
IndirectXStore(r) == <<Operand, Pointer, PointerX, PointerHi, <<"address", r>>, End>>
IndirectYStore(r) ==
  <<Operand, Pointer, PointerHi, <<"indexY", "stay">>, <<"overY", r>>, End>>

\* Read-modify-write: the value is written back unchanged before it is
\* written changed.
Modify(op) == <<<<"hold">>, <<"modify", op>>, End>>
ZeroPageModify(op) == <<Operand, <<"zp", "">>>> \o Modify(op)
ZeroPageXModify(op) == <<Operand, Pointer, <<"zpX", "">>>> \o Modify(op)
AbsoluteModify(op) == <<Operand, Low, <<"address", "">>>> \o Modify(op)
AbsoluteXModify(op) ==
  <<Operand, Low, <<"indexX", "skip">>, <<"overX", "">>>> \o Modify(op)

Branch(flag, set) ==
  <<<<"branch0">>, <<"branch1", flag, set>>, <<"branch2">>, <<"branch3">>>>

\* The stack, subroutines and interrupts.
Brk == <<Peek, <<"brk1">>, <<"push", "pcl">>, <<"brk3">>, <<"brk4">>, <<"brk5">>, <<"jump">>>>
Push(what) == <<Peek, <<"push", what>>, End>>
Pla == <<Peek, <<"stack">>, <<"pull">>, <<"read", "lda">>>>
Plp == <<Peek, <<"stack">>, <<"pull">>, <<"plp">>>>
Rti == <<Peek, <<"stack">>, <<"pull">>, <<"pullFlags">>, <<"pullLow">>, <<"jump">>>>
Rts == <<Peek, <<"stack">>, <<"pull">>, <<"pullLow">>, <<"return">>, End>>
Jsr == <<Operand, <<"stackLow">>, <<"push", "pch">>, <<"push", "pcl">>, Peek, <<"jump">>>>
JmpAbsolute == <<Operand, Low, <<"jump">>>>
JmpIndirect == <<Operand, Low, <<"vector">>, <<"vectorHi">>, <<"jump">>>>
Nop == <<Peek, End>>

(***************************************************************************)
(* cycle_handlers, eight opcodes at a time; the opcodes that are missing   *)
(* have no handler.                                                        *)
(***************************************************************************)
Handlers00 ==
  \h00 :> Brk @@ \h01 :> IndirectX("ora") @@ \h05 :> ZeroPage("ora")
  @@ \h06 :> ZeroPageModify("asl")
Handlers08 ==
  \h08 :> Push("p") @@ \h09 :> Immediate("ora") @@ \h0A :> Implied("asl")
  @@ \h0D :> Absolute("ora") @@ \h0E :> AbsoluteModify("asl")
Handlers10 ==
  \h10 :> Branch("N", FALSE) @@ \h11 :> IndirectY("ora") @@ \h15 :> ZeroPageX("ora")
  @@ \h16 :> ZeroPageXModify("asl")
Handlers18 ==
  \h18 :> Implied("clc") @@ \h19 :> AbsoluteY("ora") @@ \h1D :> AbsoluteX("ora")
  @@ \h1E :> AbsoluteXModify("asl")
Handlers20 ==
  \h20 :> Jsr @@ \h21 :> IndirectX("and") @@ \h24 :> ZeroPage("bit")
  @@ \h25 :> ZeroPage("and") @@ \h26 :> ZeroPageModify("rol")
Handlers28 ==
  \h28 :> Plp @@ \h29 :> Immediate("and") @@ \h2A :> Implied("rol")
  @@ \h2C :> Absolute("bit") @@ \h2D :> Absolute("and") @@ \h2E :> AbsoluteModify("rol")
Handlers30 ==
  \h30 :> Branch("N", TRUE) @@ \h31 :> IndirectY("and") @@ \h35 :> ZeroPageX("and")
  @@ \h36 :> ZeroPageXModify("rol")
Handlers38 ==
  \h38 :> Implied("sec") @@ \h39 :> AbsoluteY("and") @@ \h3D :> AbsoluteX("and")
  @@ \h3E :> AbsoluteXModify("rol")
Handlers40 ==
  \h40 :> Rti @@ \h41 :> IndirectX("eor") @@ \h45 :> ZeroPage("eor")
  @@ \h46 :> ZeroPageModify("lsr")
Handlers48 ==
  \h48 :> Push("a") @@ \h49 :> Immediate("eor") @@ \h4A :> Implied("lsr")
  @@ \h4C :> JmpAbsolute @@ \h4D :> Absolute("eor") @@ \h4E :> AbsoluteModify("lsr")
Handlers50 ==
  \h50 :> Branch("V", FALSE) @@ \h51 :> IndirectY("eor") @@ \h55 :> ZeroPageX("eor")
  @@ \h56 :> ZeroPageXModify("lsr")
Handlers58 ==
  \h58 :> Implied("cli") @@ \h59 :> AbsoluteY("eor") @@ \h5D :> AbsoluteX("eor")
  @@ \h5E :> AbsoluteXModify("lsr")
Handlers60 ==
  \h60 :> Rts @@ \h61 :> IndirectX("adc") @@ \h65 :> ZeroPage("adc")
  @@ \h66 :> ZeroPageModify("ror")
Handlers68 ==
  \h68 :> Pla @@ \h69 :> Immediate("adc") @@ \h6A :> Implied("ror")
  @@ \h6C :> JmpIndirect @@ \h6D :> Absolute("adc") @@ \h6E :> AbsoluteModify("ror")
Handlers70 ==
  \h70 :> Branch("V", TRUE) @@ \h71 :> IndirectY("adc") @@ \h75 :> ZeroPageX("adc")
  @@ \h76 :> ZeroPageXModify("ror")
Handlers78 ==
  \h78 :> Implied("sei") @@ \h79 :> AbsoluteY("adc") @@ \h7D :> AbsoluteX("adc")
  @@ \h7E :> AbsoluteXModify("ror")
Handlers80 ==
  \h81 :> IndirectXStore("a") @@ \h84 :> ZeroPageStore("y")
  @@ \h85 :> ZeroPageStore("a") @@ \h86 :> ZeroPageStore("x")
Handlers88 ==
  \h88 :> Implied("dey") @@ \h8A :> Implied("txa") @@ \h8C :> AbsoluteStore("y")
  @@ \h8D :> AbsoluteStore("a") @@ \h8E :> AbsoluteStore("x")
Handlers90 ==
  \h90 :> Branch("C", FALSE) @@ \h91 :> IndirectYStore("a")
  @@ \h94 :> ZeroPageXStore("y") @@ \h95 :> ZeroPageXStore("a")
  @@ \h96 :> ZeroPageYStore("x")
Handlers98 ==
  \h98 :> Implied("tya") @@ \h99 :> AbsoluteYStore("a") @@ \h9A :> Implied("txs")
  @@ \h9D :> AbsoluteXStore("a")
HandlersA0 ==
  \hA0 :> Immediate("ldy") @@ \hA1 :> IndirectX("lda") @@ \hA2 :> Immediate("ldx")
  @@ \hA4 :> ZeroPage("ldy") @@ \hA5 :> ZeroPage("lda") @@ \hA6 :> ZeroPage("ldx")
HandlersA8 ==
  \hA8 :> Implied("tay") @@ \hA9 :> Immediate("lda") @@ \hAA :> Implied("tax")
  @@ \hAC :> Absolute("ldy") @@ \hAD :> Absolute("lda") @@ \hAE :> Absolute("ldx")
HandlersB0 ==
  \hB0 :> Branch("C", TRUE) @@ \hB1 :> IndirectY("lda") @@ \hB4 :> ZeroPageX("ldy")
  @@ \hB5 :> ZeroPageX("lda") @@ \hB6 :> ZeroPageY("ldx")
HandlersB8 ==
  \hB8 :> Implied("clv") @@ \hB9 :> AbsoluteY("lda") @@ \hBA :> Implied("tsx")
  @@ \hBC :> AbsoluteX("ldy") @@ \hBD :> AbsoluteX("lda") @@ \hBE :> AbsoluteY("ldx")
HandlersC0 ==
  \hC0 :> Immediate("cpy") @@ \hC1 :> IndirectX("cmp") @@ \hC4 :> ZeroPage("cpy")
  @@ \hC5 :> ZeroPage("cmp") @@ \hC6 :> ZeroPageModify("dec")
HandlersC8 ==
  \hC8 :> Implied("iny") @@ \hC9 :> Immediate("cmp") @@ \hCA :> Implied("dex")
  @@ \hCC :> Absolute("cpy") @@ \hCD :> Absolute("cmp") @@ \hCE :> AbsoluteModify("dec")
HandlersD0 ==
  \hD0 :> Branch("Z", FALSE) @@ \hD1 :> IndirectY("cmp") @@ \hD5 :> ZeroPageX("cmp")
  @@ \hD6 :> ZeroPageXModify("dec")
HandlersD8 ==
  \hD8 :> Implied("cld") @@ \hD9 :> AbsoluteY("cmp") @@ \hDD :> AbsoluteX("cmp")
  @@ \hDE :> AbsoluteXModify("dec")
HandlersE0 ==
  \hE0 :> Immediate("cpx") @@ \hE1 :> IndirectX("sbc") @@ \hE4 :> ZeroPage("cpx")
  @@ \hE5 :> ZeroPage("sbc") @@ \hE6 :> ZeroPageModify("inc")
HandlersE8 ==
  \hE8 :> Implied("inx") @@ \hE9 :> Immediate("sbc") @@ \hEA :> Nop
  @@ \hEC :> Absolute("cpx") @@ \hED :> Absolute("sbc") @@ \hEE :> AbsoluteModify("inc")
HandlersF0 ==
  \hF0 :> Branch("Z", TRUE) @@ \hF1 :> IndirectY("sbc") @@ \hF5 :> ZeroPageX("sbc")
  @@ \hF6 :> ZeroPageXModify("inc")
HandlersF8 ==
  \hF8 :> Implied("sed") @@ \hF9 :> AbsoluteY("sbc") @@ \hFD :> AbsoluteX("sbc")
  @@ \hFE :> AbsoluteXModify("inc")

\* handler_table, as init_handler_table() fills it.
handler_table ==
  Handlers00 @@ Handlers08 @@ Handlers10 @@ Handlers18 @@ Handlers20 @@ Handlers28
  @@ Handlers30 @@ Handlers38 @@ Handlers40 @@ Handlers48 @@ Handlers50 @@ Handlers58
  @@ Handlers60 @@ Handlers68 @@ Handlers70 @@ Handlers78 @@ Handlers80 @@ Handlers88
  @@ Handlers90 @@ Handlers98 @@ HandlersA0 @@ HandlersA8 @@ HandlersB0 @@ HandlersB8
  @@ HandlersC0 @@ HandlersC8 @@ HandlersD0 @@ HandlersD8 @@ HandlersE0 @@ HandlersE8
  @@ HandlersF0 @@ HandlersF8
=============================================================================
