------------------------------ MODULE MCM6502 ------------------------------
(***************************************************************************)
(* Instances of M6502.  A program is one instruction, or a few that belong *)
(* together, with operands and registers at the edges: pages crossed and   *)
(* not, zero page and stack wrapping round, signs, carries, and branches   *)
(* either way.                                                             *)
(***************************************************************************)
EXTENDS M6502

MCBackground(a) == (7 * a + 13 * (a \div 256) + 5) % 256

\* temp_addr_ and ir_ hold what the instruction before left in them.
Regs(pc, a, x, y, sp, p) ==
  [pc |-> pc, a |-> a, x |-> x, y |-> y, sp |-> sp, p |-> p \cup {"B"},
   t |-> \hABCD, op |-> \hEA, cyc |-> 2, brk |-> {}]

Scenario(regs, code, image, n, ins) ==
  [regs |-> regs, code |-> code, image |-> image, instructions |-> n, inputs |-> ins]

\* The bytes of one instruction.
Encodings(e) ==
  CASE e.bytes = 1 -> {<<e.hex>>}
    [] e.bytes = 2 -> {<<e.hex, lo>> : lo \in {\h00, \h10, \h7F, \h80, \hFE, \hFF}}
    [] e.bytes = 3 -> {<<e.hex, lo, hi>> : lo \in {\h00, \h7F, \h80, \hFF}, hi \in {\h00, \h34, \hFF}}

RegisterFiles ==
  {Regs(pc, r[1], r[2], r[3], r[4], p) :
     pc \in {\h0210, \h02FD, \hFFFE},
     r \in {<<\h00, \h00, \h00, \hFF>>, <<\h80, \hFF, \h01, \h00>>, <<\h7F, \h01, \hFF, \h01>>,
            <<\hFF, \h80, \h7F, \hFE>>},
     p \in {{}, {"C", "Z"}, {"N", "V", "I"}, {"C", "N", "V", "Z", "I"}}}

Singles == {Scenario(RegisterFiles, Encodings(e), << >>, 1, {}) : e \in op_codes}

\* Arithmetic with an immediate operand.
BytesOf(digits) == {16 * h + l : h \in digits, l \in digits}
Sums(opcodes, digits, flags) ==
  Scenario({Regs(\h0210, a, 0, 0, \hFF, flags \cup c) : a \in BytesOf(digits), c \in {{}, {"C"}}},
           {<<op, v>> : op \in opcodes, v \in BytesOf(digits)}, << >>, 1, {})
Arithmetic ==
  {Sums({\h69, \hE9, \hC9}, {0, 1, 5, 7, 8, 9, 10, 15}, {}), Sums({\h69, \hE9}, 0..9, {"D"})}

\* Interrupts around an instruction, with a handler that returns at once; a
\* break, a subroutine, and a reset in between.
Handler == \hFFFE :> \h00 @@ \hFFFF :> \h40 @@ \h4000 :> \h40 @@ \hFFFC :> \h00 @@ \hFFFD :> \h50
  @@ \h5000 :> \hEA @@ \h5001 :> \hEA @@ \h5002 :> \hEA
Sequences3 ==
  {Scenario({Regs(pc, \h11, \h22, \h33, sp, p) :
               pc \in {\h0210, \h02FF}, sp \in {\hFF, \h02, \h01, \h00},
               p \in {{}, {"I", "D"}, {"C", "N"}}},
            {<<\h58, \hEA, \hEA, \hEA>>, <<\h78, \hEA, \hEA, \hEA>>, <<\h08, \h28, \hEA, \hEA>>,
             <<\h00, \hEA, \hEA, \hEA>>, <<\h90, \h01, \hEA, \hEA, \hEA, \hEA>>},
            Handler, 3, {"irq", "reset"})}

MCScenarios == Singles \cup Arithmetic \cup Sequences3
=============================================================================
