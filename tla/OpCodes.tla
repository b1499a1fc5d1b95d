------------------------------ MODULE OpCodes ------------------------------
(***************************************************************************)
(* The opcode table of the debugger: what the disassembler believes about  *)
(* each opcode.  The CPU itself does not use it; module InstructionSet     *)
(* takes the names and the addressing modes of the opcodes from it.        *)
(***************************************************************************)
EXTENDS Naturals

Entries(mode, bytes, cycles, page_affected, opcodes) ==
  {[hex |-> o[1], name |-> o[2], addressing_mode |-> mode, bytes |-> bytes,
    cycles |-> cycles, page_affected |-> page_affected] : o \in opcodes}

EntriesAdcToJsr ==
       Entries("abs", 3, 3, FALSE, {<<\h4C, "jmp">>})
  \cup Entries("abs", 3, 4, FALSE, {<<\h6D, "adc">>, <<\h2D, "and">>, <<\h2C, "bit">>,
         <<\hCD, "cmp">>, <<\hEC, "cpx">>, <<\hCC, "cpy">>, <<\h4D, "eor">>})
  \cup Entries("abs", 3, 6, FALSE, {<<\h0E, "asl">>, <<\hCE, "dec">>, <<\hEE, "inc">>,
         <<\h20, "jsr">>})
  \cup Entries("absX", 3, 4, TRUE, {<<\h7D, "adc">>, <<\h3D, "and">>, <<\hDD, "cmp">>,
         <<\h5D, "eor">>})
  \cup Entries("absX", 3, 7, FALSE, {<<\h1E, "asl">>, <<\hDE, "dec">>, <<\hFE, "inc">>})
  \cup Entries("absY", 3, 4, TRUE, {<<\h79, "adc">>, <<\h39, "and">>, <<\hD9, "cmp">>,
         <<\h59, "eor">>})
  \cup Entries("acc", 1, 2, FALSE, {<<\h0A, "asl">>})
  \cup Entries("imm", 2, 2, FALSE, {<<\h69, "adc">>, <<\h29, "and">>, <<\hC9, "cmp">>,
         <<\hE0, "cpx">>, <<\hC0, "cpy">>, <<\h49, "eor">>})
  \cup Entries("imp", 1, 2, FALSE, {<<\h18, "clc">>, <<\hD8, "cld">>, <<\h58, "cli">>,
         <<\hB8, "clv">>, <<\hCA, "dex">>, <<\h88, "dey">>, <<\hE8, "inx">>,
         <<\hC8, "iny">>})
  \cup Entries("imp", 1, 7, FALSE, {<<\h00, "brk">>})
  \cup Entries("ind", 3, 5, FALSE, {<<\h6C, "jmp">>})
  \cup Entries("indX", 2, 6, FALSE, {<<\h61, "adc">>, <<\h21, "and">>, <<\hC1, "cmp">>,
         <<\h41, "eor">>})
  \cup Entries("indY", 2, 5, FALSE, {<<\h71, "adc">>, <<\h31, "and">>, <<\hD1, "cmp">>})
  \cup Entries("indY", 2, 5, TRUE, {<<\h51, "eor">>})
  \cup Entries("rel", 2, 2, TRUE, {<<\h90, "bcc">>, <<\hB0, "bcs">>, <<\hF0, "beq">>,
         <<\h30, "bmi">>, <<\hD0, "bne">>, <<\h10, "bpl">>, <<\h50, "bvc">>,
         <<\h70, "bvs">>})
  \cup Entries("zp", 2, 3, FALSE, {<<\h65, "adc">>, <<\h25, "and">>, <<\h24, "bit">>,
         <<\hC5, "cmp">>, <<\hE4, "cpx">>, <<\hC4, "cpy">>, <<\h45, "eor">>})
  \cup Entries("zp", 2, 5, FALSE, {<<\h06, "asl">>, <<\hC6, "dec">>, <<\hE6, "inc">>})
  \cup Entries("zpX", 2, 4, FALSE, {<<\h75, "adc">>, <<\h35, "and">>, <<\hD5, "cmp">>,
         <<\h55, "eor">>})
  \cup Entries("zpX", 2, 6, FALSE, {<<\h16, "asl">>, <<\hD6, "dec">>, <<\hF6, "inc">>})

EntriesLdaToTya ==
       Entries("abs", 3, 4, FALSE, {<<\hAD, "lda">>, <<\hAE, "ldx">>, <<\hAC, "ldy">>,
         <<\h0D, "ora">>, <<\hED, "sbc">>, <<\h8D, "sta">>, <<\h8E, "stx">>,
         <<\h8C, "sty">>})
  \cup Entries("abs", 3, 6, FALSE, {<<\h4E, "lsr">>, <<\h2E, "rol">>, <<\h6E, "ror">>})
  \cup Entries("absX", 3, 4, TRUE, {<<\hBD, "lda">>, <<\hBC, "ldy">>, <<\h1D, "ora">>,
         <<\hFD, "sbc">>})
  \cup Entries("absX", 3, 5, FALSE, {<<\h9D, "sta">>})
  \cup Entries("absX", 3, 7, FALSE, {<<\h5E, "lsr">>, <<\h3E, "rol">>, <<\h7E, "ror">>})
  \cup Entries("absY", 3, 4, TRUE, {<<\hB9, "lda">>, <<\hBE, "ldx">>, <<\h19, "ora">>,
         <<\hF9, "sbc">>})
  \cup Entries("absY", 3, 5, FALSE, {<<\h99, "sta">>})
  \cup Entries("acc", 1, 2, FALSE, {<<\h4A, "lsr">>, <<\h2A, "rol">>, <<\h6A, "ror">>})
  \cup Entries("imm", 2, 2, FALSE, {<<\hA2, "ldx">>, <<\hA0, "ldy">>, <<\h09, "ora">>,
         <<\hE9, "sbc">>})
  \cup Entries("imm", 2, 3, FALSE, {<<\hA9, "lda">>})
  \cup Entries("imp", 1, 2, FALSE, {<<\hEA, "nop">>, <<\h38, "sec">>, <<\hF8, "sed">>,
         <<\h78, "sei">>, <<\hAA, "tax">>, <<\hA8, "tay">>, <<\hBA, "tsx">>,
         <<\h8A, "txa">>, <<\h9A, "txs">>, <<\h98, "tya">>})
  \cup Entries("imp", 1, 3, FALSE, {<<\h48, "pha">>, <<\h08, "php">>})
  \cup Entries("imp", 1, 4, FALSE, {<<\h68, "pla">>, <<\h28, "plp">>})
  \cup Entries("imp", 1, 6, FALSE, {<<\h40, "rti">>, <<\h60, "rts">>})
  \cup Entries("indX", 2, 6, FALSE, {<<\hA1, "lda">>, <<\h01, "ora">>, <<\hE1, "sbc">>,
         <<\h81, "sta">>})
  \cup Entries("indY", 2, 5, TRUE, {<<\hB1, "lda">>, <<\h11, "ora">>, <<\hF1, "sbc">>})
  \cup Entries("indY", 2, 6, FALSE, {<<\h91, "sta">>})
  \cup Entries("zp", 2, 2, FALSE, {<<\hA5, "lda">>})
  \cup Entries("zp", 2, 3, FALSE, {<<\hA6, "ldx">>, <<\hA4, "ldy">>, <<\h05, "ora">>,
         <<\hE5, "sbc">>, <<\h85, "sta">>, <<\h86, "stx">>, <<\h84, "sty">>})
  \cup Entries("zp", 2, 5, FALSE, {<<\h46, "lsr">>, <<\h26, "rol">>, <<\h66, "ror">>})
  \cup Entries("zpX", 2, 4, FALSE, {<<\hB4, "ldy">>, <<\h15, "ora">>, <<\hF5, "sbc">>,
         <<\h95, "sta">>, <<\h94, "sty">>})
  \cup Entries("zpX", 2, 6, FALSE, {<<\h56, "lsr">>, <<\h36, "rol">>, <<\h76, "ror">>})
  \cup Entries("zpX", 3, 4, FALSE, {<<\hB5, "lda">>})
  \cup Entries("zpY", 2, 4, FALSE, {<<\hB6, "ldx">>, <<\h96, "stx">>})

op_codes == EntriesAdcToJsr \cup EntriesLdaToTya

KnownOpcodes == {e.hex : e \in op_codes}

\* op_codes as a map, and OpCode::for_value() of an opcode that is in it.
opcode_map == [v \in KnownOpcodes |-> CHOOSE e \in op_codes : e.hex = v]
for_value(v) == opcode_map[v]
=============================================================================
