------------------------------- MODULE Instr -------------------------------
(***************************************************************************)
(* The instruction codec of common/instr.c: a 32-bit MIPS-I word is parsed *)
(* into a `struct instr', the parsed instruction is rewritten to a pseudo  *)
(* instruction when the operands allow it, pseudo instructions are turned  *)
(* back into native ones, and native ones are written as words.            *)
(*                                                                         *)
(* A word is the pair <<hi, lo>> of its two 16-bit halves, because TLC's   *)
(* integers have 32 bits and a sign.                                       *)
(***************************************************************************)
EXTENDS Integers, Sequences

HalfMax == 65535
Half == 0..HalfMax
Word == Half \X Half
Reg  == 0..31

(***************************************************************************)
(* enum operation: the native instructions come before NOP in the enum,    *)
(* the pseudo instructions after it.                                       *)
(***************************************************************************)
Shifts  == {"SLL", "SRL", "SRA"}
ShiftVs == {"SLLV", "SRLV", "SRAV"}
Alu     == {"ADD", "ADDU", "SUB", "SUBU", "AND", "OR", "XOR", "NOR"}
AluImm  == {"ADDI", "ADDIU", "ANDI", "ORI", "XORI", "LUI"}
MulDiv  == {"MULT", "MULTU", "DIV", "DIVU", "MTHI", "MTLO", "MFHI", "MFLO"}
Loads   == {"LB", "LH", "LW", "LBU", "LHU"}
Stores  == {"SB", "SH", "SW"}
Compare == {"SLT", "SLTU", "SLTI", "SLTIU"}
NativeBranch == {"BLTZ", "BGEZ", "BLTZAL", "BGEZAL", "BEQ", "BNE", "BLEZ", "BGTZ"}
Jumps   == {"J", "JAL", "JR", "JALR"}
Cop0    == {"MFC0", "MTC0"}
Stops   == {"BREAK", "SYSCALL"}

Native == Shifts \cup ShiftVs \cup Alu \cup AluImm \cup MulDiv \cup Loads
            \cup Stores \cup Compare \cup NativeBranch \cup Jumps \cup Cop0 \cup Stops

PseudoBranch == {"B", "BAL", "BEQZ", "BNEZ"}
Pseudo == {"NOP", "MOV", "CLEAR", "NOT", "NEG", "SEQZ", "SNEZ", "SLTZ", "LSI"}
            \cup PseudoBranch

Operation == Native \cup Pseudo \cup {"INVALID_OP"}

StructInstr == [op : Operation, rs : Reg, rt : Reg, rd : Reg, shamt : Reg,
                imm : Half, simm : Int, addr : Nat, compressed : BOOLEAN]

is_branch(op)     == op \in NativeBranch \cup PseudoBranch
contains_imm(op)  == op \in {"ANDI", "LUI", "ORI", "XORI"}
contains_simm(op) == op \in {"ADDI", "ADDIU", "SLTI", "SLTIU"}

(***************************************************************************)
(* The fields of a word.                                                   *)
(***************************************************************************)
get_opcode(w) == w[1] \div 1024
get_rs(w)     == (w[1] \div 32) % 32
get_rt(w)     == w[1] % 32
get_rd(w)     == w[2] \div 2048
get_shamt(w)  == (w[2] \div 64) % 32
get_func(w)   == w[2] % 64
get_imm(w)    == w[2]
get_addr(w)   == (w[1] % 1024) * 65536 + w[2]

(* A field of 2 * half values read as a two's complement number. *)
SignExtend(n, half) == IF n >= half THEN n - 2 * half ELSE n

get_simm(w) == SignExtend(get_imm(w), 32768)

(* C's division truncates towards zero. *)
CDiv(a, b) == IF a < 0 THEN -((-a) \div b) ELSE a \div b

(***************************************************************************)
(* Parsing. A table is a set of <<code, operation>> pairs; a code that is  *)
(* in no pair is an unknown instruction.                                   *)
(***************************************************************************)
SpecialTable ==
  {<<0, "SLL">>, <<2, "SRL">>, <<3, "SRA">>, <<4, "SLLV">>, <<6, "SRLV">>, <<7, "SRAV">>,
   <<8, "JR">>, <<9, "JALR">>, <<12, "SYSCALL">>, <<13, "BREAK">>,
   <<16, "MFHI">>, <<17, "MTHI">>, <<18, "MFLO">>, <<19, "MTLO">>,
   <<24, "MULT">>, <<25, "MULTU">>, <<26, "DIV">>, <<27, "DIVU">>,
   <<32, "ADD">>, <<33, "ADDU">>, <<34, "SUB">>, <<35, "SUBU">>,
   <<36, "AND">>, <<37, "OR">>, <<38, "XOR">>, <<39, "NOR">>, <<42, "SLT">>, <<43, "SLTU">>}

BranchTable == {<<0, "BLTZ">>, <<1, "BGEZ">>, <<16, "BLTZAL">>, <<17, "BGEZAL">>}

Cop0Table == {<<0, "MFC0">>, <<4, "MTC0">>}

OpcodeTable ==
  {<<2, "J">>, <<3, "JAL">>, <<4, "BEQ">>, <<5, "BNE">>, <<6, "BLEZ">>, <<7, "BGTZ">>,
   <<8, "ADDI">>, <<9, "ADDIU">>, <<10, "SLTI">>, <<11, "SLTIU">>,
   <<12, "ANDI">>, <<13, "ORI">>, <<14, "XORI">>, <<15, "LUI">>,
   <<32, "LB">>, <<33, "LH">>, <<35, "LW">>, <<36, "LBU">>, <<37, "LHU">>,
   <<40, "SB">>, <<41, "SH">>, <<43, "SW">>}

Lookup(table, code) ==
  IF \E e \in table : e[1] = code
  THEN (CHOOSE e \in table : e[1] = code)[2]
  ELSE "INVALID_OP"

parse_op(w) ==
  CASE get_opcode(w) = 0  -> Lookup(SpecialTable, get_func(w))
    [] get_opcode(w) = 1  -> Lookup(BranchTable, get_rt(w))
    [] get_opcode(w) = 16 -> Lookup(Cop0Table, get_rs(w))
    [] OTHER              -> Lookup(OpcodeTable, get_opcode(w))

(* Branch offsets and jump targets are in units of four bytes. *)
parse_instr(w) ==
  [op |-> parse_op(w),
   rs |-> get_rs(w), rt |-> get_rt(w), rd |-> get_rd(w), shamt |-> get_shamt(w),
   imm |-> get_imm(w),
   simm |-> IF get_opcode(w) \in {1, 4, 5, 6, 7} THEN get_simm(w) * 4 ELSE get_simm(w),
   addr |-> IF get_opcode(w) \in {2, 3} THEN get_addr(w) * 4 ELSE get_addr(w),
   compressed |-> FALSE]

(***************************************************************************)
(* conv_to_pseudo, by group of operations.                                 *)
(***************************************************************************)
As(i, op)         == [i EXCEPT !.op = op]
Move(i, dst, src) == [i EXCEPT !.op = "MOV", !.rd = dst, !.rt = src]
Clear(i, dst)     == [i EXCEPT !.op = "CLEAR", !.rd = dst]

(* The operand that is not $0, when one of them is. *)
Other(i) == IF i.rt = 0 THEN i.rs ELSE i.rt

ShiftToPseudo(i) ==
  CASE i.rd = 0 -> As(i, "NOP")
    [] i.rd # 0 /\ i.shamt = 0 ->
         As(i, IF i.op = "SLL" /\ i.rt = 0 THEN "CLEAR" ELSE "MOV")
    [] i.rd # 0 /\ i.shamt = 31 /\ i.op = "SRL" -> [i EXCEPT !.op = "SLTZ", !.rs = i.rt]
    [] OTHER -> i

(* The test of rt is not part of the else-chain in the code. *)
ShiftVToPseudo(i) ==
  IF i.rt = 0 THEN As(i, "MOV")
  ELSE IF i.rd = 0 THEN As(i, "NOP")
  ELSE IF i.rs = 0 THEN As(i, "CLEAR")
  ELSE i

AluToPseudo(i) ==
  LET noRs == i.rs = 0
      noRt == i.rt = 0
  IN IF i.rd = 0 THEN As(i, "NOP")
     ELSE CASE i.op = "AND" /\ (noRs \/ noRt) -> As(i, "CLEAR")
            [] i.op \in {"ADDU", "SUBU", "OR", "XOR"} /\ noRs /\ noRt -> As(i, "CLEAR")
            [] i.op \in {"ADDU", "OR", "XOR"} /\ noRs # noRt -> Move(i, i.rd, Other(i))
            [] i.op = "SUBU" /\ noRs /\ ~noRt -> As(i, "NEG")
            [] i.op = "SUBU" /\ noRt /\ ~noRs -> Move(i, i.rd, i.rs)
            [] i.op = "NOR" /\ noRs # noRt -> [i EXCEPT !.op = "NOT", !.rt = Other(i)]
            [] OTHER -> i

ImmToPseudo(i) ==
  LET zero == IF i.op = "ADDIU" THEN i.simm = 0 ELSE i.imm = 0
  IN CASE i.op = "LUI" -> IF zero THEN Clear(i, i.rt) ELSE i
       [] i.op # "LUI" /\ i.rt = 0 -> As(i, "NOP")
       [] i.op = "ANDI" /\ i.rt # 0 -> IF i.rs = 0 \/ zero THEN Clear(i, i.rt) ELSE i
       [] OTHER ->
            IF zero
            THEN IF i.rs = 0 THEN Clear(i, i.rt) ELSE Move(i, i.rt, i.rs)
            ELSE IF i.op = "ADDIU" /\ i.rs = 0 /\ i.simm \in -16..15
                 THEN [i EXCEPT !.op = "LSI", !.rd = i.rt]
                 ELSE i

CompareToPseudo(i) ==
  CASE i.op = "SLT"   /\ i.rt = 0   -> As(i, "SLTZ")
    [] i.op = "SLTU"  /\ i.rs = 0   -> As(i, "SNEZ")
    [] i.op = "SLTI"  /\ i.simm = 0 -> [i EXCEPT !.op = "SLTZ", !.rd = i.rt]
    [] i.op = "SLTIU" /\ i.imm = 1  -> As(i, "SEQZ")
    [] OTHER -> i

(* A comparison with $0 moves the other register to rs and leaves rt alone. *)
BranchToPseudo(i) ==
  LET nz == IF i.rs = 0 THEN i.rt ELSE i.rs
  IN CASE i.op \in {"BGEZ", "BLEZ"} /\ i.rs = 0 -> As(i, "B")
       [] i.op = "BGEZAL" /\ i.rs = 0 -> As(i, "BAL")
       [] i.op = "BEQ" /\ i.rs = i.rt -> As(i, "B")
       [] i.op = "BEQ" /\ i.rs # i.rt /\ 0 \in {i.rs, i.rt} ->
            [i EXCEPT !.op = "BEQZ", !.rs = nz]
       [] i.op = "BNE" /\ i.rs # i.rt /\ 0 \in {i.rs, i.rt} ->
            [i EXCEPT !.op = "BNEZ", !.rs = nz]
       [] OTHER -> i

conv_to_pseudo(i) ==
  CASE i.op \in Shifts -> ShiftToPseudo(i)
    [] i.op \in ShiftVs -> ShiftVToPseudo(i)
    [] i.op \in Alu \ {"ADD", "SUB"} -> AluToPseudo(i)
    [] i.op \in AluImm \ {"ADDI"} -> ImmToPseudo(i)
    [] i.op \in Compare -> CompareToPseudo(i)
    [] i.op \in NativeBranch -> BranchToPseudo(i)
    [] i.op = "JALR" /\ i.rd = 0 -> As(i, "JR")
    [] OTHER -> i

(* Mutant: ADD is taken for ADDU, which has a short form. *)
is_compressible_add(i) ==
  \/ i.op \in {"NOP", "MOV", "CLEAR", "NOT", "NEG", "LSI", "JR", "JALR"}
  \/ i.op \in {"ADD", "ADDU"}

(***************************************************************************)
(* The instructions that have a 16-bit form whatever their address is.     *)
(***************************************************************************)
is_compressible_simple(i) ==
  \/ i.op \in {"NOP", "MOV", "CLEAR", "NOT", "NEG", "LSI", "JR", "JALR"}
  \/ i.op \in Shifts /\ i.rd = i.rt
  \/ i.op \in {"ADDU", "OR", "XOR"} /\ i.rd \in {i.rs, i.rt}
  \/ i.op \in {"SUBU", "SLTU"} /\ i.rd = i.rs
  \/ i.op = "ADDIU" /\ i.rs = i.rt /\ i.simm \in -16..15
  \/ i.op = "ANDI" /\ i.rs = i.rt /\ i.imm <= 31
  \/ i.op \in {"LW", "SW"} /\ i.rs = 29 /\ i.imm % 4 = 0 /\ i.imm < 128

(***************************************************************************)
(* conv_to_native                                                          *)
(***************************************************************************)
conv_to_native(i) ==
  CASE i.op = "NOP"   -> [i EXCEPT !.op = "ADDU", !.rd = 0, !.rs = 0, !.rt = 0]
    [] i.op = "MOV"   -> [i EXCEPT !.op = "ADDU", !.rs = 0]
    [] i.op = "CLEAR" -> [i EXCEPT !.op = "ADDU", !.rs = 0, !.rt = 0]
    [] i.op = "NOT"   -> As(i, "NOR")
    [] i.op = "NEG"   -> [i EXCEPT !.op = "SUBU", !.rs = 0]
    [] i.op = "B"     -> [i EXCEPT !.op = "BGEZ", !.rs = 0, !.rt = 0]
    [] i.op = "BAL"   -> [i EXCEPT !.op = "BGEZAL", !.rs = 0, !.rt = 0]
    [] i.op = "BEQZ"  -> As(i, "BEQ")
    [] i.op = "BNEZ"  -> As(i, "BNE")
    [] i.op = "SEQZ"  -> [i EXCEPT !.op = "SLTIU", !.simm = 1, !.imm = 1]
    [] i.op = "SNEZ"  -> [i EXCEPT !.op = "SLTU", !.rs = 0]
    [] i.op = "SLTZ"  -> [i EXCEPT !.op = "SLT", !.rt = 0]
    [] i.op = "LSI"   -> [i EXCEPT !.op = "ADDIU", !.rs = 0]
    [] OTHER -> i

(***************************************************************************)
(* Writing a native instruction as a word. NoCode stands for a call that   *)
(* does not return: exit(EXIT_FAILURE), or an assertion that fails.        *)
(***************************************************************************)
NoCode == <<>>

write_r(opcode, rs, rt, rd, shamt, func) ==
  <<opcode * 1024 + rs * 32 + rt, rd * 2048 + shamt * 64 + func>>

(* write_si and write_ui: the immediate is converted to 16 bits. *)
write_i(opcode, rs, rt, imm) == <<opcode * 1024 + rs * 32 + rt, imm % 65536>>

write_j(opcode, target) ==
  IF target < 67108864
  THEN <<opcode * 1024 + target \div 65536, target % 65536>>
  ELSE NoCode

SpecialCode ==
  [SLL |-> 0, SRL |-> 2, SRA |-> 3, SLLV |-> 4, SRLV |-> 6, SRAV |-> 7,
   JR |-> 8, JALR |-> 9, SYSCALL |-> 12, BREAK |-> 13,
   MFHI |-> 16, MTHI |-> 17, MFLO |-> 18, MTLO |-> 19,
   MULT |-> 24, MULTU |-> 25, DIV |-> 26, DIVU |-> 27,
   ADD |-> 32, ADDU |-> 33, SUB |-> 34, SUBU |-> 35,
   AND |-> 36, OR |-> 37, XOR |-> 38, NOR |-> 39, SLT |-> 42, SLTU |-> 43]

(* The fields a SPECIAL instruction does not use are written as 0. *)
write_special(i) ==
  write_r(0,
    IF i.op \in Shifts \cup {"MFHI", "MFLO"} \cup Stops THEN 0 ELSE i.rs,
    IF i.op \in {"JR", "JALR", "MFHI", "MFLO", "MTHI", "MTLO"} \cup Stops THEN 0 ELSE i.rt,
    IF i.op \in {"JR", "MULT", "MULTU", "DIV", "DIVU", "MTHI", "MTLO"} \cup Stops
      THEN 0 ELSE i.rd,
    IF i.op \in Shifts THEN i.shamt ELSE 0,
    SpecialCode[i.op])

ImmCode ==
  [ADDI |-> 8, ADDIU |-> 9, SLTI |-> 10, SLTIU |-> 11, ANDI |-> 12, ORI |-> 13,
   XORI |-> 14, LUI |-> 15, LB |-> 32, LH |-> 33, LW |-> 35, LBU |-> 36, LHU |-> 37,
   SB |-> 40, SH |-> 41, SW |-> 43]

write_imm(i) ==
  write_i(ImmCode[i.op], IF i.op = "LUI" THEN 0 ELSE i.rs, i.rt,
          IF contains_imm(i.op) THEN i.imm ELSE i.simm)

(* The opcode of a branch and what stands in its rt field. *)
BranchOpcode ==
  [BLTZ |-> 1, BGEZ |-> 1, BLTZAL |-> 1, BGEZAL |-> 1,
   BEQ |-> 4, BNE |-> 5, BLEZ |-> 6, BGTZ |-> 7]

BranchRt(op, rt) ==
  CASE op \in {"BLTZ", "BLEZ", "BGTZ"} -> 0
    [] op = "BGEZ"   -> 1
    [] op = "BLTZAL" -> 16
    [] op = "BGEZAL" -> 17
    [] op \in {"BEQ", "BNE"} -> rt

write_instr(i) ==
  CASE i.op \in DOMAIN SpecialCode -> write_special(i)
    [] i.op \in DOMAIN ImmCode -> write_imm(i)
    [] i.op \in NativeBranch ->
         write_i(BranchOpcode[i.op], i.rs, BranchRt(i.op, i.rt), CDiv(i.simm, 4))
    [] i.op = "J"   -> write_j(2, CDiv(i.addr, 4))
    [] i.op = "JAL" -> write_j(3, CDiv(i.addr, 4))
    [] OTHER -> NoCode
=============================================================================
