------------------------------ MODULE InstrV2 ------------------------------
(***************************************************************************)
(* The compressed instruction set of common/v2_instr.c. An instruction is  *)
(* written as one 16-bit half, whose top bit is set, or as two halves.     *)
(*                                                                         *)
(* LongReach is half the number of values the 16-bit offset field of a     *)
(* long branch has: 32768 in the code. A smaller value lets TLC reach the  *)
(* end of the field with a program of a few instructions.                  *)
(***************************************************************************)
EXTENDS Instr

CONSTANT LongReach

ASSUME LongReachAssumption == LongReach \in 1..32768

(* The 5-bit opcodes of the small instructions. *)
C_MOV   == 0
C_ADDU  == 1
C_SUBU  == 2
C_OR    == 3
C_XOR   == 4
C_NEG   == 5
C_NOT   == 6
C_SLTU  == 7
C_ADDIU == 8
C_ANDI  == 9
C_SLL   == 10
C_SRL   == 11
C_SRA   == 12
C_LSI   == 13
C_B     == 14
C_BAL   == 15
C_BEQZ  == 16
C_BNEZ  == 17
C_JALR  == 18
C_LWS   == 19
C_SWS   == 20

(***************************************************************************)
(* Writing                                                                 *)
(***************************************************************************)

(* write_r, write_ui and write_si: the last field is a register, an        *)
(* unsigned or a signed five-bit number. Each asserts that its value fits. *)
write_small(opcode, rds, last, fits) ==
  IF last \in fits THEN <<32768 + opcode * 1024 + rds * 32 + (last % 32)>> ELSE NoCode

Signed5   == -16..15
Unsigned5 == 0..31

write_b(opcode, offset) ==
  IF offset \in -512..511 THEN <<32768 + opcode * 1024 + (offset % 1024)>> ELSE NoCode

(* The offset of a long branch is converted to the width of its field      *)
(* without a test that it fits.                                            *)
WrapLong(n) == ((n + LongReach) % (2 * LongReach)) - LongReach

write_l_branch(opcode, rs, rt, simm) == write_i(opcode, rs, rt, WrapLong(CDiv(simm, 2)))

(* Loads and stores: the opcode of the old format without its top bit, in  *)
(* the place of the coprocessor instructions.                              *)
MemCode ==
  [LB |-> 16, LH |-> 17, LW |-> 19, LBU |-> 20, LHU |-> 21, SB |-> 24, SH |-> 25, SW |-> 27]

(* A branch takes its registers from the instruction before conv_to_native *)
(* (`instr'), everything else from the one after it (`inst').              *)
write_long(instr) ==
  LET inst == conv_to_native(instr)
  IN CASE inst.op \in DOMAIN MemCode -> write_i(MemCode[inst.op], inst.rs, inst.rt, inst.simm)
       [] inst.op \in NativeBranch ->
            write_l_branch(BranchOpcode[inst.op], instr.rs, BranchRt(inst.op, instr.rt),
                           instr.simm)
       [] inst.op = "J"   -> write_j(2, CDiv(instr.addr, 2))
       [] inst.op = "JAL" -> write_j(3, CDiv(instr.addr, 2))
       [] OTHER -> write_instr(inst)

(* ADDU, OR and XOR commute: the operand that is not the destination. *)
Second(i) == IF i.rd = i.rs THEN i.rt ELSE i.rs

write_compressed(i) ==
  LET R(opcode, rds, rt)   == write_small(opcode, rds, rt, Reg)
      UI(opcode, rds, imm) == write_small(opcode, rds, imm, Unsigned5)
      SI(opcode, rds, imm) == write_small(opcode, rds, imm, Signed5)
  IN CASE i.op = "NOP"   -> R(C_MOV, 0, 0)
       [] i.op = "MOV"   -> R(C_MOV, i.rd, i.rt)
       [] i.op = "CLEAR" -> R(C_MOV, i.rd, 0)
       [] i.op = "ADDU"  -> R(C_ADDU, i.rd, Second(i))
       [] i.op = "SUBU"  -> R(C_SUBU, i.rd, i.rt)
       [] i.op = "OR"    -> R(C_OR, i.rd, Second(i))
       [] i.op = "XOR"   -> R(C_XOR, i.rd, Second(i))
       [] i.op = "NEG"   -> R(C_NEG, i.rd, i.rt)
       [] i.op = "NOT"   -> R(C_NOT, i.rd, i.rt)
       [] i.op = "SLTU"  -> R(C_SLTU, i.rd, i.rt)
       [] i.op = "ADDIU" -> SI(C_ADDIU, i.rt, i.simm)
       [] i.op = "ANDI"  -> UI(C_ANDI, i.rt, i.imm)
       [] i.op = "SLL"   -> UI(C_SLL, i.rd, i.shamt)
       [] i.op = "SRL"   -> UI(C_SRL, i.rd, i.shamt)
       [] i.op = "SRA"   -> UI(C_SRA, i.rd, i.shamt)
       [] i.op = "LSI"   -> SI(C_LSI, i.rt, i.simm)
       [] i.op = "B"     -> write_b(C_B, CDiv(i.simm, 2))
       [] i.op = "BAL"   -> write_b(C_BAL, CDiv(i.simm, 2))
       [] i.op = "BEQZ"  -> SI(C_BEQZ, i.rs, CDiv(i.simm, 2))
       [] i.op = "BNEZ"  -> SI(C_BNEZ, i.rs, CDiv(i.simm, 2))
       [] i.op = "JR"    -> R(C_JALR, 0, i.rs)
       [] i.op = "JALR"  -> R(C_JALR, i.rd, i.rs)
       [] i.op = "SW"    -> UI(C_SWS, i.rt, CDiv(i.imm, 4))
       [] i.op = "LW"    -> UI(C_LWS, i.rt, CDiv(i.imm, 4))
       [] OTHER -> NoCode

write_instr_v2(i) == IF i.compressed THEN write_compressed(i) ELSE write_long(i)

(***************************************************************************)
(* Parsing. The word holds a small instruction in its first half. `out' is *)
(* what the caller's struct held before: a field the format has no value   *)
(* for keeps it. rc is the number of bytes the instruction takes.          *)
(***************************************************************************)
V2OpcodeTable ==
  {<<2, "J">>, <<3, "JAL">>, <<4, "BEQ">>, <<5, "BNE">>, <<6, "BLEZ">>, <<7, "BGTZ">>,
   <<16, "LB">>, <<17, "LH">>, <<19, "LW">>, <<20, "LBU">>, <<21, "LHU">>,
   <<24, "SB">>, <<25, "SH">>, <<27, "SW">>}

parse_long(w, out) ==
  LET opcode == get_opcode(w)
      op     == IF opcode = 1 THEN Lookup(BranchTable, get_rt(w))
                ELSE Lookup(V2OpcodeTable, opcode)
  IN IF opcode # 1 /\ op = "INVALID_OP"
     THEN parse_instr(w)
     ELSE [out EXCEPT !.op = op, !.rs = get_rs(w), !.rt = get_rt(w), !.compressed = FALSE,
             !.simm = IF op \in NativeBranch \cup {"INVALID_OP"} THEN get_simm(w) * 2
                      ELSE get_simm(w),
             !.addr = IF op \in {"J", "JAL"} THEN get_addr(w) * 2 ELSE get_addr(w)]

parse_small(h, out) ==
  LET opcode == (h \div 1024) % 32
      rds    == (h \div 32) % 32
      last   == h % 32
      simm   == SignExtend(last, 16)
      offset == SignExtend(h % 1024, 512)
      c      == [out EXCEPT !.compressed = TRUE]
      ALU(op, rs)    == [c EXCEPT !.op = op, !.rd = rds, !.rs = rs, !.rt = last]
      Shift(op)      == [c EXCEPT !.op = op, !.rd = rds, !.rs = 0, !.rt = rds, !.shamt = last]
      AddImm(rs)     == [c EXCEPT !.op = "ADDIU", !.rt = rds, !.rs = rs, !.simm = simm]
      Branch(op, rt, off) == [c EXCEPT !.op = op, !.rs = 0, !.rt = rt, !.simm = off * 2]
      StackMem(op)   == [c EXCEPT !.op = op, !.rs = 29, !.rt = rds,
                                  !.simm = last * 4, !.imm = last * 4]
  IN CASE opcode = C_MOV   -> [ALU("SLL", 0) EXCEPT !.shamt = 0]
       [] opcode = C_ADDU  -> ALU("ADDU", rds)
       [] opcode = C_SUBU  -> ALU("SUBU", rds)
       [] opcode = C_OR    -> ALU("OR", rds)
       [] opcode = C_XOR   -> ALU("XOR", rds)
       [] opcode = C_NEG   -> ALU("SUBU", 0)
       [] opcode = C_NOT   -> ALU("NOR", 0)
       [] opcode = C_SLTU  -> ALU("SLTU", rds)
       [] opcode = C_ADDIU -> AddImm(rds)
       [] opcode = C_ANDI  -> [c EXCEPT !.op = "ANDI", !.rt = rds, !.rs = rds, !.imm = last]
       [] opcode = C_SLL   -> Shift("SLL")
       [] opcode = C_SRL   -> Shift("SRL")
       [] opcode = C_SRA   -> Shift("SRA")
       [] opcode = C_LSI   -> AddImm(0)
       [] opcode = C_B     -> Branch("BGEZ", 0, offset)
       [] opcode = C_BAL   -> Branch("BGEZAL", 0, offset)
       [] opcode = C_BEQZ  -> Branch("BEQ", rds, simm)
       [] opcode = C_BNEZ  -> Branch("BNE", rds, simm)
       [] opcode = C_JALR  -> IF rds = 0 THEN [c EXCEPT !.op = "JR", !.rs = last]
                              ELSE [c EXCEPT !.op = "JALR", !.rs = last, !.rd = rds]
       [] opcode = C_LWS   -> StackMem("LW")
       [] opcode = C_SWS   -> StackMem("SW")
       [] OTHER -> c

(* A struct instr that was cleared with memset. *)
Blank == [op |-> "SLL", rs |-> 0, rt |-> 0, rd |-> 0, shamt |-> 0, imm |-> 0, simm |-> 0,
          addr |-> 0, compressed |-> FALSE]

(* An instruction that is not native at the end fails the assertion: rc -1 *)
(* stands for it. A small opcode without a meaning returns 0.              *)
parse_instr_v2(w, out) ==
  IF w[1] < 32768
  THEN LET i == parse_long(w, out)
       IN [rc |-> IF i.op \in Native THEN 4 ELSE -1, instr |-> i]
  ELSE [rc |-> IF (w[1] \div 1024) % 32 <= C_SWS THEN 2 ELSE 0,
        instr |-> parse_small(w[1], out)]
=============================================================================
