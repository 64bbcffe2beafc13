---------------------------- MODULE InstrProofs ----------------------------
(***************************************************************************)
(* What the instruction codecs return is well-formed, for every word and   *)
(* every instruction: registers below 32, halves below 65536.              *)
(***************************************************************************)
EXTENDS InstrV2, TLAPS

(* A table has an operation for every code, or none at all.                *)
LEMMA LookupType ==
  ASSUME NEW table, NEW ops, \A e \in table : e[2] \in ops, NEW code
  PROVE  Lookup(table, code) \in ops \cup {"INVALID_OP"}
BY Zenon DEF Lookup

(* A half is a natural number below 65536.                                 *)
LEMMA HalfBounds ==
  ASSUME NEW x \in Half
  PROVE  x \in Nat /\ x <= 65535
<1>1. HalfMax = 65535
  BY DEF HalfMax
<1> QED
  BY <1>1, SMTT(30) DEF Half

(* The fields of a word are in their ranges.                               *)
LEMMA FieldTypes ==
  ASSUME NEW w \in Word
  PROVE  /\ get_rs(w) \in Reg /\ get_rt(w) \in Reg /\ get_rd(w) \in Reg
         /\ get_shamt(w) \in Reg /\ get_imm(w) \in Half /\ get_simm(w) \in Int
         /\ get_addr(w) \in Nat
<1> DEFINE hi == w[1]
           lo == w[2]
<1>1. hi \in Half /\ lo \in Half
  BY DEF Word
<1> HIDE DEF hi, lo
<1>2. hi \in Nat /\ hi <= 65535 /\ lo \in Nat /\ lo <= 65535
  BY <1>1, HalfBounds
<1>3. lo \div 2048 >= 0 /\ lo \div 2048 <= 31
  BY <1>2
<1>4. (hi \div 32) % 32 \in Reg /\ hi % 32 \in Reg /\ (lo \div 64) % 32 \in Reg
  BY <1>2 DEF Reg
<1>5. lo \div 2048 \in Reg
  BY <1>2, <1>3 DEF Reg
<1>6. (hi % 1024) * 65536 + lo \in Nat
  BY <1>2
<1>7. (IF lo >= 32768 THEN lo - 2 * 32768 ELSE lo) \in Int
  BY <1>2
<1>8. /\ get_rs(w) = (hi \div 32) % 32 /\ get_rt(w) = hi % 32
      /\ get_rd(w) = lo \div 2048 /\ get_shamt(w) = (lo \div 64) % 32
      /\ get_imm(w) = lo /\ get_addr(w) = (hi % 1024) * 65536 + lo
      /\ get_simm(w) = IF lo >= 32768 THEN lo - 2 * 32768 ELSE lo
  BY DEF get_rs, get_rt, get_rd, get_shamt, get_addr, get_imm, get_simm, SignExtend, hi, lo
<1>9. get_simm(w) \in Int
  BY <1>7, <1>8
<1> QED
  BY <1>1, <1>4, <1>5, <1>6, <1>8, <1>9

(* Every word is parsed to an instruction, a known one or INVALID_OP, that *)
(* is not compressed and not a pseudo instruction.                         *)
LEMMA ParseType ==
  ASSUME NEW w \in Word
  PROVE  /\ parse_instr(w) \in StructInstr
         /\ parse_instr(w).op \in Native \cup {"INVALID_OP"}
<1> DEFINE Known == Native \cup {"INVALID_OP"}
<1>1. /\ Lookup(SpecialTable, get_func(w)) \in Known
      /\ Lookup(BranchTable, get_rt(w)) \in Known
      /\ Lookup(Cop0Table, get_rs(w)) \in Known
      /\ Lookup(OpcodeTable, get_opcode(w)) \in Known
  <2>1. \A e \in SpecialTable : e[2] \in Native
    BY DEF SpecialTable, Native, Shifts, ShiftVs, Alu, MulDiv, Compare, Jumps, Stops
  <2>2. \A e \in BranchTable : e[2] \in Native
    BY DEF BranchTable, Native, NativeBranch
  <2>3. \A e \in Cop0Table : e[2] \in Native
    BY DEF Cop0Table, Native, Cop0
  <2>4. \A e \in OpcodeTable : e[2] \in Native
    BY DEF OpcodeTable, Native, AluImm, Loads, Stores, Compare, NativeBranch, Jumps
  <2> QED
    BY <2>1, <2>2, <2>3, <2>4, LookupType
<1>2. parse_op(w) \in Known
  BY <1>1 DEF parse_op
<1>3. Known \subseteq Operation
  BY DEF Operation
<1> HIDE DEF Known
<1>4. parse_instr(w) \in StructInstr
  BY <1>2, <1>3, FieldTypes DEF parse_instr, StructInstr
<1> QED
  BY <1>2, <1>4 DEF parse_instr, Known

(* What conv_to_pseudo may return for an instruction: another instruction  *)
(* that is the same operation, JR or a pseudo instruction.                 *)
Rewritten(i) == {x \in StructInstr : x.op \in {i.op, "JR"} \cup Pseudo}

(* Changing fields of an instruction to values of their types.             *)
LEMMA FieldChanges ==
  ASSUME NEW i \in StructInstr, NEW op \in Pseudo \cup {"JR"}, NEW r \in Reg, NEW d \in Reg
  PROVE  /\ i \in Rewritten(i) /\ As(i, op) \in Rewritten(i)
         /\ Move(i, d, r) \in Rewritten(i) /\ Clear(i, d) \in Rewritten(i)
         /\ [i EXCEPT !.op = op, !.rs = r] \in Rewritten(i)
         /\ [i EXCEPT !.op = op, !.rt = r] \in Rewritten(i)
         /\ [i EXCEPT !.op = op, !.rd = r] \in Rewritten(i)
<1>1. op \in Operation /\ "MOV" \in Pseudo /\ "CLEAR" \in Pseudo /\ Pseudo \subseteq Operation
  BY DEF Operation, Native, Jumps, Pseudo
<1>2. i \in Rewritten(i) /\ As(i, op) \in Rewritten(i)
  BY <1>1 DEF As, StructInstr, Rewritten
<1>3. Move(i, d, r) \in Rewritten(i) /\ Clear(i, d) \in Rewritten(i)
  BY <1>1 DEF Move, Clear, StructInstr, Rewritten
<1>4. [i EXCEPT !.op = op, !.rs = r] \in Rewritten(i)
  BY <1>1 DEF StructInstr, Rewritten
<1>5. [i EXCEPT !.op = op, !.rt = r] \in Rewritten(i)
  BY <1>1 DEF StructInstr, Rewritten
<1>6. [i EXCEPT !.op = op, !.rd = r] \in Rewritten(i)
  BY <1>1 DEF StructInstr, Rewritten
<1> QED
  BY <1>2, <1>3, <1>4, <1>5, <1>6

(* The groups of conv_to_pseudo: each returns one of a few rewritings.     *)
LEMMA RegisterTypes ==
  ASSUME NEW i \in StructInstr
  PROVE  i.rs \in Reg /\ i.rt \in Reg /\ i.rd \in Reg
BY DEF StructInstr

(* The pseudo instructions that the rewriting introduces. *)
LEMMA PseudoNames ==
  {"NOP", "MOV", "CLEAR", "NOT", "NEG", "SEQZ", "SNEZ", "SLTZ", "LSI",
   "B", "BAL", "BEQZ", "BNEZ"} \subseteq Pseudo
BY DEF Pseudo, PseudoBranch

(* A rewritten shift is an instruction. *)
LEMMA ShiftPseudoType ==
  ASSUME NEW i \in StructInstr
  PROVE  ShiftToPseudo(i) \in Rewritten(i)
<1>1. ShiftToPseudo(i) \in {As(i, "NOP"), As(i, "CLEAR"), As(i, "MOV"),
                            [i EXCEPT !.op = "SLTZ", !.rs = i.rt], i}
  BY Zenon DEF ShiftToPseudo
<1>2. As(i, "NOP") \in Rewritten(i) /\ As(i, "CLEAR") \in Rewritten(i)
      /\ As(i, "MOV") \in Rewritten(i)
      /\ [i EXCEPT !.op = "SLTZ", !.rs = i.rt] \in Rewritten(i)
      /\ i \in Rewritten(i)
  BY RegisterTypes, PseudoNames, FieldChanges, Zenon
<1> QED
  BY <1>1, <1>2, Zenon

(* A rewritten variable shift is an instruction. *)
LEMMA ShiftVPseudoType ==
  ASSUME NEW i \in StructInstr
  PROVE  ShiftVToPseudo(i) \in Rewritten(i)
<1>1. ShiftVToPseudo(i) \in {As(i, "NOP"), As(i, "CLEAR"), As(i, "MOV"),
                            i}
  BY Zenon DEF ShiftVToPseudo
<1>2. /\ As(i, "NOP") \in Rewritten(i)
      /\ As(i, "CLEAR") \in Rewritten(i)
      /\ As(i, "MOV") \in Rewritten(i)
      /\ i \in Rewritten(i)
  BY RegisterTypes, PseudoNames, FieldChanges, Zenon
<1> QED
  BY <1>1, <1>2, Zenon

(* A rewritten register operation is an instruction. *)
LEMMA AluPseudoType ==
  ASSUME NEW i \in StructInstr
  PROVE  AluToPseudo(i) \in Rewritten(i)
<1>1. AluToPseudo(i) \in {As(i, "NOP"), As(i, "CLEAR"), As(i, "NEG"), Move(i, i.rd, Other(i)),
                          Move(i, i.rd, i.rs), [i EXCEPT !.op = "NOT", !.rt = Other(i)], i}
  BY Zenon DEF AluToPseudo
<1>2. Other(i) \in Reg
  BY RegisterTypes, Zenon DEF Other
<1>3. /\ As(i, "NOP") \in Rewritten(i)
      /\ As(i, "CLEAR") \in Rewritten(i)
      /\ As(i, "NEG") \in Rewritten(i)
      /\ Move(i, i.rd, Other(i)) \in Rewritten(i)
      /\ Move(i, i.rd, i.rs) \in Rewritten(i)
      /\ [i EXCEPT !.op = "NOT", !.rt = Other(i)] \in Rewritten(i)
      /\ i \in Rewritten(i)
  BY <1>2, RegisterTypes, PseudoNames, FieldChanges, Zenon
<1> QED
  BY <1>1, <1>3, Zenon

(* A rewritten immediate operation is an instruction. *)
LEMMA ImmPseudoType ==
  ASSUME NEW i \in StructInstr
  PROVE  ImmToPseudo(i) \in Rewritten(i)
<1>1. ImmToPseudo(i) \in {As(i, "NOP"), Clear(i, i.rt), Move(i, i.rt, i.rs),
                         [i EXCEPT !.op = "LSI", !.rd = i.rt], i}
  BY Zenon DEF ImmToPseudo
<1>2. /\ As(i, "NOP") \in Rewritten(i)
      /\ Clear(i, i.rt) \in Rewritten(i)
      /\ Move(i, i.rt, i.rs) \in Rewritten(i)
      /\ [i EXCEPT !.op = "LSI", !.rd = i.rt] \in Rewritten(i)
      /\ i \in Rewritten(i)
  BY RegisterTypes, PseudoNames, FieldChanges, Zenon
<1> QED
  BY <1>1, <1>2, Zenon

(* A rewritten comparison is an instruction. *)
LEMMA ComparePseudoType ==
  ASSUME NEW i \in StructInstr
  PROVE  CompareToPseudo(i) \in Rewritten(i)
<1>1. CompareToPseudo(i) \in {As(i, "SLTZ"), As(i, "SNEZ"), As(i, "SEQZ"),
                             [i EXCEPT !.op = "SLTZ", !.rd = i.rt], i}
  BY Zenon DEF CompareToPseudo
<1>2. /\ As(i, "SLTZ") \in Rewritten(i)
      /\ As(i, "SNEZ") \in Rewritten(i)
      /\ As(i, "SEQZ") \in Rewritten(i)
      /\ [i EXCEPT !.op = "SLTZ", !.rd = i.rt] \in Rewritten(i)
      /\ i \in Rewritten(i)
  BY RegisterTypes, PseudoNames, FieldChanges, Zenon
<1> QED
  BY <1>1, <1>2, Zenon

(* A rewritten branch is an instruction. *)
LEMMA BranchPseudoType ==
  ASSUME NEW i \in StructInstr
  PROVE  BranchToPseudo(i) \in Rewritten(i)
<1> DEFINE nz == IF i.rs = 0 THEN i.rt ELSE i.rs
<1>1. BranchToPseudo(i) \in {As(i, "B"), As(i, "BAL"), [i EXCEPT !.op = "BEQZ", !.rs = nz],
                             [i EXCEPT !.op = "BNEZ", !.rs = nz], i}
  BY Zenon DEF BranchToPseudo
<1>2. nz \in Reg
  BY RegisterTypes, Zenon
<1> HIDE DEF nz
<1>3. /\ As(i, "B") \in Rewritten(i)
      /\ As(i, "BAL") \in Rewritten(i)
      /\ [i EXCEPT !.op = "BEQZ", !.rs = nz] \in Rewritten(i)
      /\ [i EXCEPT !.op = "BNEZ", !.rs = nz] \in Rewritten(i)
      /\ i \in Rewritten(i)
  BY <1>2, RegisterTypes, PseudoNames, FieldChanges, Zenon
<1> QED
  BY <1>1, <1>3, Zenon

(* What parse_bin makes of an instruction is an instruction again; it is a *)
(* jump, or unknown, only if it was before.                                *)
LEMMA PseudoType ==
  ASSUME NEW i \in StructInstr
  PROVE  conv_to_pseudo(i) \in Rewritten(i)
<1>1. conv_to_pseudo(i) \in {ShiftToPseudo(i), ShiftVToPseudo(i), AluToPseudo(i),
                             ImmToPseudo(i), CompareToPseudo(i), BranchToPseudo(i),
                             As(i, "JR"), i}
  BY Zenon DEF conv_to_pseudo
<1>2. As(i, "JR") \in Rewritten(i) /\ i \in Rewritten(i)
  BY RegisterTypes, FieldChanges, Zenon
<1> QED
  BY <1>1, <1>2, ShiftPseudoType, ShiftVPseudoType, AluPseudoType, ImmPseudoType,
     ComparePseudoType, BranchPseudoType, Zenon

(***************************************************************************)
(* Writing                                                                 *)
(***************************************************************************)
Coded(c, n) == c = NoCode \/ (c \in Seq(Half) /\ Len(c) = n)

(* A register number fits in five bits. *)
LEMMA RegBounds ==
  ASSUME NEW x \in Reg
  PROVE  x \in Nat /\ x <= 31
BY DEF Reg

(* A number of 16 bits is a half word. *)
LEMMA HalfFits ==
  ASSUME NEW x \in Nat, x <= 65535
  PROVE  x \in Half
<1>1. x <= HalfMax /\ HalfMax \in Nat
  BY DEF HalfMax
<1> QED
  BY <1>1 DEF Half

(* Fields put side by side in a half word do not run into each other. *)
LEMMA FieldSums ==
  /\ \A a, b, c \in Nat : a <= 63 /\ b <= 31 /\ c <= 31 =>
        a * 1024 + b * 32 + c \in Nat /\ a * 1024 + b * 32 + c <= 65535
  /\ \A a, b, c \in Nat : a <= 31 /\ b <= 31 /\ c <= 63 =>
        a * 2048 + b * 64 + c \in Nat /\ a * 2048 + b * 64 + c <= 65535
  /\ \A a, b, c \in Nat : a <= 20 /\ b <= 31 /\ c <= 31 =>
        /\ 32768 + a * 1024 + b * 32 + c \in Nat
        /\ 32768 + a * 1024 + b * 32 + c <= 65535
  /\ \A a, c \in Nat : a <= 31 /\ c <= 1023 =>
        32768 + a * 1024 + c \in Nat /\ 32768 + a * 1024 + c <= 65535
  /\ \A a, c \in Nat : a <= 62 /\ c <= 1023 =>
        a * 1024 + c \in Nat /\ a * 1024 + c <= 65535
OBVIOUS

(* A masked field fits in its width. *)
LEMMA Remainders ==
  ASSUME NEW x \in Int
  PROVE  /\ x % 32 \in Nat /\ x % 32 <= 31
         /\ x % 1024 \in Nat /\ x % 1024 <= 1023
         /\ x % 65536 \in Nat /\ x % 65536 <= 65535
OBVIOUS

(* An R format word is two halves. *)
LEMMA WriteRType ==
  ASSUME NEW opcode \in Nat, opcode <= 63, NEW rs \in Reg, NEW rt \in Reg, NEW rd \in Reg,
         NEW shamt \in Reg, NEW func \in Nat, func <= 63
  PROVE  Coded(write_r(opcode, rs, rt, rd, shamt, func), 2)
<1>1. opcode * 1024 + rs * 32 + rt \in Half
  BY RegBounds, FieldSums, HalfFits
<1>2. rd * 2048 + shamt * 64 + func \in Half
  BY RegBounds, FieldSums, HalfFits
<1> QED
  BY <1>1, <1>2 DEF Coded, write_r

(* An I format word is two halves. *)
LEMMA WriteIType ==
  ASSUME NEW opcode \in Nat, opcode <= 63, NEW rs \in Reg, NEW rt \in Reg, NEW imm \in Int
  PROVE  Coded(write_i(opcode, rs, rt, imm), 2)
<1>1. opcode * 1024 + rs * 32 + rt \in Half
  BY RegBounds, FieldSums, HalfFits
<1>2. imm % 65536 \in Half
  BY Remainders, HalfFits
<1> QED
  BY <1>1, <1>2 DEF Coded, write_i

(* A J format word is two halves. *)
LEMMA WriteJType ==
  ASSUME NEW opcode \in Nat, opcode <= 62, NEW target \in Nat
  PROVE  Coded(write_j(opcode, target), 2)
<1>1. CASE target < 67108864
  <2> DEFINE top == target \div 65536
  <2>1. top \in Nat /\ top <= 1023
    BY <1>1
  <2> HIDE DEF top
  <2>2. opcode * 1024 + top \in Half
    BY <2>1, FieldSums, HalfFits
  <2>3. target % 65536 \in Half
    BY Remainders, HalfFits
  <2> QED
    BY <1>1, <2>2, <2>3 DEF Coded, write_j, top
<1>2. CASE ~(target < 67108864)
  BY <1>2 DEF Coded, write_j
<1> QED
  BY <1>1, <1>2

(* A small word with a register is one half. *)
LEMMA WriteSmallType ==
  ASSUME NEW opcode \in Nat, opcode <= 20, NEW rds \in Reg, NEW last \in Int, NEW fits
  PROVE  Coded(write_small(opcode, rds, last, fits), 1)
<1>1. 32768 + opcode * 1024 + rds * 32 + (last % 32) \in Half
  BY Remainders, RegBounds, FieldSums, HalfFits
<1> QED
  BY <1>1 DEF Coded, write_small

(* A small branch is one half. *)
LEMMA WriteBType ==
  ASSUME NEW opcode \in Nat, opcode <= 20, NEW offset \in Int
  PROVE  Coded(write_b(opcode, offset), 1)
<1>1. 32768 + opcode * 1024 + (offset % 1024) \in Half
  BY Remainders, FieldSums, HalfFits
<1> QED
  BY <1>1 DEF Coded, write_b

(* The quotient of the division of C is an integer, natural where the dividend is. *)
LEMMA CDivType ==
  ASSUME NEW a \in Int, NEW b \in Nat, b > 0
  PROVE  CDiv(a, b) \in Int /\ (a >= 0 => CDiv(a, b) \in Nat)
BY DEF CDiv

(* Every opcode and function code of the tables fits in six bits. *)
LEMMA CodeTables ==
  /\ \A op \in DOMAIN SpecialCode : SpecialCode[op] \in Nat /\ SpecialCode[op] <= 63
  /\ \A op \in DOMAIN ImmCode : ImmCode[op] \in Nat /\ ImmCode[op] <= 62
  /\ \A op \in DOMAIN MemCode : MemCode[op] \in Nat /\ MemCode[op] <= 62
  /\ \A op \in NativeBranch : BranchOpcode[op] \in Nat /\ BranchOpcode[op] <= 62
BY DEF SpecialCode, ImmCode, MemCode, BranchOpcode, NativeBranch

(* The fields that are written, whatever the operation is.                 *)
Written(i) == /\ i.rs \in Reg /\ i.rt \in Reg /\ i.rd \in Reg /\ i.shamt \in Reg
              /\ i.imm \in Int /\ i.simm \in Int /\ i.addr \in Nat

(* The fields of every instruction are fit to be written. *)
LEMMA InstrWritten ==
  ASSUME NEW i \in StructInstr
  PROVE  Written(i)
<1>1. \A x \in Half : x \in Int
  BY HalfBounds
<1> QED
  BY <1>1 DEF Written, StructInstr

(* write_instr of the SPECIAL opcode gives two halves. *)
LEMMA SpecialWritten ==
  ASSUME NEW i, Written(i), i.op \in DOMAIN SpecialCode
  PROVE  Coded(write_special(i), 2)
<1>1. SpecialCode[i.op] \in Nat /\ SpecialCode[i.op] <= 63 /\ 0 \in Nat /\ 0 <= 63
  BY CodeTables
<1>2. 0 \in Reg
  BY DEF Reg
<1> DEFINE rs == IF i.op \in Shifts \cup {"MFHI", "MFLO"} \cup Stops THEN 0 ELSE i.rs
           rt == IF i.op \in {"JR", "JALR", "MFHI", "MFLO", "MTHI", "MTLO"} \cup Stops
                 THEN 0 ELSE i.rt
           rd == IF i.op \in {"JR", "MULT", "MULTU", "DIV", "DIVU", "MTHI", "MTLO"} \cup Stops
                 THEN 0 ELSE i.rd
           shamt == IF i.op \in Shifts THEN i.shamt ELSE 0
<1>3. rs \in Reg /\ rt \in Reg /\ rd \in Reg /\ shamt \in Reg
  BY <1>2, Zenon DEF Written
<1>4. write_special(i) = write_r(0, rs, rt, rd, shamt, SpecialCode[i.op])
  BY Zenon DEF write_special
<1> HIDE DEF rs, rt, rd, shamt
<1>5. Coded(write_r(0, rs, rt, rd, shamt, SpecialCode[i.op]), 2)
  BY <1>1, <1>3, WriteRType
<1> QED
  BY <1>4, <1>5, Zenon

(* write_instr of the immediate opcodes gives two halves. *)
LEMMA ImmWritten ==
  ASSUME NEW i, Written(i), i.op \in DOMAIN ImmCode
  PROVE  Coded(write_imm(i), 2)
<1> DEFINE rs  == IF i.op = "LUI" THEN 0 ELSE i.rs
           imm == IF contains_imm(i.op) THEN i.imm ELSE i.simm
<1>1. ImmCode[i.op] \in Nat /\ ImmCode[i.op] <= 63
  BY CodeTables
<1>2. 0 \in Reg
  BY DEF Reg
<1>3. rs \in Reg /\ i.rt \in Reg /\ imm \in Int
  BY <1>2, Zenon DEF Written
<1>4. write_imm(i) = write_i(ImmCode[i.op], rs, i.rt, imm)
  BY Zenon DEF write_imm
<1> HIDE DEF rs, imm
<1>5. Coded(write_i(ImmCode[i.op], rs, i.rt, imm), 2)
  BY <1>1, <1>3, WriteIType
<1> QED
  BY <1>4, <1>5, Zenon

(* The rt field of a branch is a register number. *)
LEMMA BranchRtType ==
  ASSUME NEW op \in NativeBranch, NEW rt \in Reg
  PROVE  BranchRt(op, rt) \in Reg
<1>1. 0 \in Reg /\ 1 \in Reg /\ 16 \in Reg /\ 17 \in Reg
  BY DEF Reg
<1>2. BranchRt(op, rt) \in {0, 1, 16, 17, rt}
  BY Zenon DEF BranchRt, NativeBranch
<1> QED
  BY <1>1, <1>2

(* write_instr gives two halves for every instruction. *)
LEMMA NativeWritten ==
  ASSUME NEW i, Written(i)
  PROVE  Coded(write_instr(i), 2)
<1> DEFINE branch == write_i(BranchOpcode[i.op], i.rs, BranchRt(i.op, i.rt), CDiv(i.simm, 4))
<1>1. i.op \in DOMAIN SpecialCode => Coded(write_special(i), 2)
  BY SpecialWritten
<1>2. i.op \in DOMAIN ImmCode => Coded(write_imm(i), 2)
  BY ImmWritten
<1>3. i.op \in NativeBranch => Coded(branch, 2)
  <2> HAVE i.op \in NativeBranch
  <2>1. BranchOpcode[i.op] \in Nat /\ BranchOpcode[i.op] <= 62
    BY CodeTables, Zenon
  <2>2. BranchOpcode[i.op] <= 63
    BY <2>1
  <2>3. BranchRt(i.op, i.rt) \in Reg /\ i.rs \in Reg /\ CDiv(i.simm, 4) \in Int
    BY BranchRtType, CDivType DEF Written
  <2> QED
    BY <2>1, <2>2, <2>3, WriteIType
<1>4. Coded(write_j(2, CDiv(i.addr, 4)), 2) /\ Coded(write_j(3, CDiv(i.addr, 4)), 2)
  <2>1. CDiv(i.addr, 4) \in Nat
    BY CDivType DEF Written
  <2> QED
    BY <2>1, WriteJType
<1>5. Coded(NoCode, 2)
  BY DEF Coded
<1> DEFINE j == write_j(2, CDiv(i.addr, 4))
           jal == write_j(3, CDiv(i.addr, 4))
<1> HIDE DEF branch, j, jal
<1>6. write_instr(i) =
        CASE i.op \in DOMAIN SpecialCode -> write_special(i)
          [] i.op \in DOMAIN ImmCode -> write_imm(i)
          [] i.op \in NativeBranch -> branch
          [] i.op = "J"   -> j
          [] i.op = "JAL" -> jal
          [] OTHER -> NoCode
  BY Zenon DEF write_instr, branch, j, jal
<1>7. Coded(j, 2) /\ Coded(jal, 2)
  BY <1>4 DEF j, jal
<1> QED
  BY <1>1, <1>2, <1>3, <1>5, <1>6, <1>7

(* conv_to_native leaves an instruction fit to be written. *)
LEMMA ConvertedWritten ==
  ASSUME NEW i \in StructInstr
  PROVE  Written(conv_to_native(i))
<1>1. Written(i) /\ 0 \in Reg /\ 0 \in Int
  BY InstrWritten DEF Reg
<1>2. /\ Written([i EXCEPT !.op = "ADDU", !.rd = 0, !.rs = 0, !.rt = 0])
      /\ Written([i EXCEPT !.op = "ADDU", !.rs = 0])
      /\ Written([i EXCEPT !.op = "ADDU", !.rs = 0, !.rt = 0])
      /\ Written([i EXCEPT !.op = "SUBU", !.rs = 0])
      /\ Written([i EXCEPT !.op = "BGEZ", !.rs = 0, !.rt = 0])
      /\ Written([i EXCEPT !.op = "BGEZAL", !.rs = 0, !.rt = 0])
  BY <1>1 DEF Written, StructInstr
<1>3. /\ Written([i EXCEPT !.op = "SLTIU", !.simm = 1, !.imm = 1])
      /\ Written([i EXCEPT !.op = "SLTU", !.rs = 0])
      /\ Written([i EXCEPT !.op = "SLT", !.rt = 0])
      /\ Written([i EXCEPT !.op = "ADDIU", !.rs = 0])
  BY <1>1 DEF Written, StructInstr
<1>4. Written(As(i, "NOR")) /\ Written(As(i, "BEQ")) /\ Written(As(i, "BNE"))
  BY <1>1 DEF Written, StructInstr, As
<1>5. conv_to_native(i) \in
        {[i EXCEPT !.op = "ADDU", !.rd = 0, !.rs = 0, !.rt = 0],
         [i EXCEPT !.op = "ADDU", !.rs = 0],
         [i EXCEPT !.op = "ADDU", !.rs = 0, !.rt = 0],
         [i EXCEPT !.op = "SUBU", !.rs = 0],
         [i EXCEPT !.op = "BGEZ", !.rs = 0, !.rt = 0],
         [i EXCEPT !.op = "BGEZAL", !.rs = 0, !.rt = 0],
         [i EXCEPT !.op = "SLTIU", !.simm = 1, !.imm = 1],
         [i EXCEPT !.op = "SLTU", !.rs = 0],
         [i EXCEPT !.op = "SLT", !.rt = 0],
         [i EXCEPT !.op = "ADDIU", !.rs = 0],
         As(i, "NOR"), As(i, "BEQ"), As(i, "BNE"), i}
  BY Zenon DEF conv_to_native
<1> QED
  BY <1>1, <1>2, <1>3, <1>4, <1>5, Zenon

(* A wrapped number is an integer. *)
LEMMA WrapLongType ==
  ASSUME NEW n \in Int
  PROVE  WrapLong(n) \in Int
<1>1. LongReach \in Int /\ 2 * LongReach > 0
  BY LongReachAssumption, SMTT(30)
<1> QED
  BY <1>1 DEF WrapLong

(* An instruction that is not compressed takes two halves. *)
LEMMA LongWritten ==
  ASSUME NEW i \in StructInstr
  PROVE  Coded(write_long(i), 2)
<1> DEFINE inst == conv_to_native(i)
           mem == write_i(MemCode[inst.op], inst.rs, inst.rt, inst.simm)
           branch == write_l_branch(BranchOpcode[inst.op], i.rs, BranchRt(inst.op, i.rt), i.simm)
           j == write_j(2, CDiv(i.addr, 2))
           jal == write_j(3, CDiv(i.addr, 2))
           other == write_instr(inst)
<1>1. Written(inst) /\ Written(i)
  BY InstrWritten, ConvertedWritten
<1>2. inst.op \in DOMAIN MemCode => Coded(mem, 2)
  <2> HAVE inst.op \in DOMAIN MemCode
  <2>1. MemCode[inst.op] \in Nat /\ MemCode[inst.op] <= 62
    BY CodeTables, Zenon
  <2>2. MemCode[inst.op] <= 63
    BY <2>1
  <2>3. inst.rs \in Reg /\ inst.rt \in Reg /\ inst.simm \in Int
    BY <1>1, Zenon DEF Written
  <2> HIDE DEF inst
  <2> QED
    BY <2>1, <2>2, <2>3, WriteIType
<1>3. inst.op \in NativeBranch => Coded(branch, 2)
  <2> HAVE inst.op \in NativeBranch
  <2>1. BranchOpcode[inst.op] \in Nat /\ BranchOpcode[inst.op] <= 62
    BY CodeTables, Zenon
  <2>2. BranchOpcode[inst.op] <= 63
    BY <2>1
  <2> HIDE DEF inst
  <2>3. /\ BranchRt(inst.op, i.rt) \in Reg /\ i.rs \in Reg
        /\ WrapLong(CDiv(i.simm, 2)) \in Int
    BY <1>1, BranchRtType, CDivType, WrapLongType DEF Written
  <2> QED
    BY <2>1, <2>2, <2>3, WriteIType DEF write_l_branch
<1>4. Coded(j, 2) /\ Coded(jal, 2)
  <2>1. CDiv(i.addr, 2) \in Nat
    BY <1>1, CDivType DEF Written
  <2> QED
    BY <2>1, WriteJType
<1>5. Coded(other, 2)
  BY <1>1, NativeWritten
<1>6. write_long(i) =
        CASE inst.op \in DOMAIN MemCode -> mem
          [] inst.op \in NativeBranch -> branch
          [] inst.op = "J"   -> j
          [] inst.op = "JAL" -> jal
          [] OTHER -> other
  BY Zenon DEF write_long
<1> HIDE DEF inst, mem, branch, j, jal, other
<1> QED
  BY <1>2, <1>3, <1>4, <1>5, <1>6

(* A compressed one takes one. *)
LEMMA CompressedWritten ==
  ASSUME NEW i \in StructInstr
  PROVE  Coded(write_compressed(i), 1)
<1> DEFINE Small(opcode, r, last, fits) == write_small(opcode, r, last, fits)
<1>1. ASSUME NEW opcode \in 0..20, NEW r \in Reg, NEW last \in Int, NEW fits
      PROVE  Coded(Small(opcode, r, last, fits), 1)
  BY <1>1, WriteSmallType
<1>2. /\ 0 \in Reg /\ i.rs \in Reg /\ i.rt \in Reg /\ i.rd \in Reg
      /\ Second(i) \in Reg /\ \A r \in Reg : r \in Int
      /\ i.shamt \in Int /\ i.imm \in Int /\ i.simm \in Int
  BY InstrWritten, RegBounds DEF Written, Reg, Second
<1>3. CDiv(i.simm, 2) \in Int /\ CDiv(i.imm, 4) \in Int /\ 0 \in Int
  BY <1>2, CDivType
<1>4. /\ Coded(write_b(C_B, CDiv(i.simm, 2)), 1)
      /\ Coded(write_b(C_BAL, CDiv(i.simm, 2)), 1)
  BY <1>3, WriteBType DEF C_B, C_BAL
<1>5. Coded(NoCode, 1)
  BY DEF Coded
<1>6. \A opcode \in {C_MOV, C_ADDU, C_SUBU, C_OR, C_XOR, C_NEG, C_NOT, C_SLTU, C_ADDIU, C_ANDI,
                     C_SLL, C_SRL, C_SRA, C_LSI, C_BEQZ, C_BNEZ, C_JALR, C_LWS, C_SWS} :
        opcode \in 0..20
  BY DEF C_MOV, C_ADDU, C_SUBU, C_OR, C_XOR, C_NEG, C_NOT, C_SLTU, C_ADDIU, C_ANDI,
         C_SLL, C_SRL, C_SRA, C_LSI, C_BEQZ, C_BNEZ, C_JALR, C_LWS, C_SWS
<1> QED
  BY <1>1, <1>2, <1>3, <1>4, <1>5, <1>6, Zenon DEF write_compressed

(* write_instr_v2 gives one half for a compressed instruction, two for any other. *)
LEMMA CodeSize ==
  ASSUME NEW i \in StructInstr
  PROVE  Coded(write_instr_v2(i), IF i.compressed THEN 1 ELSE 2)
BY LongWritten, CompressedWritten, Zenon DEF write_instr_v2

(***************************************************************************)
(* What an instruction keeps when it is rewritten                          *)
(***************************************************************************)

(* x is i with another operation, and with other registers perhaps.        *)
Named(i, x, ops) ==
  /\ x.op \in ops /\ x.simm = i.simm /\ x.imm = i.imm /\ x.addr = i.addr
  /\ x.compressed = i.compressed

PlainPseudo == {"JR", "NOP", "MOV", "CLEAR", "NOT", "NEG", "SEQZ", "SNEZ", "SLTZ", "LSI"}

(* The ways in which the rewritings change an instruction. *)
LEMMA FieldsKept ==
  ASSUME NEW i \in StructInstr, NEW ops, NEW op \in ops, NEW r, NEW d
  PROVE  /\ Named(i, As(i, op), ops)
         /\ op = "MOV" => Named(i, Move(i, d, r), ops)
         /\ op = "CLEAR" => Named(i, Clear(i, d), ops)
         /\ Named(i, [i EXCEPT !.op = op, !.rs = r], ops)
         /\ Named(i, [i EXCEPT !.op = op, !.rt = r], ops)
         /\ Named(i, [i EXCEPT !.op = op, !.rd = r], ops)
         /\ i.op = op => Named(i, i, ops)
BY DEF Named, As, Move, Clear, StructInstr

(* No rewriting changes an immediate or an address; only a branch becomes  *)
(* a branch, and LSI is made of an immediate of five bits.                 *)
LEMMA PseudoKeeps ==
  ASSUME NEW i \in StructInstr, i.op \in Native
  PROVE  LET j == conv_to_pseudo(i) IN
         /\ j.simm = i.simm /\ j.imm = i.imm /\ j.addr = i.addr /\ j.compressed = i.compressed
         /\ j.op \in {i.op} \cup (IF i.op \in NativeBranch THEN PseudoBranch ELSE PlainPseudo)
         /\ i.op \in {"J", "JAL"} => j = i
         /\ j.op = "LSI" => i.simm \in -16..15
<1> DEFINE plain == {i.op} \cup PlainPseudo
<1>1. /\ Named(i, i, plain) /\ Named(i, As(i, "JR"), plain)
      /\ \A op \in PlainPseudo : Named(i, As(i, op), plain)
  <2>1. i.op \in plain /\ "JR" \in plain /\ \A op \in PlainPseudo : op \in plain
    BY DEF PlainPseudo
  <2> HIDE DEF plain
  <2> QED
    BY <2>1, FieldsKept
<1>2. \A r : /\ Named(i, Move(i, i.rd, r), plain) /\ Named(i, Move(i, i.rt, r), plain)
             /\ Named(i, Clear(i, i.rt), plain)
             /\ Named(i, [i EXCEPT !.op = "NOT", !.rt = r], plain)
             /\ Named(i, [i EXCEPT !.op = "SLTZ", !.rs = r], plain)
             /\ Named(i, [i EXCEPT !.op = "SLTZ", !.rd = r], plain)
             /\ Named(i, [i EXCEPT !.op = "LSI", !.rd = r], plain)
  <2>1. {"MOV", "CLEAR", "NOT", "SLTZ", "LSI"} \subseteq plain
    BY DEF PlainPseudo
  <2> HIDE DEF plain
  <2> QED
    BY <2>1, FieldsKept
<1>3. /\ "NOP" \in PlainPseudo /\ "CLEAR" \in PlainPseudo /\ "MOV" \in PlainPseudo
      /\ "NEG" \in PlainPseudo /\ "SLTZ" \in PlainPseudo /\ "SNEZ" \in PlainPseudo
      /\ "SEQZ" \in PlainPseudo
  BY DEF PlainPseudo
<1> HIDE DEF plain
<1>4. Named(i, ShiftToPseudo(i), plain) /\ Named(i, ShiftVToPseudo(i), plain)
  <2>1. ShiftToPseudo(i) \in {As(i, "NOP"), As(i, "CLEAR"), As(i, "MOV"),
                              [i EXCEPT !.op = "SLTZ", !.rs = i.rt], i}
    BY Zenon DEF ShiftToPseudo
  <2>2. ShiftVToPseudo(i) \in {As(i, "NOP"), As(i, "CLEAR"), As(i, "MOV"), i}
    BY Zenon DEF ShiftVToPseudo
  <2> QED
    BY <1>1, <1>2, <1>3, <2>1, <2>2, Zenon
<1>5. Named(i, AluToPseudo(i), plain)
  <2>1. AluToPseudo(i) \in {As(i, "NOP"), As(i, "CLEAR"), As(i, "NEG"), Move(i, i.rd, Other(i)),
                            Move(i, i.rd, i.rs), [i EXCEPT !.op = "NOT", !.rt = Other(i)], i}
    BY Zenon DEF AluToPseudo
  <2> QED
    BY <1>1, <1>2, <1>3, <2>1, Zenon
<1>6. Named(i, ImmToPseudo(i), plain)
  <2>1. ImmToPseudo(i) \in {As(i, "NOP"), Clear(i, i.rt), Move(i, i.rt, i.rs),
                            [i EXCEPT !.op = "LSI", !.rd = i.rt], i}
    BY Zenon DEF ImmToPseudo
  <2> QED
    BY <1>1, <1>2, <1>3, <2>1, Zenon
<1>7. Named(i, CompareToPseudo(i), plain)
  <2>1. CompareToPseudo(i) \in {As(i, "SLTZ"), As(i, "SNEZ"), As(i, "SEQZ"),
                                [i EXCEPT !.op = "SLTZ", !.rd = i.rt], i}
    BY Zenon DEF CompareToPseudo
  <2> QED
    BY <1>1, <1>2, <1>3, <2>1, Zenon
<1>8. Named(i, BranchToPseudo(i), {i.op} \cup PseudoBranch)
  <2> DEFINE nz == IF i.rs = 0 THEN i.rt ELSE i.rs
             all == {i.op} \cup PseudoBranch
  <2>1. BranchToPseudo(i) \in {As(i, "B"), As(i, "BAL"), [i EXCEPT !.op = "BEQZ", !.rs = nz],
                               [i EXCEPT !.op = "BNEZ", !.rs = nz], i}
    BY Zenon DEF BranchToPseudo
  <2>2. i.op \in all /\ {"B", "BAL", "BEQZ", "BNEZ"} \subseteq all
    BY DEF PseudoBranch
  <2> HIDE DEF nz, all
  <2>3. /\ Named(i, As(i, "B"), all) /\ Named(i, As(i, "BAL"), all) /\ Named(i, i, all)
        /\ Named(i, [i EXCEPT !.op = "BEQZ", !.rs = nz], all)
        /\ Named(i, [i EXCEPT !.op = "BNEZ", !.rs = nz], all)
    BY <2>2, FieldsKept
  <2> QED
    BY <2>1, <2>3, Zenon DEF all
<1> DEFINE j == conv_to_pseudo(i)
<1>9. CASE i.op \in NativeBranch
  <2>1. i.op \notin Shifts /\ i.op \notin ShiftVs /\ i.op \notin Alu /\ i.op \notin AluImm
        /\ i.op \notin Compare /\ i.op \notin {"J", "JAL", "JALR", "LSI"} /\ "LSI" \notin PseudoBranch
    BY <1>9 DEF NativeBranch, Shifts, ShiftVs, Alu, AluImm, Compare, PseudoBranch
  <2>2. j = BranchToPseudo(i)
    BY <1>9, <2>1, Zenon DEF conv_to_pseudo
  <2> QED
    BY <1>8, <1>9, <2>1, <2>2, Zenon DEF Named
<1>10. CASE i.op \notin NativeBranch
  <2>1. j \in {ShiftToPseudo(i), ShiftVToPseudo(i), AluToPseudo(i),
               ImmToPseudo(i), CompareToPseudo(i), As(i, "JR"), i}
    BY <1>10, Zenon DEF conv_to_pseudo
  <2>2. Named(i, j, plain)
    BY <1>1, <1>4, <1>5, <1>6, <1>7, <2>1, Zenon
  <2>3. i.op \in {"J", "JAL"} => j = i
    BY DEF conv_to_pseudo, Shifts, ShiftVs, Alu, AluImm, Compare, NativeBranch
  <2>4. j.op = "LSI" => i.simm \in -16..15
    <3> HAVE j.op = "LSI"
    <3>1. i.op # "LSI"
      BY DEF Native, Shifts, ShiftVs, Alu, AluImm, MulDiv, Loads, Stores, Compare, NativeBranch,
             Jumps, Cop0, Stops
    <3>2. \A op : As(i, op).op = op
      BY DEF As, StructInstr
    <3>3. \A r : /\ Move(i, i.rd, r).op # "LSI" /\ Move(i, i.rt, r).op # "LSI"
                 /\ Clear(i, i.rt).op # "LSI"
                 /\ [i EXCEPT !.op = "NOT", !.rt = r].op # "LSI"
                 /\ [i EXCEPT !.op = "SLTZ", !.rs = r].op # "LSI"
                 /\ [i EXCEPT !.op = "SLTZ", !.rd = r].op # "LSI"
      BY DEF Move, Clear, StructInstr
    <3>4. ShiftToPseudo(i).op # "LSI" /\ ShiftVToPseudo(i).op # "LSI"
      <4>1. ShiftToPseudo(i) \in {As(i, "NOP"), As(i, "CLEAR"), As(i, "MOV"),
                                  [i EXCEPT !.op = "SLTZ", !.rs = i.rt], i}
        BY Zenon DEF ShiftToPseudo
      <4>2. ShiftVToPseudo(i) \in {As(i, "NOP"), As(i, "CLEAR"), As(i, "MOV"), i}
        BY Zenon DEF ShiftVToPseudo
      <4> QED
        BY <3>1, <3>2, <3>3, <4>1, <4>2, ZenonT(60)
    <3>5. AluToPseudo(i).op # "LSI"
      <4>1. AluToPseudo(i) \in {As(i, "NOP"), As(i, "CLEAR"), As(i, "NEG"),
                                Move(i, i.rd, Other(i)), Move(i, i.rd, i.rs),
                                [i EXCEPT !.op = "NOT", !.rt = Other(i)], i}
        BY Zenon DEF AluToPseudo
      <4> QED
        BY <3>1, <3>2, <3>3, <4>1
    <3>6. CompareToPseudo(i).op # "LSI"
      <4>1. CompareToPseudo(i) \in {As(i, "SLTZ"), As(i, "SNEZ"), As(i, "SEQZ"),
                                    [i EXCEPT !.op = "SLTZ", !.rd = i.rt], i}
        BY Zenon DEF CompareToPseudo
      <4> QED
        BY <3>1, <3>2, <3>3, <4>1
    <3>7. j = ImmToPseudo(i)
      BY <2>1, <3>1, <3>2, <3>4, <3>5, <3>6
    <3>8. \/ ImmToPseudo(i) \in {As(i, "NOP"), Clear(i, i.rt), Move(i, i.rt, i.rs), i}
          \/ i.simm \in -16..15
      BY Zenon DEF ImmToPseudo
    <3> QED
      BY <3>1, <3>2, <3>3, <3>7, <3>8
  <2> QED
    BY <1>10, <2>2, <2>3, <2>4, Zenon DEF Named, plain
<1> QED
  BY <1>9, <1>10

(***************************************************************************)
(* What is written is read back                                            *)
(***************************************************************************)

(* A field of n values on its own, above nothing and below the next one.   *)
LEMMA SplitFields ==
  /\ \A a, b, c \in Nat : a <= 31 /\ b <= 31 /\ c <= 31 =>
        LET x == a * 1024 + b * 32 + c
        IN x < 32768 /\ x \div 1024 = a /\ (x \div 32) % 32 = b /\ x % 32 = c
  /\ \A a, c \in Nat : a <= 31 /\ c <= 1023 =>
        LET x == a * 1024 + c
        IN x < 32768 /\ x \div 1024 = a /\ x % 1024 = c
  /\ \A a, b, c \in Nat : a <= 31 /\ b <= 31 /\ c <= 63 =>
        LET x == a * 2048 + b * 64 + c
        IN x % 64 = c /\ x \div 2048 = a /\ (x \div 64) % 32 = b
OBVIOUS

(* The fields of a small word. *)
LEMMA SplitSmall ==
  /\ \A a, b, c \in Nat : a <= 20 /\ b <= 31 /\ c <= 31 =>
        LET x == 32768 + a * 1024 + b * 32 + c
        IN /\ x >= 32768 /\ (x \div 1024) % 32 = a /\ (x \div 32) % 32 = b /\ x % 32 = c
  /\ \A a, c \in Nat : a <= 20 /\ c <= 1023 =>
        LET x == 32768 + a * 1024 + c
        IN x >= 32768 /\ (x \div 1024) % 32 = a /\ x % 1024 = c
OBVIOUS

(* The immediates that a long word can hold. *)
Signed16 == {n \in Int : n >= -32768 /\ n <= 32767}

(* A signed number is what it was before it was cut to its field.          *)
LEMMA SignedBack ==
  /\ \A n \in -16..15 : SignExtend(n % 32, 16) = n
  /\ \A n \in -512..511 : SignExtend(n % 1024, 512) = n
  /\ \A n \in Signed16 : SignExtend(n % 65536, 32768) = n
BY DEF SignExtend, Signed16

(* An offset is wrapped to the field of a long branch, and not changed     *)
(* when it fits.                                                           *)
LEMMA WrapLongValue ==
  ASSUME NEW n \in Int
  PROVE  /\ WrapLong(n) \in -LongReach..LongReach - 1 /\ WrapLong(n) \in Signed16
         /\ n \in -LongReach..LongReach - 1 => WrapLong(n) = n
<1>1. LongReach \in Nat /\ 2 * LongReach \in Nat /\ 2 * LongReach > 0
  BY LongReachAssumption
<1>2. \A a \in Int, b \in Nat : b > 0 => a % b \in 0..b - 1 /\ (a \in 0..b - 1 => a % b = a)
  OBVIOUS
<1>3. (n + LongReach) % (2 * LongReach) \in 0..2 * LongReach - 1
  BY <1>1, <1>2
<1>4. n \in -LongReach..LongReach - 1 => (n + LongReach) % (2 * LongReach) = n + LongReach
  BY <1>1, <1>2
<1>5. WrapLong(n) \in -LongReach..LongReach - 1
  BY <1>1, <1>3 DEF WrapLong
<1> DEFINE x == WrapLong(n)
<1>6. x \in Int /\ x >= -LongReach /\ x <= LongReach - 1
  BY <1>1, <1>5, WrapLongType
<1>7. x \in Signed16
  <2> HIDE DEF x
  <2>1. LongReach <= 32768
    BY LongReachAssumption, SMTT(30)
  <2>2. x >= -32768 /\ x <= 32767
    BY <1>1, <1>6, <2>1
  <2> QED
    BY <1>6, <2>2 DEF Signed16
<1> QED
  BY <1>1, <1>4, <1>5, <1>7 DEF WrapLong

(* A table gives one of the operations that it has for a code. *)
LEMMA LookupIn ==
  ASSUME NEW table, NEW code, \E e \in table : e[1] = code
  PROVE  \E e \in table : e[1] = code /\ Lookup(table, code) = e[2]
BY Zenon DEF Lookup

(* A code that is not in a table. *)
LEMMA LookupNone ==
  ASSUME NEW table, NEW code, \A e \in table : e[1] # code
  PROVE  Lookup(table, code) = "INVALID_OP"
BY Zenon DEF Lookup

(* The operations that are read from a table hold no surprise. *)
LEMMA TableContents ==
  /\ \A e \in SpecialTable : e[2] \in Native /\ ~is_branch(e[2]) /\ e[2] \notin {"J", "JAL"}
  /\ \A e \in BranchTable : e[2] \in NativeBranch
  /\ \A e \in OpcodeTable : e[1] \in 8..15 =>
       e[2] \in Native /\ ~is_branch(e[2]) /\ e[2] \notin {"J", "JAL"}
  /\ \A e \in V2OpcodeTable :
       /\ e[1] \in {2, 3} => e[2] \in {"J", "JAL"}
       /\ e[1] \in 4..7 => e[2] \in NativeBranch
       /\ e[1] \in 16..27 => e[2] \in Loads \cup Stores
       /\ e[1] \notin {0} \cup 8..15
<1>1. /\ \A e \in SpecialTable : e[2] \in Native \ (NativeBranch \cup PseudoBranch \cup {"J", "JAL"})
      /\ \A e \in BranchTable : e[2] \in NativeBranch
  BY DEF SpecialTable, BranchTable, Native, Shifts, ShiftVs, Alu, MulDiv, Compare, Jumps, Stops,
         NativeBranch, PseudoBranch
<1>2. \A e \in OpcodeTable : e[1] \in 8..15 =>
        e[2] \in Native \ (NativeBranch \cup PseudoBranch \cup {"J", "JAL"})
  BY DEF OpcodeTable, Native, AluImm, Compare, NativeBranch, PseudoBranch
<1>3. \A e \in V2OpcodeTable :
       /\ e[1] \in {2, 3} => e[2] \in {"J", "JAL"}
       /\ e[1] \in 4..7 => e[2] \in NativeBranch
       /\ e[1] \in 16..27 => e[2] \in Loads \cup Stores
       /\ e[1] \notin {0} \cup 8..15
  BY DEF V2OpcodeTable, NativeBranch, Loads, Stores
<1> QED
  BY <1>1, <1>2, <1>3 DEF is_branch

(* The groups that is_branch separates. *)
LEMMA Groups ==
  /\ \A op \in Loads \cup Stores :
       op \in Native /\ ~is_branch(op) /\ op \notin {"J", "JAL"} /\ op # "INVALID_OP"
  /\ \A op \in NativeBranch :
       op \in Native /\ is_branch(op) /\ op \notin {"J", "JAL"} /\ op # "INVALID_OP"
  /\ \A op \in {"J", "JAL"} :
       op \in Native /\ ~is_branch(op) /\ op \notin NativeBranch /\ op # "INVALID_OP"
  /\ "INVALID_OP" \notin Native
<1>1. \A op \in Loads \cup Stores :
        op \in Native /\ op \notin NativeBranch \cup PseudoBranch \cup {"J", "JAL", "INVALID_OP"}
  BY DEF Native, Loads, Stores, NativeBranch, PseudoBranch
<1>2. \A op \in NativeBranch : op \in Native /\ op \notin {"J", "JAL", "INVALID_OP"}
  BY DEF Native, NativeBranch
<1>3. \A op \in {"J", "JAL"} :
        op \in Native /\ op \notin NativeBranch \cup PseudoBranch \cup {"INVALID_OP"}
  BY DEF Native, Jumps, NativeBranch, PseudoBranch
<1>4. "INVALID_OP" \notin Native
  BY DEF Native, Shifts, ShiftVs, Alu, AluImm, MulDiv, Loads, Stores, Compare, NativeBranch,
         Jumps, Cop0, Stops
<1> QED
  BY <1>1, <1>2, <1>3, <1>4 DEF is_branch

(* Whether control leaves at an instruction, and how.                      *)
KindOf(i) ==
  IF is_branch(i.op) THEN "branch" ELSE IF i.op \in {"J", "JAL"} THEN "jump" ELSE "plain"

(* What the reader has to find in the code of an instruction: how long it  *)
(* is, whether control leaves there, and where to.                         *)
ReadAs(d, size, kind, simm, addr) ==
  /\ d.rc = size
  /\ KindOf(d.instr) = kind
  /\ kind = "branch" => d.instr.simm = simm
  /\ kind = "jump" => d.instr.addr = addr

LongWord(w) == w[1] < 32768

(* A word whose top bit is not set is read in the long format. *)
LEMMA LongRead ==
  ASSUME NEW w \in Word, LongWord(w), parse_long(w, Blank).op \in Native
  PROVE  /\ parse_instr_v2(w, Blank).rc = 4
         /\ parse_instr_v2(w, Blank).instr = parse_long(w, Blank)
BY DEF parse_instr_v2, LongWord

(* A long word that neither branches nor jumps. *)
LEMMA PlainRead ==
  ASSUME NEW w \in Word, LongWord(w), NEW simm, NEW addr,
         \/ /\ get_opcode(w) = 0
            /\ \E e \in SpecialTable : e[1] = get_func(w)
         \/ /\ get_opcode(w) \in 8..15
            /\ \E e \in OpcodeTable : e[1] = get_opcode(w)
         \/ /\ get_opcode(w) \in 16..27
            /\ \E e \in V2OpcodeTable : e[1] = get_opcode(w)
  PROVE  ReadAs(parse_instr_v2(w, Blank), 4, "plain", simm, addr)
<1> DEFINE i == parse_long(w, Blank)
<1>1. i.op \in Native /\ ~is_branch(i.op) /\ i.op \notin {"J", "JAL"}
  <2>1. CASE get_opcode(w) = 0 /\ \E e \in SpecialTable : e[1] = get_func(w)
    <3>1. Lookup(V2OpcodeTable, get_opcode(w)) = "INVALID_OP"
      BY <2>1, TableContents, LookupNone
    <3>2. i = parse_instr(w)
      BY <2>1, <3>1 DEF parse_long
    <3>3. i.op = Lookup(SpecialTable, get_func(w))
      BY <2>1, <3>2 DEF parse_instr, parse_op
    <3> QED
      BY <2>1, <3>3, LookupIn, TableContents
  <2>2. CASE get_opcode(w) \in 8..15 /\ \E e \in OpcodeTable : e[1] = get_opcode(w)
    <3>1. Lookup(V2OpcodeTable, get_opcode(w)) = "INVALID_OP"
      BY <2>2, TableContents, LookupNone
    <3>2. get_opcode(w) # 0 /\ get_opcode(w) # 1 /\ get_opcode(w) # 16
      BY <2>2
    <3>3. i = parse_instr(w)
      BY <3>1, <3>2 DEF parse_long
    <3>4. i.op = Lookup(OpcodeTable, get_opcode(w))
      BY <3>2, <3>3 DEF parse_instr, parse_op
    <3>5. PICK e \in OpcodeTable : e[1] = get_opcode(w) /\ Lookup(OpcodeTable, get_opcode(w)) = e[2]
      BY <2>2, LookupIn
    <3> QED
      BY <2>2, <3>4, <3>5, TableContents
  <2>3. CASE get_opcode(w) \in 16..27 /\ \E e \in V2OpcodeTable : e[1] = get_opcode(w)
    <3> DEFINE op == Lookup(V2OpcodeTable, get_opcode(w))
    <3>1. PICK e \in V2OpcodeTable : e[1] = get_opcode(w) /\ op = e[2]
      BY <2>3, LookupIn
    <3>2. op \in Loads \cup Stores
      BY <2>3, <3>1, TableContents
    <3>3. op # "INVALID_OP" /\ get_opcode(w) # 1
      BY <2>3, <3>2, Groups
    <3>4. i.op = op
      BY <3>3 DEF parse_long, Blank
    <3> QED
      BY <3>2, <3>4, Groups
  <2> QED
    BY <2>1, <2>2, <2>3
<1>2. parse_instr_v2(w, Blank).rc = 4 /\ parse_instr_v2(w, Blank).instr = i
  BY <1>1, LongRead
<1> HIDE DEF i
<1> QED
  BY <1>1, <1>2 DEF ReadAs, KindOf

(* A branch of the long format. *)
LEMMA BranchRead ==
  ASSUME NEW w \in Word, LongWord(w), NEW addr,
         \/ get_opcode(w) = 1 /\ \E e \in BranchTable : e[1] = get_rt(w)
         \/ get_opcode(w) \in 4..7 /\ \E e \in V2OpcodeTable : e[1] = get_opcode(w)
  PROVE  ReadAs(parse_instr_v2(w, Blank), 4, "branch", get_simm(w) * 2, addr)
<1> DEFINE i == parse_long(w, Blank)
           op == IF get_opcode(w) = 1 THEN Lookup(BranchTable, get_rt(w))
                 ELSE Lookup(V2OpcodeTable, get_opcode(w))
<1>1. op \in NativeBranch
  <2>1. CASE get_opcode(w) = 1 /\ \E e \in BranchTable : e[1] = get_rt(w)
    BY <2>1, LookupIn, TableContents
  <2>2. CASE get_opcode(w) \in 4..7 /\ \E e \in V2OpcodeTable : e[1] = get_opcode(w)
    <3>1. PICK e \in V2OpcodeTable :
            e[1] = get_opcode(w) /\ Lookup(V2OpcodeTable, get_opcode(w)) = e[2]
      BY <2>2, LookupIn
    <3>2. get_opcode(w) # 1
      BY <2>2
    <3> QED
      BY <2>2, <3>1, <3>2, TableContents
  <2> QED
    BY <2>1, <2>2
<1> HIDE DEF op
<1>2. op # "INVALID_OP" /\ op \in Native /\ is_branch(op) /\ op \notin {"J", "JAL"}
  BY <1>1, Groups
<1>3. i.op = op /\ i.simm = get_simm(w) * 2
  BY <1>1, <1>2 DEF parse_long, Blank, op
<1>4. parse_instr_v2(w, Blank).rc = 4 /\ parse_instr_v2(w, Blank).instr = i
  BY <1>2, <1>3, LongRead
<1> HIDE DEF i
<1> QED
  BY <1>2, <1>3, <1>4 DEF ReadAs, KindOf

(* A jump. *)
LEMMA JumpRead ==
  ASSUME NEW w \in Word, LongWord(w), NEW simm, get_opcode(w) \in {2, 3}
  PROVE  ReadAs(parse_instr_v2(w, Blank), 4, "jump", simm, get_addr(w) * 2)
<1> DEFINE i == parse_long(w, Blank)
           op == Lookup(V2OpcodeTable, get_opcode(w))
<1>1. op \in {"J", "JAL"}
  <2>1. \E e \in V2OpcodeTable : e[1] = get_opcode(w)
    BY DEF V2OpcodeTable
  <2>2. PICK e \in V2OpcodeTable : e[1] = get_opcode(w) /\ op = e[2]
    BY <2>1, LookupIn
  <2> QED
    BY <2>2, TableContents
<1> HIDE DEF op
<1>2. op # "INVALID_OP" /\ op \in Native /\ ~is_branch(op) /\ get_opcode(w) # 1
  BY <1>1, Groups
<1>3. i.op = op /\ i.addr = get_addr(w) * 2
  BY <1>1, <1>2 DEF parse_long, Blank, op
<1>4. parse_instr_v2(w, Blank).rc = 4 /\ parse_instr_v2(w, Blank).instr = i
  BY <1>2, <1>3, LongRead
<1> HIDE DEF i
<1> QED
  BY <1>1, <1>2, <1>3, <1>4 DEF ReadAs, KindOf

(* Every code that is written is in the table that it is read from. *)
LEMMA CodesKnown ==
  /\ \A op \in DOMAIN SpecialCode : \E e \in SpecialTable : e[1] = SpecialCode[op]
  /\ \A op \in DOMAIN ImmCode \ DOMAIN MemCode :
       ImmCode[op] \in 8..15 /\ \E e \in OpcodeTable : e[1] = ImmCode[op]
  /\ \A op \in DOMAIN MemCode :
       MemCode[op] \in 16..27 /\ \E e \in V2OpcodeTable : e[1] = MemCode[op]
  /\ \A op \in NativeBranch :
       \/ /\ BranchOpcode[op] = 1
          /\ \A rt : \E e \in BranchTable : e[1] = BranchRt(op, rt)
       \/ /\ BranchOpcode[op] \in 4..7
          /\ \E e \in V2OpcodeTable : e[1] = BranchOpcode[op]
<1>1. \A op \in DOMAIN SpecialCode : \E e \in SpecialTable : e[1] = SpecialCode[op]
  BY DEF SpecialCode, SpecialTable
<1>2. \A op \in DOMAIN ImmCode \ DOMAIN MemCode :
        ImmCode[op] \in 8..15 /\ \E e \in OpcodeTable : e[1] = ImmCode[op]
  BY DEF ImmCode, MemCode, OpcodeTable
<1>3. \A op \in DOMAIN MemCode :
        MemCode[op] \in 16..27 /\ \E e \in V2OpcodeTable : e[1] = MemCode[op]
  BY DEF MemCode, V2OpcodeTable
<1>4. \A op \in {"BEQ", "BNE", "BLEZ", "BGTZ"} :
        BranchOpcode[op] \in 4..7 /\ \E e \in V2OpcodeTable : e[1] = BranchOpcode[op]
  BY DEF BranchOpcode, V2OpcodeTable
<1>5. \A op \in {"BLTZ", "BGEZ", "BLTZAL", "BGEZAL"} :
        /\ BranchOpcode[op] = 1
        /\ \A rt : \E e \in BranchTable : e[1] = BranchRt(op, rt)
  BY DEF BranchOpcode, BranchRt, BranchTable
<1> QED
  BY <1>1, <1>2, <1>3, <1>4, <1>5 DEF NativeBranch

(* The fields of a word that has been put together from them. *)
LEMMA ImmediateFields ==
  ASSUME NEW opcode \in Nat, opcode <= 31, NEW rs \in Reg, NEW rt \in Reg, NEW imm \in Int
  PROVE  LET w == write_i(opcode, rs, rt, imm) IN
         /\ w \in Word /\ w = <<w[1], w[2]>> /\ w # NoCode /\ LongWord(w)
         /\ get_opcode(w) = opcode /\ get_rt(w) = rt /\ get_rs(w) = rs
         /\ get_imm(w) = imm % 65536
         /\ imm \in Signed16 => get_simm(w) = imm
<1> DEFINE hi == opcode * 1024 + rs * 32 + rt
           lo == imm % 65536
           w  == write_i(opcode, rs, rt, imm)
<1>1. w = <<hi, lo>>
  BY DEF write_i
<1>2. /\ hi \in Half /\ hi < 32768 /\ hi \div 1024 = opcode /\ hi % 32 = rt
      /\ (hi \div 32) % 32 = rs
  <2>1. rs \in Nat /\ rs <= 31 /\ rt \in Nat /\ rt <= 31
    BY RegBounds
  <2>2. hi \in Nat /\ hi <= 65535
    BY <2>1, FieldSums
  <2>3. hi < 32768 /\ hi \div 1024 = opcode /\ (hi \div 32) % 32 = rs /\ hi % 32 = rt
    BY <2>1, SplitFields
  <2> HIDE DEF hi
  <2> QED BY <2>2, <2>3, HalfFits
<1>3. lo \in Half
  BY Remainders, HalfFits
<1>4. imm \in Signed16 => SignExtend(lo, 32768) = imm
  BY SignedBack
<1> HIDE DEF hi, lo, w
<1>5. w \in Word /\ w # NoCode /\ w[1] = hi /\ w[2] = lo
  BY <1>1, <1>2, <1>3 DEF Word, NoCode
<1>6. get_opcode(w) = opcode /\ get_rt(w) = rt /\ get_rs(w) = rs /\ LongWord(w)
  BY <1>2, <1>5 DEF get_opcode, get_rt, get_rs, LongWord
<1>7. get_imm(w) = lo /\ (imm \in Signed16 => get_simm(w) = imm)
  BY <1>4, <1>5 DEF get_simm, get_imm
<1> QED
  BY <1>1, <1>5, <1>6, <1>7 DEF w, lo

(* The fields of a SPECIAL word. *)
LEMMA SpecialFields ==
  ASSUME NEW i, Written(i), i.op \in DOMAIN SpecialCode
  PROVE  LET w == write_special(i) IN
         /\ w \in Word /\ w = <<w[1], w[2]>> /\ w # NoCode /\ LongWord(w)
         /\ get_opcode(w) = 0 /\ get_func(w) = SpecialCode[i.op]
         /\ i.op \notin Shifts \cup {"MFHI", "MFLO"} \cup Stops => get_rs(w) = i.rs
         /\ i.op \notin {"JR", "JALR", "MFHI", "MFLO", "MTHI", "MTLO"} \cup Stops => get_rt(w) = i.rt
         /\ i.op \notin {"JR", "MULT", "MULTU", "DIV", "DIVU", "MTHI", "MTLO"} \cup Stops =>
              get_rd(w) = i.rd
         /\ i.op \in Shifts => get_shamt(w) = i.shamt
<1>1. SpecialCode[i.op] \in Nat /\ SpecialCode[i.op] <= 63
  BY CodeTables
<1>2. 0 \in Reg
  BY DEF Reg
<1> DEFINE rs == IF i.op \in Shifts \cup {"MFHI", "MFLO"} \cup Stops THEN 0 ELSE i.rs
           rt == IF i.op \in {"JR", "JALR", "MFHI", "MFLO", "MTHI", "MTLO"} \cup Stops
                 THEN 0 ELSE i.rt
           rd == IF i.op \in {"JR", "MULT", "MULTU", "DIV", "DIVU", "MTHI", "MTLO"} \cup Stops
                 THEN 0 ELSE i.rd
           shamt == IF i.op \in Shifts THEN i.shamt ELSE 0
           func == SpecialCode[i.op]
           w == write_special(i)
<1>3. rs \in Reg /\ rt \in Reg /\ rd \in Reg /\ shamt \in Reg
  BY <1>2, Zenon DEF Written
<1>4. w = write_r(0, rs, rt, rd, shamt, func)
  BY Zenon DEF write_special
<1> DEFINE hi == 0 * 1024 + rs * 32 + rt
           lo == rd * 2048 + shamt * 64 + func
<1>5. w = <<hi, lo>>
  BY <1>4 DEF write_r
<1> HIDE DEF rs, rt, rd, shamt, func
<1>6. /\ rs \in Nat /\ rs <= 31 /\ rt \in Nat /\ rt <= 31 /\ rd \in Nat /\ rd <= 31
      /\ shamt \in Nat /\ shamt <= 31 /\ func \in Nat /\ func <= 63
  BY <1>1, <1>3, RegBounds DEF func
<1>7. /\ hi \in Nat /\ hi <= 65535 /\ hi < 32768 /\ hi \div 1024 = 0
      /\ (hi \div 32) % 32 = rs /\ hi % 32 = rt
  BY <1>6, SplitFields
<1>8. /\ lo \in Nat /\ lo <= 65535 /\ lo % 64 = func
      /\ lo \div 2048 = rd /\ (lo \div 64) % 32 = shamt
  BY <1>6, FieldSums, SplitFields
<1> HIDE DEF hi, lo, w
<1>9. hi \in Half /\ lo \in Half
  BY <1>7, <1>8, HalfFits
<1>10. w \in Word /\ w # NoCode /\ w[1] = hi /\ w[2] = lo
  BY <1>5, <1>9 DEF Word, NoCode
<1>11. get_rs(w) = rs /\ get_rt(w) = rt /\ get_rd(w) = rd /\ get_shamt(w) = shamt
  BY <1>7, <1>8, <1>10 DEF get_rs, get_rt, get_rd, get_shamt
<1>12. /\ w \in Word /\ w = <<w[1], w[2]>> /\ w # NoCode /\ LongWord(w)
       /\ get_opcode(w) = 0 /\ get_func(w) = func
  BY <1>5, <1>7, <1>8, <1>10 DEF get_opcode, get_func, LongWord
<1> HIDE DEF w
<1> QED
  BY <1>11, <1>12, Zenon DEF w, rs, rt, rd, shamt, func

(* The fields of a jump. *)
LEMMA JumpFields ==
  ASSUME NEW opcode \in Nat, opcode <= 31, NEW target \in Nat,
         write_j(opcode, target) # NoCode
  PROVE  LET w == write_j(opcode, target) IN
         /\ w \in Word /\ w = <<w[1], w[2]>> /\ LongWord(w)
         /\ get_opcode(w) = opcode /\ get_addr(w) = target
<1> DEFINE top == target \div 65536
           hi == opcode * 1024 + top
           lo == target % 65536
           w  == write_j(opcode, target)
<1>1. target < 67108864 /\ w = <<hi, lo>>
  BY DEF write_j
<1>2. top \in Nat /\ top <= 1023 /\ lo \in Nat /\ top * 65536 + lo = target
  BY <1>1
<1> HIDE DEF top
<1>3. hi \in Half /\ hi < 32768 /\ hi \div 1024 = opcode /\ hi % 1024 = top
  BY <1>2, FieldSums, SplitFields, HalfFits
<1>4. lo \in Half
  BY Remainders, HalfFits
<1> HIDE DEF hi, lo
<1>5. w \in Word /\ w[1] = hi /\ w[2] = lo
  BY <1>1, <1>3, <1>4 DEF Word
<1> QED
  BY <1>1, <1>2, <1>3, <1>5 DEF get_opcode, get_addr, LongWord

(* The operations that a pseudo instruction is written as. *)
LEMMA NativeForm ==
  ASSUME NEW i \in StructInstr
  PROVE  LET n == conv_to_native(i) IN
         \/ i.op \in Native \cup {"INVALID_OP"} /\ n = i
         \/ /\ i.op \in Pseudo \ PseudoBranch
            /\ n.op \in {"ADDU", "NOR", "SUBU", "SLTIU", "SLTU", "SLT", "ADDIU"}
         \/ /\ i.op \in PseudoBranch
            /\ n.op \in {"BGEZ", "BGEZAL", "BEQ", "BNE"}
<1> DEFINE n == conv_to_native(i)
<1>1. CASE i.op \in PseudoBranch
  <2>1. /\ [i EXCEPT !.op = "BGEZ", !.rs = 0, !.rt = 0].op = "BGEZ"
        /\ [i EXCEPT !.op = "BGEZAL", !.rs = 0, !.rt = 0].op = "BGEZAL"
        /\ As(i, "BEQ").op = "BEQ" /\ As(i, "BNE").op = "BNE"
    BY DEF StructInstr, As
  <2>2. n \in {[i EXCEPT !.op = "BGEZ", !.rs = 0, !.rt = 0],
               [i EXCEPT !.op = "BGEZAL", !.rs = 0, !.rt = 0], As(i, "BEQ"), As(i, "BNE")}
    BY <1>1 DEF conv_to_native, PseudoBranch
  <2> QED
    BY <1>1, <2>1, <2>2, Zenon
<1>2. CASE i.op \in Pseudo \ PseudoBranch
  <2>1. i.op \in {"NOP", "MOV", "CLEAR", "NOT", "NEG", "SEQZ", "SNEZ", "SLTZ", "LSI"}
    BY <1>2 DEF Pseudo
  <2>2. n.op \in {"ADDU", "NOR", "SUBU", "SLTIU", "SLTU", "SLT", "ADDIU"}
    BY <2>1 DEF conv_to_native, StructInstr, As
  <2> QED
    BY <1>2, <2>2
<1>3. CASE i.op \notin Pseudo
  <2>1. i.op \in Native \cup {"INVALID_OP"}
    BY <1>3 DEF StructInstr, Operation
  <2>2. n = i
    BY <1>3 DEF conv_to_native, Pseudo, PseudoBranch
  <2> QED
    BY <2>1, <2>2
<1>4. PseudoBranch \subseteq Pseudo
  BY DEF Pseudo
<1> HIDE DEF n
<1> QED
  BY <1>1, <1>2, <1>3, <1>4 DEF n

(* Every native operation has its code in one of the tables, or none. *)
LEMMA CodeGroups ==
  /\ \A op \in Native \cup {"INVALID_OP"} :
       \/ op \in DOMAIN MemCode \/ op \in NativeBranch \/ op \in {"J", "JAL"}
       \/ op \in DOMAIN SpecialCode \/ op \in DOMAIN ImmCode \ DOMAIN MemCode
       \/ op \in Cop0 \cup {"INVALID_OP"}
  /\ \A op \in DOMAIN MemCode :
       op \notin NativeBranch \cup {"J", "JAL"} \cup DOMAIN SpecialCode \cup Cop0
                   \cup {"INVALID_OP"} \cup PseudoBranch
  /\ \A op \in NativeBranch :
       op \notin {"J", "JAL"} \cup DOMAIN SpecialCode \cup DOMAIN ImmCode \cup Cop0
                   \cup {"INVALID_OP"}
  /\ \A op \in {"J", "JAL"} :
       op \notin DOMAIN SpecialCode \cup DOMAIN ImmCode \cup Cop0 \cup {"INVALID_OP"}
                   \cup PseudoBranch
  /\ \A op \in DOMAIN SpecialCode :
       op \notin DOMAIN ImmCode \cup Cop0 \cup {"INVALID_OP"} \cup PseudoBranch
  /\ \A op \in DOMAIN ImmCode : op \notin Cop0 \cup {"INVALID_OP"} \cup PseudoBranch
  /\ {"ADDU", "NOR", "SUBU", "SLTU", "SLT"} \subseteq DOMAIN SpecialCode
  /\ {"SLTIU", "ADDIU"} \subseteq DOMAIN ImmCode \ DOMAIN MemCode
  /\ {"BGEZ", "BGEZAL", "BEQ", "BNE"} \subseteq NativeBranch
<1>1. DOMAIN MemCode = Loads \cup Stores
  BY DEF MemCode, Loads, Stores
<1>2. DOMAIN ImmCode = {"ADDI", "ADDIU", "SLTI", "SLTIU", "ANDI", "ORI", "XORI", "LUI"}
                         \cup Loads \cup Stores
  BY DEF ImmCode, Loads, Stores
<1>3. DOMAIN SpecialCode = Shifts \cup ShiftVs \cup {"JR", "JALR"} \cup Stops \cup MulDiv \cup Alu
                             \cup {"SLT", "SLTU"}
  BY DEF SpecialCode, Shifts, ShiftVs, Stops, MulDiv, Alu
<1> QED
  BY <1>1, <1>2, <1>3 DEF Native, Shifts, ShiftVs, Alu, AluImm, MulDiv, Loads, Stores, Compare,
     NativeBranch, Jumps, Cop0, Stops, PseudoBranch

(* Which of its formats a long instruction is written in.                  *)
LEMMA LongForms ==
  ASSUME NEW i \in StructInstr
  PROVE  LET n == conv_to_native(i) IN
         \/ /\ n.op \in DOMAIN MemCode
            /\ write_long(i) = write_i(MemCode[n.op], n.rs, n.rt, n.simm)
            /\ ~is_branch(i.op) /\ i.op \notin {"J", "JAL"} \cup Cop0 \cup {"INVALID_OP"}
         \/ /\ n.op \in NativeBranch
            /\ write_long(i) = write_l_branch(BranchOpcode[n.op], i.rs, BranchRt(n.op, i.rt),
                                              i.simm)
            /\ is_branch(i.op) /\ i.op \notin {"J", "JAL"} \cup Cop0 \cup {"INVALID_OP"}
         \/ /\ write_long(i) \in {write_j(2, CDiv(i.addr, 2)), write_j(3, CDiv(i.addr, 2))}
            /\ ~is_branch(i.op) /\ i.op \in {"J", "JAL"} /\ i.op \notin Cop0 \cup {"INVALID_OP"}
         \/ /\ n.op \in DOMAIN SpecialCode
            /\ write_long(i) = write_special(n)
            /\ ~is_branch(i.op) /\ i.op \notin {"J", "JAL"} \cup Cop0 \cup {"INVALID_OP"}
         \/ /\ n.op \in DOMAIN ImmCode \ DOMAIN MemCode
            /\ write_long(i) = write_imm(n)
            /\ ~is_branch(i.op) /\ i.op \notin {"J", "JAL"} \cup Cop0 \cup {"INVALID_OP"}
         \/ /\ write_long(i) = NoCode
            /\ i.op \in Cop0 \cup {"INVALID_OP"}
<1> DEFINE n == conv_to_native(i)
<1>1. \/ i.op \in Native \cup {"INVALID_OP"} /\ n = i
      \/ /\ i.op \in Pseudo \ PseudoBranch
         /\ n.op \in {"ADDU", "NOR", "SUBU", "SLTIU", "SLTU", "SLT", "ADDIU"}
      \/ /\ i.op \in PseudoBranch
         /\ n.op \in {"BGEZ", "BGEZAL", "BEQ", "BNE"}
  BY NativeForm
<1>3. \A op \in Pseudo \ PseudoBranch :
        op \notin NativeBranch \cup {"J", "JAL"} \cup Cop0 \cup {"INVALID_OP"}
  BY DEF Pseudo, PseudoBranch, NativeBranch, Cop0
<1>4. \A op \in PseudoBranch : op \notin {"J", "JAL"} \cup Cop0 \cup {"INVALID_OP"}
  BY DEF PseudoBranch, Cop0
<1>5. \A op \in Cop0 \cup {"INVALID_OP"} : op \notin PseudoBranch
  BY DEF PseudoBranch, Cop0
<1> DEFINE mem    == write_i(MemCode[n.op], n.rs, n.rt, n.simm)
           branch == write_l_branch(BranchOpcode[n.op], i.rs, BranchRt(n.op, i.rt), i.simm)
           j      == write_j(2, CDiv(i.addr, 2))
           jal    == write_j(3, CDiv(i.addr, 2))
           j4     == write_j(2, CDiv(n.addr, 4))
           jal4   == write_j(3, CDiv(n.addr, 4))
           near   == write_i(BranchOpcode[n.op], n.rs, BranchRt(n.op, n.rt), CDiv(n.simm, 4))
           special == write_special(n)
           imm    == write_imm(n)
<1> HIDE DEF n, mem, branch, j, jal, near, j4, jal4, special, imm
<1>2. write_long(i) =
        CASE n.op \in DOMAIN MemCode -> mem
          [] n.op \in NativeBranch -> branch
          [] n.op = "J"   -> j
          [] n.op = "JAL" -> jal
          [] OTHER -> write_instr(n)
  BY Zenon DEF write_long, n, mem, branch, j, jal
<1>6. write_instr(n) =
        CASE n.op \in DOMAIN SpecialCode -> special
          [] n.op \in DOMAIN ImmCode -> imm
          [] n.op \in NativeBranch -> near
          [] n.op = "J"   -> j4
          [] n.op = "JAL" -> jal4
          [] OTHER -> NoCode
  BY Zenon DEF write_instr, special, imm, near, j4, jal4
<1>7. CASE n.op \in DOMAIN MemCode
  <2>0. n.op \notin NativeBranch /\ n.op # "J" /\ n.op # "JAL"
    BY <1>7, CodeGroups
  <2>1. write_long(i) = mem
    BY <1>2, <1>7, <2>0
  <2>2. i.op = n.op \/ i.op \in Pseudo \ PseudoBranch
    BY <1>1, <1>7, CodeGroups
  <2>3. ~is_branch(i.op) /\ i.op \notin {"J", "JAL"} \cup Cop0 \cup {"INVALID_OP"}
    BY <1>3, <1>7, <2>2, CodeGroups DEF is_branch
  <2> QED
    BY <1>7, <2>1, <2>3 DEF mem, n
<1>8. CASE n.op \in NativeBranch
  <2>1. n.op \notin DOMAIN MemCode /\ n.op # "J" /\ n.op # "JAL"
    BY <1>8, CodeGroups
  <2>2. write_long(i) = branch
    BY <1>2, <1>8, <2>1
  <2>3. i.op = n.op \/ i.op \in PseudoBranch
    BY <1>1, <1>8, CodeGroups
  <2>4. is_branch(i.op) /\ i.op \notin {"J", "JAL"} \cup Cop0 \cup {"INVALID_OP"}
    BY <1>4, <1>8, <2>3, CodeGroups DEF is_branch
  <2> QED
    BY <1>8, <2>2, <2>4 DEF branch, n
<1>9. CASE n.op \in {"J", "JAL"}
  <2>1. n.op \notin DOMAIN MemCode /\ n.op \notin NativeBranch
    BY <1>9, CodeGroups, Groups
  <2>2. write_long(i) \in {j, jal}
    BY <1>2, <1>9, <2>1
  <2>3. i.op = n.op
    BY <1>1, <1>9
  <2>4. ~is_branch(i.op) /\ i.op \in {"J", "JAL"} /\ i.op \notin Cop0 \cup {"INVALID_OP"}
    BY <1>9, <2>3, CodeGroups, Groups
  <2> QED
    BY <2>2, <2>4 DEF j, jal
<1>10. CASE n.op \in DOMAIN SpecialCode
  <2>1. /\ n.op \notin DOMAIN MemCode /\ n.op \notin NativeBranch /\ n.op \notin {"J", "JAL"}
        /\ n.op \notin DOMAIN ImmCode
    BY <1>10, CodeGroups
  <2>2. write_long(i) = special
    BY <1>2, <1>6, <1>10, <2>1
  <2>3. i.op = n.op \/ i.op \in Pseudo \ PseudoBranch
    BY <1>1, <2>1, CodeGroups
  <2>4. ~is_branch(i.op) /\ i.op \notin {"J", "JAL"} \cup Cop0 \cup {"INVALID_OP"}
    BY <1>3, <1>10, <2>1, <2>3, CodeGroups DEF is_branch
  <2> QED
    BY <1>10, <2>2, <2>4 DEF special, n
<1>11. CASE n.op \in DOMAIN ImmCode \ DOMAIN MemCode
  <2>1. n.op \notin DOMAIN SpecialCode /\ n.op \notin NativeBranch /\ n.op \notin {"J", "JAL"}
    BY <1>11, CodeGroups
  <2>2. write_long(i) = imm
    BY <1>2, <1>6, <1>11, <2>1
  <2>3. i.op = n.op \/ i.op \in Pseudo \ PseudoBranch
    BY <1>1, <2>1, CodeGroups
  <2>4. ~is_branch(i.op) /\ i.op \notin {"J", "JAL"} \cup Cop0 \cup {"INVALID_OP"}
    BY <1>3, <1>11, <2>1, <2>3, CodeGroups DEF is_branch
  <2> QED
    BY <1>11, <2>2, <2>4 DEF imm, n
<1>12. CASE n.op \in Cop0 \cup {"INVALID_OP"}
  <2>1. /\ n.op \notin DOMAIN SpecialCode /\ n.op \notin NativeBranch /\ n.op \notin {"J", "JAL"}
        /\ n.op \notin DOMAIN MemCode /\ n.op \notin DOMAIN ImmCode
    BY <1>12, CodeGroups
  <2>2. write_long(i) = NoCode
    BY <1>2, <1>6, <2>1
  <2>3. i.op = n.op
    BY <1>1, <1>12, <2>1, CodeGroups
  <2> QED
    BY <1>12, <2>2, <2>3
<1>13. n.op \in Native \cup {"INVALID_OP"}
  <2>1. {"ADDU", "NOR", "SUBU", "SLTIU", "SLTU", "SLT", "ADDIU", "BGEZ", "BGEZAL", "BEQ", "BNE"}
          \subseteq Native
    BY DEF Native, Alu, Compare, AluImm, NativeBranch
  <2> QED
    BY <1>1, <2>1
<1> QED
  BY <1>7, <1>8, <1>9, <1>10, <1>11, <1>12, <1>13, CodeGroups

(* A long code is read as an instruction of the same kind: a branch with   *)
(* the offset, a jump with the target that was written.                    *)
LEMMA LongReadBack ==
  ASSUME NEW i \in StructInstr, write_long(i) # NoCode
  PROVE  LET c == write_long(i) IN
         /\ c \in Word /\ c = <<c[1], c[2]>> /\ i.op \notin Cop0 \cup {"INVALID_OP"}
         /\ ReadAs(parse_instr_v2(c, Blank), 4, KindOf(i), 2 * WrapLong(CDiv(i.simm, 2)), 2 * CDiv(i.addr, 2))
<1> DEFINE n == conv_to_native(i)
           c == write_long(i)
           simm == 2 * WrapLong(CDiv(i.simm, 2))
           addr == 2 * CDiv(i.addr, 2)
           Good == /\ c \in Word /\ c = <<c[1], c[2]>> /\ i.op \notin Cop0 \cup {"INVALID_OP"}
                   /\ ReadAs(parse_instr_v2(c, Blank), 4, KindOf(i), simm, addr)
<1>1. Written(i) /\ Written(n)
  BY InstrWritten, ConvertedWritten
<1>2. ASSUME n.op \in DOMAIN MemCode, c = write_i(MemCode[n.op], n.rs, n.rt, n.simm),
             ~is_branch(i.op), i.op \notin {"J", "JAL"} \cup Cop0 \cup {"INVALID_OP"}
      PROVE  Good
  <2> HIDE DEF n, simm, addr
  <2> DEFINE code == MemCode[n.op]
  <2>1. code \in Nat /\ code \in 16..27 /\ code <= 31
    BY <1>2, CodesKnown
  <2>7. n.rs \in Reg /\ n.rt \in Reg /\ n.simm \in Int /\ c = write_i(code, n.rs, n.rt, n.simm)
    BY <1>1, <1>2 DEF Written
  <2> HIDE DEF code
  <2>2. /\ c \in Word /\ c = <<c[1], c[2]>> /\ LongWord(c) /\ get_opcode(c) = code
    BY <2>1, <2>7, ImmediateFields
  <2>3. get_opcode(c) \in 16..27 /\ \E e \in V2OpcodeTable : e[1] = get_opcode(c)
    BY <1>2, <2>1, <2>2, CodesKnown DEF code
  <2>4. ReadAs(parse_instr_v2(c, Blank), 4, "plain", simm, addr)
    BY <2>2, <2>3, PlainRead
  <2> QED
    BY <1>2, <2>2, <2>4 DEF KindOf
<1>3. ASSUME n.op \in NativeBranch, is_branch(i.op),
             c = write_l_branch(BranchOpcode[n.op], i.rs, BranchRt(n.op, i.rt), i.simm),
             i.op \notin {"J", "JAL"} \cup Cop0 \cup {"INVALID_OP"}
      PROVE  Good
  <2> HIDE DEF n, addr
  <2> DEFINE code == BranchOpcode[n.op]
             rt == BranchRt(n.op, i.rt)
             off == WrapLong(CDiv(i.simm, 2))
  <2>1. rt \in Reg /\ i.rs \in Reg /\ CDiv(i.simm, 2) \in Int
    BY <1>1, <1>3, BranchRtType, CDivType DEF Written
  <2> HIDE DEF code, rt
  <2>3. off \in Int /\ off \in Signed16
    BY <2>1, WrapLongValue, WrapLongType
  <2> HIDE DEF off
  <2>4. code \in Nat /\ code <= 31
    BY <1>3, CodesKnown DEF code
  <2>5. c = write_i(code, i.rs, rt, off)
    BY <1>3 DEF write_l_branch, code, rt, off
  <2>6. /\ c \in Word /\ c = <<c[1], c[2]>> /\ LongWord(c) /\ get_opcode(c) = code
        /\ get_rt(c) = rt /\ get_simm(c) = off
    BY <2>1, <2>3, <2>4, <2>5, ImmediateFields
  <2>7. \/ get_opcode(c) = 1 /\ \E e \in BranchTable : e[1] = get_rt(c)
        \/ get_opcode(c) \in 4..7 /\ \E e \in V2OpcodeTable : e[1] = get_opcode(c)
    BY <1>3, <2>6, CodesKnown DEF code, rt
  <2>8. ReadAs(parse_instr_v2(c, Blank), 4, "branch", get_simm(c) * 2, addr)
    BY <2>6, <2>7, BranchRead
  <2>9. get_simm(c) * 2 = simm
    BY <2>3, <2>6 DEF off
  <2> HIDE DEF simm
  <2> QED
    BY <1>3, <2>6, <2>8, <2>9 DEF KindOf
<1>4. ASSUME c \in {write_j(2, CDiv(i.addr, 2)), write_j(3, CDiv(i.addr, 2))},
             ~is_branch(i.op), i.op \in {"J", "JAL"}, i.op \notin Cop0 \cup {"INVALID_OP"}
      PROVE  Good
  <2> HIDE DEF n, simm
  <2> DEFINE target == CDiv(i.addr, 2)
  <2>1. target \in Nat
    BY <1>1, CDivType DEF Written
  <2> HIDE DEF target
  <2>2. PICK code \in {2, 3} : c = write_j(code, target)
    BY <1>4 DEF target
  <2>3. code \in Nat /\ code <= 31
    BY <2>2
  <2>4. c \in Word /\ c = <<c[1], c[2]>> /\ LongWord(c) /\ get_opcode(c) = code
        /\ get_addr(c) = target
    BY <2>1, <2>2, <2>3, JumpFields
  <2>5. ReadAs(parse_instr_v2(c, Blank), 4, "jump", simm, get_addr(c) * 2)
    BY <2>2, <2>4, JumpRead
  <2>6. get_addr(c) * 2 = addr
    BY <2>1, <2>4 DEF target
  <2> HIDE DEF addr
  <2> QED
    BY <1>4, <2>4, <2>5, <2>6 DEF KindOf
<1>5. ASSUME n.op \in DOMAIN SpecialCode, c = write_special(n),
             ~is_branch(i.op), i.op \notin {"J", "JAL"} \cup Cop0 \cup {"INVALID_OP"}
      PROVE  Good
  <2> HIDE DEF n, simm, addr
  <2>1. /\ c \in Word /\ c = <<c[1], c[2]>> /\ LongWord(c) /\ get_opcode(c) = 0
        /\ get_func(c) = SpecialCode[n.op]
    BY <1>1, <1>5, SpecialFields
  <2>2. \E e \in SpecialTable : e[1] = get_func(c)
    BY <1>5, <2>1, CodesKnown
  <2>3. ReadAs(parse_instr_v2(c, Blank), 4, "plain", simm, addr)
    BY <2>1, <2>2, PlainRead
  <2> QED
    BY <1>5, <2>1, <2>3 DEF KindOf
<1>6. ASSUME n.op \in DOMAIN ImmCode \ DOMAIN MemCode, c = write_imm(n),
             ~is_branch(i.op), i.op \notin {"J", "JAL"} \cup Cop0 \cup {"INVALID_OP"}
      PROVE  Good
  <2> HIDE DEF n, simm, addr
  <2> DEFINE rs == IF n.op = "LUI" THEN 0 ELSE n.rs
             imm == IF contains_imm(n.op) THEN n.imm ELSE n.simm
             code == ImmCode[n.op]
  <2>1. code \in Nat /\ code \in 8..15 /\ code <= 31
    BY <1>6, CodesKnown
  <2>2. rs \in Reg /\ n.rt \in Reg /\ imm \in Int
    BY <1>1 DEF Written, Reg
  <2>3. c = write_i(code, rs, n.rt, imm)
    BY <1>6, Zenon DEF write_imm
  <2> HIDE DEF rs, imm, code
  <2>4. c \in Word /\ c = <<c[1], c[2]>> /\ LongWord(c) /\ get_opcode(c) = code
    BY <2>1, <2>2, <2>3, ImmediateFields
  <2>5. get_opcode(c) \in 8..15 /\ \E e \in OpcodeTable : e[1] = get_opcode(c)
    BY <1>6, <2>1, <2>4, CodesKnown DEF code
  <2>6. ReadAs(parse_instr_v2(c, Blank), 4, "plain", simm, addr)
    BY <2>4, <2>5, PlainRead
  <2> QED
    BY <1>6, <2>4, <2>6 DEF KindOf
<1>7. c # NoCode
  OBVIOUS
<1> HIDE DEF Good, simm, addr
<1> QED
  BY <1>2, <1>3, <1>4, <1>5, <1>6, <1>7, LongForms DEF Good, simm, addr

(* The opcodes of the small instructions. *)
LEMMA SmallCodes ==
  /\ C_MOV = 0 /\ C_ADDU = 1 /\ C_SUBU = 2 /\ C_OR = 3 /\ C_XOR = 4 /\ C_NEG = 5 /\ C_NOT = 6
  /\ C_SLTU = 7 /\ C_ADDIU = 8 /\ C_ANDI = 9 /\ C_SLL = 10 /\ C_SRL = 11 /\ C_SRA = 12
  /\ C_LSI = 13 /\ C_B = 14 /\ C_BAL = 15 /\ C_BEQZ = 16 /\ C_BNEZ = 17 /\ C_JALR = 18
  /\ C_LWS = 19 /\ C_SWS = 20
BY DEF C_MOV, C_ADDU, C_SUBU, C_OR, C_XOR, C_NEG, C_NOT, C_SLTU, C_ADDIU, C_ANDI,
       C_SLL, C_SRL, C_SRA, C_LSI, C_B, C_BAL, C_BEQZ, C_BNEZ, C_JALR, C_LWS, C_SWS

(* A word whose top bit is set holds a small instruction. *)
SmallWord(h, opcode) == h \in Nat /\ h >= 32768 /\ (h \div 1024) % 32 = opcode

(* What a half with a small opcode is read as. *)
LEMMA SmallRead ==
  ASSUME NEW opcode \in 0..20, NEW h, SmallWord(h, opcode), NEW x, NEW simm, NEW addr,
         opcode \in {14, 15} => simm = SignExtend(h % 1024, 512) * 2,
         opcode \in {16, 17} => simm = SignExtend(h % 32, 16) * 2
  PROVE  ReadAs(parse_instr_v2(<<h, x>>, Blank), 2, IF opcode \in 14..17 THEN "branch" ELSE "plain",
                simm, addr)
<1> DEFINE i == parse_small(h, Blank)
           d == parse_instr_v2(<<h, x>>, Blank)
<1>1. d.rc = 2 /\ d.instr = i
  BY SmallCodes DEF parse_instr_v2, SmallWord
<1>2. opcode = (h \div 1024) % 32
  BY DEF SmallWord
<1>3. CASE opcode \in 14..17
  <2>1. i.op \in {"BGEZ", "BGEZAL", "BEQ", "BNE"} /\ i.simm = simm
    <3>1. CASE opcode = 14
      <4>1. i.op = "BGEZ"
        BY <1>2, <3>1, SmallCodes DEF parse_small, Blank
      <4>2. i.simm = SignExtend(h % 1024, 512) * 2
        BY <1>2, <3>1, SmallCodes DEF parse_small, Blank
      <4> HIDE DEF i
      <4> QED
        BY <3>1, <4>1, <4>2
    <3>2. CASE opcode = 15
      <4>1. i.op = "BGEZAL"
        BY <1>2, <3>2, SmallCodes DEF parse_small, Blank
      <4>2. i.simm = SignExtend(h % 1024, 512) * 2
        BY <1>2, <3>2, SmallCodes DEF parse_small, Blank
      <4> HIDE DEF i
      <4> QED
        BY <3>2, <4>1, <4>2
    <3>3. CASE opcode = 16
      <4>1. i.op = "BEQ"
        BY <1>2, <3>3, SmallCodes DEF parse_small, Blank
      <4>2. i.simm = SignExtend(h % 32, 16) * 2
        BY <1>2, <3>3, SmallCodes DEF parse_small, Blank
      <4> HIDE DEF i
      <4> QED
        BY <3>3, <4>1, <4>2
    <3>4. CASE opcode = 17
      <4>1. i.op = "BNE"
        BY <1>2, <3>4, SmallCodes DEF parse_small, Blank
      <4>2. i.simm = SignExtend(h % 32, 16) * 2
        BY <1>2, <3>4, SmallCodes DEF parse_small, Blank
      <4> HIDE DEF i
      <4> QED
        BY <3>4, <4>1, <4>2
    <3> HIDE DEF i
    <3> QED
      BY <1>3, <3>1, <3>2, <3>3, <3>4
  <2>2. KindOf(i) = "branch"
    BY <2>1 DEF KindOf, is_branch, NativeBranch
  <2> HIDE DEF i, d
  <2> QED
    BY <1>1, <1>3, <2>1, <2>2 DEF ReadAs, d
<1>4. CASE opcode \notin 14..17
  <2>1. i.op \in {"SLL", "SRL", "SRA", "ADDU", "SUBU", "OR", "XOR", "NOR", "SLTU", "ADDIU", "ANDI",
                  "JR", "JALR", "LW", "SW"}
    BY <1>2, <1>4, SmallCodes DEF parse_small, Blank
  <2>2. KindOf(i) = "plain"
    BY <2>1 DEF KindOf, is_branch, NativeBranch, PseudoBranch
  <2> HIDE DEF i, d
  <2> QED
    BY <1>1, <1>4, <2>2 DEF ReadAs, d
<1> QED
  BY <1>3, <1>4

(* The halves that write_small and write_b make. *)
LEMMA SmallFields ==
  ASSUME NEW opcode \in 0..20, NEW rds \in Reg, NEW last \in Int, NEW fits,
         write_small(opcode, rds, last, fits) # NoCode
  PROVE  LET c == write_small(opcode, rds, last, fits) IN
         /\ c = <<c[1]>> /\ SmallWord(c[1], opcode) /\ last \in fits
         /\ (c[1] \div 32) % 32 = rds /\ c[1] % 32 = last % 32
<1> DEFINE h == 32768 + opcode * 1024 + rds * 32 + (last % 32)
           c == write_small(opcode, rds, last, fits)
<1>1. c = <<h>> /\ last \in fits
  BY DEF write_small
<1>2. opcode \in Nat /\ opcode <= 20 /\ rds \in Nat /\ rds <= 31
      /\ last % 32 \in Nat /\ last % 32 <= 31
  BY RegBounds, Remainders
<1>3. /\ h \in Nat /\ h >= 32768 /\ (h \div 1024) % 32 = opcode
      /\ (h \div 32) % 32 = rds /\ h % 32 = last % 32
  BY <1>2, SplitSmall, FieldSums
<1> HIDE DEF h, c
<1> QED
  BY <1>1, <1>3 DEF SmallWord, c

(* The same for a branch. *)
LEMMA SmallBranchFields ==
  ASSUME NEW opcode \in 0..20, NEW offset \in Int, write_b(opcode, offset) # NoCode
  PROVE  LET c == write_b(opcode, offset) IN
         /\ c = <<c[1]>> /\ SmallWord(c[1], opcode) /\ c[1] % 1024 = offset % 1024
         /\ offset \in -512..511
<1> DEFINE h == 32768 + opcode * 1024 + (offset % 1024)
           c == write_b(opcode, offset)
<1>1. c = <<h>> /\ offset \in -512..511
  BY DEF write_b
<1>2. opcode \in Nat /\ opcode <= 20 /\ offset % 1024 \in Nat /\ offset % 1024 <= 1023
  BY Remainders
<1>3. h \in Nat /\ h >= 32768 /\ (h \div 1024) % 32 = opcode /\ h % 1024 = offset % 1024
  BY <1>2, SplitSmall, FieldSums
<1> HIDE DEF h, c
<1> QED
  BY <1>1, <1>3 DEF SmallWord, c

PlainSmall == 0..20 \ 14..17

(* The operations that have a small format. *)
SmallOps == {"NOP", "MOV", "CLEAR", "ADDU", "SUBU", "OR", "XOR", "NEG", "NOT", "SLTU", "JR", "JALR",
             "ADDIU", "LSI", "ANDI", "LW", "SW", "B", "BAL", "BEQZ", "BNEZ"} \cup Shifts

(* Which small format an instruction is written in.                        *)
LEMMA SmallForms ==
  ASSUME NEW i \in StructInstr
  PROVE  LET c == write_compressed(i) IN
         \/ /\ i.op \in {"NOP", "MOV", "CLEAR", "ADDU", "SUBU", "OR", "XOR", "NEG", "NOT", "SLTU",
                         "JR", "JALR"}
            /\ \E opcode \in PlainSmall, r \in Reg, last \in Reg :
                 c = write_small(opcode, r, last, Reg)
         \/ /\ i.op \in {"ADDIU", "LSI"}
            /\ \E opcode \in PlainSmall : c = write_small(opcode, i.rt, i.simm, Signed5)
         \/ /\ i.op = "ANDI"
            /\ \E opcode \in PlainSmall : c = write_small(opcode, i.rt, i.imm, Unsigned5)
         \/ /\ i.op \in Shifts
            /\ \E opcode \in PlainSmall : c = write_small(opcode, i.rd, i.shamt, Unsigned5)
         \/ /\ i.op \in {"LW", "SW"}
            /\ \E opcode \in PlainSmall : c = write_small(opcode, i.rt, CDiv(i.imm, 4), Unsigned5)
         \/ /\ i.op \in {"B", "BAL"}
            /\ \E opcode \in {14, 15} : c = write_b(opcode, CDiv(i.simm, 2))
         \/ /\ i.op \in {"BEQZ", "BNEZ"}
            /\ \E opcode \in {16, 17} : c = write_small(opcode, i.rs, CDiv(i.simm, 2), Signed5)
         \/ c = NoCode /\ i.op \notin SmallOps
<1> DEFINE c == write_compressed(i)
<1>1. 0 \in Reg /\ i.rs \in Reg /\ i.rt \in Reg /\ i.rd \in Reg /\ Second(i) \in Reg
  BY DEF StructInstr, Second, Reg
<1>2. {0, 1, 2, 3, 4, 5, 6, 7, 8, 9, 10, 11, 12, 13, 18, 19, 20} \subseteq PlainSmall
  BY DEF PlainSmall
<1>3. CASE i.op \in {"NOP", "MOV", "CLEAR", "ADDU", "SUBU", "OR", "XOR", "NEG", "NOT", "SLTU",
                     "JR", "JALR"}
  <2>1. \/ c = write_small(0, 0, 0, Reg) \/ c = write_small(0, i.rd, i.rt, Reg)
        \/ c = write_small(0, i.rd, 0, Reg) \/ c = write_small(1, i.rd, Second(i), Reg)
        \/ c = write_small(2, i.rd, i.rt, Reg) \/ c = write_small(3, i.rd, Second(i), Reg)
        \/ c = write_small(4, i.rd, Second(i), Reg) \/ c = write_small(5, i.rd, i.rt, Reg)
        \/ c = write_small(6, i.rd, i.rt, Reg) \/ c = write_small(7, i.rd, i.rt, Reg)
        \/ c = write_small(18, 0, i.rs, Reg) \/ c = write_small(18, i.rd, i.rs, Reg)
    BY <1>3, SmallCodes DEF write_compressed
  <2> HIDE DEF c
  <2> QED
    BY <1>1, <1>2, <1>3, <2>1, Zenon DEF c
<1>4. CASE i.op \in {"ADDIU", "LSI"}
  BY <1>2, <1>4, SmallCodes DEF write_compressed
<1>5. CASE i.op = "ANDI"
  BY <1>2, <1>5, SmallCodes DEF write_compressed
<1>6. CASE i.op \in Shifts
  BY <1>2, <1>6, SmallCodes DEF write_compressed, Shifts
<1>7. CASE i.op \in {"LW", "SW"}
  BY <1>2, <1>7, SmallCodes DEF write_compressed
<1>8. CASE i.op \in {"B", "BAL"}
  BY <1>8, SmallCodes DEF write_compressed
<1>9. CASE i.op \in {"BEQZ", "BNEZ"}
  BY <1>9, SmallCodes DEF write_compressed
<1>10. CASE i.op \notin SmallOps
  <2>1. c = NoCode
    BY <1>10 DEF write_compressed, Shifts, SmallOps
  <2> QED
    BY <1>10, <2>1
<1> QED
  BY <1>3, <1>4, <1>5, <1>6, <1>7, <1>8, <1>9, <1>10 DEF SmallOps

(* A field of ten bits and one of five, read with their sign.              *)
LEMMA BranchBack ==
  ASSUME NEW n \in Int, n \in -512..511, NEW m \in Int, NEW field, field = m % 1024,
         field = n % 1024
  PROVE  2 * n = SignExtend(field, 512) * 2
BY DEF SignExtend

(* A short offset is what it was before it was cut to its field. *)
LEMMA ShortBack ==
  ASSUME NEW n \in -16..15, NEW m, m % 32 = n % 32
  PROVE  2 * n = SignExtend(m % 32, 16) * 2
BY DEF SignExtend

(* A small code is read as an instruction of the same kind. *)
LEMMA SmallReadBack ==
  ASSUME NEW i \in StructInstr, write_compressed(i) # NoCode, NEW x, NEW addr
  PROVE  LET c == write_compressed(i) IN
         /\ c = <<c[1]>> /\ i.op \notin {"J", "JAL"}
         /\ ReadAs(parse_instr_v2(<<c[1], x>>, Blank), 2, KindOf(i), 2 * CDiv(i.simm, 2), addr)
<1> DEFINE c == write_compressed(i)
           off == CDiv(i.simm, 2)
           simm == 2 * off
           Good == /\ c = <<c[1]>> /\ i.op \notin {"J", "JAL"}
                   /\ ReadAs(parse_instr_v2(<<c[1], x>>, Blank), 2, KindOf(i), simm, addr)
<1>1. /\ i.rs \in Reg /\ i.rt \in Reg /\ i.rd \in Reg /\ i.shamt \in Int /\ i.imm \in Int
      /\ CDiv(i.imm, 4) \in Int /\ off \in Int /\ i.simm \in Int
  BY InstrWritten, CDivType, RegBounds, SMTT(30) DEF Written
<1>2. \A r \in Reg : r \in Int
  BY RegBounds
<1>3. c # NoCode
  OBVIOUS
<1> HIDE DEF c, off
<1>4. ASSUME NEW opcode \in PlainSmall, NEW r \in Reg, NEW last \in Int, NEW fits,
             c = write_small(opcode, r, last, fits),
             i.op \in {"NOP", "MOV", "CLEAR", "ADDU", "SUBU", "OR", "XOR", "NEG", "NOT", "SLTU",
                       "JR", "JALR", "ADDIU", "LSI", "ANDI", "LW", "SW"} \cup Shifts
      PROVE  Good
  <2>1. opcode \in 0..20 /\ opcode \notin 14..17
    BY DEF PlainSmall
  <2>2. c = <<c[1]>> /\ SmallWord(c[1], opcode)
    BY <1>3, <1>4, <2>1, SmallFields
  <2>3. opcode \notin {14, 15} /\ opcode \notin {16, 17}
    BY <2>1
  <2> HIDE DEF simm
  <2>4. ReadAs(parse_instr_v2(<<c[1], x>>, Blank), 2, "plain", simm, addr)
    BY <2>1, <2>2, <2>3, SmallRead
  <2>5. i.op \notin {"J", "JAL"} /\ KindOf(i) = "plain"
    BY <1>4 DEF KindOf, is_branch, NativeBranch, PseudoBranch, Shifts
  <2> QED
    BY <2>2, <2>4, <2>5
<1>5. ASSUME NEW opcode \in {14, 15}, c = write_b(opcode, off), i.op \in {"B", "BAL"}
      PROVE  Good
  <2>1. opcode \in 0..20 /\ opcode \in 14..17 /\ opcode \notin {16, 17}
    BY <1>5
  <2>2. /\ c = <<c[1]>> /\ SmallWord(c[1], opcode) /\ c[1] % 1024 = off % 1024
        /\ off \in -512..511
    BY <1>1, <1>3, <1>5, <2>1, SmallBranchFields
  <2>3. simm = SignExtend(c[1] % 1024, 512) * 2
    <3> DEFINE field == c[1] % 1024
    <3>1. off \in Int /\ off \in -512..511 /\ c[1] \in Int /\ field = off % 1024
      BY <1>1, <2>2 DEF SmallWord
    <3>2. field = c[1] % 1024
      OBVIOUS
    <3> HIDE DEF field
    <3>3. 2 * off = SignExtend(field, 512) * 2
      BY ONLY <3>1, <3>2, BranchBack
    <3> QED
      BY <3>3 DEF field, simm
  <2> HIDE DEF simm
  <2>4. ReadAs(parse_instr_v2(<<c[1], x>>, Blank), 2, "branch", simm, addr)
    BY <2>1, <2>2, <2>3, SmallRead
  <2>5. i.op \notin {"J", "JAL"} /\ KindOf(i) = "branch"
    BY <1>5 DEF KindOf, is_branch, PseudoBranch
  <2> QED
    BY <2>2, <2>4, <2>5
<1>6. ASSUME NEW opcode \in {16, 17}, c = write_small(opcode, i.rs, off, Signed5),
             i.op \in {"BEQZ", "BNEZ"}
      PROVE  Good
  <2>1. opcode \in 0..20 /\ opcode \in 14..17 /\ opcode \notin {14, 15}
    BY <1>6
  <2>2. /\ c = <<c[1]>> /\ SmallWord(c[1], opcode) /\ c[1] % 32 = off % 32
        /\ off \in -16..15
    BY <1>1, <1>3, <1>6, <2>1, SmallFields DEF Signed5
  <2>3. simm = SignExtend(c[1] % 32, 16) * 2
    <3>1. off \in Int /\ c[1] % 32 = off % 32 /\ off \in -16..15
      BY <1>1, <2>2
    <3> QED
      BY ONLY <3>1, ShortBack DEF simm
  <2> HIDE DEF simm
  <2>4. ReadAs(parse_instr_v2(<<c[1], x>>, Blank), 2, "branch", simm, addr)
    BY <2>1, <2>2, <2>3, SmallRead
  <2>5. i.op \notin {"J", "JAL"} /\ KindOf(i) = "branch"
    BY <1>6 DEF KindOf, is_branch, PseudoBranch
  <2> QED
    BY <2>2, <2>4, <2>5
<1>7. \/ /\ i.op \in {"NOP", "MOV", "CLEAR", "ADDU", "SUBU", "OR", "XOR", "NEG", "NOT", "SLTU",
                       "JR", "JALR"}
         /\ \E opcode \in PlainSmall, r \in Reg, last \in Reg :
              c = write_small(opcode, r, last, Reg)
      \/ /\ i.op \in {"ADDIU", "LSI"}
         /\ \E opcode \in PlainSmall : c = write_small(opcode, i.rt, i.simm, Signed5)
      \/ /\ i.op = "ANDI"
         /\ \E opcode \in PlainSmall : c = write_small(opcode, i.rt, i.imm, Unsigned5)
      \/ /\ i.op \in Shifts
         /\ \E opcode \in PlainSmall : c = write_small(opcode, i.rd, i.shamt, Unsigned5)
      \/ /\ i.op \in {"LW", "SW"}
         /\ \E opcode \in PlainSmall : c = write_small(opcode, i.rt, CDiv(i.imm, 4), Unsigned5)
      \/ /\ i.op \in {"B", "BAL"}
         /\ \E opcode \in {14, 15} : c = write_b(opcode, off)
      \/ /\ i.op \in {"BEQZ", "BNEZ"}
         /\ \E opcode \in {16, 17} : c = write_small(opcode, i.rs, off, Signed5)
  BY <1>3, SmallForms, Zenon DEF c, off
<1> HIDE DEF Good
<1>8. Good
  BY <1>1, <1>2, <1>4, <1>5, <1>6, <1>7
<1> QED
  BY <1>8 DEF Good, c, off

(* The address field of a jump. *)
JumpFits(n) == n < 67108864

(* Every long instruction but those of the coprocessor has a code. Only a  *)
(* jump has an operand that could be too long for it.                      *)
LEMMA LongHasCode ==
  ASSUME NEW i \in StructInstr, i.op \notin Cop0 \cup {"INVALID_OP"},
         i.op \in {"J", "JAL"} => JumpFits(CDiv(i.addr, 2))
  PROVE  write_long(i) # NoCode
<1> DEFINE n == conv_to_native(i)
           target == CDiv(i.addr, 2)
<1>1. \A opcode, rs, rt, imm : write_i(opcode, rs, rt, imm) # NoCode
  BY DEF write_i, NoCode
<1>2. write_special(n) # NoCode
  BY DEF write_special, write_r, NoCode
<1>3. write_imm(n) # NoCode
  BY <1>1, Zenon DEF write_imm
<1>4. write_l_branch(BranchOpcode[n.op], i.rs, BranchRt(n.op, i.rt), i.simm) # NoCode
  BY <1>1, Zenon DEF write_l_branch
<1>5. i.op \in {"J", "JAL"} => write_j(2, target) # NoCode /\ write_j(3, target) # NoCode
  <2> HIDE DEF target
  <2>1. JumpFits(target) => write_j(2, target) # NoCode /\ write_j(3, target) # NoCode
    BY SMT DEF write_j, NoCode, JumpFits
  <2> QED
    BY <2>1 DEF target
<1> HIDE DEF n, target
<1>6. \/ /\ n.op \in DOMAIN MemCode
         /\ write_long(i) = write_i(MemCode[n.op], n.rs, n.rt, n.simm)
      \/ /\ n.op \in NativeBranch
         /\ write_long(i) = write_l_branch(BranchOpcode[n.op], i.rs, BranchRt(n.op, i.rt), i.simm)
      \/ /\ write_long(i) \in {write_j(2, target), write_j(3, target)}
         /\ i.op \in {"J", "JAL"}
      \/ write_long(i) = write_special(n)
      \/ write_long(i) = write_imm(n)
      \/ i.op \in Cop0 \cup {"INVALID_OP"}
  BY LongForms, Zenon DEF n, target
<1> QED
  BY <1>1, <1>2, <1>3, <1>4, <1>5, <1>6, Zenon

(* What the converter makes short: its operands fit the small format.      *)
Short(i) ==
  \/ is_compressible_simple(i) /\ (i.op = "LSI" => i.simm \in Signed5)
  \/ i.op \in {"B", "BAL"} /\ CDiv(i.simm, 2) \in -512..511
  \/ i.op \in {"BEQZ", "BNEZ"} /\ CDiv(i.simm, 2) \in Signed5

(* A number in its range has a small code. *)
LEMMA SmallFits ==
  /\ \A opcode, rds, last, fits : last \in fits => write_small(opcode, rds, last, fits) # NoCode
  /\ \A opcode, offset : offset \in -512..511 => write_b(opcode, offset) # NoCode
BY DEF write_small, write_b, NoCode

(* The operands of what is short, format by format. *)
LEMMA ShortFits ==
  ASSUME NEW i \in StructInstr, Short(i)
  PROVE  /\ i.op \in SmallOps
         /\ i.op \in {"ADDIU", "LSI"} => i.simm \in Signed5
         /\ i.op = "ANDI" => i.imm \in Unsigned5
         /\ i.op \in Shifts => i.shamt \in Unsigned5
         /\ i.op \in {"LW", "SW"} => CDiv(i.imm, 4) \in Unsigned5
         /\ i.op \in {"B", "BAL"} => CDiv(i.simm, 2) \in -512..511
         /\ i.op \in {"BEQZ", "BNEZ"} => CDiv(i.simm, 2) \in Signed5
<1>1. i.op \in SmallOps
  BY DEF Short, is_compressible_simple, SmallOps, Shifts
<1>2. i.imm \in Nat /\ i.shamt \in Unsigned5
  BY HalfBounds DEF StructInstr, Reg, Unsigned5, Half
<1>3. i.op \in {"ADDIU", "LSI"} => i.simm \in Signed5
  BY DEF Short, is_compressible_simple, Shifts, Signed5
<1>4. i.op = "ANDI" => i.imm <= 31
  BY DEF Short, is_compressible_simple, Shifts
<1>5. i.op \in {"LW", "SW"} => i.imm % 4 = 0 /\ i.imm < 128
  BY DEF Short, is_compressible_simple, Shifts
<1>6. \A n \in Nat : /\ n <= 31 => n \in Unsigned5
                     /\ n % 4 = 0 /\ n < 128 => CDiv(n, 4) \in Unsigned5
  BY DEF CDiv, Unsigned5
<1>7. /\ i.op \in {"B", "BAL"} => CDiv(i.simm, 2) \in -512..511
      /\ i.op \in {"BEQZ", "BNEZ"} => CDiv(i.simm, 2) \in Signed5
  BY DEF Short, is_compressible_simple, Shifts
<1> QED
  BY <1>1, <1>2, <1>3, <1>4, <1>5, <1>6, <1>7

(* What is short has a small code. *)
LEMMA SmallHasCode ==
  ASSUME NEW i \in StructInstr, Short(i)
  PROVE  write_compressed(i) # NoCode
<1> DEFINE c == write_compressed(i)
           off == CDiv(i.simm, 2)
           word == CDiv(i.imm, 4)
<1>1. /\ i.op \in SmallOps
      /\ i.op \in {"ADDIU", "LSI"} => i.simm \in Signed5
      /\ i.op = "ANDI" => i.imm \in Unsigned5
      /\ i.op \in Shifts => i.shamt \in Unsigned5
      /\ i.op \in {"LW", "SW"} => word \in Unsigned5
      /\ i.op \in {"B", "BAL"} => off \in -512..511
      /\ i.op \in {"BEQZ", "BNEZ"} => off \in Signed5
  BY ShortFits
<1> HIDE DEF c, off, word
<1>2. \/ \E opcode \in PlainSmall, r \in Reg, last \in Reg :
           c = write_small(opcode, r, last, Reg)
      \/ /\ i.op \in {"ADDIU", "LSI"}
         /\ \E opcode \in PlainSmall : c = write_small(opcode, i.rt, i.simm, Signed5)
      \/ /\ i.op = "ANDI"
         /\ \E opcode \in PlainSmall : c = write_small(opcode, i.rt, i.imm, Unsigned5)
      \/ /\ i.op \in Shifts
         /\ \E opcode \in PlainSmall : c = write_small(opcode, i.rd, i.shamt, Unsigned5)
      \/ /\ i.op \in {"LW", "SW"}
         /\ \E opcode \in PlainSmall : c = write_small(opcode, i.rt, word, Unsigned5)
      \/ /\ i.op \in {"B", "BAL"}
         /\ \E opcode \in {14, 15} : c = write_b(opcode, off)
      \/ /\ i.op \in {"BEQZ", "BNEZ"}
         /\ \E opcode \in {16, 17} : c = write_small(opcode, i.rs, off, Signed5)
      \/ i.op \notin SmallOps
  BY SmallForms, Zenon DEF c, off, word
<1> DEFINE offsets == -512..511
<1>3. \A opcode, offset : offset \in offsets => write_b(opcode, offset) # NoCode
  BY SmallFits
<1>4. i.op \in {"B", "BAL"} => off \in offsets
  BY <1>1
<1>5. \A opcode, rds, last, fits : last \in fits => write_small(opcode, rds, last, fits) # NoCode
  BY SmallFits
<1> HIDE DEF offsets
<1>6. ASSUME NEW last, NEW fits, last \in fits,
             \E opcode, r : c = write_small(opcode, r, last, fits)
      PROVE  c # NoCode
  BY <1>5, <1>6, Zenon
<1>7. c # NoCode
  <2>1. CASE \E opcode \in PlainSmall, r \in Reg, last \in Reg : c = write_small(opcode, r, last, Reg)
    BY <1>5, <2>1, Zenon
  <2>2. CASE i.op \in {"ADDIU", "LSI"} /\ \E opcode \in PlainSmall : c = write_small(opcode, i.rt, i.simm, Signed5)
    BY <1>1, <1>6, <2>2, Zenon
  <2>3. CASE i.op = "ANDI" /\ \E opcode \in PlainSmall : c = write_small(opcode, i.rt, i.imm, Unsigned5)
    BY <1>1, <1>6, <2>3, Zenon
  <2>4. CASE i.op \in Shifts /\ \E opcode \in PlainSmall : c = write_small(opcode, i.rd, i.shamt, Unsigned5)
    BY <1>1, <1>6, <2>4, Zenon
  <2>5. CASE i.op \in {"LW", "SW"} /\ \E opcode \in PlainSmall : c = write_small(opcode, i.rt, word, Unsigned5)
    BY <1>1, <1>6, <2>5, Zenon
  <2>6. CASE i.op \in {"B", "BAL"} /\ \E opcode \in {14, 15} : c = write_b(opcode, off)
    BY <1>3, <1>4, <2>6, Zenon
  <2>7. CASE i.op \in {"BEQZ", "BNEZ"} /\ \E opcode \in {16, 17} : c = write_small(opcode, i.rs, off, Signed5)
    <3>1. off \in Signed5
      BY <1>1, <2>7
    <3> QED
      BY <1>6, <2>7, <3>1, Zenon
  <2> QED
    BY <1>1, <1>2, <2>1, <2>2, <2>3, <2>4, <2>5, <2>6, <2>7, Zenon
<1> QED
  BY <1>7 DEF c

(***************************************************************************)
(* The branches and jumps of a word                                        *)
(***************************************************************************)

(* A table that gives a branch for a code has it there. *)
LEMMA BranchFound ==
  ASSUME NEW table, NEW code, is_branch(Lookup(table, code)), ~is_branch("INVALID_OP")
  PROVE  \E e \in table : e[1] = code /\ is_branch(e[2])
<1>1. CASE \E e \in table : e[1] = code
  <2>1. PICK e \in table : e[1] = code /\ Lookup(table, code) = e[2]
    BY <1>1, LookupIn
  <2>2. is_branch(e[2])
    BY <2>1 DEF is_branch
  <2> QED
    BY <2>1, <2>2
<1>2. CASE \A e \in table : e[1] # code
  BY <1>2, LookupNone, Zenon
<1> QED
  BY <1>1, <1>2

(* A branch is only found at the opcodes whose offset counts words: C's    *)
(* division of the offset in bytes is exact.                               *)
LEMMA BranchOffset ==
  ASSUME NEW w \in Word, is_branch(parse_instr(w).op)
  PROVE  LET simm == parse_instr(w).simm IN simm \in Int /\ CDiv(simm, 4) = simm \div 4
<1> DEFINE op == get_opcode(w)
           special == Lookup(SpecialTable, get_func(w))
           cop0 == Lookup(Cop0Table, get_rs(w))
           regimm == Lookup(BranchTable, get_rt(w))
           other == Lookup(OpcodeTable, op)
<1>1. /\ \A e \in SpecialTable : ~is_branch(e[2])
      /\ \A e \in Cop0Table : ~is_branch(e[2])
      /\ \A e \in OpcodeTable : is_branch(e[2]) => e[1] \in {4, 5, 6, 7}
      /\ ~is_branch("INVALID_OP")
  <2>1. \A e \in SpecialTable : ~is_branch(e[2])
    BY TableContents
  <2>2. /\ \A e \in Cop0Table : e[2] \notin NativeBranch \cup PseudoBranch
        /\ \A e \in OpcodeTable : e[2] \in NativeBranch \cup PseudoBranch => e[1] \in {4, 5, 6, 7}
        /\ "INVALID_OP" \notin NativeBranch \cup PseudoBranch
    BY DEF Cop0Table, OpcodeTable, NativeBranch, PseudoBranch
  <2> QED
    BY <2>1, <2>2 DEF is_branch
<1>2. ~is_branch(special) /\ ~is_branch(cop0) /\ (is_branch(other) => op \in {4, 5, 6, 7})
  <2> HIDE DEF op
  <2>1. ~is_branch(special)
    BY <1>1, BranchFound
  <2>2. ~is_branch(cop0)
    BY <1>1, BranchFound
  <2>3. is_branch(other) => op \in {4, 5, 6, 7}
    BY <1>1, BranchFound
  <2> QED
    BY <2>1, <2>2, <2>3
<1>3. op \in {1, 4, 5, 6, 7}
  <2>1. parse_op(w) = special \/ op = 1 \/ parse_op(w) = cop0 \/ parse_op(w) = other
    <3> HIDE DEF special, cop0, other
    <3> QED
      BY DEF parse_op, op, special, cop0, other
  <2>2. is_branch(parse_op(w))
    BY DEF parse_instr
  <2> HIDE DEF op, special, cop0, other
  <2> QED
    BY <1>2, <2>1, <2>2
<1>4. parse_instr(w).simm = get_simm(w) * 4 /\ get_simm(w) \in Int
  <2> DEFINE n == get_simm(w) * 4
  <2> HIDE DEF n
  <2>1. parse_instr(w).simm = n
    BY <1>3 DEF parse_instr, op, n
  <2> QED
    BY <2>1, FieldTypes DEF n
<1>5. \A n \in Int : n * 4 \in Int /\ CDiv(n * 4, 4) = (n * 4) \div 4
  BY DEF CDiv
<1> QED
  BY <1>4, <1>5

(* Rewriting keeps branches branches and jumps jumps. *)
LEMMA KindsKept ==
  ASSUME NEW w \in Word
  PROVE  LET i == parse_instr(w)
             j == conv_to_pseudo(i)
         IN /\ is_branch(j.op) <=> is_branch(i.op)
            /\ j.op \in {"J", "JAL"} <=> i.op \in {"J", "JAL"}
            /\ i.op # "INVALID_OP" => j.simm = i.simm /\ j.addr = i.addr
            /\ i.op = "INVALID_OP" => j.op = "INVALID_OP"
<1> DEFINE i == parse_instr(w)
           j == conv_to_pseudo(i)
<1>1. i \in StructInstr /\ i.op \in Native \cup {"INVALID_OP"}
  BY ParseType
<1> HIDE DEF i
<1>2. CASE i.op = "INVALID_OP"
  <2>1. conv_to_pseudo(i) = i
    BY <1>2 DEF conv_to_pseudo, Shifts, ShiftVs, Alu, AluImm, Compare, NativeBranch
  <2> QED
    BY <1>2, <2>1 DEF i
<1>3. CASE i.op \in Native
  <2>1. /\ j.simm = i.simm /\ j.addr = i.addr
        /\ j.op \in {i.op} \cup (IF i.op \in NativeBranch THEN PseudoBranch ELSE PlainPseudo)
        /\ i.op \in {"J", "JAL"} => j = i
    BY <1>1, <1>3, PseudoKeeps
  <2>2. /\ \A op \in PlainPseudo : op \notin NativeBranch \cup PseudoBranch \cup {"J", "JAL"}
        /\ \A op \in PseudoBranch : op \notin {"J", "JAL"}
        /\ \A op \in NativeBranch : op \notin {"J", "JAL"}
        /\ \A op \in Native : op \notin PseudoBranch
    BY DEF PlainPseudo, NativeBranch, PseudoBranch, Native, Shifts, ShiftVs, Alu, AluImm, MulDiv,
           Loads, Stores, Compare, Jumps, Cop0, Stops
  <2>3. i.op # "INVALID_OP"
    BY <1>3, Groups
  <2> HIDE DEF j
  <2>4. /\ is_branch(j.op) <=> is_branch(i.op)
        /\ j.op \in {"J", "JAL"} <=> i.op \in {"J", "JAL"}
    BY <1>3, <2>1, <2>2 DEF is_branch
  <2> QED
    BY <2>1, <2>3, <2>4 DEF i, j
<1> QED
  BY <1>1, <1>2, <1>3

(***************************************************************************)
(* What the parsers yield                                                  *)
(***************************************************************************)

(* A word is a pair of halves. *)
LEMMA WordParts ==
  /\ \A a \in Word : a[1] \in Half /\ a[2] \in Half /\ a = <<a[1], a[2]>>
  /\ \A x, y \in Half : <<x, y>> \in Word
BY DEF Word

(* The struct before it is filled in. *)
LEMMA BlankType == Blank \in StructInstr
<1>1. 0 \in Half /\ 0 \in Reg /\ "SLL" \in Operation
  BY HalfFits DEF Reg, Operation, Native, Shifts
<1> QED
  BY <1>1 DEF Blank, StructInstr

(* What the parser yields of any long instruction. *)
LEMMA ParseLongType ==
  ASSUME NEW w \in Word, NEW out \in StructInstr
  PROVE  parse_long(w, out) \in StructInstr
<1> DEFINE opcode == get_opcode(w)
           op     == IF opcode = 1 THEN Lookup(BranchTable, get_rt(w))
                     ELSE Lookup(V2OpcodeTable, opcode)
           simm1  == IF op \in NativeBranch \cup {"INVALID_OP"} THEN get_simm(w) * 2 ELSE get_simm(w)
           addr1  == IF op \in {"J", "JAL"} THEN get_addr(w) * 2 ELSE get_addr(w)
           long   == [out EXCEPT !.op = op, !.rs = get_rs(w), !.rt = get_rt(w),
                        !.compressed = FALSE, !.simm = simm1, !.addr = addr1]
<1>1. op \in Operation
  <2>1. \A e \in BranchTable : e[2] \in Native
    BY DEF BranchTable, Native, NativeBranch
  <2>2. \A e \in V2OpcodeTable : e[2] \in Native
    BY DEF V2OpcodeTable, Native, NativeBranch, Jumps, Loads, Stores
  <2>3. op \in Native \cup {"INVALID_OP"}
    BY <2>1, <2>2, LookupType
  <2> QED
    BY <2>3 DEF Operation
<1>2. simm1 \in Int /\ addr1 \in Nat
  <2>1. get_simm(w) \in Int /\ get_addr(w) \in Nat
    BY FieldTypes
  <2> HIDE DEF op
  <2> QED
    BY <2>1
<1>3. parse_long(w, out) = IF opcode # 1 /\ op = "INVALID_OP" THEN parse_instr(w) ELSE long
  BY DEF parse_long
<1> HIDE DEF opcode, op, simm1, addr1
<1>4. long \in StructInstr
  BY <1>1, <1>2, FieldTypes DEF StructInstr
<1> QED
  BY <1>3, <1>4, ParseType

(* A small instruction, of any code. *)
LEMMA ParseSmallType ==
  ASSUME NEW h \in Half, NEW out \in StructInstr
  PROVE  parse_small(h, out) \in StructInstr
<1> DEFINE opcode == (h \div 1024) % 32
           rds    == (h \div 32) % 32
           last   == h % 32
           simm1  == SignExtend(last, 16)
           offset == SignExtend(h % 1024, 512)
           c      == [out EXCEPT !.compressed = TRUE]
           ALU(op, r)    == [c EXCEPT !.op = op, !.rd = rds, !.rs = r, !.rt = last]
           Move0         == [ALU("SLL", 0) EXCEPT !.shamt = 0]
           Shift(op)     == [c EXCEPT !.op = op, !.rd = rds, !.rs = 0, !.rt = rds, !.shamt = last]
           AddImm(r)     == [c EXCEPT !.op = "ADDIU", !.rt = rds, !.rs = r, !.simm = simm1]
           AndImm        == [c EXCEPT !.op = "ANDI", !.rt = rds, !.rs = rds, !.imm = last]
           Br(op, r, off) == [c EXCEPT !.op = op, !.rs = 0, !.rt = r, !.simm = off * 2]
           ToReg         == [c EXCEPT !.op = "JR", !.rs = last]
           CallReg       == [c EXCEPT !.op = "JALR", !.rs = last, !.rd = rds]
           StackMem(op)  == [c EXCEPT !.op = op, !.rs = 29, !.rt = rds,
                                      !.simm = last * 4, !.imm = last * 4]
           Small == {Move0, ALU("ADDU", rds), ALU("SUBU", rds), ALU("OR", rds), ALU("XOR", rds),
                     ALU("SUBU", 0), ALU("NOR", 0), ALU("SLTU", rds), AddImm(rds), AndImm,
                     Shift("SLL"), Shift("SRL"), Shift("SRA"), AddImm(0),
                     Br("BGEZ", 0, offset), Br("BGEZAL", 0, offset), Br("BEQ", rds, simm1),
                     Br("BNE", rds, simm1), ToReg, CallReg, StackMem("LW"), StackMem("SW"), c}
<1>1. h \in Nat
  BY HalfBounds
<1>2. rds \in Reg /\ last \in Reg /\ 0 \in Reg /\ 29 \in Reg
  BY <1>1 DEF Reg
<1>3. /\ last \in Half /\ last * 4 \in Half /\ last * 4 \in Int
      /\ simm1 \in Int /\ offset \in Int /\ simm1 * 2 \in Int /\ offset * 2 \in Int
  <2>1. last \in Nat /\ last <= 31 /\ last * 4 \in Nat /\ last * 4 <= 65535
    BY <1>1
  <2>2. h % 1024 \in Int
    BY <1>1
  <2> HIDE DEF last
  <2>3. simm1 \in Int /\ offset \in Int
    BY <2>1, <2>2 DEF SignExtend
  <2> QED
    BY <2>1, <2>3, HalfFits
<1>4. parse_small(h, out) \in Small
  BY SMTT(60) DEF parse_small
<1> HIDE DEF opcode, rds, last, simm1, offset
<1>5. c \in StructInstr
  BY DEF StructInstr
<1>6. {"SLL", "SRL", "SRA", "ADDU", "SUBU", "OR", "XOR", "NOR", "SLTU", "ADDIU", "ANDI", "BGEZ",
       "BGEZAL", "BEQ", "BNE", "JR", "JALR", "LW", "SW"} \subseteq Operation
  BY DEF Operation, Native, Shifts, Alu, AluImm, Compare, NativeBranch, Jumps, Loads, Stores
<1> HIDE DEF c
<1>7. \A op \in Operation, r \in Reg :
        /\ ALU(op, r) \in StructInstr
        /\ Shift(op) \in StructInstr
        /\ Br(op, r, simm1) \in StructInstr
        /\ Br(op, r, offset) \in StructInstr
        /\ StackMem(op) \in StructInstr
  BY <1>2, <1>3, <1>5, ZenonT(60) DEF StructInstr
<1>8. \A r \in Reg : AddImm(r) \in StructInstr
  BY <1>2, <1>3, <1>5, <1>6 DEF StructInstr
<1>9. AndImm \in StructInstr /\ ToReg \in StructInstr /\ CallReg \in StructInstr
  BY <1>2, <1>3, <1>5, <1>6 DEF StructInstr
<1>10. Move0 \in StructInstr
  <2>1. ALU("SLL", 0) \in StructInstr
    BY <1>2, <1>6, <1>7
  <2> HIDE DEF ALU
  <2> QED
    BY <1>2, <2>1 DEF StructInstr
<1> HIDE DEF ALU, Shift, Br, StackMem, AddImm, AndImm, ToReg, CallReg, Move0
<1>11. /\ ALU("ADDU", rds) \in StructInstr /\ ALU("SUBU", rds) \in StructInstr
       /\ ALU("OR", rds) \in StructInstr /\ ALU("XOR", rds) \in StructInstr
       /\ ALU("SUBU", 0) \in StructInstr /\ ALU("NOR", 0) \in StructInstr
       /\ ALU("SLTU", rds) \in StructInstr
  BY <1>2, <1>6, <1>7
<1>12. /\ Shift("SLL") \in StructInstr /\ Shift("SRL") \in StructInstr
       /\ Shift("SRA") \in StructInstr
       /\ StackMem("LW") \in StructInstr /\ StackMem("SW") \in StructInstr
       /\ AddImm(rds) \in StructInstr /\ AddImm(0) \in StructInstr
  BY <1>2, <1>6, <1>7, <1>8
<1>13. /\ Br("BGEZ", 0, offset) \in StructInstr /\ Br("BGEZAL", 0, offset) \in StructInstr
       /\ Br("BEQ", rds, simm1) \in StructInstr /\ Br("BNE", rds, simm1) \in StructInstr
  BY <1>2, <1>6, <1>7
<1> QED
  BY <1>4, <1>5, <1>9, <1>10, <1>11, <1>12, <1>13, Zenon

(* Whatever the word, what is decoded is an instruction. *)
LEMMA ParseV2Type ==
  ASSUME NEW w \in Word
  PROVE  parse_instr_v2(w, Blank).instr \in StructInstr
<1>1. w[1] \in Half
  BY WordParts
<1>2. parse_instr_v2(w, Blank).instr \in {parse_long(w, Blank), parse_small(w[1], Blank)}
  BY DEF parse_instr_v2
<1> QED
  BY <1>1, <1>2, BlankType, ParseLongType, ParseSmallType

(* What conv_to_pseudo leaves is the instruction, a pseudo instruction, or *)
(* JR for a JALR that keeps no address. No load and no other jump changes. *)
LEMMA PseudoShape ==
  ASSUME NEW i \in StructInstr
  PROVE  LET j == conv_to_pseudo(i)
         IN \/ j = i
            \/ i.op = "JALR" /\ j.op = "JR"
            \/ j.op \in Pseudo /\ i.op \notin Jumps \cup Loads
<1> DEFINE j == conv_to_pseudo(i)
           Fine(x) == x = i \/ x.op \in Pseudo
<1>1. \A x : x.op \in Pseudo => Fine(x)
  OBVIOUS
<1>2. Fine(i)
  OBVIOUS
<1> HIDE DEF Fine
<1>3. Fine(ShiftToPseudo(i))
  <2>1. ShiftToPseudo(i) \in {As(i, "NOP"), As(i, "CLEAR"), As(i, "MOV"),
                              [i EXCEPT !.op = "SLTZ", !.rs = i.rt], i}
    BY Zenon DEF ShiftToPseudo
  <2>2. /\ As(i, "NOP").op = "NOP"
        /\ As(i, "CLEAR").op = "CLEAR"
        /\ As(i, "MOV").op = "MOV"
        /\ [i EXCEPT !.op = "SLTZ", !.rs = i.rt].op = "SLTZ"
    BY DEF As, Move, Clear, StructInstr
  <2>3. /\ Fine(As(i, "NOP"))
        /\ Fine(As(i, "CLEAR"))
        /\ Fine(As(i, "MOV"))
        /\ Fine([i EXCEPT !.op = "SLTZ", !.rs = i.rt])
    BY <1>1, <2>2, PseudoNames, Zenon
  <2> QED
    BY <1>2, <2>1, <2>3, Zenon
<1>4. Fine(ShiftVToPseudo(i))
  <2>1. ShiftVToPseudo(i) \in {As(i, "NOP"), As(i, "CLEAR"), As(i, "MOV"), i}
    BY Zenon DEF ShiftVToPseudo
  <2>2. /\ As(i, "NOP").op = "NOP"
        /\ As(i, "CLEAR").op = "CLEAR"
        /\ As(i, "MOV").op = "MOV"
    BY DEF As, Move, Clear, StructInstr
  <2>3. /\ Fine(As(i, "NOP"))
        /\ Fine(As(i, "CLEAR"))
        /\ Fine(As(i, "MOV"))
    BY <1>1, <2>2, PseudoNames, Zenon
  <2> QED
    BY <1>2, <2>1, <2>3, Zenon
<1>5. Fine(AluToPseudo(i))
  <2>1. AluToPseudo(i) \in {As(i, "NOP"), As(i, "CLEAR"), As(i, "NEG"),
                            Move(i, i.rd, Other(i)), Move(i, i.rd, i.rs),
                            [i EXCEPT !.op = "NOT", !.rt = Other(i)], i}
    BY Zenon DEF AluToPseudo
  <2>2. /\ As(i, "NOP").op = "NOP"
        /\ As(i, "CLEAR").op = "CLEAR"
        /\ As(i, "NEG").op = "NEG"
        /\ Move(i, i.rd, Other(i)).op = "MOV"
        /\ Move(i, i.rd, i.rs).op = "MOV"
        /\ [i EXCEPT !.op = "NOT", !.rt = Other(i)].op = "NOT"
    BY DEF As, Move, Clear, StructInstr
  <2>3. /\ Fine(As(i, "NOP"))
        /\ Fine(As(i, "CLEAR"))
        /\ Fine(As(i, "NEG"))
        /\ Fine(Move(i, i.rd, Other(i)))
        /\ Fine(Move(i, i.rd, i.rs))
        /\ Fine([i EXCEPT !.op = "NOT", !.rt = Other(i)])
    BY <1>1, <2>2, PseudoNames, Zenon
  <2> QED
    BY <1>2, <2>1, <2>3, Zenon
<1>6. Fine(ImmToPseudo(i))
  <2>1. ImmToPseudo(i) \in {As(i, "NOP"), Clear(i, i.rt), Move(i, i.rt, i.rs),
                            [i EXCEPT !.op = "LSI", !.rd = i.rt], i}
    BY Zenon DEF ImmToPseudo
  <2>2. /\ As(i, "NOP").op = "NOP"
        /\ Clear(i, i.rt).op = "CLEAR"
        /\ Move(i, i.rt, i.rs).op = "MOV"
        /\ [i EXCEPT !.op = "LSI", !.rd = i.rt].op = "LSI"
    BY DEF As, Move, Clear, StructInstr
  <2>3. /\ Fine(As(i, "NOP"))
        /\ Fine(Clear(i, i.rt))
        /\ Fine(Move(i, i.rt, i.rs))
        /\ Fine([i EXCEPT !.op = "LSI", !.rd = i.rt])
    BY <1>1, <2>2, PseudoNames, Zenon
  <2> QED
    BY <1>2, <2>1, <2>3, Zenon
<1>7. Fine(CompareToPseudo(i))
  <2>1. CompareToPseudo(i) \in {As(i, "SLTZ"), As(i, "SNEZ"), As(i, "SEQZ"),
                                [i EXCEPT !.op = "SLTZ", !.rd = i.rt], i}
    BY Zenon DEF CompareToPseudo
  <2>2. /\ As(i, "SLTZ").op = "SLTZ"
        /\ As(i, "SNEZ").op = "SNEZ"
        /\ As(i, "SEQZ").op = "SEQZ"
        /\ [i EXCEPT !.op = "SLTZ", !.rd = i.rt].op = "SLTZ"
    BY DEF As, Move, Clear, StructInstr
  <2>3. /\ Fine(As(i, "SLTZ"))
        /\ Fine(As(i, "SNEZ"))
        /\ Fine(As(i, "SEQZ"))
        /\ Fine([i EXCEPT !.op = "SLTZ", !.rd = i.rt])
    BY <1>1, <2>2, PseudoNames, Zenon
  <2> QED
    BY <1>2, <2>1, <2>3, Zenon
<1>8. Fine(BranchToPseudo(i))
  <2> DEFINE nz == IF i.rs = 0 THEN i.rt ELSE i.rs
  <2>1. BranchToPseudo(i) \in {As(i, "B"), As(i, "BAL"),
                               [i EXCEPT !.op = "BEQZ", !.rs = nz],
                               [i EXCEPT !.op = "BNEZ", !.rs = nz], i}
    BY Zenon DEF BranchToPseudo
  <2> HIDE DEF nz
  <2>2. /\ As(i, "B").op = "B"
        /\ As(i, "BAL").op = "BAL"
        /\ [i EXCEPT !.op = "BEQZ", !.rs = nz].op = "BEQZ"
        /\ [i EXCEPT !.op = "BNEZ", !.rs = nz].op = "BNEZ"
    BY DEF As, Move, Clear, StructInstr
  <2>3. /\ Fine(As(i, "B"))
        /\ Fine(As(i, "BAL"))
        /\ Fine([i EXCEPT !.op = "BEQZ", !.rs = nz])
        /\ Fine([i EXCEPT !.op = "BNEZ", !.rs = nz])
    BY <1>1, <2>2, PseudoNames, Zenon
  <2> QED
    BY <1>2, <2>1, <2>3, Zenon
<1>9. \/ j \in {ShiftToPseudo(i), ShiftVToPseudo(i), AluToPseudo(i),
                ImmToPseudo(i), CompareToPseudo(i), BranchToPseudo(i), i}
      \/ i.op = "JALR" /\ j = As(i, "JR")
  BY DEF conv_to_pseudo
<1>10. i.op \in Jumps \cup Loads => j = i \/ (i.op = "JALR" /\ j = As(i, "JR"))
  BY DEF conv_to_pseudo, Jumps, Loads, Shifts, ShiftVs, Alu, AluImm, Compare, NativeBranch
<1>12. As(i, "JR").op = "JR"
  BY DEF As, StructInstr
<1> HIDE DEF j
<1>11. Fine(j) \/ (i.op = "JALR" /\ j.op = "JR")
  BY <1>2, <1>3, <1>4, <1>5, <1>6, <1>7, <1>8, <1>9, <1>12, Zenon
<1> QED
  BY <1>10, <1>11, <1>12 DEF Fine, j

(* Rewriting twice is rewriting once. *)
LEMMA PseudoTwice ==
  ASSUME NEW i \in StructInstr
  PROVE  conv_to_pseudo(conv_to_pseudo(i)) = conv_to_pseudo(i)
<1> DEFINE j == conv_to_pseudo(i)
<1>1. j = i \/ j.op = "JR" \/ j.op \in Pseudo
  BY PseudoShape
<1> HIDE DEF j
<1>2. CASE j.op = "JR" \/ j.op \in Pseudo
  <2>1. /\ j.op \notin Shifts \cup ShiftVs \cup Alu \cup AluImm /\ j.op # "JALR"
        /\ j.op \notin Compare \cup NativeBranch
    BY <1>2 DEF Pseudo, PseudoBranch, Shifts, ShiftVs, Alu, AluImm, Compare, NativeBranch
  <2>2. \A x : /\ x.op \notin Shifts \cup ShiftVs \cup Alu \cup AluImm /\ x.op # "JALR"
               /\ x.op \notin Compare \cup NativeBranch
               => conv_to_pseudo(x) = x
    BY DEF conv_to_pseudo
  <2>3. conv_to_pseudo(j) = j
    BY <2>1, <2>2
  <2> QED
    BY <2>3 DEF j
<1> QED
  BY <1>1, <1>2 DEF j

(***************************************************************************)
(* The instructions that conv_to_pseudo leaves as they are                 *)
(***************************************************************************)
(* The conditions are those under which no branch of it is taken. *)
SettledShift(i) == i.rd # 0 /\ i.shamt # 0 /\ ~(i.op = "SRL" /\ i.shamt = 31)

SettledShiftV(i) == i.rt # 0 /\ i.rd # 0 /\ i.rs # 0

SettledAlu(i) ==
  /\ i.rd # 0
  /\ i.op # "NOR" => i.rs # 0 /\ i.rt # 0
  /\ i.op = "NOR" => (i.rs = 0 <=> i.rt = 0)

SettledImm(i) ==
  /\ i.op # "LUI" => i.rt # 0
  /\ i.op = "ANDI" => i.rs # 0
  /\ i.op # "ADDIU" => i.imm # 0
  /\ i.op = "ADDIU" => i.simm # 0 /\ ~(i.rs = 0 /\ i.simm \in -16..15)

SettledCompare(i) ==
  /\ i.op = "SLT"   => i.rt # 0
  /\ i.op = "SLTU"  => i.rs # 0
  /\ i.op = "SLTI"  => i.simm # 0
  /\ i.op = "SLTIU" => i.imm # 1

SettledBranch(i) ==
  /\ i.op \in {"BGEZ", "BLEZ", "BGEZAL"} => i.rs # 0
  /\ i.op = "BEQ" => i.rs # i.rt
  /\ i.op \in {"BEQ", "BNE"} => i.rs = i.rt \/ (i.rs # 0 /\ i.rt # 0)

Settled(i) ==
  /\ i.op \in Shifts => SettledShift(i)
  /\ i.op \in ShiftVs => SettledShiftV(i)
  /\ i.op \in Alu \ {"ADD", "SUB"} => SettledAlu(i)
  /\ i.op \in AluImm \ {"ADDI"} => SettledImm(i)
  /\ i.op \in Compare => SettledCompare(i)
  /\ i.op \in NativeBranch => SettledBranch(i)
  /\ i.op = "JALR" => i.rd # 0

(* What is rewritten has another operation. *)
LEMMA OtherName ==
  ASSUME NEW i \in StructInstr, NEW op, i.op # op, NEW r, NEW d
  PROVE  /\ As(i, op) # i
         /\ op = "MOV" => Move(i, d, r) # i
         /\ op = "CLEAR" => Clear(i, d) # i
         /\ [i EXCEPT !.op = op, !.rs = r] # i
         /\ [i EXCEPT !.op = op, !.rt = r] # i
         /\ [i EXCEPT !.op = op, !.rd = r] # i
<1>1. /\ As(i, op).op = op
      /\ op = "MOV" => Move(i, d, r).op = op
      /\ op = "CLEAR" => Clear(i, d).op = op
      /\ [i EXCEPT !.op = op, !.rs = r].op = op
      /\ [i EXCEPT !.op = op, !.rt = r].op = op
      /\ [i EXCEPT !.op = op, !.rd = r].op = op
  BY DEF As, Move, Clear, StructInstr
<1> QED
  BY <1>1

(* Each group of operations, and the conditions of its branches. *)
LEMMA SettledGroups ==
  ASSUME NEW i \in StructInstr, i.op \in Native
  PROVE  /\ i.op \in Shifts => (ShiftToPseudo(i) = i <=> SettledShift(i))
         /\ i.op \in ShiftVs => (ShiftVToPseudo(i) = i <=> SettledShiftV(i))
         /\ i.op \in Alu \ {"ADD", "SUB"} => (AluToPseudo(i) = i <=> SettledAlu(i))
         /\ i.op \in AluImm \ {"ADDI"} => (ImmToPseudo(i) = i <=> SettledImm(i))
         /\ i.op \in Compare => (CompareToPseudo(i) = i <=> SettledCompare(i))
         /\ i.op \in NativeBranch => (BranchToPseudo(i) = i <=> SettledBranch(i))
<1>1. /\ \A op \in Pseudo : As(i, op) # i
      /\ \A r : /\ Move(i, i.rd, r) # i /\ Move(i, i.rt, r) # i /\ Clear(i, r) # i
                /\ [i EXCEPT !.op = "SLTZ", !.rs = r] # i /\ [i EXCEPT !.op = "NOT", !.rt = r] # i
                /\ [i EXCEPT !.op = "LSI", !.rd = r] # i /\ [i EXCEPT !.op = "SLTZ", !.rd = r] # i
                /\ [i EXCEPT !.op = "BEQZ", !.rs = r] # i /\ [i EXCEPT !.op = "BNEZ", !.rs = r] # i
  <2>1. \A op \in Pseudo : i.op # op
    BY DEF Native, Pseudo, PseudoBranch, Shifts, ShiftVs, Alu, AluImm, MulDiv, Loads, Stores,
           Compare, NativeBranch, Jumps, Cop0, Stops
  <2>2. {"MOV", "CLEAR", "SLTZ", "NOT", "LSI", "BEQZ", "BNEZ"} \subseteq Pseudo
    BY DEF Pseudo, PseudoBranch
  <2> QED
    BY <2>1, <2>2, OtherName
<1>2. /\ As(i, "NOP") # i /\ As(i, "MOV") # i /\ As(i, "CLEAR") # i /\ As(i, "NEG") # i
      /\ As(i, "SLTZ") # i /\ As(i, "SNEZ") # i /\ As(i, "SEQZ") # i /\ As(i, "B") # i
      /\ As(i, "BAL") # i
  BY <1>1, PseudoNames
<1>3. ASSUME i.op \in Shifts PROVE ShiftToPseudo(i) = i <=> SettledShift(i)
  BY <1>1, <1>2 DEF ShiftToPseudo, SettledShift
<1>4. ASSUME i.op \in ShiftVs PROVE ShiftVToPseudo(i) = i <=> SettledShiftV(i)
  BY <1>1, <1>2 DEF ShiftVToPseudo, SettledShiftV
<1>5. ASSUME i.op \in Alu \ {"ADD", "SUB"} PROVE AluToPseudo(i) = i <=> SettledAlu(i)
  BY <1>1, <1>2, <1>5 DEF AluToPseudo, SettledAlu, Alu
<1>6. ASSUME i.op \in AluImm \ {"ADDI"} PROVE ImmToPseudo(i) = i <=> SettledImm(i)
  BY <1>1, <1>2, <1>6 DEF ImmToPseudo, SettledImm, AluImm
<1>7. ASSUME i.op \in Compare PROVE CompareToPseudo(i) = i <=> SettledCompare(i)
  BY <1>1, <1>2, <1>7 DEF CompareToPseudo, SettledCompare, Compare
<1>8. ASSUME i.op \in NativeBranch PROVE BranchToPseudo(i) = i <=> SettledBranch(i)
  BY <1>1, <1>2, <1>8 DEF BranchToPseudo, SettledBranch, NativeBranch
<1> QED
  BY <1>3, <1>4, <1>5, <1>6, <1>7, <1>8

(* conv_to_pseudo leaves exactly the settled instructions. *)
LEMMA SettledKept ==
  ASSUME NEW i \in StructInstr, i.op \in Native
  PROVE  conv_to_pseudo(i) = i <=> Settled(i)
<1>1. As(i, "JR") # i <=> i.op # "JR"
  BY OtherName DEF As, StructInstr
<1>2. CASE i.op \in Shifts
  <2>1. i.op \notin ShiftVs \cup Alu \cup AluImm \cup Compare \cup NativeBranch \cup {"JALR"}
    BY <1>2 DEF Shifts, ShiftVs, Alu, AluImm, Compare, NativeBranch
  <2> QED BY <1>2, <2>1, SettledGroups DEF conv_to_pseudo, Settled
<1>3. CASE i.op \in ShiftVs
  <2>1. i.op \notin Shifts \cup Alu \cup AluImm \cup Compare \cup NativeBranch \cup {"JALR"}
    BY <1>3 DEF Shifts, ShiftVs, Alu, AluImm, Compare, NativeBranch
  <2> QED BY <1>3, <2>1, SettledGroups DEF conv_to_pseudo, Settled
<1>4. CASE i.op \in Alu \ {"ADD", "SUB"}
  <2>1. i.op \notin Shifts \cup ShiftVs \cup AluImm \cup Compare \cup NativeBranch \cup {"JALR"}
    BY <1>4 DEF Shifts, ShiftVs, Alu, AluImm, Compare, NativeBranch
  <2> QED BY <1>4, <2>1, SettledGroups DEF conv_to_pseudo, Settled
<1>5. CASE i.op \in AluImm \ {"ADDI"}
  <2>1. i.op \notin Shifts \cup ShiftVs \cup Alu \cup Compare \cup NativeBranch \cup {"JALR"}
    BY <1>5 DEF Shifts, ShiftVs, Alu, AluImm, Compare, NativeBranch
  <2> QED BY <1>5, <2>1, SettledGroups DEF conv_to_pseudo, Settled
<1>6. CASE i.op \in Compare
  <2>1. i.op \notin Shifts \cup ShiftVs \cup Alu \cup AluImm \cup NativeBranch \cup {"JALR"}
    BY <1>6 DEF Shifts, ShiftVs, Alu, AluImm, Compare, NativeBranch
  <2> QED BY <1>6, <2>1, SettledGroups DEF conv_to_pseudo, Settled
<1>7. CASE i.op \in NativeBranch
  <2>1. i.op \notin Shifts \cup ShiftVs \cup Alu \cup AluImm \cup Compare \cup {"JALR"}
    BY <1>7 DEF Shifts, ShiftVs, Alu, AluImm, Compare, NativeBranch
  <2> QED BY <1>7, <2>1, SettledGroups DEF conv_to_pseudo, Settled
<1>8. CASE i.op \notin Shifts \cup ShiftVs \cup (Alu \ {"ADD", "SUB"}) \cup (AluImm \ {"ADDI"})
                         \cup Compare \cup NativeBranch
  BY <1>1, <1>8 DEF conv_to_pseudo, Settled
<1> QED
  BY <1>2, <1>3, <1>4, <1>5, <1>6, <1>7, <1>8

(***************************************************************************)
(* What two instructions have to have in common to mean the same           *)
(***************************************************************************)
(* The operations that have a value in each field. *)
WithRs ==
  ShiftVs \cup Alu \cup Compare \cup (AluImm \ {"LUI"}) \cup Loads \cup Stores \cup NativeBranch
    \cup {"MULT", "MULTU", "DIV", "DIVU", "MTHI", "MTLO", "JR", "JALR"}
    \cup {"SLTZ", "SEQZ", "BEQZ", "BNEZ"}
WithRt ==
  Shifts \cup ShiftVs \cup Alu \cup AluImm \cup Compare \cup Loads \cup Stores
    \cup {"BEQ", "BNE", "MULT", "MULTU", "DIV", "DIVU"} \cup {"MOV", "NOT", "NEG", "SEQZ", "SNEZ"}
WithRd ==
  Shifts \cup ShiftVs \cup Alu \cup {"SLT", "SLTU", "MFHI", "MFLO", "JALR"}
    \cup {"MOV", "CLEAR", "NOT", "NEG", "SEQZ", "SNEZ", "SLTZ", "LSI"}
WithImm == {"ANDI", "ORI", "XORI", "LUI", "SLTIU"}
WithSimm == {"ADDI", "ADDIU", "SLTI", "SLTIU", "LSI"} \cup Loads \cup Stores
Commutes == {"ADDU", "OR", "XOR"}

(* Every field that has a value, but for the targets of branches and jumps. *)
Means(x, y) ==
  /\ y.op = x.op
  /\ \/ (x.op \in WithRs => y.rs = x.rs) /\ (x.op \in WithRt => y.rt = x.rt)
     \/ x.op \in Commutes /\ y.rs = x.rt /\ y.rt = x.rs
  /\ x.op \in WithRd => y.rd = x.rd
  /\ x.op \in Shifts => y.shamt = x.shamt
  /\ x.op \in WithImm => y.imm = x.imm
  /\ x.op \in WithSimm => y.simm = x.simm

(* An instruction that means the same is settled as well. *)
LEMMA SettledAlike ==
  ASSUME NEW x, NEW y, Settled(x), Means(x, y)
  PROVE  Settled(y)
<1>0. y.op = x.op
  BY DEF Means
<1>1. x.op \in Shifts => SettledShift(y)
  BY DEF Means, Settled, SettledShift, Shifts, ShiftVs, WithRs, WithRt, WithRd, Commutes
<1>2. x.op \in ShiftVs => SettledShiftV(y)
  BY DEF Means, Settled, SettledShiftV, ShiftVs, WithRs, WithRt, WithRd, Commutes
<1>3. x.op \in Alu \ {"ADD", "SUB"} => SettledAlu(y)
  BY DEF Means, Settled, SettledAlu, Alu, WithRs, WithRt, WithRd, Commutes
<1>4. x.op \in AluImm \ {"ADDI"} => SettledImm(y)
  BY DEF Means, Settled, SettledImm, AluImm, WithRs, WithRt, WithImm, WithSimm, Commutes
<1>5. x.op \in Compare => SettledCompare(y)
  BY DEF Means, Settled, SettledCompare, Compare, WithRs, WithRt, WithImm, WithSimm, Commutes
<1>6. x.op \in NativeBranch => SettledBranch(y)
  BY DEF Means, Settled, SettledBranch, NativeBranch, WithRs, WithRt, Commutes
<1>7. x.op = "JALR" => y.rd # 0
  BY DEF Means, Settled, WithRd
<1> QED
  BY <1>0, <1>1, <1>2, <1>3, <1>4, <1>5, <1>6, <1>7 DEF Settled

(* What is decoded to the meaning of a settled native instruction is not   *)
(* rewritten.                                                              *)
LEMMA NativeMeans ==
  ASSUME NEW x \in StructInstr, x.op \in Native, Settled(x),
         NEW y \in StructInstr, Means(x, y)
  PROVE  Means(x, conv_to_pseudo(y))
<1>1. Settled(y) /\ y.op \in Native
  BY SettledAlike DEF Means
<1>2. conv_to_pseudo(y) = y
  BY <1>1, SettledKept
<1> QED BY <1>2

(***************************************************************************)
(* What conv_to_pseudo leaves of a word                                    *)
(***************************************************************************)
(* The registers that a pseudo instruction has. *)
PseudoFields(x) ==
  /\ x.op = "MOV" => x.rt = 0 \/ x.rd # 0
  /\ x.op \in {"NOT", "NEG"} => x.rd # 0 /\ x.rt # 0
  /\ x.op = "SEQZ" => x.rd = 0
  /\ x.op = "LSI" => x.rd = x.rt /\ x.rt # 0 /\ x.rs = 0 /\ x.simm # 0 /\ x.simm \in -16..15
  /\ x.op \in {"BEQZ", "BNEZ"} => x.rs # 0
  /\ x.op = "BAL" /\ ~x.compressed => x.rs = 0

(* The two readings of an immediate. *)
OneImmediate(x) ==
  /\ x.simm \in Signed16 /\ x.imm = x.simm % 65536
  /\ x.simm >= 0 => x.imm = x.simm

Normal(x) ==
  /\ x.op \in Native => Settled(x)
  /\ PseudoFields(x)
  /\ ~is_branch(x.op) => OneImmediate(x)

(* Which results of conv_to_pseudo have the registers of their operation. *)
LEMMA PseudoFieldsOf ==
  ASSUME NEW i \in StructInstr, NEW d, NEW r
  PROVE  /\ \A op \in {"NOP", "CLEAR", "SNEZ", "SLTZ", "B", "JR"} : PseudoFields(As(i, op))
         /\ i.rt = 0 \/ i.rd # 0 => PseudoFields(As(i, "MOV"))
         /\ i.rd # 0 /\ i.rt # 0 => PseudoFields(As(i, "NEG"))
         /\ i.rd # 0 /\ r # 0 => PseudoFields([i EXCEPT !.op = "NOT", !.rt = r])
         /\ i.rd = 0 => PseudoFields(As(i, "SEQZ"))
         /\ i.rs = 0 => PseudoFields(As(i, "BAL"))
         /\ d # 0 => PseudoFields(Move(i, d, r))
         /\ PseudoFields(Clear(i, d))
         /\ PseudoFields([i EXCEPT !.op = "SLTZ", !.rs = r])
         /\ PseudoFields([i EXCEPT !.op = "SLTZ", !.rd = r])
         /\ r # 0 => PseudoFields([i EXCEPT !.op = "BEQZ", !.rs = r])
         /\ r # 0 => PseudoFields([i EXCEPT !.op = "BNEZ", !.rs = r])
         /\ i.rt # 0 /\ i.rs = 0 /\ i.simm # 0 /\ i.simm \in -16..15 =>
              PseudoFields([i EXCEPT !.op = "LSI", !.rd = i.rt])
         /\ i.op \in Native => PseudoFields(i)
<1>1. \A op : /\ As(i, op).op = op /\ As(i, op).rs = i.rs /\ As(i, op).rt = i.rt
              /\ As(i, op).rd = i.rd
  BY DEF As, StructInstr
<1>2. Move(i, d, r).op = "MOV" /\ Move(i, d, r).rd = d
  BY DEF Move, StructInstr
<1>3. Clear(i, d).op = "CLEAR"
  BY DEF Clear, StructInstr
<1>4. /\ [i EXCEPT !.op = "SLTZ", !.rs = r].op = "SLTZ"
      /\ [i EXCEPT !.op = "SLTZ", !.rd = r].op = "SLTZ"
      /\ [i EXCEPT !.op = "NOT", !.rt = r].op = "NOT" /\ [i EXCEPT !.op = "NOT", !.rt = r].rt = r
      /\ [i EXCEPT !.op = "NOT", !.rt = r].rd = i.rd
  BY DEF StructInstr
<1>5. /\ [i EXCEPT !.op = "BEQZ", !.rs = r].op = "BEQZ" /\ [i EXCEPT !.op = "BEQZ", !.rs = r].rs = r
      /\ [i EXCEPT !.op = "BNEZ", !.rs = r].op = "BNEZ" /\ [i EXCEPT !.op = "BNEZ", !.rs = r].rs = r
  BY DEF StructInstr
<1>6. LET l == [i EXCEPT !.op = "LSI", !.rd = i.rt]
      IN l.op = "LSI" /\ l.rd = i.rt /\ l.rt = i.rt /\ l.rs = i.rs /\ l.simm = i.simm
  BY DEF StructInstr
<1>7. i.op \in Native => i.op \notin {"MOV", "NOT", "NEG", "SEQZ", "LSI", "BEQZ", "BNEZ", "BAL"}
  BY DEF Native, Shifts, ShiftVs, Alu, AluImm, MulDiv, Loads, Stores, Compare, NativeBranch,
         Jumps, Cop0, Stops
<1>8. i.op \in Native => PseudoFields(i)
  BY <1>7 DEF PseudoFields
<1>9. /\ \A op \in {"NOP", "CLEAR", "SNEZ", "SLTZ", "B", "JR"} : PseudoFields(As(i, op))
      /\ i.rt = 0 \/ i.rd # 0 => PseudoFields(As(i, "MOV"))
      /\ i.rd # 0 /\ i.rt # 0 => PseudoFields(As(i, "NEG"))
      /\ i.rd = 0 => PseudoFields(As(i, "SEQZ"))
      /\ i.rs = 0 => PseudoFields(As(i, "BAL"))
  BY <1>1 DEF PseudoFields
<1>10. /\ d # 0 => PseudoFields(Move(i, d, r))
       /\ PseudoFields(Clear(i, d))
  BY <1>2, <1>3 DEF PseudoFields
<1>11. /\ i.rd # 0 /\ r # 0 => PseudoFields([i EXCEPT !.op = "NOT", !.rt = r])
       /\ PseudoFields([i EXCEPT !.op = "SLTZ", !.rs = r])
       /\ PseudoFields([i EXCEPT !.op = "SLTZ", !.rd = r])
  BY <1>4 DEF PseudoFields
<1>12. /\ r # 0 => PseudoFields([i EXCEPT !.op = "BEQZ", !.rs = r])
       /\ r # 0 => PseudoFields([i EXCEPT !.op = "BNEZ", !.rs = r])
  BY <1>5 DEF PseudoFields
<1>13. i.rt # 0 /\ i.rs = 0 /\ i.simm # 0 /\ i.simm \in -16..15 =>
              PseudoFields([i EXCEPT !.op = "LSI", !.rd = i.rt])
  BY <1>6 DEF PseudoFields
<1> QED
  BY <1>8, <1>9, <1>10, <1>11, <1>12, <1>13, Zenon

(* Every result has them. *)
LEMMA PseudoFieldsLeft ==
  ASSUME NEW i \in StructInstr, i.op \in Native, i.op = "SLTIU" /\ i.imm = 1 => i.rd = 0
  PROVE  PseudoFields(conv_to_pseudo(i))
<1>1. PseudoFields(i) /\ PseudoFields(As(i, "JR"))
  BY PseudoFieldsOf
<1>2. PseudoFields(ShiftToPseudo(i))
  <2>1. PseudoFields([i EXCEPT !.op = "SLTZ", !.rs = i.rt])
    BY PseudoFieldsOf
  <2>2. /\ PseudoFields(As(i, "NOP")) /\ PseudoFields(As(i, "CLEAR"))
        /\ i.rt = 0 \/ i.rd # 0 => PseudoFields(As(i, "MOV"))
    BY PseudoFieldsOf
  <2> QED BY <1>1, <2>1, <2>2 DEF ShiftToPseudo
<1>3. PseudoFields(ShiftVToPseudo(i))
  <2>2. /\ PseudoFields(As(i, "NOP")) /\ PseudoFields(As(i, "CLEAR"))
        /\ i.rt = 0 \/ i.rd # 0 => PseudoFields(As(i, "MOV"))
    BY PseudoFieldsOf
  <2> QED BY <1>1, <2>2 DEF ShiftVToPseudo
<1>4. PseudoFields(AluToPseudo(i))
  <2>1. /\ PseudoFields(As(i, "NOP")) /\ PseudoFields(As(i, "CLEAR"))
        /\ i.rd # 0 /\ i.rt # 0 => PseudoFields(As(i, "NEG"))
    BY PseudoFieldsOf
  <2>2. /\ i.rd # 0 => PseudoFields(Move(i, i.rd, Other(i)))
        /\ i.rd # 0 => PseudoFields(Move(i, i.rd, i.rs))
    BY PseudoFieldsOf
  <2>3. i.rd # 0 /\ Other(i) # 0 => PseudoFields([i EXCEPT !.op = "NOT", !.rt = Other(i)])
    BY PseudoFieldsOf
  <2>4. (i.rs = 0) # (i.rt = 0) => Other(i) # 0
    BY DEF Other
  <2> QED BY <1>1, <2>1, <2>2, <2>3, <2>4 DEF AluToPseudo
<1>5. PseudoFields(ImmToPseudo(i))
  <2>1. PseudoFields(As(i, "NOP")) /\ PseudoFields(Clear(i, i.rt))
    BY PseudoFieldsOf
  <2>2. i.rt # 0 => PseudoFields(Move(i, i.rt, i.rs))
    BY PseudoFieldsOf
  <2>3. i.rt # 0 /\ i.rs = 0 /\ i.simm # 0 /\ i.simm \in -16..15 =>
              PseudoFields([i EXCEPT !.op = "LSI", !.rd = i.rt])
    BY PseudoFieldsOf
  <2> QED BY <1>1, <2>1, <2>2, <2>3 DEF ImmToPseudo
<1>6. PseudoFields(CompareToPseudo(i))
  <2>1. /\ PseudoFields(As(i, "SLTZ")) /\ PseudoFields(As(i, "SNEZ"))
        /\ i.rd = 0 => PseudoFields(As(i, "SEQZ"))
    BY PseudoFieldsOf
  <2>2. PseudoFields([i EXCEPT !.op = "SLTZ", !.rd = i.rt])
    BY PseudoFieldsOf
  <2> QED BY <1>1, <2>1, <2>2 DEF CompareToPseudo
<1>7. PseudoFields(BranchToPseudo(i))
  <2> DEFINE nz == IF i.rs = 0 THEN i.rt ELSE i.rs
  <2>1. PseudoFields(As(i, "B")) /\ (i.rs = 0 => PseudoFields(As(i, "BAL")))
    BY PseudoFieldsOf
  <2>2. /\ nz # 0 => PseudoFields([i EXCEPT !.op = "BEQZ", !.rs = nz])
        /\ nz # 0 => PseudoFields([i EXCEPT !.op = "BNEZ", !.rs = nz])
    BY PseudoFieldsOf
  <2>3. i.rs # i.rt => nz # 0
    OBVIOUS
  <2> QED BY <1>1, <2>1, <2>2, <2>3 DEF BranchToPseudo
<1> QED
  BY <1>1, <1>2, <1>3, <1>4, <1>5, <1>6, <1>7, Zenon DEF conv_to_pseudo

(* The opcodes of branches are in no other group. *)
LEMMA BranchOpcodes ==
  /\ \A e \in OpcodeTable : e[1] \in {4, 5, 6, 7} => e[2] \in NativeBranch
  /\ \A e \in BranchTable : e[2] \in NativeBranch
BY DEF OpcodeTable, BranchTable, NativeBranch

(* The two readings of the immediate of a word that is no branch. *)
LEMMA PlainImmediate ==
  ASSUME NEW w \in Word, parse_instr(w).op \in Native, ~is_branch(parse_instr(w).op)
  PROVE  LET i == parse_instr(w) IN OneImmediate(i) /\ (i.imm = 1 => i.rd = 0)
<1>1. w[2] \in Nat /\ w[2] <= 65535
  BY WordParts, HalfBounds
<1>2. get_opcode(w) \notin {1, 4, 5, 6, 7}
  <2> SUFFICES ASSUME get_opcode(w) \in {1, 4, 5, 6, 7} PROVE FALSE
    OBVIOUS
  <2>1. parse_op(w) \in NativeBranch \cup {"INVALID_OP"}
    <3>1. CASE get_opcode(w) = 1
      <4>1. Lookup(BranchTable, get_rt(w)) \in NativeBranch \cup {"INVALID_OP"}
        BY BranchOpcodes, LookupType, Zenon
      <4> QED BY <3>1, <4>1 DEF parse_op
    <3>2. CASE get_opcode(w) \in {4, 5, 6, 7}
      <4>1. parse_op(w) = Lookup(OpcodeTable, get_opcode(w))
        BY <3>2 DEF parse_op
      <4>2. CASE \E e \in OpcodeTable : e[1] = get_opcode(w)
        BY <3>2, <4>1, <4>2, LookupIn, BranchOpcodes
      <4>3. CASE \A e \in OpcodeTable : e[1] # get_opcode(w)
        BY <4>1, <4>3, LookupNone
      <4> QED BY <4>2, <4>3
    <3> QED BY <3>1, <3>2
  <2>2. parse_instr(w).op = parse_op(w)
    BY DEF parse_instr
  <2> QED BY <2>1, <2>2, Groups
<1>3. LET i == parse_instr(w) IN i.imm = w[2] /\ i.simm = SignExtend(w[2], 32768) /\ i.rd = w[2] \div 2048
  BY <1>2 DEF parse_instr, get_imm, get_simm, get_rd
<1> QED
  BY <1>1, <1>3 DEF OneImmediate, SignExtend, Signed16

(* What the converter makes of a word. *)
LEMMA NormalWord ==
  ASSUME NEW w \in Word, parse_instr(w).op \in Native
  PROVE  Normal(conv_to_pseudo(parse_instr(w)))
<1> DEFINE i == parse_instr(w)
           j == conv_to_pseudo(i)
<1>1. i \in StructInstr /\ i.op \in Native
  BY ParseType
<1>2. j \in StructInstr /\ conv_to_pseudo(j) = j
  BY <1>1, PseudoType, PseudoTwice DEF Rewritten
<1>3. ~is_branch(i.op) => OneImmediate(i) /\ (i.imm = 1 => i.rd = 0)
  BY PlainImmediate
<1>4. j.simm = i.simm /\ j.imm = i.imm
  BY <1>1, PseudoKeeps
<1>5. is_branch(j.op) <=> is_branch(i.op)
  BY KindsKept
<1>6. ~is_branch("SLTIU")
  BY DEF is_branch, NativeBranch, PseudoBranch
<1> HIDE DEF i
<1>7. PseudoFields(j)
  BY <1>1, <1>3, <1>6, PseudoFieldsLeft
<1> HIDE DEF j
<1>8. j.op \in Native => Settled(j)
  BY <1>2, SettledKept
<1>9. ~is_branch(j.op) => OneImmediate(j)
  BY <1>3, <1>4, <1>5 DEF OneImmediate
<1>10. Normal(j)
  BY <1>7, <1>8, <1>9 DEF Normal
<1> QED BY <1>10 DEF i, j

(* A table is read backwards when no code is in it twice. *)
LEMMA TablesBack ==
  /\ \A op \in DOMAIN SpecialCode : Lookup(SpecialTable, SpecialCode[op]) = op
  /\ \A op \in DOMAIN ImmCode \ DOMAIN MemCode : Lookup(OpcodeTable, ImmCode[op]) = op
  /\ \A op \in DOMAIN MemCode : Lookup(V2OpcodeTable, MemCode[op]) = op
  /\ \A op \in NativeBranch :
       IF BranchOpcode[op] = 1 THEN \A rt : Lookup(BranchTable, BranchRt(op, rt)) = op
       ELSE Lookup(V2OpcodeTable, BranchOpcode[op]) = op
<1>1. \A op \in DOMAIN SpecialCode : \A e \in SpecialTable : e[1] = SpecialCode[op] => e[2] = op
  BY SMTT(60) DEF SpecialCode, SpecialTable
<1>2. \A op \in DOMAIN ImmCode \ DOMAIN MemCode :
        \A e \in OpcodeTable : e[1] = ImmCode[op] => e[2] = op
  BY SMTT(60) DEF ImmCode, MemCode, OpcodeTable
<1>3. \A op \in DOMAIN MemCode : \A e \in V2OpcodeTable : e[1] = MemCode[op] => e[2] = op
  BY SMTT(60) DEF MemCode, V2OpcodeTable
<1>4. \A op \in NativeBranch : \A rt :
        IF BranchOpcode[op] = 1 THEN \A e \in BranchTable : e[1] = BranchRt(op, rt) => e[2] = op
        ELSE \A e \in V2OpcodeTable : e[1] = BranchOpcode[op] => e[2] = op
  BY SMTT(60) DEF NativeBranch, BranchOpcode, BranchRt, BranchTable, V2OpcodeTable
<1>5. ASSUME NEW op \in DOMAIN SpecialCode PROVE Lookup(SpecialTable, SpecialCode[op]) = op
  <2> DEFINE code == SpecialCode[op]
  <2>1. /\ \E e \in SpecialTable : e[1] = code
        /\ \A e \in SpecialTable : e[1] = code => e[2] = op
    BY <1>1, CodesKnown, Zenon
  <2> HIDE DEF code
  <2>2. Lookup(SpecialTable, code) = op
    BY <2>1, LookupIn
  <2> QED BY <2>2 DEF code
<1>6. ASSUME NEW op \in DOMAIN ImmCode \ DOMAIN MemCode
      PROVE  Lookup(OpcodeTable, ImmCode[op]) = op
  <2> DEFINE code == ImmCode[op]
  <2>1. /\ \E e \in OpcodeTable : e[1] = code
        /\ \A e \in OpcodeTable : e[1] = code => e[2] = op
    BY <1>2, CodesKnown, Zenon
  <2> HIDE DEF code
  <2>2. Lookup(OpcodeTable, code) = op
    BY <2>1, LookupIn
  <2> QED BY <2>2 DEF code
<1>7. ASSUME NEW op \in DOMAIN MemCode PROVE Lookup(V2OpcodeTable, MemCode[op]) = op
  <2> DEFINE code == MemCode[op]
  <2>1. /\ \E e \in V2OpcodeTable : e[1] = code
        /\ \A e \in V2OpcodeTable : e[1] = code => e[2] = op
    BY <1>3, CodesKnown, Zenon
  <2> HIDE DEF code
  <2>2. Lookup(V2OpcodeTable, code) = op
    BY <2>1, LookupIn
  <2> QED BY <2>2 DEF code
<1>8. ASSUME NEW op \in NativeBranch, BranchOpcode[op] = 1, NEW rt
      PROVE  Lookup(BranchTable, BranchRt(op, rt)) = op
  <2> DEFINE code == BranchRt(op, rt)
  <2>1. /\ \E e \in BranchTable : e[1] = code
        /\ \A e \in BranchTable : e[1] = code => e[2] = op
    BY <1>4, <1>8, CodesKnown
  <2> HIDE DEF code
  <2>2. Lookup(BranchTable, code) = op
    BY <2>1, LookupIn
  <2> QED BY <2>2 DEF code
<1>9. ASSUME NEW op \in NativeBranch, BranchOpcode[op] # 1
      PROVE  Lookup(V2OpcodeTable, BranchOpcode[op]) = op
  <2> DEFINE code == BranchOpcode[op]
  <2>1. /\ \E e \in V2OpcodeTable : e[1] = code
        /\ \A e \in V2OpcodeTable : e[1] = code => e[2] = op
    BY <1>4, <1>9, CodesKnown
  <2> HIDE DEF code
  <2>2. Lookup(V2OpcodeTable, code) = op
    BY <2>1, LookupIn
  <2> QED BY <2>2 DEF code
<1> QED
  BY <1>5, <1>6, <1>7, <1>8, <1>9

(***************************************************************************)
(* Long instructions read back                                             *)
(***************************************************************************)

(* A word of the first two groups is decoded as it is in the old set. *)
LEMMA OldWord ==
  ASSUME NEW w \in Word, LongWord(w), get_opcode(w) \in {0} \cup 8..15
  PROVE  parse_instr_v2(w, Blank).instr = parse_instr(w)
<1>1. Lookup(V2OpcodeTable, get_opcode(w)) = "INVALID_OP"
  BY TableContents, LookupNone
<1>2. parse_long(w, Blank) = parse_instr(w)
  BY <1>1 DEF parse_long
<1> QED
  BY <1>2 DEF parse_instr_v2, LongWord

(* The operations of the first group have neither an immediate nor an      *)
(* offset, and write every register that they have.                        *)
LEMMA SpecialGroup ==
  \A op \in DOMAIN SpecialCode :
    /\ op \notin WithImm \cup WithSimm
    /\ op \in WithRs => op \notin Shifts \cup {"MFHI", "MFLO"} \cup Stops
    /\ op \in WithRt => op \notin {"JR", "JALR", "MFHI", "MFLO", "MTHI", "MTLO"} \cup Stops
    /\ op \in WithRd => op \notin {"JR", "MULT", "MULTU", "DIV", "DIVU", "MTHI", "MTLO"} \cup Stops
<1>1. \A op \in DOMAIN SpecialCode : op \notin WithImm \cup WithSimm
  BY DEF SpecialCode, WithImm, WithSimm, Loads, Stores
<1>2. \A op \in Shifts \cup {"MFHI", "MFLO"} \cup Stops : op \notin WithRs
  BY DEF Shifts, Stops, WithRs, ShiftVs, Alu, Compare, AluImm, Loads, Stores, NativeBranch
<1>3. \A op \in {"JR", "JALR", "MFHI", "MFLO", "MTHI", "MTLO"} \cup Stops : op \notin WithRt
  BY DEF Shifts, Stops, WithRt, ShiftVs, Alu, Compare, AluImm, Loads, Stores
<1>4. \A op \in {"JR", "MULT", "MULTU", "DIV", "DIVU", "MTHI", "MTLO"} \cup Stops : op \notin WithRd
  BY DEF Shifts, Stops, WithRd, ShiftVs, Alu
<1> QED
  BY <1>1, <1>2, <1>3, <1>4

(* An instruction of the first group, read back. *)
LEMMA SpecialBack ==
  ASSUME NEW i, Written(i), i.op \in DOMAIN SpecialCode
  PROVE  Means(i, parse_instr_v2(write_special(i), Blank).instr)
<1> DEFINE w == write_special(i)
           z == parse_instr_v2(w, Blank).instr
<1>1. /\ w \in Word /\ LongWord(w) /\ get_opcode(w) = 0 /\ get_func(w) = SpecialCode[i.op]
      /\ i.op \notin Shifts \cup {"MFHI", "MFLO"} \cup Stops => get_rs(w) = i.rs
      /\ i.op \notin {"JR", "JALR", "MFHI", "MFLO", "MTHI", "MTLO"} \cup Stops => get_rt(w) = i.rt
      /\ i.op \notin {"JR", "MULT", "MULTU", "DIV", "DIVU", "MTHI", "MTLO"} \cup Stops =>
           get_rd(w) = i.rd
      /\ i.op \in Shifts => get_shamt(w) = i.shamt
  BY SpecialFields
<1> HIDE DEF w
<1>2. z = parse_instr(w)
  BY <1>1, OldWord
<1>3. z.op = Lookup(SpecialTable, SpecialCode[i.op])
  BY <1>1, <1>2 DEF parse_instr, parse_op
<1>4. z.op = i.op
  BY <1>3, TablesBack
<1>5. z.rs = get_rs(w) /\ z.rt = get_rt(w) /\ z.rd = get_rd(w) /\ z.shamt = get_shamt(w)
  BY <1>2 DEF parse_instr
<1> HIDE DEF z
<1>6. Means(i, z)
  BY <1>1, <1>4, <1>5, SpecialGroup DEF Means
<1> QED BY <1>6 DEF z, w

(* The fields that an operation of the second group has. *)
LEMMA ImmGroup ==
  \A op \in DOMAIN ImmCode :
    /\ op \notin WithRd /\ op \notin Shifts
    /\ op \in WithRs => op # "LUI"
    /\ op \in WithImm => contains_imm(op) \/ op = "SLTIU"
    /\ op \in WithSimm => ~contains_imm(op)
<1>1. \A op \in DOMAIN ImmCode : op \notin WithRd /\ op \notin Shifts
  BY DEF ImmCode, WithRd, Shifts, ShiftVs, Alu
<1>2. "LUI" \notin WithRs
  BY DEF WithRs, ShiftVs, Alu, Compare, AluImm, Loads, Stores, NativeBranch
<1>3. \A op \in WithImm : contains_imm(op) \/ op = "SLTIU"
  BY DEF WithImm, contains_imm
<1>4. \A op \in WithSimm : ~contains_imm(op)
  BY DEF WithSimm, contains_imm, Loads, Stores
<1> QED
  BY <1>1, <1>2, <1>3, <1>4

(* An instruction of the second group, read back. *)
LEMMA ImmBack ==
  ASSUME NEW i, Written(i), i.op \in DOMAIN ImmCode \ DOMAIN MemCode, OneImmediate(i)
  PROVE  Means(i, parse_instr_v2(write_imm(i), Blank).instr)
<1> DEFINE rs == IF i.op = "LUI" THEN 0 ELSE i.rs
           imm == IF contains_imm(i.op) THEN i.imm ELSE i.simm
           code == ImmCode[i.op]
           w == write_imm(i)
           z == parse_instr_v2(w, Blank).instr
<1>1. code \in Nat /\ code \in 8..15 /\ code <= 31
  BY CodesKnown
<1>2. rs \in Reg /\ i.rt \in Reg /\ imm \in Int
  BY DEF Written, Reg
<1>3. w = write_i(code, rs, i.rt, imm)
  BY Zenon DEF write_imm
<1>4. /\ contains_imm(i.op) => imm % 65536 = i.imm
      /\ ~contains_imm(i.op) => imm \in Signed16 /\ imm % 65536 = i.imm /\ imm = i.simm
  <2>1. i.imm \in Int /\ i.imm >= 0 /\ i.imm <= 65535
    BY DEF OneImmediate, Signed16
  <2> QED BY <2>1 DEF OneImmediate
<1> HIDE DEF imm, code, w
<1>5. /\ w \in Word /\ LongWord(w) /\ get_opcode(w) = code /\ get_rt(w) = i.rt /\ get_rs(w) = rs
      /\ get_imm(w) = imm % 65536 /\ (imm \in Signed16 => get_simm(w) = imm)
  <2> HIDE DEF rs
  <2> QED BY <1>1, <1>2, <1>3, ImmediateFields
<1>6. z = parse_instr(w)
  BY <1>1, <1>5, OldWord
<1>7. get_opcode(w) \notin {0, 1, 16} \cup {1, 4, 5, 6, 7}
  BY <1>1, <1>5
<1>8. z.op = i.op
  <2>1. z.op = Lookup(OpcodeTable, code)
    BY <1>5, <1>6, <1>7 DEF parse_instr, parse_op
  <2> QED BY <2>1, TablesBack DEF code
<1>9. z.rs = get_rs(w) /\ z.rt = get_rt(w) /\ z.imm = get_imm(w) /\ z.simm = get_simm(w)
  BY <1>6, <1>7 DEF parse_instr
<1> HIDE DEF z
<1>10. i.op \in WithImm => z.imm = i.imm
  BY <1>4, <1>5, <1>9
<1>11. i.op \in WithSimm => z.simm = i.simm
  BY <1>4, <1>5, <1>9, ImmGroup
<1>12. i.op \in WithRs => z.rs = i.rs
  BY <1>5, <1>9, ImmGroup
<1>13. z.rt = i.rt /\ i.op \notin WithRd /\ i.op \notin Shifts
  BY <1>5, <1>9, ImmGroup
<1>14. Means(i, z)
  BY <1>8, <1>10, <1>11, <1>12, <1>13, Zenon DEF Means
<1> QED BY <1>14 DEF z, w

(* A word of the other groups has its registers where they always were. *)
LEMMA LongParsed ==
  ASSUME NEW w \in Word, LongWord(w), NEW op, op # "INVALID_OP",
         get_opcode(w) = 1 => Lookup(BranchTable, get_rt(w)) = op,
         get_opcode(w) # 1 => Lookup(V2OpcodeTable, get_opcode(w)) = op
  PROVE  LET z == parse_instr_v2(w, Blank).instr
         IN /\ z.op = op /\ z.rs = get_rs(w) /\ z.rt = get_rt(w)
            /\ op \notin NativeBranch => z.simm = get_simm(w)
<1>1. parse_instr_v2(w, Blank).instr = parse_long(w, Blank)
  BY DEF parse_instr_v2, LongWord
<1> DEFINE found == IF get_opcode(w) = 1 THEN Lookup(BranchTable, get_rt(w))
                    ELSE Lookup(V2OpcodeTable, get_opcode(w))
<1>2. found = op
  OBVIOUS
<1> HIDE DEF found
<1>3. parse_long(w, Blank) =
        [Blank EXCEPT !.op = found, !.rs = get_rs(w), !.rt = get_rt(w), !.compressed = FALSE,
           !.simm = IF found \in NativeBranch \cup {"INVALID_OP"} THEN get_simm(w) * 2
                    ELSE get_simm(w),
           !.addr = IF found \in {"J", "JAL"} THEN get_addr(w) * 2 ELSE get_addr(w)]
  BY <1>2 DEF parse_long, found
<1> DEFINE z    == parse_instr_v2(w, Blank).instr
           simm == IF found \in NativeBranch \cup {"INVALID_OP"} THEN get_simm(w) * 2 ELSE get_simm(w)
           dest == IF found \in {"J", "JAL"} THEN get_addr(w) * 2 ELSE get_addr(w)
<1>4. z = [Blank EXCEPT !.op = found, !.rs = get_rs(w), !.rt = get_rt(w), !.compressed = FALSE,
             !.simm = simm, !.addr = dest]
  BY <1>1, <1>3
<1>5. op \notin NativeBranch => simm = get_simm(w)
  BY <1>2
<1> HIDE DEF z, simm, dest
<1>6. z.op = found /\ z.rs = get_rs(w) /\ z.rt = get_rt(w) /\ z.simm = simm
  BY <1>4 DEF Blank
<1> QED
  BY <1>2, <1>5, <1>6 DEF z

(* A load or store, read back. *)
LEMMA MemBack ==
  ASSUME NEW i, Written(i), i.op \in DOMAIN MemCode, i.simm \in Signed16
  PROVE  Means(i, parse_instr_v2(write_i(MemCode[i.op], i.rs, i.rt, i.simm), Blank).instr)
<1> DEFINE code == MemCode[i.op]
           w == write_i(code, i.rs, i.rt, i.simm)
           z == parse_instr_v2(w, Blank).instr
<1>1. code \in Nat /\ code \in 16..27 /\ code <= 31
  BY CodesKnown
<1>2. i.rs \in Reg /\ i.rt \in Reg /\ i.simm \in Int
  BY DEF Written
<1> HIDE DEF code
<1>3. /\ w \in Word /\ LongWord(w) /\ get_opcode(w) = code /\ get_rt(w) = i.rt /\ get_rs(w) = i.rs
      /\ get_simm(w) = i.simm
  BY <1>1, <1>2, ImmediateFields
<1> HIDE DEF w
<1>4. Lookup(V2OpcodeTable, code) = i.op
  BY TablesBack DEF code
<1>5. i.op \in Loads \cup Stores
  BY DEF MemCode, Loads, Stores
<1>6. i.op # "INVALID_OP" /\ i.op \in Native /\ i.op \notin NativeBranch
  BY <1>5, Groups DEF is_branch
<1>7. get_opcode(w) # 1 /\ Lookup(V2OpcodeTable, get_opcode(w)) = i.op
  BY <1>1, <1>3, <1>4
<1>8. z.op = i.op /\ z.rs = get_rs(w) /\ z.rt = get_rt(w) /\ z.simm = get_simm(w)
  BY <1>3, <1>6, <1>7, LongParsed
<1>9. i.op \notin WithRd /\ i.op \notin WithImm /\ i.op \notin Shifts
  BY DEF MemCode, WithRd, WithImm, Shifts, ShiftVs, Alu
<1> HIDE DEF z
<1>10. Means(i, z)
  BY <1>3, <1>8, <1>9, Zenon DEF Means
<1> QED BY <1>10 DEF z, w, code

(* Only the operation and the registers: the offset is another matter. *)
LEMMA BranchBackLong ==
  ASSUME NEW op \in NativeBranch, NEW rs \in Reg, NEW r \in Reg, NEW simm \in Int
  PROVE  LET z == parse_instr_v2(write_l_branch(BranchOpcode[op], rs, BranchRt(op, r), simm), Blank).instr
         IN z.op = op /\ z.rs = rs /\ z.rt = BranchRt(op, r)
<1> DEFINE code == BranchOpcode[op]
           rt == BranchRt(op, r)
           off == WrapLong(CDiv(simm, 2))
           w == write_l_branch(code, rs, rt, simm)
           z == parse_instr_v2(w, Blank).instr
<1>1. rt \in Reg /\ off \in Int /\ code \in Nat /\ code <= 31
  <2>1. CDiv(simm, 2) \in Int
    BY CDivType
  <2>2. off \in Int
    BY <2>1, WrapLongType
  <2>3. rt \in Reg
    BY BranchRtType
  <2> HIDE DEF off, rt
  <2> QED BY <2>2, <2>3, CodesKnown
<1>2. w = write_i(code, rs, rt, off)
  BY DEF write_l_branch
<1> HIDE DEF code, rt, off, w
<1>3. w \in Word /\ LongWord(w) /\ get_opcode(w) = code /\ get_rt(w) = rt /\ get_rs(w) = rs
  BY <1>1, <1>2, ImmediateFields
<1>4. /\ code = 1 => Lookup(BranchTable, rt) = op
      /\ code # 1 => Lookup(V2OpcodeTable, code) = op
  BY TablesBack DEF code, rt
<1>5. op # "INVALID_OP"
  BY Groups
<1>6. z.op = op /\ z.rs = get_rs(w) /\ z.rt = get_rt(w)
  BY <1>3, <1>4, <1>5, LongParsed
<1> QED
  BY <1>3, <1>6 DEF z, w, code, rt

(* A jump, which has no field but its target. *)
LEMMA JumpBackLong ==
  ASSUME NEW i \in StructInstr, i.op \in {"J", "JAL"}, write_long(i) # NoCode
  PROVE  Means(i, parse_instr_v2(write_long(i), Blank).instr)
<1> DEFINE n == conv_to_native(i)
           target == CDiv(i.addr, 2)
           w == write_long(i)
           z == parse_instr_v2(w, Blank).instr
           code == IF i.op = "J" THEN 2 ELSE 3
<1>1. n = i
  BY DEF conv_to_native
<1>2. i.op \notin DOMAIN MemCode /\ i.op \notin NativeBranch
  BY DEF MemCode, NativeBranch
<1>3. w = write_j(code, target)
  BY <1>1, <1>2 DEF write_long
<1>4. target \in Nat /\ code \in Nat /\ code <= 31 /\ code \in {2, 3}
  BY CDivType DEF StructInstr
<1>5. w # NoCode
  OBVIOUS
<1>6. Lookup(V2OpcodeTable, code) = i.op
  <2>1. \E e \in V2OpcodeTable : e[1] = code
    BY DEF V2OpcodeTable
  <2>2. \A e \in V2OpcodeTable : e[1] = code => e[2] = i.op
    BY DEF V2OpcodeTable
  <2> HIDE DEF code
  <2> QED BY <2>1, <2>2, LookupIn
<1> HIDE DEF code, target, n, w
<1>7. w \in Word /\ LongWord(w) /\ get_opcode(w) = code
  BY <1>3, <1>4, <1>5, JumpFields
<1>8. i.op # "INVALID_OP" /\ code # 1
  BY <1>4
<1>9. z.op = i.op
  BY <1>6, <1>7, <1>8, LongParsed
<1>10. i.op \notin WithRs \cup WithRt \cup WithRd \cup Shifts \cup WithImm \cup WithSimm
  BY DEF WithRs, WithRt, WithRd, WithImm, WithSimm, Shifts, ShiftVs, Alu, AluImm, Compare, Loads,
         Stores, NativeBranch
<1> HIDE DEF z
<1>11. Means(i, z)
  BY <1>9, <1>10 DEF Means
<1> QED BY <1>11 DEF z, w

(* A native instruction in the long format. *)
LEMMA LongNative ==
  ASSUME NEW x \in StructInstr, Normal(x), write_long(x) # NoCode, x.op \in Native
  PROVE  Means(x, conv_to_pseudo(parse_instr_v2(write_long(x), Blank).instr))
<1> DEFINE w == write_long(x)
           z == parse_instr_v2(w, Blank).instr
<1>1. w \in Word /\ x.op \notin Cop0 \cup {"INVALID_OP"}
  BY LongReadBack
<1>2. z \in StructInstr
  BY <1>1, ParseV2Type
<1>3. x.op \notin Pseudo \cup PseudoBranch
  BY DEF Native, Pseudo, PseudoBranch, Shifts, ShiftVs, Alu, AluImm, MulDiv, Loads, Stores,
         Compare, NativeBranch, Jumps, Cop0, Stops
<1>4. conv_to_native(x) = x
  BY <1>3, NativeForm
<1>5. Settled(x) /\ Written(x)
  BY InstrWritten DEF Normal
<1>6. Means(x, z)
  <2>1. CASE x.op \in DOMAIN MemCode
    <3>1. w = write_i(MemCode[x.op], x.rs, x.rt, x.simm)
      BY <1>4, <2>1, LongForms, CodeGroups
    <3>2. ~is_branch(x.op)
      BY <1>4, <2>1, LongForms, CodeGroups
    <3>3. x.simm \in Signed16
      BY <3>2 DEF Normal, OneImmediate
    <3> HIDE DEF w
    <3> QED
      BY <1>5, <2>1, <3>1, <3>3, MemBack
  <2>2. CASE x.op \in NativeBranch
    <3>1. w = write_l_branch(BranchOpcode[x.op], x.rs, BranchRt(x.op, x.rt), x.simm)
      BY <1>4, <2>2, LongForms, CodeGroups
    <3>2. x.rs \in Reg /\ x.rt \in Reg /\ x.simm \in Int
      BY <1>5 DEF Written
    <3> HIDE DEF w
    <3>3. z.op = x.op /\ z.rs = x.rs /\ z.rt = BranchRt(x.op, x.rt)
      BY <2>2, <3>1, <3>2, BranchBackLong
    <3>4. x.op \in WithRt => x.op \in {"BEQ", "BNE"}
      BY <2>2 DEF NativeBranch, WithRt, Shifts, ShiftVs, Alu, AluImm, Compare, Loads, Stores
    <3>5. x.op \notin WithRd \cup Shifts \cup WithImm \cup WithSimm
      BY <2>2 DEF NativeBranch, WithRd, Shifts, ShiftVs, Alu, WithImm, WithSimm, Loads, Stores
    <3>6. x.op \in {"BEQ", "BNE"} => BranchRt(x.op, x.rt) = x.rt
      BY DEF BranchRt
    <3> HIDE DEF z
    <3> QED
      BY <3>3, <3>4, <3>5, <3>6 DEF Means
  <2>3. CASE x.op \in {"J", "JAL"}
    BY <2>3, JumpBackLong
  <2>4. CASE x.op \in DOMAIN SpecialCode
    <3>1. w = write_special(x)
      BY <1>4, <2>4, LongForms, CodeGroups
    <3> HIDE DEF w
    <3> QED
      BY <1>5, <2>4, <3>1, SpecialBack
  <2>5. CASE x.op \in DOMAIN ImmCode \ DOMAIN MemCode
    <3>1. w = write_imm(x) /\ ~is_branch(x.op)
      BY <1>4, <2>5, LongForms, CodeGroups
    <3>2. OneImmediate(x)
      BY <3>1 DEF Normal
    <3> HIDE DEF w
    <3> QED
      BY <1>5, <2>5, <3>1, <3>2, ImmBack
  <2> QED
    BY <1>1, <2>1, <2>2, <2>3, <2>4, <2>5, CodeGroups
<1> HIDE DEF z
<1>7. Means(x, conv_to_pseudo(z))
  BY <1>2, <1>5, <1>6, NativeMeans
<1> QED BY <1>7 DEF z, w

(* The pseudo instructions that have only a small format. *)
AlwaysShort == {"NOP", "MOV", "CLEAR", "NOT", "NEG", "LSI", "JR", "JALR"}

(* The registers that the long form of a comparison with $0 leaves out. *)
LongZero(x) ==
  /\ x.op \in {"BEQZ", "BNEZ"} => x.rt = 0
  /\ x.op \in {"B", "BAL"} => x.rs = 0

(* A pseudo branch in the long format. *)
LEMMA LongBranch ==
  ASSUME NEW x \in StructInstr, PseudoFields(x), LongZero(x), x.op \in PseudoBranch
  PROVE  Means(x, conv_to_pseudo(parse_instr_v2(write_long(x), Blank).instr))
<1> DEFINE w == write_long(x)
           z == parse_instr_v2(w, Blank).instr
           n == conv_to_native(x)
           y == conv_to_pseudo(z)
<1>1. n.op = CASE x.op = "B" -> "BGEZ" [] x.op = "BAL" -> "BGEZAL" [] x.op = "BEQZ" -> "BEQ"
               [] x.op = "BNEZ" -> "BNE"
  BY DEF conv_to_native, As, StructInstr, PseudoBranch
<1> HIDE DEF n
<1>2. n.op \in NativeBranch /\ n.op \notin DOMAIN MemCode
  BY <1>1 DEF PseudoBranch, NativeBranch, MemCode
<1>3. w = write_l_branch(BranchOpcode[n.op], x.rs, BranchRt(n.op, x.rt), x.simm)
  <2>1. is_branch(x.op) /\ x.op \notin {"J", "JAL"} \cup Cop0 \cup {"INVALID_OP"}
    BY DEF is_branch, PseudoBranch, Cop0
  <2> QED BY <1>2, <2>1, LongForms DEF n
<1>4. x.rs \in Reg /\ x.rt \in Reg /\ x.simm \in Int
  BY InstrWritten DEF Written
<1> HIDE DEF w
<1>5. z.op = n.op /\ z.rs = x.rs /\ z.rt = BranchRt(n.op, x.rt)
  BY <1>2, <1>3, <1>4, BranchBackLong
<1>6. w \in Word
  <2>1. write_long(x) # NoCode
    BY LongHasCode DEF PseudoBranch, Cop0
  <2> QED BY <2>1, LongReadBack DEF w
<1>7. z \in StructInstr
  BY <1>6, ParseV2Type
<1> HIDE DEF z
<1>8. z.op \notin Shifts \cup ShiftVs \cup Alu \cup AluImm \cup Compare \cup {"JALR"}
  BY <1>2, <1>5 DEF NativeBranch, Shifts, ShiftVs, Alu, AluImm, Compare
<1>9. y = BranchToPseudo(z)
  BY <1>2, <1>5, <1>8, Zenon DEF conv_to_pseudo
<1>10. /\ x.op \notin WithRt \cup WithRd \cup Shifts \cup WithImm \cup WithSimm \cup Commutes
       /\ x.op \in WithRs => x.op \in {"BEQZ", "BNEZ"}
  BY DEF PseudoBranch, NativeBranch, WithRs, WithRt, WithRd, Shifts, ShiftVs, Alu, AluImm, Compare, WithImm, WithSimm,
         Loads, Stores, Commutes
<1>11. y.op = x.op /\ (x.op \in {"BEQZ", "BNEZ"} => y.rs = x.rs)
  <2>1. CASE x.op = "B"
    <3>1. z.op = "BGEZ" /\ z.rs = 0
      BY <1>1, <1>5, <2>1 DEF LongZero
    <3>2. y = As(z, "B")
      BY <1>9, <3>1 DEF BranchToPseudo
    <3> HIDE DEF y
    <3> QED BY <1>7, <2>1, <3>2 DEF As, StructInstr
  <2>2. CASE x.op = "BAL"
    <3>1. z.op = "BGEZAL" /\ z.rs = 0
      BY <1>1, <1>5, <2>2 DEF LongZero
    <3>2. y = As(z, "BAL")
      BY <1>9, <3>1 DEF BranchToPseudo
    <3> HIDE DEF y
    <3> QED BY <1>7, <2>2, <3>2 DEF As, StructInstr
  <2>3. CASE x.op = "BEQZ"
    <3>1. z.op = "BEQ" /\ z.rs = x.rs /\ z.rt = 0 /\ x.rs # 0
      BY <1>1, <1>5, <2>3 DEF LongZero, PseudoFields, BranchRt
    <3>2. y = [z EXCEPT !.op = "BEQZ", !.rs = z.rs]
      BY <1>9, <3>1 DEF BranchToPseudo
    <3> HIDE DEF y
    <3> QED BY <1>7, <2>3, <3>1, <3>2 DEF StructInstr
  <2>4. CASE x.op = "BNEZ"
    <3>1. z.op = "BNE" /\ z.rs = x.rs /\ z.rt = 0 /\ x.rs # 0
      BY <1>1, <1>5, <2>4 DEF LongZero, PseudoFields, BranchRt
    <3>2. y = [z EXCEPT !.op = "BNEZ", !.rs = z.rs]
      BY <1>9, <3>1 DEF BranchToPseudo
    <3> HIDE DEF y
    <3> QED BY <1>7, <2>4, <3>1, <3>2 DEF StructInstr
  <2> QED
    BY <2>1, <2>2, <2>3, <2>4 DEF PseudoBranch
<1> HIDE DEF y
<1>12. Means(x, y)
  BY <1>10, <1>11 DEF Means
<1> QED BY <1>12 DEF y, z, w

(* A comparison with 0 or 1 in the long format. *)
LEMMA LongCompare ==
  ASSUME NEW x \in StructInstr, PseudoFields(x), x.op \in {"SEQZ", "SNEZ", "SLTZ"}
  PROVE  Means(x, conv_to_pseudo(parse_instr_v2(write_long(x), Blank).instr))
<1> DEFINE w == write_long(x)
           z == parse_instr_v2(w, Blank).instr
           n == conv_to_native(x)
           y == conv_to_pseudo(z)
<1>1. w \in Word
  <2>1. write_long(x) # NoCode
    BY LongHasCode DEF Cop0
  <2> QED BY <2>1, LongReadBack
<1>2. z \in StructInstr
  BY <1>1, ParseV2Type
<1>3. /\ x.op = "SEQZ" => n.op = "SLTIU" /\ n.rs = x.rs /\ n.rt = x.rt /\ n.imm = 1 /\ n.simm = 1
      /\ x.op = "SNEZ" => n.op = "SLTU" /\ n.rs = 0 /\ n.rt = x.rt /\ n.rd = x.rd
      /\ x.op = "SLTZ" => n.op = "SLT" /\ n.rs = x.rs /\ n.rt = 0 /\ n.rd = x.rd
  BY DEF conv_to_native, StructInstr
<1>4. Written(n)
  BY ConvertedWritten
<1>6. n.op \in {"SLTIU", "SLTU", "SLT"}
  BY <1>3
<1> HIDE DEF n, w
<1>5. /\ n.op = "SLTIU" => w = write_imm(n)
      /\ n.op \in {"SLTU", "SLT"} => w = write_special(n)
  <2>1. /\ \A op \in {"SLTU", "SLT"} : op \notin DOMAIN MemCode \cup NativeBranch \cup DOMAIN ImmCode
        /\ "SLTIU" \notin DOMAIN MemCode \cup NativeBranch \cup DOMAIN SpecialCode
        /\ x.op \notin {"J", "JAL"} \cup Cop0 \cup {"INVALID_OP"}
    BY CodeGroups DEF Cop0, MemCode, NativeBranch
  <2> QED BY <1>6, <2>1, LongForms DEF n, w
<1>7. z.op = n.op
  <2>1. CASE n.op = "SLTIU"
    <3>1. OneImmediate(n)
      BY <1>3, <2>1 DEF OneImmediate, Signed16
    <3> QED BY <1>4, <1>5, <2>1, <3>1, ImmBack, CodeGroups DEF Means
  <2>2. CASE n.op # "SLTIU"
    BY <1>4, <1>5, <1>6, <2>2, SpecialBack, CodeGroups DEF Means
  <2> QED BY <2>1, <2>2
<1>8. Means(n, z)
  <2>1. CASE n.op = "SLTIU"
    <3>1. OneImmediate(n)
      BY <1>3, <2>1 DEF OneImmediate, Signed16
    <3> QED BY <1>4, <1>5, <2>1, <3>1, ImmBack, CodeGroups
  <2>2. CASE n.op # "SLTIU"
    BY <1>4, <1>5, <1>6, <2>2, SpecialBack, CodeGroups
  <2> QED BY <2>1, <2>2
<1>9. n.op = "SLTIU" => z.rd = 0
  <2> SUFFICES ASSUME n.op = "SLTIU" PROVE z.rd = 0
    OBVIOUS
  <2>1. w = write_i(11, n.rs, n.rt, 1)
    BY <1>3, <1>5 DEF write_imm, ImmCode, contains_imm
  <2>2. n.rs \in Reg /\ n.rt \in Reg
    BY <1>4 DEF Written
  <2>3. w \in Word /\ LongWord(w) /\ get_opcode(w) = 11 /\ get_imm(w) = 1 % 65536
    <3> DEFINE code == 11
               one == 1
    <3>1. code \in Nat /\ code <= 31 /\ one \in Int /\ w = write_i(code, n.rs, n.rt, one)
      BY <2>1
    <3> HIDE DEF code, one
    <3>2. w \in Word /\ LongWord(w) /\ get_opcode(w) = code /\ get_imm(w) = one % 65536
      BY <2>2, <3>1, ImmediateFields
    <3> QED BY <3>2 DEF code, one
  <2>4. z = parse_instr(w)
    BY <2>3, OldWord
  <2>5. w[2] = 1
    BY <2>3 DEF get_imm
  <2> HIDE DEF z
  <2> QED BY <2>4, <2>5 DEF parse_instr, get_rd
<1> HIDE DEF z
<1>10. y = CompareToPseudo(z)
  <2>1. /\ z.op \in Compare /\ z.op \notin Shifts \cup ShiftVs \cup Alu \cup AluImm \cup NativeBranch
        /\ z.op # "JALR"
    BY <1>6, <1>7 DEF Compare, Shifts, ShiftVs, Alu, AluImm, NativeBranch
  <2> QED BY <2>1, Zenon DEF conv_to_pseudo
<1>11. {"SLTIU", "SLTU", "SLT"} \subseteq WithRs \cap WithRt /\ {"SLTU", "SLT"} \subseteq WithRd
       /\ "SLTIU" \in WithImm /\ {"SLTIU", "SLTU", "SLT"} \cap Commutes = {}
  BY DEF WithRs, WithRt, WithRd, WithImm, Compare, Commutes
<1>12. z.rs = n.rs /\ z.rt = n.rt /\ (n.op \in {"SLTU", "SLT"} => z.rd = n.rd)
       /\ (n.op = "SLTIU" => z.imm = n.imm)
  BY <1>6, <1>8, <1>11 DEF Means
<1>13. /\ {"SEQZ", "SNEZ", "SLTZ"} \cap (Shifts \cup WithImm \cup WithSimm) = {}
       /\ "SNEZ" \notin WithRs /\ "SLTZ" \notin WithRt
  BY DEF Shifts, WithImm, WithSimm, WithRs, WithRt, ShiftVs, Alu, Compare, AluImm, Loads, Stores,
         NativeBranch
<1>14. CASE x.op = "SEQZ"
  <2>1. y = As(z, "SEQZ")
    BY <1>3, <1>7, <1>10, <1>12, <1>14 DEF CompareToPseudo
  <2> HIDE DEF y
  <2>2. y.op = "SEQZ" /\ y.rs = x.rs /\ y.rt = x.rt /\ y.rd = 0 /\ x.rd = 0
    BY <1>2, <1>3, <1>9, <1>12, <1>14, <2>1 DEF As, StructInstr, PseudoFields
  <2>3. Means(x, y)
    BY <1>13, <1>14, <2>2 DEF Means
  <2> QED BY <2>3 DEF y, z, w
<1>15. CASE x.op = "SNEZ"
  <2>1. y = As(z, "SNEZ")
    BY <1>3, <1>7, <1>10, <1>12, <1>15 DEF CompareToPseudo
  <2> HIDE DEF y
  <2>2. y.op = "SNEZ" /\ y.rt = x.rt /\ y.rd = x.rd
    BY <1>2, <1>3, <1>12, <1>15, <2>1 DEF As, StructInstr
  <2>3. Means(x, y)
    BY <1>13, <1>15, <2>2 DEF Means
  <2> QED BY <2>3 DEF y, z, w
<1>16. CASE x.op = "SLTZ"
  <2>1. y = As(z, "SLTZ")
    BY <1>3, <1>7, <1>10, <1>12, <1>16 DEF CompareToPseudo
  <2> HIDE DEF y
  <2>2. y.op = "SLTZ" /\ y.rs = x.rs /\ y.rd = x.rd
    BY <1>2, <1>3, <1>12, <1>16, <2>1 DEF As, StructInstr
  <2>3. Means(x, y)
    BY <1>13, <1>16, <2>2 DEF Means
  <2> QED BY <2>3 DEF y, z, w
<1> QED
  BY <1>14, <1>15, <1>16

(* Whatever has a long format means the same when it is read back. *)
LEMMA LongMeans ==
  ASSUME NEW x \in StructInstr, Normal(x), LongZero(x), x.op \notin AlwaysShort,
         write_long(x) # NoCode
  PROVE  Means(x, conv_to_pseudo(parse_instr_v2(write_long(x), Blank).instr))
<1>1. x.op # "INVALID_OP"
  BY LongReadBack
<1>2. x.op \in Native \cup Pseudo
  BY <1>1 DEF StructInstr, Operation
<1>3. x.op \in Native \cup PseudoBranch \cup {"SEQZ", "SNEZ", "SLTZ"}
  BY <1>2 DEF Pseudo, AlwaysShort
<1>4. PseudoFields(x)
  BY DEF Normal
<1> QED
  BY <1>3, <1>4, LongNative, LongBranch, LongCompare

(***************************************************************************)
(* Small instructions read back                                            *)
(***************************************************************************)
(* An instruction with an operation and three registers. *)
ThreeOf(z, op, rd, rs, rt) == z.op = op /\ z.rd = rd /\ z.rs = rs /\ z.rt = rt
TwoOf(z, op, rs, rt) == z.op = op /\ z.rs = rs /\ z.rt = rt

(* What the fields of a half are read as. *)
LEMMA SmallDecoded ==
  ASSUME NEW opcode \in 0..20, NEW h, SmallWord(h, opcode), NEW x
  PROVE  LET z    == parse_instr_v2(<<h, x>>, Blank).instr
             rds  == (h \div 32) % 32
             last == h % 32
         IN /\ opcode = 0  => ThreeOf(z, "SLL", rds, 0, last) /\ z.shamt = 0
            /\ opcode = 1  => ThreeOf(z, "ADDU", rds, rds, last)
            /\ opcode = 2  => ThreeOf(z, "SUBU", rds, rds, last)
            /\ opcode = 3  => ThreeOf(z, "OR", rds, rds, last)
            /\ opcode = 4  => ThreeOf(z, "XOR", rds, rds, last)
            /\ opcode = 5  => ThreeOf(z, "SUBU", rds, 0, last)
            /\ opcode = 6  => ThreeOf(z, "NOR", rds, 0, last)
            /\ opcode = 7  => ThreeOf(z, "SLTU", rds, rds, last)
            /\ opcode = 8  => TwoOf(z, "ADDIU", rds, rds) /\ z.simm = SignExtend(last, 16)
            /\ opcode = 9  => TwoOf(z, "ANDI", rds, rds) /\ z.imm = last
            /\ opcode = 10 => ThreeOf(z, "SLL", rds, 0, rds) /\ z.shamt = last
            /\ opcode = 11 => ThreeOf(z, "SRL", rds, 0, rds) /\ z.shamt = last
            /\ opcode = 12 => ThreeOf(z, "SRA", rds, 0, rds) /\ z.shamt = last
            /\ opcode = 13 => TwoOf(z, "ADDIU", 0, rds) /\ z.simm = SignExtend(last, 16)
            /\ opcode = 14 => TwoOf(z, "BGEZ", 0, 0)
            /\ opcode = 15 => TwoOf(z, "BGEZAL", 0, 0)
            /\ opcode = 16 => TwoOf(z, "BEQ", 0, rds)
            /\ opcode = 17 => TwoOf(z, "BNE", 0, rds)
            /\ opcode = 18 => /\ z.rs = last
                              /\ rds = 0 => z.op = "JR"
                              /\ rds # 0 => z.op = "JALR" /\ z.rd = rds
            /\ opcode = 19 => TwoOf(z, "LW", 29, rds) /\ z.simm = last * 4
            /\ opcode = 20 => TwoOf(z, "SW", 29, rds) /\ z.simm = last * 4
<1> DEFINE i == parse_instr_v2(<<h, x>>, Blank).instr
           c == [Blank EXCEPT !.compressed = TRUE]
           rds  == (h \div 32) % 32
           last == h % 32
           simm == SignExtend(last, 16)
           far  == SignExtend(h % 1024, 512)
           Alu3(op, rs) == [c EXCEPT !.op = op, !.rd = rds, !.rs = rs, !.rt = last]
           Shift1(op)   == [c EXCEPT !.op = op, !.rd = rds, !.rs = 0, !.rt = rds, !.shamt = last]
           AddI(rs)     == [c EXCEPT !.op = "ADDIU", !.rt = rds, !.rs = rs, !.simm = simm]
           Goes(op, rt, off) == [c EXCEPT !.op = op, !.rs = 0, !.rt = rt, !.simm = off * 2]
           Stack(op)    == [c EXCEPT !.op = op, !.rs = 29, !.rt = rds, !.simm = last * 4,
                                     !.imm = last * 4]
<1>23. i = parse_small(h, Blank)
  BY SmallCodes DEF parse_instr_v2, SmallWord
<1> HIDE DEF i
<1>1. (h \div 1024) % 32 = opcode
  BY DEF SmallWord
<1>2. opcode = 0 => i = [[c EXCEPT !.op = "SLL", !.rd = rds, !.rs = 0, !.rt = last] EXCEPT !.shamt = 0]
  BY <1>1, <1>23, SmallCodes DEF parse_small
<1>3. opcode = 1 => i = Alu3("ADDU", rds)
  BY <1>1, <1>23, SmallCodes DEF parse_small
<1>4. opcode = 2 => i = Alu3("SUBU", rds)
  BY <1>1, <1>23, SmallCodes DEF parse_small
<1>5. opcode = 3 => i = Alu3("OR", rds)
  BY <1>1, <1>23, SmallCodes DEF parse_small
<1>6. opcode = 4 => i = Alu3("XOR", rds)
  BY <1>1, <1>23, SmallCodes DEF parse_small
<1>7. opcode = 5 => i = Alu3("SUBU", 0)
  BY <1>1, <1>23, SmallCodes DEF parse_small
<1>8. opcode = 6 => i = Alu3("NOR", 0)
  BY <1>1, <1>23, SmallCodes DEF parse_small
<1>9. opcode = 7 => i = Alu3("SLTU", rds)
  BY <1>1, <1>23, SmallCodes DEF parse_small
<1>10. opcode = 8 => i = AddI(rds)
  BY <1>1, <1>23, SmallCodes DEF parse_small
<1>11. opcode = 9 => i = [c EXCEPT !.op = "ANDI", !.rt = rds, !.rs = rds, !.imm = last]
  BY <1>1, <1>23, SmallCodes DEF parse_small
<1>12. opcode = 10 => i = Shift1("SLL")
  BY <1>1, <1>23, SmallCodes DEF parse_small
<1>13. opcode = 11 => i = Shift1("SRL")
  BY <1>1, <1>23, SmallCodes DEF parse_small
<1>14. opcode = 12 => i = Shift1("SRA")
  BY <1>1, <1>23, SmallCodes DEF parse_small
<1>15. opcode = 13 => i = AddI(0)
  BY <1>1, <1>23, SmallCodes DEF parse_small
<1>16. opcode = 14 => i = Goes("BGEZ", 0, far)
  BY <1>1, <1>23, SmallCodes DEF parse_small
<1>17. opcode = 15 => i = Goes("BGEZAL", 0, far)
  BY <1>1, <1>23, SmallCodes DEF parse_small
<1>18. opcode = 16 => i = Goes("BEQ", rds, simm)
  BY <1>1, <1>23, SmallCodes DEF parse_small
<1>19. opcode = 17 => i = Goes("BNE", rds, simm)
  BY <1>1, <1>23, SmallCodes DEF parse_small
<1>20. opcode = 18 => i = IF rds = 0 THEN [c EXCEPT !.op = "JR", !.rs = last]
                    ELSE [c EXCEPT !.op = "JALR", !.rs = last, !.rd = rds]
  BY <1>1, <1>23, SmallCodes DEF parse_small
<1>21. opcode = 19 => i = Stack("LW")
  BY <1>1, <1>23, SmallCodes DEF parse_small
<1>22. opcode = 20 => i = Stack("SW")
  BY <1>1, <1>23, SmallCodes DEF parse_small
<1>24. c \in [op : {"SLL"}, rs : {0}, rt : {0}, rd : {0}, shamt : {0}, imm : {0}, simm : {0}, addr : {0},
              compressed : {TRUE}]
  BY DEF Blank
<1> HIDE DEF c
<1>25. \A op, rs : ThreeOf(Alu3(op, rs), op, rds, rs, last)
  BY <1>24 DEF ThreeOf
<1>26. \A op : ThreeOf(Shift1(op), op, rds, 0, rds) /\ Shift1(op).shamt = last
  BY <1>24 DEF ThreeOf
<1>27. \A rs : TwoOf(AddI(rs), "ADDIU", rs, rds) /\ AddI(rs).simm = simm
  BY <1>24 DEF TwoOf
<1>28. \A op, rt, off : TwoOf(Goes(op, rt, off), op, 0, rt)
  BY <1>24 DEF TwoOf
<1>29. \A op : TwoOf(Stack(op), op, 29, rds) /\ Stack(op).simm = last * 4
  BY <1>24 DEF TwoOf
<1>30. opcode = 0 => ThreeOf(i, "SLL", rds, 0, last) /\ i.shamt = 0
  BY <1>2, <1>24 DEF ThreeOf
<1>31. opcode = 9 => TwoOf(i, "ANDI", rds, rds) /\ i.imm = last
  BY <1>11, <1>24 DEF TwoOf
<1>32. opcode = 18 => /\ i.rs = last
                      /\ rds = 0 => i.op = "JR"
                      /\ rds # 0 => i.op = "JALR" /\ i.rd = rds
  BY <1>20, <1>24
<1> HIDE DEF rds, last, simm, far, Alu3, Shift1, AddI, Goes, Stack
<1>33. /\ opcode = 1  => ThreeOf(i, "ADDU", rds, rds, last)
       /\ opcode = 2  => ThreeOf(i, "SUBU", rds, rds, last)
       /\ opcode = 3  => ThreeOf(i, "OR", rds, rds, last)
       /\ opcode = 4  => ThreeOf(i, "XOR", rds, rds, last)
       /\ opcode = 5  => ThreeOf(i, "SUBU", rds, 0, last)
       /\ opcode = 6  => ThreeOf(i, "NOR", rds, 0, last)
       /\ opcode = 7  => ThreeOf(i, "SLTU", rds, rds, last)
  BY <1>3, <1>4, <1>5, <1>6, <1>7, <1>8, <1>9, <1>25, Zenon
<1>34. /\ opcode = 8  => TwoOf(i, "ADDIU", rds, rds) /\ i.simm = simm
       /\ opcode = 13 => TwoOf(i, "ADDIU", 0, rds) /\ i.simm = simm
       /\ opcode = 19 => TwoOf(i, "LW", 29, rds) /\ i.simm = last * 4
       /\ opcode = 20 => TwoOf(i, "SW", 29, rds) /\ i.simm = last * 4
  BY <1>10, <1>15, <1>21, <1>22, <1>27, <1>29, Zenon
<1>35. /\ opcode = 10 => ThreeOf(i, "SLL", rds, 0, rds) /\ i.shamt = last
       /\ opcode = 11 => ThreeOf(i, "SRL", rds, 0, rds) /\ i.shamt = last
       /\ opcode = 12 => ThreeOf(i, "SRA", rds, 0, rds) /\ i.shamt = last
  BY <1>12, <1>13, <1>14, <1>26, Zenon
<1>36. /\ opcode = 14 => TwoOf(i, "BGEZ", 0, 0)
       /\ opcode = 15 => TwoOf(i, "BGEZAL", 0, 0)
       /\ opcode = 16 => TwoOf(i, "BEQ", 0, rds)
       /\ opcode = 17 => TwoOf(i, "BNE", 0, rds)
  BY <1>16, <1>17, <1>18, <1>19, <1>28, Zenon
<1> QED
  BY <1>30, <1>31, <1>32, <1>33, <1>34, <1>35, <1>36, Zenon DEF i, rds, last, simm

(* What a small format with two fields is read as. *)
LEMMA SmallPair ==
  ASSUME NEW opcode \in 0..20, NEW rds \in Reg, NEW last \in Int, NEW fits,
         NEW c, c = write_small(opcode, rds, last, fits), c # NoCode, NEW x
  PROVE  /\ c = <<c[1]>> /\ SmallWord(c[1], opcode)
         /\ (c[1] \div 32) % 32 = rds /\ c[1] % 32 = last % 32
         /\ last \in Reg => c[1] % 32 = last
         /\ last \in Signed5 => SignExtend(c[1] % 32, 16) = last
<1>1. /\ c = <<c[1]>> /\ SmallWord(c[1], opcode)
      /\ (c[1] \div 32) % 32 = rds /\ c[1] % 32 = last % 32
  BY SmallFields
<1>2. last \in Reg => last % 32 = last
  BY RegBounds
<1>3. last \in Signed5 => SignExtend(last % 32, 16) = last
  BY ONLY last \in Int, SMT DEF Signed5, SignExtend
<1> QED BY <1>1, <1>2, <1>3

(* The instruction that is found in a half. *)
Found(c, x) == parse_instr_v2(<<c[1], x>>, Blank).instr

(* It is an instruction, if the half is one. *)
LEMMA FoundType ==
  ASSUME NEW i \in StructInstr, write_compressed(i) # NoCode, NEW x \in Half
  PROVE  Found(write_compressed(i), x) \in StructInstr
<1> DEFINE c == write_compressed(i)
<1>1. c \in Seq(Half) /\ Len(c) = 1
  BY CompressedWritten DEF Coded
<1>2. c[1] \in Half
  BY <1>1
<1>3. <<c[1], x>> \in Word
  BY <1>2, WordParts
<1> QED
  BY <1>3, ParseV2Type DEF Found

(* A register operation in a small format: which are written as which.     *)
LEMMA SmallRegister ==
  ASSUME NEW i \in StructInstr, NEW z, NEW x, NEW c, c = write_compressed(i), c # NoCode,
         z = Found(c, x)
  PROVE  /\ i.op \in {"ADDU", "OR", "XOR"} => ThreeOf(z, i.op, i.rd, i.rd, Second(i))
         /\ i.op \in {"SUBU", "SLTU"} => ThreeOf(z, i.op, i.rd, i.rd, i.rt)
         /\ i.op = "NEG" => ThreeOf(z, "SUBU", i.rd, 0, i.rt)
         /\ i.op = "NOT" => ThreeOf(z, "NOR", i.rd, 0, i.rt)
         /\ i.op = "MOV" => ThreeOf(z, "SLL", i.rd, 0, i.rt) /\ z.shamt = 0
         /\ i.op = "CLEAR" => ThreeOf(z, "SLL", i.rd, 0, 0) /\ z.shamt = 0
         /\ i.op = "NOP" => ThreeOf(z, "SLL", 0, 0, 0) /\ z.shamt = 0
<1>1. /\ i.rd \in Reg /\ i.rs \in Reg /\ i.rt \in Reg /\ Second(i) \in Reg /\ 0 \in Reg
      /\ \A r \in Reg : r \in Int
  BY DEF StructInstr, Second, Reg
<1>2. ASSUME NEW code \in 0..20, NEW r \in Reg, NEW last \in Reg, c = write_small(code, r, last, Reg)
      PROVE  /\ c = <<c[1]>> /\ SmallWord(c[1], code) /\ (c[1] \div 32) % 32 = r /\ c[1] % 32 = last
  <2>1. last \in Int
    BY <1>1
  <2> QED BY <1>2, <2>1, SmallPair
<1>3. CASE i.op = "ADDU"
  <2>1. c = write_small(1, i.rd, Second(i), Reg)
    BY <1>3, SmallCodes DEF write_compressed
  <2>2. SmallWord(c[1], 1) /\ (c[1] \div 32) % 32 = i.rd /\ c[1] % 32 = Second(i)
    BY <1>1, <1>2, <2>1
  <2>3. ThreeOf(z, "ADDU", i.rd, i.rd, Second(i))
    BY <2>2, SmallDecoded DEF Found
  <2> QED BY <1>3, <2>3
<1>4. CASE i.op = "OR"
  <2>1. c = write_small(3, i.rd, Second(i), Reg)
    BY <1>4, SmallCodes DEF write_compressed
  <2>2. SmallWord(c[1], 3) /\ (c[1] \div 32) % 32 = i.rd /\ c[1] % 32 = Second(i)
    BY <1>1, <1>2, <2>1
  <2>3. ThreeOf(z, "OR", i.rd, i.rd, Second(i))
    BY <2>2, SmallDecoded DEF Found
  <2> QED BY <1>4, <2>3
<1>5. CASE i.op = "XOR"
  <2>1. c = write_small(4, i.rd, Second(i), Reg)
    BY <1>5, SmallCodes DEF write_compressed
  <2>2. SmallWord(c[1], 4) /\ (c[1] \div 32) % 32 = i.rd /\ c[1] % 32 = Second(i)
    BY <1>1, <1>2, <2>1
  <2>3. ThreeOf(z, "XOR", i.rd, i.rd, Second(i))
    BY <2>2, SmallDecoded DEF Found
  <2> QED BY <1>5, <2>3
<1>6. CASE i.op = "SUBU"
  <2>1. c = write_small(2, i.rd, i.rt, Reg)
    BY <1>6, SmallCodes DEF write_compressed
  <2>2. SmallWord(c[1], 2) /\ (c[1] \div 32) % 32 = i.rd /\ c[1] % 32 = i.rt
    BY <1>1, <1>2, <2>1
  <2>3. ThreeOf(z, "SUBU", i.rd, i.rd, i.rt)
    BY <2>2, SmallDecoded DEF Found
  <2> QED BY <1>6, <2>3
<1>7. CASE i.op = "SLTU"
  <2>1. c = write_small(7, i.rd, i.rt, Reg)
    BY <1>7, SmallCodes DEF write_compressed
  <2>2. SmallWord(c[1], 7) /\ (c[1] \div 32) % 32 = i.rd /\ c[1] % 32 = i.rt
    BY <1>1, <1>2, <2>1
  <2>3. ThreeOf(z, "SLTU", i.rd, i.rd, i.rt)
    BY <2>2, SmallDecoded DEF Found
  <2> QED BY <1>7, <2>3
<1>8. CASE i.op = "NEG"
  <2>1. c = write_small(5, i.rd, i.rt, Reg)
    BY <1>8, SmallCodes DEF write_compressed
  <2>2. SmallWord(c[1], 5) /\ (c[1] \div 32) % 32 = i.rd /\ c[1] % 32 = i.rt
    BY <1>1, <1>2, <2>1
  <2>3. ThreeOf(z, "SUBU", i.rd, 0, i.rt)
    BY <2>2, SmallDecoded DEF Found
  <2> QED BY <1>8, <2>3
<1>9. CASE i.op = "NOT"
  <2>1. c = write_small(6, i.rd, i.rt, Reg)
    BY <1>9, SmallCodes DEF write_compressed
  <2>2. SmallWord(c[1], 6) /\ (c[1] \div 32) % 32 = i.rd /\ c[1] % 32 = i.rt
    BY <1>1, <1>2, <2>1
  <2>3. ThreeOf(z, "NOR", i.rd, 0, i.rt)
    BY <2>2, SmallDecoded DEF Found
  <2> QED BY <1>9, <2>3
<1>10. CASE i.op = "MOV"
  <2>1. c = write_small(0, i.rd, i.rt, Reg)
    BY <1>10, SmallCodes DEF write_compressed
  <2>2. SmallWord(c[1], 0) /\ (c[1] \div 32) % 32 = i.rd /\ c[1] % 32 = i.rt
    BY <1>1, <1>2, <2>1
  <2>3. ThreeOf(z, "SLL", i.rd, 0, i.rt) /\ z.shamt = 0
    BY <2>2, SmallDecoded DEF Found
  <2> QED BY <1>10, <2>3
<1>11. CASE i.op = "CLEAR"
  <2>1. c = write_small(0, i.rd, 0, Reg)
    BY <1>11, SmallCodes DEF write_compressed
  <2>2. SmallWord(c[1], 0) /\ (c[1] \div 32) % 32 = i.rd /\ c[1] % 32 = 0
    BY <1>1, <1>2, <2>1
  <2>3. ThreeOf(z, "SLL", i.rd, 0, 0) /\ z.shamt = 0
    BY <2>2, SmallDecoded DEF Found
  <2> QED BY <1>11, <2>3
<1>12. CASE i.op = "NOP"
  <2>1. c = write_small(0, 0, 0, Reg)
    BY <1>12, SmallCodes DEF write_compressed
  <2>2. SmallWord(c[1], 0) /\ (c[1] \div 32) % 32 = 0 /\ c[1] % 32 = 0
    BY <1>1, <1>2, <2>1
  <2>3. ThreeOf(z, "SLL", 0, 0, 0) /\ z.shamt = 0
    BY <2>2, SmallDecoded DEF Found
  <2> QED BY <1>12, <2>3
<1> QED
  BY <1>3, <1>4, <1>5, <1>6, <1>7, <1>8, <1>9, <1>10, <1>11, <1>12, Zenon

(* The other small formats. *)
LEMMA SmallOther ==
  ASSUME NEW i \in StructInstr, NEW z, NEW x, NEW c, c = write_compressed(i), c # NoCode,
         z = Found(c, x)
  PROVE  /\ i.op \in Shifts => ThreeOf(z, i.op, i.rd, 0, i.rd) /\ z.shamt = i.shamt
         /\ i.op = "ADDIU" => TwoOf(z, "ADDIU", i.rt, i.rt) /\ z.simm = i.simm
         /\ i.op = "LSI" => TwoOf(z, "ADDIU", 0, i.rt) /\ z.simm = i.simm
         /\ i.op = "ANDI" => TwoOf(z, "ANDI", i.rt, i.rt) /\ z.imm = i.imm
         /\ i.op = "B" => TwoOf(z, "BGEZ", 0, 0)
         /\ i.op = "BAL" => TwoOf(z, "BGEZAL", 0, 0)
         /\ i.op = "BEQZ" => TwoOf(z, "BEQ", 0, i.rs)
         /\ i.op = "BNEZ" => TwoOf(z, "BNE", 0, i.rs)
         /\ i.op = "JR" => z.op = "JR" /\ z.rs = i.rs
         /\ i.op = "JALR" /\ i.rd # 0 => z.op = "JALR" /\ z.rs = i.rs /\ z.rd = i.rd
         /\ i.op \in {"LW", "SW"} => TwoOf(z, i.op, 29, i.rt) /\ z.simm = CDiv(i.imm, 4) * 4
<1>1. /\ i.rd \in Reg /\ i.rs \in Reg /\ i.rt \in Reg /\ i.shamt \in Reg /\ 0 \in Reg
      /\ i.simm \in Int /\ i.imm \in Int
  BY InstrWritten DEF Written, Reg
<1>2. /\ \A r \in Reg : r \in Int
      /\ \A r \in Unsigned5 : r \in Reg
      /\ CDiv(i.imm, 4) \in Int /\ CDiv(i.simm, 2) \in Int
  BY <1>1, CDivType DEF Reg, Unsigned5
<1>3. ASSUME NEW code \in 0..20, NEW r \in Reg, NEW last \in Int, NEW fits,
             c = write_small(code, r, last, fits)
      PROVE  /\ SmallWord(c[1], code) /\ (c[1] \div 32) % 32 = r /\ last \in fits
             /\ last \in Reg => c[1] % 32 = last
             /\ last \in Signed5 => SignExtend(c[1] % 32, 16) = last
  <2>1. SmallWord(c[1], code) /\ last \in fits
    BY <1>3, SmallFields
  <2>2. /\ (c[1] \div 32) % 32 = r
        /\ last \in Reg => c[1] % 32 = last
        /\ last \in Signed5 => SignExtend(c[1] % 32, 16) = last
    BY <1>3, SmallPair
  <2> QED BY <2>1, <2>2
<1>4. CASE i.op = "SLL"
  <2>1. c = write_small(10, i.rd, i.shamt, Unsigned5)
    BY <1>4, SmallCodes DEF write_compressed, Shifts
  <2>2. SmallWord(c[1], 10) /\ (c[1] \div 32) % 32 = i.rd /\ c[1] % 32 = i.shamt
    BY <1>1, <1>2, <1>3, <2>1
  <2>3. ThreeOf(z, "SLL", i.rd, 0, i.rd) /\ z.shamt = i.shamt
    BY <2>2, SmallDecoded DEF Found
  <2> QED BY <1>4, <2>3 DEF Shifts
<1>5. CASE i.op = "SRL"
  <2>1. c = write_small(11, i.rd, i.shamt, Unsigned5)
    BY <1>5, SmallCodes DEF write_compressed
  <2>2. SmallWord(c[1], 11) /\ (c[1] \div 32) % 32 = i.rd /\ c[1] % 32 = i.shamt
    BY <1>1, <1>2, <1>3, <2>1
  <2>3. ThreeOf(z, "SRL", i.rd, 0, i.rd) /\ z.shamt = i.shamt
    BY <2>2, SmallDecoded DEF Found
  <2> QED BY <1>5, <2>3 DEF Shifts
<1>6. CASE i.op = "SRA"
  <2>1. c = write_small(12, i.rd, i.shamt, Unsigned5)
    BY <1>6, SmallCodes DEF write_compressed
  <2>2. SmallWord(c[1], 12) /\ (c[1] \div 32) % 32 = i.rd /\ c[1] % 32 = i.shamt
    BY <1>1, <1>2, <1>3, <2>1
  <2>3. ThreeOf(z, "SRA", i.rd, 0, i.rd) /\ z.shamt = i.shamt
    BY <2>2, SmallDecoded DEF Found
  <2> QED BY <1>6, <2>3 DEF Shifts
<1>7. CASE i.op = "ADDIU"
  <2>1. c = write_small(8, i.rt, i.simm, Signed5)
    BY <1>7, SmallCodes DEF write_compressed
  <2>2. SmallWord(c[1], 8) /\ (c[1] \div 32) % 32 = i.rt /\ SignExtend(c[1] % 32, 16) = i.simm
    BY <1>1, <1>2, <1>3, <2>1
  <2>3. TwoOf(z, "ADDIU", i.rt, i.rt) /\ z.simm = i.simm
    BY <2>2, SmallDecoded DEF Found
  <2> QED BY <1>7, <2>3 DEF Shifts
<1>8. CASE i.op = "LSI"
  <2>1. c = write_small(13, i.rt, i.simm, Signed5)
    BY <1>8, SmallCodes DEF write_compressed
  <2>2. SmallWord(c[1], 13) /\ (c[1] \div 32) % 32 = i.rt /\ SignExtend(c[1] % 32, 16) = i.simm
    BY <1>1, <1>2, <1>3, <2>1
  <2>3. TwoOf(z, "ADDIU", 0, i.rt) /\ z.simm = i.simm
    BY <2>2, SmallDecoded DEF Found
  <2> QED BY <1>8, <2>3 DEF Shifts
<1>9. CASE i.op = "ANDI"
  <2>1. c = write_small(9, i.rt, i.imm, Unsigned5)
    BY <1>9, SmallCodes DEF write_compressed
  <2>2. SmallWord(c[1], 9) /\ (c[1] \div 32) % 32 = i.rt /\ c[1] % 32 = i.imm
    BY <1>1, <1>2, <1>3, <2>1
  <2>3. TwoOf(z, "ANDI", i.rt, i.rt) /\ z.imm = i.imm
    BY <2>2, SmallDecoded DEF Found
  <2> QED BY <1>9, <2>3 DEF Shifts
<1>10. CASE i.op = "BEQZ"
  <2>1. c = write_small(16, i.rs, CDiv(i.simm, 2), Signed5)
    BY <1>10, SmallCodes DEF write_compressed
  <2>2. SmallWord(c[1], 16) /\ (c[1] \div 32) % 32 = i.rs
    BY <1>1, <1>2, <1>3, <2>1
  <2>3. TwoOf(z, "BEQ", 0, i.rs)
    BY <2>2, SmallDecoded DEF Found
  <2> QED BY <1>10, <2>3 DEF Shifts
<1>11. CASE i.op = "BNEZ"
  <2>1. c = write_small(17, i.rs, CDiv(i.simm, 2), Signed5)
    BY <1>11, SmallCodes DEF write_compressed
  <2>2. SmallWord(c[1], 17) /\ (c[1] \div 32) % 32 = i.rs
    BY <1>1, <1>2, <1>3, <2>1
  <2>3. TwoOf(z, "BNE", 0, i.rs)
    BY <2>2, SmallDecoded DEF Found
  <2> QED BY <1>11, <2>3 DEF Shifts
<1>12. CASE i.op = "B"
  <2>1. c = write_b(14, CDiv(i.simm, 2))
    BY <1>12, SmallCodes DEF write_compressed
  <2>2. SmallWord(c[1], 14)
    BY <1>2, <2>1, SmallBranchFields
  <2>3. TwoOf(z, "BGEZ", 0, 0)
    BY <2>2, SmallDecoded DEF Found
  <2> QED BY <1>12, <2>3 DEF Shifts
<1>13. CASE i.op = "BAL"
  <2>1. c = write_b(15, CDiv(i.simm, 2))
    BY <1>13, SmallCodes DEF write_compressed
  <2>2. SmallWord(c[1], 15)
    BY <1>2, <2>1, SmallBranchFields
  <2>3. TwoOf(z, "BGEZAL", 0, 0)
    BY <2>2, SmallDecoded DEF Found
  <2> QED BY <1>13, <2>3 DEF Shifts
<1>14. CASE i.op = "JR"
  <2>1. c = write_small(18, 0, i.rs, Reg)
    BY <1>14, SmallCodes DEF write_compressed
  <2>2. SmallWord(c[1], 18) /\ (c[1] \div 32) % 32 = 0 /\ c[1] % 32 = i.rs
    BY <1>1, <1>2, <1>3, <2>1
  <2>3. z.op = "JR" /\ z.rs = i.rs
    BY <2>2, SmallDecoded DEF Found
  <2> QED BY <1>14, <2>3 DEF Shifts
<1>15. CASE i.op = "JALR"
  <2>1. c = write_small(18, i.rd, i.rs, Reg)
    BY <1>15, SmallCodes DEF write_compressed
  <2>2. SmallWord(c[1], 18) /\ (c[1] \div 32) % 32 = i.rd /\ c[1] % 32 = i.rs
    BY <1>1, <1>2, <1>3, <2>1
  <2>3. i.rd # 0 => z.op = "JALR" /\ z.rs = i.rs /\ z.rd = i.rd
    BY <2>2, SmallDecoded DEF Found
  <2> QED BY <1>15, <2>3 DEF Shifts
<1>16. CASE i.op = "LW"
  <2>1. c = write_small(19, i.rt, CDiv(i.imm, 4), Unsigned5)
    BY <1>16, SmallCodes DEF write_compressed
  <2>2. SmallWord(c[1], 19) /\ (c[1] \div 32) % 32 = i.rt /\ c[1] % 32 = CDiv(i.imm, 4)
    BY <1>1, <1>2, <1>3, <2>1
  <2>3. TwoOf(z, "LW", 29, i.rt) /\ z.simm = CDiv(i.imm, 4) * 4
    BY <2>2, SmallDecoded DEF Found
  <2> QED BY <1>16, <2>3 DEF Shifts
<1>17. CASE i.op = "SW"
  <2>1. c = write_small(20, i.rt, CDiv(i.imm, 4), Unsigned5)
    BY <1>17, SmallCodes DEF write_compressed
  <2>2. SmallWord(c[1], 20) /\ (c[1] \div 32) % 32 = i.rt /\ c[1] % 32 = CDiv(i.imm, 4)
    BY <1>1, <1>2, <1>3, <2>1
  <2>3. TwoOf(z, "SW", 29, i.rt) /\ z.simm = CDiv(i.imm, 4) * 4
    BY <2>2, SmallDecoded DEF Found
  <2> QED BY <1>17, <2>3 DEF Shifts
<1> HIDE DEF Shifts
<1>18. i.op \in Shifts => i.op \in {"SLL", "SRL", "SRA"}
  BY DEF Shifts
<1>19. \A op \in {"SLL", "SRL", "SRA"} :
         op \notin {"ADDIU", "LSI", "ANDI", "B", "BAL", "BEQZ", "BNEZ", "JR", "JALR", "LW", "SW"}
  OBVIOUS
<1>20. \A op \in {"ADDIU", "LSI", "ANDI", "B", "BAL", "BEQZ", "BNEZ", "JR", "JALR", "LW", "SW"} :
         op \notin Shifts
  BY DEF Shifts
<1> QED
  BY <1>4, <1>5, <1>6, <1>7, <1>8, <1>9, <1>10, <1>11, <1>12, <1>13, <1>14, <1>15, <1>16, <1>17,
     <1>18, <1>19, <1>20, Zenon

(* A native instruction in a small format. *)
LEMMA SmallNative ==
  ASSUME NEW i \in StructInstr, Normal(i), is_compressible_simple(i), i.op \in Native,
         write_compressed(i) # NoCode, NEW x \in Half
  PROVE  Means(i, conv_to_pseudo(Found(write_compressed(i), x)))
<1> DEFINE c == write_compressed(i)
           z == Found(c, x)
<1>1. z \in StructInstr
  BY FoundType
<1>2. Settled(i)
  BY DEF Normal
<1>3. /\ i.op \in {"ADDU", "OR", "XOR"} => ThreeOf(z, i.op, i.rd, i.rd, Second(i))
      /\ i.op \in {"SUBU", "SLTU"} => ThreeOf(z, i.op, i.rd, i.rd, i.rt)
  BY SmallRegister
<1>4. /\ i.op \in Shifts => ThreeOf(z, i.op, i.rd, 0, i.rd) /\ z.shamt = i.shamt
      /\ i.op = "ADDIU" => TwoOf(z, "ADDIU", i.rt, i.rt) /\ z.simm = i.simm
      /\ i.op = "ANDI" => TwoOf(z, "ANDI", i.rt, i.rt) /\ z.imm = i.imm
      /\ i.op = "JR" => z.op = "JR" /\ z.rs = i.rs
      /\ i.op = "JALR" /\ i.rd # 0 => z.op = "JALR" /\ z.rs = i.rs /\ z.rd = i.rd
      /\ i.op \in {"LW", "SW"} => TwoOf(z, i.op, 29, i.rt) /\ z.simm = CDiv(i.imm, 4) * 4
  BY SmallOther
<1> HIDE DEF z, c
<1>5. CASE i.op \in {"ADDU", "OR", "XOR"}
  <2>1. i.rd = i.rs \/ i.rd = i.rt
    BY <1>5 DEF is_compressible_simple, Shifts
  <2>2. z.op = i.op /\ z.rd = i.rd /\ ((z.rs = i.rs /\ z.rt = i.rt) \/ (z.rs = i.rt /\ z.rt = i.rs))
    BY <1>3, <1>5, <2>1 DEF ThreeOf, Second
  <2>3. i.op \in Commutes /\ i.op \notin Shifts \cup WithImm \cup WithSimm
    BY <1>5 DEF Commutes, Shifts, WithImm, WithSimm, Loads, Stores
  <2>4. Means(i, z)
    BY <2>2, <2>3 DEF Means
  <2> QED BY <1>1, <1>2, <2>4, NativeMeans DEF z, c
<1>6. CASE i.op \in {"SUBU", "SLTU"}
  <2>1. i.rd = i.rs
    BY <1>6 DEF is_compressible_simple, Shifts
  <2>2. z.op = i.op /\ z.rd = i.rd /\ z.rs = i.rs /\ z.rt = i.rt
    BY <1>3, <1>6, <2>1 DEF ThreeOf
  <2>3. i.op \notin Shifts \cup WithImm \cup WithSimm
    BY <1>6 DEF Shifts, WithImm, WithSimm, Loads, Stores
  <2>4. Means(i, z)
    BY <2>2, <2>3 DEF Means
  <2> QED BY <1>1, <1>2, <2>4, NativeMeans DEF z, c
<1>7. CASE i.op \in Shifts
  <2>1. i.rd = i.rt
    BY <1>7 DEF is_compressible_simple, Shifts
  <2>2. z.op = i.op /\ z.rd = i.rd /\ z.rt = i.rt /\ z.shamt = i.shamt
    BY <1>4, <1>7, <2>1 DEF ThreeOf
  <2>3. i.op \notin WithRs \cup WithImm \cup WithSimm
    BY <1>7 DEF Shifts, WithRs, WithImm, WithSimm, Loads, Stores, ShiftVs, Alu, Compare, AluImm,
                NativeBranch
  <2>4. Means(i, z)
    BY <2>2, <2>3 DEF Means
  <2> QED BY <1>1, <1>2, <2>4, NativeMeans DEF z, c
<1>8. CASE i.op = "ADDIU"
  <2>1. i.rs = i.rt
    BY <1>8 DEF is_compressible_simple, Shifts
  <2>2. z.op = i.op /\ z.rs = i.rs /\ z.rt = i.rt /\ z.simm = i.simm
    BY <1>4, <1>8, <2>1 DEF TwoOf
  <2>3. i.op \notin WithRd \cup WithImm \cup Shifts
    BY <1>8 DEF Shifts, WithRd, WithImm, ShiftVs, Alu
  <2>4. Means(i, z)
    BY <2>2, <2>3 DEF Means
  <2> QED BY <1>1, <1>2, <2>4, NativeMeans DEF z, c
<1>9. CASE i.op = "ANDI"
  <2>1. i.rs = i.rt
    BY <1>9 DEF is_compressible_simple, Shifts
  <2>2. z.op = i.op /\ z.rs = i.rs /\ z.rt = i.rt /\ z.imm = i.imm
    BY <1>4, <1>9, <2>1 DEF TwoOf
  <2>3. i.op \notin WithRd \cup WithSimm \cup Shifts
    BY <1>9 DEF Shifts, WithRd, WithSimm, ShiftVs, Alu, Loads, Stores
  <2>4. Means(i, z)
    BY <2>2, <2>3 DEF Means
  <2> QED BY <1>1, <1>2, <2>4, NativeMeans DEF z, c
<1>10. CASE i.op \in {"JR", "JALR"}
  <2>1. i.op = "JALR" => i.rd # 0
    BY <1>2 DEF Settled
  <2>2. z.op = i.op /\ z.rs = i.rs /\ (i.op = "JALR" => z.rd = i.rd)
    BY <1>4, <1>10, <2>1
  <2>3. i.op \notin WithRt \cup WithImm \cup WithSimm \cup Shifts /\ "JR" \notin WithRd
    BY <1>10 DEF Shifts, WithRt, WithRd, WithImm, WithSimm, ShiftVs, Alu, AluImm, Compare, Loads, Stores
  <2>4. Means(i, z)
    BY <1>10, <2>2, <2>3 DEF Means
  <2> QED BY <1>1, <1>2, <2>4, NativeMeans DEF z, c
<1>11. CASE i.op \in {"LW", "SW"}
  <2>1. i.rs = 29 /\ i.imm % 4 = 0 /\ i.imm < 128
    BY <1>11 DEF is_compressible_simple, Shifts
  <2>2. OneImmediate(i)
    BY <1>11 DEF Normal, is_branch, NativeBranch, PseudoBranch
  <2>3. i.imm \in Nat
    <3>1. i.imm \in Half
      BY DEF StructInstr
    <3> QED BY <3>1, HalfBounds
  <2>4. CDiv(i.imm, 4) * 4 = i.imm
    BY <2>1, <2>3 DEF CDiv
  <2>5. i.imm = i.simm
    <3>1. i.simm \in Int /\ i.simm >= -32768 /\ i.imm = i.simm % 65536
          /\ (i.simm >= 0 => i.imm = i.simm)
      BY <2>2 DEF OneImmediate, Signed16
    <3>2. i.simm < 0 => i.simm % 65536 = i.simm + 65536
      BY <3>1
    <3> QED BY <2>1, <2>3, <3>1, <3>2
  <2>6. z.op = i.op /\ z.rs = i.rs /\ z.rt = i.rt /\ z.simm = i.simm
    BY <1>4, <1>11, <2>1, <2>4, <2>5 DEF TwoOf
  <2>7. i.op \notin WithRd \cup WithImm \cup Shifts
    BY <1>11 DEF Shifts, WithRd, WithImm, ShiftVs, Alu
  <2>8. Means(i, z)
    BY <2>6, <2>7 DEF Means
  <2> QED BY <1>1, <1>2, <2>8, NativeMeans DEF z, c
<1>12. i.op \in Shifts \cup {"ADDU", "OR", "XOR", "SUBU", "SLTU", "ADDIU", "ANDI", "LW", "SW", "JR", "JALR"}
  <2>1. i.op \notin {"NOP", "MOV", "CLEAR", "NOT", "NEG", "LSI"}
    BY DEF Native, Shifts, ShiftVs, Alu, AluImm, MulDiv, Loads, Stores,
         Compare, NativeBranch, Jumps, Cop0, Stops
  <2> QED BY <2>1 DEF is_compressible_simple
<1> QED
  BY <1>5, <1>6, <1>7, <1>8, <1>9, <1>10, <1>11, <1>12

(* A pseudo instruction in a small format. *)
LEMMA SmallPseudo ==
  ASSUME NEW i \in StructInstr, Normal(i), i.op \in Pseudo,
         i.op = "MOV" => i.rt # 0, i.op = "CLEAR" => i.rd # 0,
         write_compressed(i) # NoCode, NEW x \in Half
  PROVE  Means(i, conv_to_pseudo(Found(write_compressed(i), x)))
<1> DEFINE c == write_compressed(i)
           z == Found(c, x)
           y == conv_to_pseudo(z)
<1>1. z \in StructInstr
  BY FoundType
<1>2. PseudoFields(i)
  BY DEF Normal
<1>3. /\ i.op = "NEG" => ThreeOf(z, "SUBU", i.rd, 0, i.rt)
      /\ i.op = "NOT" => ThreeOf(z, "NOR", i.rd, 0, i.rt)
      /\ i.op = "MOV" => ThreeOf(z, "SLL", i.rd, 0, i.rt) /\ z.shamt = 0
      /\ i.op = "CLEAR" => ThreeOf(z, "SLL", i.rd, 0, 0) /\ z.shamt = 0
      /\ i.op = "NOP" => ThreeOf(z, "SLL", 0, 0, 0) /\ z.shamt = 0
  BY SmallRegister
<1>4. /\ i.op = "LSI" => TwoOf(z, "ADDIU", 0, i.rt) /\ z.simm = i.simm
      /\ i.op = "B" => TwoOf(z, "BGEZ", 0, 0)
      /\ i.op = "BAL" => TwoOf(z, "BGEZAL", 0, 0)
      /\ i.op = "BEQZ" => TwoOf(z, "BEQ", 0, i.rs)
      /\ i.op = "BNEZ" => TwoOf(z, "BNE", 0, i.rs)
  BY SmallOther
<1> HIDE DEF z, c
<1>5. /\ z.op = "SLL" => y = ShiftToPseudo(z)
      /\ z.op \in {"SUBU", "NOR"} => y = AluToPseudo(z)
      /\ z.op = "ADDIU" => y = ImmToPseudo(z)
      /\ z.op \in {"BGEZ", "BGEZAL", "BEQ", "BNE"} => y = BranchToPseudo(z)
  <2>1. z.op = "SLL" => z.op \in Shifts
    BY DEF Shifts
  <2>2. z.op \in {"SUBU", "NOR"} => z.op \in Alu \ {"ADD", "SUB"} /\ z.op \notin Shifts \cup ShiftVs
    BY DEF Shifts, ShiftVs, Alu
  <2>3. z.op = "ADDIU" => z.op \in AluImm \ {"ADDI"} /\ z.op \notin Shifts \cup ShiftVs \cup Alu
    BY DEF Shifts, ShiftVs, Alu, AluImm
  <2>4. z.op \in {"BGEZ", "BGEZAL", "BEQ", "BNE"} =>
          z.op \in NativeBranch /\ z.op \notin Shifts \cup ShiftVs \cup Alu \cup AluImm \cup Compare
    BY DEF Shifts, ShiftVs, Alu, AluImm, Compare, NativeBranch
  <2>5. \A op \in {"SLL", "SUBU", "NOR", "ADDIU"} : op \notin NativeBranch \cup Compare \cup {"JALR"}
    BY DEF NativeBranch, Compare
  <2>6. /\ "SLL" \notin ShiftVs \cup Alu \cup AluImm
        /\ "SUBU" \notin AluImm /\ "NOR" \notin AluImm
        /\ "JALR" \notin NativeBranch
    BY DEF ShiftVs, Alu, AluImm, NativeBranch
  <2>7. z.op = "SLL" => y = ShiftToPseudo(z)
    BY <2>1, <2>5, <2>6, Zenon DEF conv_to_pseudo
  <2>8. z.op \in {"SUBU", "NOR"} => y = AluToPseudo(z)
    BY <2>2, <2>5, <2>6, Zenon DEF conv_to_pseudo
  <2>9. z.op = "ADDIU" => y = ImmToPseudo(z)
    BY <2>3, <2>5, Zenon DEF conv_to_pseudo
  <2>10. z.op \in {"BGEZ", "BGEZAL", "BEQ", "BNE"} => y = BranchToPseudo(z)
    BY <2>4, <2>6, Zenon DEF conv_to_pseudo
  <2> QED BY <2>7, <2>8, <2>9, <2>10
<1> HIDE DEF y
<1>6. /\ \A op : As(z, op).op = op /\ As(z, op).rd = z.rd /\ As(z, op).rt = z.rt
      /\ \A r : LET n == [z EXCEPT !.op = "NOT", !.rt = r]
                IN n.op = "NOT" /\ n.rd = z.rd /\ n.rt = r
      /\ LET l == [z EXCEPT !.op = "LSI", !.rd = z.rt]
         IN l.op = "LSI" /\ l.rd = z.rt /\ l.simm = z.simm
      /\ \A r : [z EXCEPT !.op = "BEQZ", !.rs = r].op = "BEQZ"
                /\ [z EXCEPT !.op = "BEQZ", !.rs = r].rs = r
      /\ \A r : [z EXCEPT !.op = "BNEZ", !.rs = r].op = "BNEZ"
                /\ [z EXCEPT !.op = "BNEZ", !.rs = r].rs = r
  BY <1>1 DEF As, StructInstr
<1>7. i.op = "NEG" => y.op = "NEG" /\ y.rd = i.rd /\ y.rt = i.rt
  <2> SUFFICES ASSUME i.op = "NEG" PROVE y.op = "NEG" /\ y.rd = i.rd /\ y.rt = i.rt
    OBVIOUS
  <2>1. z.op = "SUBU" /\ z.rd = i.rd /\ z.rs = 0 /\ z.rt = i.rt /\ i.rd # 0 /\ i.rt # 0
    BY <1>2, <1>3 DEF PseudoFields, ThreeOf
  <2>2. y = As(z, "NEG")
    BY <1>5, <2>1 DEF AluToPseudo
  <2> QED BY <1>6, <2>1, <2>2
<1>8. i.op = "NOT" => y.op = "NOT" /\ y.rd = i.rd /\ y.rt = i.rt
  <2> SUFFICES ASSUME i.op = "NOT" PROVE y.op = "NOT" /\ y.rd = i.rd /\ y.rt = i.rt
    OBVIOUS
  <2>1. z.op = "NOR" /\ z.rd = i.rd /\ z.rs = 0 /\ z.rt = i.rt /\ i.rd # 0 /\ i.rt # 0
    BY <1>2, <1>3 DEF PseudoFields, ThreeOf
  <2>2. Other(z) = i.rt
    BY <2>1 DEF Other
  <2>3. y = [z EXCEPT !.op = "NOT", !.rt = i.rt]
    BY <1>5, <2>1, <2>2 DEF AluToPseudo
  <2> QED BY <1>6, <2>1, <2>3
<1>9. i.op = "MOV" => y.op = "MOV" /\ y.rd = i.rd /\ y.rt = i.rt
  <2> SUFFICES ASSUME i.op = "MOV" PROVE y.op = "MOV" /\ y.rd = i.rd /\ y.rt = i.rt
    OBVIOUS
  <2>1. z.op = "SLL" /\ z.rd = i.rd /\ z.rt = i.rt /\ z.shamt = 0 /\ i.rd # 0 /\ i.rt # 0
    BY <1>2, <1>3 DEF PseudoFields, ThreeOf
  <2>2. y = As(z, "MOV")
    BY <1>5, <2>1 DEF ShiftToPseudo
  <2> QED BY <1>6, <2>1, <2>2
<1>10. i.op = "CLEAR" => y.op = "CLEAR" /\ y.rd = i.rd
  BY <1>3, <1>5, <1>6 DEF ShiftToPseudo, ThreeOf
<1>11. i.op = "NOP" => y.op = "NOP"
  BY <1>3, <1>5, <1>6 DEF ShiftToPseudo, ThreeOf
<1>12. i.op = "LSI" => y.op = "LSI" /\ y.rd = i.rd /\ y.simm = i.simm
  <2> SUFFICES ASSUME i.op = "LSI" PROVE y.op = "LSI" /\ y.rd = i.rd /\ y.simm = i.simm
    OBVIOUS
  <2>1. /\ i.rd = i.rt /\ i.rt # 0 /\ i.simm # 0 /\ i.simm \in -16..15
        /\ z.op = "ADDIU" /\ z.rs = 0 /\ z.rt = i.rt /\ z.simm = i.simm
    BY <1>2, <1>4 DEF PseudoFields, TwoOf
  <2>2. y = [z EXCEPT !.op = "LSI", !.rd = z.rt]
    BY <1>5, <2>1 DEF ImmToPseudo
  <2> QED BY <1>6, <2>1, <2>2
<1>13. (i.op = "B" => y.op = "B") /\ (i.op = "BAL" => y.op = "BAL")
  <2>1. i.op = "B" => y = As(z, "B")
    BY <1>4, <1>5 DEF BranchToPseudo, TwoOf
  <2>2. i.op = "BAL" => y = As(z, "BAL")
    BY <1>4, <1>5 DEF BranchToPseudo, TwoOf
  <2> QED BY <1>6, <2>1, <2>2
<1>14. (i.op = "BEQZ" => y.op = "BEQZ" /\ y.rs = i.rs) /\ (i.op = "BNEZ" => y.op = "BNEZ" /\ y.rs = i.rs)
  <2>1. i.op \in {"BEQZ", "BNEZ"} =>
          z.op = (IF i.op = "BEQZ" THEN "BEQ" ELSE "BNE") /\ z.rs = 0 /\ z.rt = i.rs /\ i.rs # 0
    BY <1>2, <1>4 DEF PseudoFields, TwoOf
  <2>2. i.op = "BEQZ" => y = [z EXCEPT !.op = "BEQZ", !.rs = i.rs]
    BY <1>5, <2>1 DEF BranchToPseudo
  <2>3. i.op = "BNEZ" => y = [z EXCEPT !.op = "BNEZ", !.rs = i.rs]
    BY <1>5, <2>1 DEF BranchToPseudo
  <2>4. /\ i.op = "BEQZ" => y.op = "BEQZ" /\ y.rs = i.rs
        /\ i.op = "BNEZ" => y.op = "BNEZ" /\ y.rs = i.rs
    BY <1>1, <2>2, <2>3 DEF StructInstr
  <2> QED BY <2>4
<1>15. i.op \notin {"SEQZ", "SNEZ", "SLTZ"}
  BY SmallForms DEF SmallOps, Shifts
<1>16. /\ \A op \in {"NEG", "NOT", "MOV"} : op \notin WithRs \cup Shifts \cup WithImm \cup WithSimm
       /\ \A op \in {"CLEAR", "LSI"} : op \notin WithRs \cup WithRt \cup Shifts \cup WithImm
       /\ "CLEAR" \notin WithSimm
       /\ \A op \in {"NOP", "B", "BAL", "BEQZ", "BNEZ"} :
            op \notin WithRt \cup WithRd \cup Shifts \cup WithImm \cup WithSimm
       /\ \A op \in {"NOP", "B", "BAL"} : op \notin WithRs
  BY DEF Shifts, WithRs, WithRt, WithRd, WithImm, WithSimm, Loads, Stores, ShiftVs, Alu, Compare, AluImm,
                NativeBranch
<1>17. i.op \in {"NOP", "MOV", "CLEAR", "NOT", "NEG", "LSI", "B", "BAL", "BEQZ", "BNEZ"}
  BY <1>15 DEF Pseudo, PseudoBranch
<1>18. Means(i, y)
  <2>1. CASE i.op \in {"NEG", "NOT", "MOV"}
    BY <1>7, <1>8, <1>9, <1>16, <2>1 DEF Means
  <2>2. CASE i.op \in {"CLEAR", "LSI"}
    BY <1>10, <1>12, <1>16, <2>2 DEF Means
  <2>3. CASE i.op \in {"NOP", "B", "BAL", "BEQZ", "BNEZ"}
    BY <1>11, <1>13, <1>14, <1>16, <2>3 DEF Means
  <2> QED BY <1>17, <2>1, <2>2, <2>3
<1> QED BY <1>18 DEF y, z, c

(* Whatever is made short means the same when it is read back. *)
LEMMA SmallMeans ==
  ASSUME NEW i \in StructInstr, Normal(i), Short(i),
         i.op = "MOV" => i.rt # 0, i.op = "CLEAR" => i.rd # 0, NEW x \in Half
  PROVE  Means(i, conv_to_pseudo(Found(write_compressed(i), x)))
<1>1. write_compressed(i) # NoCode
  BY SmallHasCode
<1>2. i.op \in Pseudo => Means(i, conv_to_pseudo(Found(write_compressed(i), x)))
  BY <1>1, SmallPseudo
<1>3. i.op \in Native \/ i.op \in Pseudo
  <2>1. i.op # "INVALID_OP"
    BY DEF Short, is_compressible_simple, Shifts
  <2> QED BY <2>1 DEF StructInstr, Operation
<1>4. i.op \in Native => is_compressible_simple(i)
  BY DEF Short, Native, Shifts, ShiftVs, Alu, AluImm, MulDiv, Loads, Stores,
         Compare, NativeBranch, Jumps, Cop0, Stops
<1> QED
  BY <1>1, <1>2, <1>3, <1>4, SmallNative
=============================================================================
