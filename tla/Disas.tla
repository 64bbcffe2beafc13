------------------------------- MODULE Disas -------------------------------
(***************************************************************************)
(* disas/disas.c, which prints a program as assembler text, and            *)
(* common/print_instr.c. A line of text is the address (option -l), the    *)
(* prefix "c.", the name of the operation and its operands in the order    *)
(* they are printed; their notation is left out.                           *)
(***************************************************************************)
EXTENDS InstrFile

VARIABLES
  v2, conv,       \* options -c and -p
  bytes,          \* the halves of the file
  taken,          \* how many of them have been read
  addr,
  listing,        \* the lines printed
  ending          \* "none", "done", "exit" or "abort"
dvars == <<v2, conv, bytes, taken, addr, listing, ending>>

(***************************************************************************)
(* print_instr: the operands. MFC0 and MTC0 are printed as unknown.        *)
(***************************************************************************)
Comparisons == {"SLT", "SLTU"}

(* Mutant: the operands of NOT and NEG are printed from the wrong field. *)
OperandsOther(i) ==
  CASE i.op \in Alu \cup Comparisons -> <<i.rd, i.rs, i.rt>>
    [] i.op \in {"MOV", "NOT", "NEG", "SEQZ", "SNEZ"} -> <<i.rd, i.rs>>
    [] OTHER -> <<i.rs, i.rt, i.simm>>

Operands(i) ==
  CASE i.op \in Shifts -> <<i.rd, i.rt, i.shamt>>
    [] i.op \in ShiftVs -> <<i.rd, i.rt, i.rs>>
    [] i.op \in Alu \cup Comparisons -> <<i.rd, i.rs, i.rt>>
    [] i.op \in {"ADDI", "ADDIU", "SLTI", "BEQ", "BNE"} -> <<i.rt, i.rs, i.simm>>
    [] i.op \in {"ANDI", "ORI", "XORI", "SLTIU"} -> <<i.rt, i.rs, i.imm>>
    [] i.op = "LUI" -> <<i.rt, i.imm>>
    [] i.op \in Loads \cup Stores -> <<i.rt, i.simm, i.rs>>
    [] i.op \in (NativeBranch \ {"BEQ", "BNE"}) \cup {"BEQZ", "BNEZ"} -> <<i.rs, i.simm>>
    [] i.op \in {"B", "BAL"} -> <<i.simm>>
    [] i.op \in {"J", "JAL"} -> <<i.addr>>
    [] i.op \in {"JR", "MTHI", "MTLO"} -> <<i.rs>>
    [] i.op \in {"JALR", "SLTZ"} -> <<i.rd, i.rs>>
    [] i.op \in {"MULT", "MULTU", "DIV", "DIVU"} -> <<i.rs, i.rt>>
    [] i.op \in {"MFHI", "MFLO", "CLEAR"} -> <<i.rd>>
    [] i.op \in {"MOV", "NOT", "NEG", "SEQZ", "SNEZ"} -> <<i.rd, i.rt>>
    [] i.op = "LSI" -> <<i.rd, i.simm>>
    [] i.op \in {"NOP"} \cup Stops -> <<>>
    [] i.op \in Cop0 -> <<i.addr>>

Name(i) == IF i.op \in Cop0 THEN "unknown" ELSE i.op

Text(i, small) == [at |-> addr, c |-> small, name |-> Name(i), operands |-> Operands(i)]

(***************************************************************************)
(* main                                                                    *)
(***************************************************************************)

(* Mutant: the second half of a long instruction is read as another one. *)
PrintLineHalves ==
  /\ ending = "none" /\ HasInstr(bytes, taken, v2)
  /\ LET next  == Decoded(bytes, taken + 1, v2)
         small == v2 /\ ~IsLong(bytes, taken + 1)
         i     == IF conv THEN conv_to_pseudo(next.instr) ELSE next.instr
     IN IF next.rc = -1 \/ next.instr.op = "INVALID_OP"
        THEN /\ ending' = IF next.rc = -1 THEN "abort" ELSE "exit"
             /\ UNCHANGED <<taken, addr, listing>>
        ELSE /\ listing' = Append(listing, Text(i, small))
             /\ taken' = taken + IF v2 THEN 1 ELSE 2
             /\ addr' = addr + IF small THEN 2 ELSE 4
             /\ UNCHANGED ending
  /\ UNCHANGED <<v2, conv, bytes>>

PrintLine ==
  /\ ending = "none" /\ HasInstr(bytes, taken, v2)
  /\ LET next  == Decoded(bytes, taken + 1, v2)
         small == v2 /\ ~IsLong(bytes, taken + 1)
         i     == IF conv THEN conv_to_pseudo(next.instr) ELSE next.instr
     IN IF next.rc = -1 \/ next.instr.op = "INVALID_OP"
        THEN /\ ending' = IF next.rc = -1 THEN "abort" ELSE "exit"
             /\ UNCHANGED <<taken, addr, listing>>
        ELSE /\ listing' = Append(listing, Text(i, small))
             /\ taken' = taken + IF v2 THEN V2Halves(bytes, taken + 1) ELSE 2
             /\ addr' = addr + IF small THEN 2 ELSE 4
             /\ UNCHANGED ending
  /\ UNCHANGED <<v2, conv, bytes>>

EndListing ==
  /\ ending = "none" /\ ~HasInstr(bytes, taken, v2)
  /\ ending' = "done"
  /\ UNCHANGED <<v2, conv, bytes, taken, addr, listing>>

DNext == PrintLine \/ EndListing
=============================================================================
