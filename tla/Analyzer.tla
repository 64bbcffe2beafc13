------------------------------ MODULE Analyzer ------------------------------
(***************************************************************************)
(* analyzer/analyzer.c: reads a program of either instruction set and      *)
(* counts: operations and those of them that have a short format, branch   *)
(* distances, immediates, stack offsets, NOPs in delay slots, registers.   *)
(* It estimates how many bytes the compressed program would take.          *)
(*                                                                         *)
(* A list of counters (imm_list.c, mem_stat, the freq and count arrays) is *)
(* a bag. The order of a list is settled when it is sorted for printing.   *)
(***************************************************************************)
EXTENDS InstrFile, Bags, FiniteSets

VARIABLES
  options,      \* -c, -p and -i: [v2, psd, imm_stat]; the others only choose tables to print
  contents,     \* the halves of the input file
  at,           \* how many of them have been read
  stat,         \* the statistics
  stage,        \* "read", "print", "merge", "done"; "abort" and "crash" are its failures
  u_iter, s_iter,
  rows          \* the lines of the table of immediates
avars == <<options, contents, at, stat, stage, u_iter, s_iter, rows>>

NoStat ==
  [total_instr |-> 0, freq |-> EmptyBag, freq_comp |-> EmptyBag,
   branch_list |-> EmptyBag, uimm_list |-> EmptyBag, simm_list |-> EmptyBag,
   mem_stat |-> EmptyBag, prev |-> {}, nops |-> EmptyBag,
   rs_count |-> EmptyBag, rd_count |-> EmptyBag]

(***************************************************************************)
(* What an instruction adds to the statistics.                             *)
(***************************************************************************)

(* Mutant: the estimate counts every branch as short. *)
is_compressible_any(i) == is_compressible_simple(i) \/ i.op \in PseudoBranch

is_compressible(i) ==
  \/ is_compressible_simple(i)
  \/ i.op \in {"B", "BAL"}     /\ i.simm \in -1024..1022
  \/ i.op \in {"BEQZ", "BNEZ"} /\ i.simm \in -32..30

Int16(n) == ((n + 32768) % 65536) - 32768

(* Mutant: BEQZ and BNEZ have no distance. *)
BranchDistancesNative(i) ==
  IF i.op \in {"BEQ", "BNE", "BLTZ", "BLTZAL", "BGEZ", "BGEZAL", "B", "BAL"}
  THEN {Int16(i.simm)} ELSE {}

(* update_branch_stat: there is no case for BLEZ and BGTZ. *)
BranchDistances(i) ==
  IF i.op \in {"BEQ", "BNE", "BLTZ", "BLTZAL", "BGEZ", "BGEZAL", "BEQZ", "BNEZ", "B", "BAL"}
  THEN {Int16(i.simm)} ELSE {}

(* update_mem_stat: the column a stack access is counted in. *)
Column ==
  [SW |-> "w", LW |-> "w", SH |-> "h", LH |-> "h", LHU |-> "hu",
   SB |-> "b", LB |-> "b", LBU |-> "bu"]

StackAccesses(i) ==
  IF i.op \in DOMAIN Column /\ i.rs = 29 THEN {<<Int16(i.simm), Column[i.op]>>} ELSE {}

(* update_reg_stat: rs_count and rd_count.                                 *)
Sources(i) ==
  CASE i.op \in Shifts \cup {"MOV", "NOT", "NEG", "SNEZ"} -> SetToBag({i.rt})
    [] i.op \in ShiftVs \cup Alu \cup Stores \cup {"SLT", "SLTU", "BEQ", "BNE"} ->
         SetToBag({i.rs}) (+) SetToBag({i.rt})
    [] i.op \in AluImm \cup Loads \cup {"SLTI", "SLTIU", "DIV", "DIVU", "MULT", "MULTU", "BLTZ",
                  "BGEZ", "BLEZ", "BGTZ", "BLTZAL", "BGEZAL", "JR", "JALR", "MTHI", "MTLO",
                  "BEQZ", "BNEZ", "SEQZ", "SLTZ"} ->
         IF i.op = "LUI" THEN EmptyBag ELSE SetToBag({i.rs})
    [] OTHER -> EmptyBag

Destinations(i) ==
  CASE i.op \in Shifts \cup ShiftVs \cup Alu
         \cup {"SLT", "SLTU", "MFHI", "MFLO", "JALR", "MOV", "NOT", "NEG", "CLEAR", "SNEZ", "LSI"} ->
         {i.rd}
    [] i.op \in AluImm \cup Loads \cup {"SLTI", "SLTIU", "SEQZ", "SLTZ",
                  "DIV", "DIVU", "MULT", "MULTU"} -> {i.rt}
    [] i.op \in {"BLTZAL", "BGEZAL", "JAL", "BAL"} -> {31}
    [] OTHER -> {}

(* update_nop_stat: what the instruction is to the one behind it.          *)
SlotKind(i) ==
  CASE is_branch(i.op) -> {"branch"}
    [] i.op \in Jumps  -> {"jump"}
    [] i.op \in Loads  -> {"load"}
    [] OTHER           -> {}

(* The three flags prev_branch, prev_jump and prev_load are the members of *)
(* prev; each is taken back by the next instruction.                       *)
NopStat(s, i) ==
  LET nop == conv_to_pseudo(i).op = "NOP"
  IN [s EXCEPT !.nops = @ (+) (IF nop THEN SetToBag(s.prev) ELSE EmptyBag),
               !.prev = SlotKind(i)]

Updated(s, i) ==
  LET When(p, b) == IF p THEN SetToBag({b}) ELSE EmptyBag
  IN [NopStat(s, i) EXCEPT
        !.freq        = @ (+) SetToBag({i.op}),
        !.freq_comp   = @ (+) When(is_compressible(i), i.op),
        !.branch_list = @ (+) SetToBag(BranchDistances(i)),
        !.mem_stat    = @ (+) SetToBag(StackAccesses(i)),
        !.uimm_list   = @ (+) When(contains_imm(i.op), i.imm),
        !.simm_list   = @ (+) When(contains_simm(i.op), Int16(i.simm)),
        !.rs_count    = @ (+) Sources(i),
        !.rd_count    = @ (+) SetToBag(Destinations(i))]

(***************************************************************************)
(* The loop of analyze2                                                    *)
(***************************************************************************)
More == HasInstr(contents, at, options.v2)

Analyzed(i) == IF options.psd THEN conv_to_pseudo(i) ELSE i

(* Mutant: an invalid instruction takes part in the statistics' flags. *)
ReadInstrResets ==
  /\ stage = "read" /\ More
  /\ LET next == Decoded(contents, at + 1, options.v2)
         i    == Analyzed(next.instr)
         s    == [stat EXCEPT !.total_instr = @ + 1]
     IN IF next.rc = -1
        THEN stage' = "abort" /\ UNCHANGED <<at, stat>>
        ELSE /\ at' = at + IF options.v2 THEN V2Halves(contents, at + 1) ELSE 2
             /\ stat' = IF i.op = "INVALID_OP" THEN [s EXCEPT !.prev = {}] ELSE Updated(s, i)
             /\ UNCHANGED stage
  /\ UNCHANGED <<options, contents, u_iter, s_iter, rows>>

ReadInstr ==
  /\ stage = "read" /\ More
  /\ LET next == Decoded(contents, at + 1, options.v2)
         i    == Analyzed(next.instr)
         s    == [stat EXCEPT !.total_instr = @ + 1]
     IN IF next.rc = -1
        THEN stage' = "abort" /\ UNCHANGED <<at, stat>>
        ELSE /\ at' = at + IF options.v2 THEN V2Halves(contents, at + 1) ELSE 2
             /\ stat' = IF i.op = "INVALID_OP" THEN s ELSE Updated(s, i)
             /\ UNCHANGED stage
  /\ UNCHANGED <<options, contents, u_iter, s_iter, rows>>

(***************************************************************************)
(* Printing                                                                *)
(***************************************************************************)
(* How often a value is in a list: 0 when it has no entry. *)
Times(v, list) == IF v \in DOMAIN list THEN list[v] ELSE 0

(* The sum of freq_comp over all operations. *)
num_comp(s) ==
  LET sum[ops \in SUBSET Operation] ==
        IF ops = {} THEN 0
        ELSE LET op == CHOOSE o \in ops : TRUE
             IN Times(op, s.freq_comp) + sum[ops \ {op}]
  IN sum[Operation]

comp_size(s) == num_comp(s) * 2 + (s.total_instr - num_comp(s)) * 4

PrintStat ==
  /\ stage = "read" /\ ~More
  /\ stage' = IF options.imm_stat THEN "merge" ELSE "done"
  /\ u_iter' = 0 /\ s_iter' = 0 /\ rows' = <<>>
  /\ UNCHANGED <<options, contents, at, stat>>

(* The entry of a sorted list at index n, which counts from 0. *)
Entry(list, n) ==
  LET values == BagToSet(list)
  IN CHOOSE v \in values : Cardinality({w \in values : w < v}) = n

uimm == Entry(stat.uimm_list, u_iter)
simm == Entry(stat.simm_list, s_iter)

Row(value, u, s) == [value |-> value, unsigned |-> u, signed |-> s]
UTimes == Times(uimm, stat.uimm_list)
STimes == Times(simm, stat.simm_list)

MoreU(n) == n < Cardinality(BagToSet(stat.uimm_list))
MoreS(n) == n < Cardinality(BagToSet(stat.simm_list))
ULeft == MoreU(u_iter)
SLeft == MoreS(s_iter)

(* The loop ends when both lists are used up. *)
RowOf(u, s, row) ==
  /\ stage = "merge"
  /\ rows' = Append(rows, row)
  /\ u_iter' = u_iter + u
  /\ s_iter' = s_iter + s
  /\ stage' = IF MoreU(u_iter + u) \/ MoreS(s_iter + s) THEN "merge" ELSE "done"
  /\ UNCHANGED <<options, contents, at, stat>>

(* Mutant: equal values are taken from one list only. *)
UnsignedRowTies ==
  /\ ULeft
  /\ SLeft => uimm <= simm
  /\ RowOf(1, 0, Row(uimm, UTimes, 0))

UnsignedRow ==
  /\ ULeft
  /\ SLeft => uimm < simm
  /\ RowOf(1, 0, Row(uimm, UTimes, 0))

SignedRow ==
  /\ SLeft
  /\ ULeft => simm < uimm
  /\ RowOf(0, 1, Row(simm, 0, STimes))

BothRow ==
  /\ ULeft /\ SLeft
  /\ uimm = simm
  /\ RowOf(1, 1, Row(simm, UTimes, STimes))

(* A do-while loop: with two empty lists it reads through a null pointer.  *)
EmptyRow ==
  /\ stage = "merge"
  /\ ~ULeft /\ ~SLeft
  /\ stage' = "crash"
  /\ UNCHANGED <<options, contents, at, stat, u_iter, s_iter, rows>>

ANext == ReadInstr \/ PrintStat \/ UnsignedRow \/ SignedRow \/ BothRow \/ EmptyRow

(* A call of the program. *)
Started(file, command) ==
  [options |-> command, contents |-> file, at |-> 0, stat |-> NoStat, stage |-> "read",
   u_iter |-> 0, s_iter |-> 0, rows |-> <<>>]
=============================================================================
