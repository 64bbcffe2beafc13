----------------------------- MODULE Converter -----------------------------
(***************************************************************************)
(* converter/converter.c: reads a program of 32-bit MIPS-I words, finds    *)
(* out which instructions can be written with 16 bits, lays the program    *)
(* out again and writes it in the compressed instruction set.              *)
(*                                                                         *)
(* Which branches are short depends on the addresses, and the addresses    *)
(* depend on which branches are short: main calls compress_branch until    *)
(* one whole pass changes no instruction.                                  *)
(*                                                                         *)
(* prog[k] and attr[k] are the elements k - 1 of the arrays of the code;   *)
(* target_index keeps the code's values, which count from 0.               *)
(***************************************************************************)
EXTENDS InstrV2, Layout

CONSTANTS
  Programs,       \* the input files: sequences of words
  JReach,         \* a short B or BAL reaches -JReach..JReach - 2: 1024 in the code
  ZReach          \* a short BEQZ or BNEZ reaches -ZReach..ZReach - 2: 32 in the code

ASSUME ProgramsAssumption == Programs \subseteq Seq(Word)
ASSUME ReachAssumption == JReach \in Nat /\ JReach >= 2 /\ ZReach \in Nat /\ ZReach >= 2

VARIABLES
  pc,             \* where the process is; "exit" and "abort" are its failures
  input,          \* the input file
  prog,           \* the instructions
  attr,           \* their addresses and targets
  new_addr,       \* parse_bin's local of that name
  written,        \* the index of main's last loop
  out             \* the halves written to the output file
vars == <<pc, input, prog, attr, new_addr, written, out>>

InstrAttr == [new_addr : Nat, jump_target : Nat, target_index : Int]

Size(i) == IF i.compressed THEN 2 ELSE 4

IsJump(op) == op \in {"J", "JAL"}
Transfers(op) == IsJump(op) \/ is_branch(op)

(* The addresses that the sizes of the instructions give. *)
NewAddr(p) == Addresses([k \in DOMAIN p |-> Size(p[k])])

(* The address of k's target relative to the instruction after k.          *)
OffsetOf(a, k) == a[a[k].target_index + 1].new_addr - a[k + 1].new_addr

(* Mutant: the first instruction is no target. *)
HasOffsetNotFirst(a, k) == a[k].target_index \in 1..Len(a) - 1 /\ k < Len(a)

(* The code asserts that the target is in the program. For the last        *)
(* instruction attr[i + 1] is behind the end of the array: the converter's *)
(* Makefile builds it with -fsanitize=address, which ends the process.     *)
HasOffset(a, k) == a[k].target_index \in 0..Len(a) - 1 /\ k < Len(a)

(***************************************************************************)
(* The functions main calls, as operators on the two arrays.               *)
(***************************************************************************)
BranchesHaveOffsets(p, a) == \A k \in DOMAIN p : is_branch(p[k].op) => HasOffset(a, k)

correct_branch_offsets(p, a) ==
  [k \in DOMAIN p |-> IF is_branch(p[k].op) THEN [p[k] EXCEPT !.simm = OffsetOf(a, k)]
                      ELSE p[k]]

JumpsHaveOffsets(p, a) == \A k \in DOMAIN p : IsJump(p[k].op) => HasOffset(a, k)

correct_jump_targets(p, a) ==
  [k \in DOMAIN a |->
     IF IsJump(p[k].op)
     THEN [a[k] EXCEPT !.jump_target = a[a[k].target_index + 1].new_addr]
     ELSE a[k]]

calc_new_addr(p, a) ==
  LET addr == NewAddr(p)
  IN [k \in DOMAIN a |-> [a[k] EXCEPT !.new_addr = addr[k]]]

(* Mutant: both ends of the reach are taken to be inside. *)
CompressibleTooFar(i) ==
  \/ i.op \in {"B", "BAL"}     /\ i.simm \in -JReach..JReach
  \/ i.op \in {"BEQZ", "BNEZ"} /\ i.simm \in -ZReach..ZReach
  \/ i.op \notin PseudoBranch  /\ i.compressed

(* Whether compress_branch finds that the instruction is short. *)
Compressible(i) ==
  \/ i.op \in {"B", "BAL"}     /\ i.simm \in -JReach..JReach - 2
  \/ i.op \in {"BEQZ", "BNEZ"} /\ i.simm \in -ZReach..ZReach - 2
  \/ i.op \notin PseudoBranch  /\ i.compressed

(* Mutants: B and BAL are taken to fit; the flag of an instruction that is *)
(* no branch is cleared.                                                   *)
compress_flags_assumed(p) ==
  [k \in DOMAIN p |->
     [p[k] EXCEPT !.compressed = Compressible(p[k]) \/ p[k].op \in {"B", "BAL"}]]

compress_flags_cleared(p) ==
  [k \in DOMAIN p |->
     [p[k] EXCEPT !.compressed = Compressible(p[k]) /\ is_branch(p[k].op)]]

compress_flags(p) == [k \in DOMAIN p |-> [p[k] EXCEPT !.compressed = Compressible(p[k])]]

(* A J or JAL whose target is near becomes a B or BAL. *)
Converted(i, offset) ==
  [i EXCEPT !.simm = offset, !.op = IF i.op = "J" THEN "B" ELSE "BAL"]

(* Mutant: the range of a short branch is taken to be one step longer. *)
jump_to_branch_too_far(p, a) ==
  [k \in DOMAIN p |->
     IF IsJump(p[k].op) /\ OffsetOf(a, k) \in -JReach..JReach
     THEN Converted(p[k], OffsetOf(a, k))
     ELSE p[k]]

jump_to_branch(p, a) ==
  [k \in DOMAIN p |->
     IF IsJump(p[k].op) /\ OffsetOf(a, k) \in -JReach..JReach - 2
     THEN Converted(p[k], OffsetOf(a, k))
     ELSE p[k]]

(***************************************************************************)
(* The process                                                             *)
(***************************************************************************)
Init ==
  /\ pc = "parse"
  /\ input \in Programs
  /\ prog = <<>>
  /\ attr = <<>>
  /\ new_addr = 0
  /\ written = 0
  /\ out = <<>>

(* What the loop of parse_bin makes of a word. *)
Parsed(w) == conv_to_pseudo(parse_instr(w))

TargetIndex(i, n) ==
  CASE IsJump(i.op)    -> i.addr \div 4
    [] is_branch(i.op) -> n + CDiv(i.simm, 4)
    [] OTHER           -> -1

(* Mutant: the array grows before the instruction is known to be one. *)
ParseInstrEarly ==
  /\ pc = "parse"
  /\ Len(prog) < Len(input)
  /\ LET i     == Parsed(input[Len(prog) + 1])
         instr == [i EXCEPT !.compressed = is_compressible_simple(i)]
     IN /\ prog' = Append(prog, instr)
        /\ IF i.op = "INVALID_OP"
           THEN pc' = "exit" /\ UNCHANGED <<attr, new_addr>>
           ELSE /\ attr' = Append(attr,
                     [new_addr |-> new_addr, jump_target |-> 0,
                      target_index |-> TargetIndex(i, Len(prog) + 1)])
                /\ new_addr' = new_addr + Size(instr)
                /\ UNCHANGED pc
  /\ UNCHANGED <<input, written, out>>

(* One iteration of the loop; num_instr has been incremented when the      *)
(* target is computed.                                                     *)
ParseInstr ==
  /\ pc = "parse"
  /\ Len(prog) < Len(input)
  /\ LET i     == Parsed(input[Len(prog) + 1])
         instr == [i EXCEPT !.compressed = is_compressible_simple(i)]
     IN IF i.op = "INVALID_OP"
        THEN /\ pc' = "exit"
             /\ UNCHANGED <<prog, attr, new_addr>>
        ELSE /\ prog' = Append(prog, instr)
             /\ attr' = Append(attr,
                  [new_addr |-> new_addr,
                   jump_target |-> IF IsJump(i.op) THEN i.addr ELSE 0,
                   target_index |-> TargetIndex(i, Len(prog) + 1)])
             /\ new_addr' = new_addr + Size(instr)
             /\ UNCHANGED pc
  /\ UNCHANGED <<input, written, out>>

(* Mutant: the offsets are left as they were parsed. *)
CorrectOffsetsNot ==
  /\ pc = "parse"
  /\ Len(prog) = Len(input)
  /\ pc' = "jumps"
  /\ UNCHANGED <<input, prog, attr, new_addr, written, out>>

(* The input is at its end; main corrects the branch offsets. *)
CorrectOffsets ==
  /\ pc = "parse"
  /\ Len(prog) = Len(input)
  /\ IF BranchesHaveOffsets(prog, attr)
     THEN /\ prog' = correct_branch_offsets(prog, attr)
          /\ pc' = "jumps"
     ELSE /\ pc' = "abort"
          /\ UNCHANGED prog
  /\ UNCHANGED <<input, attr, new_addr, written, out>>

ConvertJumps ==
  /\ pc = "jumps"
  /\ IF JumpsHaveOffsets(prog, attr)
     THEN /\ prog' = jump_to_branch(prog, attr)
          /\ attr' = correct_jump_targets(prog, attr)
          /\ pc' = "compress"
     ELSE /\ pc' = "abort"
          /\ UNCHANGED <<prog, attr>>
  /\ UNCHANGED <<input, new_addr, written, out>>

(* Mutants: the offsets are not corrected after the pass; there is one     *)
(* pass only; every short branch counts as modified.                       *)
CompressBranchStale ==
  /\ pc = "compress"
  /\ LET p1 == correct_branch_offsets(prog, attr)
         p2 == compress_flags(p1)
         modified == {k \in DOMAIN prog : p2[k].compressed # prog[k].compressed}
     IN /\ prog' = p2
        /\ attr' = calc_new_addr(p2, attr)
        /\ pc' = IF modified = {} THEN "targets" ELSE "compress"
  /\ UNCHANGED <<input, new_addr, written, out>>

CompressBranchOnce ==
  /\ pc = "compress"
  /\ LET p2 == compress_flags(correct_branch_offsets(prog, attr))
         a2 == calc_new_addr(p2, attr)
     IN prog' = correct_branch_offsets(p2, a2) /\ attr' = a2
  /\ pc' = "targets"
  /\ UNCHANGED <<input, new_addr, written, out>>

CompressBranchForever ==
  /\ pc = "compress"
  /\ LET p2 == compress_flags(correct_branch_offsets(prog, attr))
         a2 == calc_new_addr(p2, attr)
         short == {k \in DOMAIN prog : is_branch(p2[k].op) /\ p2[k].compressed}
     IN /\ prog' = correct_branch_offsets(p2, a2)
        /\ attr' = a2
        /\ pc' = IF short = {} THEN "targets" ELSE "compress"
  /\ UNCHANGED <<input, new_addr, written, out>>

(* One call of compress_branch, and the test of the do-while loop. What    *)
(* correct_branch_offsets asserts was asserted before: see OffsetsDefined. *)
CompressBranch ==
  /\ pc = "compress"
  /\ LET p1 == correct_branch_offsets(prog, attr)
         p2 == compress_flags(p1)
         a2 == calc_new_addr(p2, attr)
         modified == {k \in DOMAIN prog : p2[k].compressed # prog[k].compressed}
     IN /\ prog' = correct_branch_offsets(p2, a2)
        /\ attr' = a2
        /\ pc' = IF modified = {} THEN "targets" ELSE "compress"
  /\ UNCHANGED <<input, new_addr, written, out>>

(* Mutant: jumps keep the targets that they had before the loop. *)
CorrectTargetsNot ==
  /\ pc = "targets"
  /\ pc' = "write"
  /\ UNCHANGED <<input, prog, attr, new_addr, written, out>>

CorrectTargets ==
  /\ pc = "targets"
  /\ attr' = correct_jump_targets(prog, attr)
  /\ pc' = "write"
  /\ UNCHANGED <<input, prog, new_addr, written, out>>

(* Mutant: a short instruction is written as four bytes. *)
WriteInstrWide ==
  /\ pc = "write"
  /\ written < Len(prog)
  /\ LET k    == written + 1
         code == write_instr_v2(prog[k])
     IN IF code = NoCode
        THEN pc' = "exit" /\ UNCHANGED <<out, written>>
        ELSE /\ out' = out \o (IF Len(code) = 1 THEN <<0>> \o code ELSE code)
             /\ written' = k
             /\ UNCHANGED pc
  /\ UNCHANGED <<input, prog, attr, new_addr>>

(* One iteration of the loop that writes the output file. An instruction   *)
(* write_instr_v2 does not return for ends the process, with the halves    *)
(* written so far in the file.                                             *)
WriteInstr ==
  /\ pc = "write"
  /\ written < Len(prog)
  /\ LET k    == written + 1
         i    == IF IsJump(prog[k].op) THEN [prog[k] EXCEPT !.addr = attr[k].jump_target]
                 ELSE prog[k]
         code == write_instr_v2(i)
     IN /\ prog' = [prog EXCEPT ![k] = i]
        /\ IF code = NoCode
           THEN /\ pc' = "exit"
                /\ UNCHANGED <<out, written>>
           ELSE /\ out' = out \o code
                /\ written' = k
                /\ UNCHANGED pc
  /\ UNCHANGED <<input, attr, new_addr>>

Return ==
  /\ pc = "write"
  /\ written = Len(prog)
  /\ pc' = "done"
  /\ UNCHANGED <<input, prog, attr, new_addr, written, out>>

Ended == pc \in {"done", "exit", "abort"}

Next == \/ ParseInstr
        \/ CorrectOffsets
        \/ ConvertJumps
        \/ CompressBranch
        \/ CorrectTargets
        \/ WriteInstr
        \/ Return

(* The process runs until it ends. *)
Spec == Init /\ [][Next]_vars /\ WF_vars(Next)

(***************************************************************************)
(* Properties                                                              *)
(***************************************************************************)

(* Every variable has its type; prog and attr have the same length.        *)
TypeOK ==
  /\ pc \in {"parse", "jumps", "compress", "targets", "write", "done", "exit", "abort"}
  /\ input \in Seq(Word)
  /\ prog \in Seq(StructInstr)
  /\ attr \in Seq(InstrAttr)
  /\ Len(attr) = Len(prog) /\ Len(prog) <= Len(input)
  /\ new_addr \in Nat
  /\ written \in 0..Len(prog)
  /\ out \in Seq(Half)

(* main's loop is over, or it has at least been entered. *)
Laid   == \/ pc \in {"targets", "write", "done"}
          \/ pc = "exit" /\ Len(prog) = Len(input)
Laying == pc = "compress" \/ Laid

(* What correct_branch_offsets and correct_jump_targets assert holds for   *)
(* every later call once main's first loops have been through: a jump that *)
(* became a branch has an offset as well.                                  *)
OffsetsDefined ==
  Laying => BranchesHaveOffsets(prog, attr) /\ JumpsHaveOffsets(prog, attr)

(* Between two calls the three copies of the layout agree: the compressed  *)
(* flags, the addresses and the branch offsets; while the file is parsed   *)
(* the running address is the end of what was parsed.                      *)
LayoutConsistent ==
  /\ \A k \in DOMAIN prog : attr[k].new_addr = NewAddr(prog)[k]
  /\ pc = "parse" => new_addr = NewAddr(prog)[Len(prog) + 1]
  /\ Laying => \A k \in DOMAIN prog : is_branch(prog[k].op) => prog[k].simm = OffsetOf(attr, k)

(* A branch that was made short has its target in the reach of the short   *)
(* format under the addresses that hold after the pass, not only under     *)
(* those it was decided with.                                              *)
ShortInReach ==
  Laying => \A k \in DOMAIN prog :
    prog[k].op \in PseudoBranch /\ prog[k].compressed => Compressible(prog[k])

(* When the loop of main ends, no long branch is left that would fit.      *)
NoneLeftToShorten ==
  Laid => \A k \in DOMAIN prog :
    prog[k].op \in PseudoBranch /\ ~prog[k].compressed => ~Compressible(prog[k])

(* A J or JAL that became a branch ends up in the short format. (The long  *)
(* format of B takes its register from the fields of the J.)               *)
NearJumpsShort ==
  Laid => \A k \in DOMAIN prog :
    IsJump(Parsed(input[k]).op) /\ ~IsJump(prog[k].op) => prog[k].compressed

(* A pass never takes a short format back: the number of short             *)
(* instructions only grows, which is why main's loop ends.                 *)
NeverLengthened ==
  [][\A k \in DOMAIN prog : prog[k].compressed => prog'[k].compressed]_vars

(* The file has an instruction where the layout says, whatever             *)
(* write_instr_v2 returned for those before it.                            *)
WrittenAsLaidOut ==
  pc \in {"write", "done", "exit"} => 2 * Len(out) = NewAddr(prog)[written + 1]

(* The process gives up only where the instruction set ends: at a word     *)
(* that is no instruction, and while it writes at MFC0 and MTC0. No        *)
(* compressed instruction has an operand that does not fit its format.     *)
RefusedOnlyUnknown ==
  pc = "exit" =>
    IF written = 0 /\ Len(prog) < Len(input)
    THEN Parsed(input[Len(prog) + 1]).op = "INVALID_OP"
    ELSE prog[written + 1].op \in Cop0

(* The asserts on targets (converter.c:115 and 234) end the process only   *)
(* when a target is outside the program, and so does the read of the       *)
(* element behind the array when the last instruction is a branch or jump, *)
(* although its target may be inside. A branch to the first instruction is *)
(* never refused.                                                          *)
AbortsOnlyOutside ==
  pc = "abort" =>
    \/ Transfers(prog[Len(prog)].op)
    \/ \E k \in DOMAIN prog :
         Transfers(prog[k].op) /\ attr[k].target_index \notin 0..Len(prog) - 1

(* The instruction that a processor of the compressed set finds where the  *)
(* layout puts instruction k.                                              *)
Fetched(k) ==
  LET h == (NewAddr(prog)[k] \div 2) + 1
  IN parse_instr_v2(<<out[h], IF h < Len(out) THEN out[h + 1] ELSE 0>>, Blank)

(* Where the instruction of the input at index k transfers control to, as  *)
(* an index, and where the one in the output does, as an address.          *)
OldTarget(k) ==
  LET i == parse_instr(input[k])
  IN IF IsJump(i.op) THEN (i.addr \div 4) + 1 ELSE k + 1 + (i.simm \div 4)

NewTarget(k) ==
  LET f == Fetched(k)
  IN IF IsJump(f.instr.op) THEN f.instr.addr
     ELSE NewAddr(prog)[k] + f.rc + f.instr.simm

(* Every branch and jump of the output file, decoded again, goes to the    *)
(* address of the instruction that it went to in the input file.           *)
TargetsPreserved ==
  pc = "done" =>
    \A k \in DOMAIN input :
      LET old == parse_instr(input[k]).op IN
      /\ Fetched(k).rc = Size(prog[k])
      /\ Transfers(old) <=> Transfers(Fetched(k).instr.op)
      /\ Transfers(old) => NewTarget(k) = NewAddr(prog)[OldTarget(k)]

(* A program of known instructions whose branches and jumps stay inside it *)
(* and do not come last.                                                   *)
WellFormed(words) ==
  \A k \in DOMAIN words :
    LET i == parse_instr(words[k]) IN
    /\ i.op \in Native \ Cop0
    /\ Transfers(i.op) =>
         /\ k < Len(words)
         /\ (IF IsJump(i.op) THEN (i.addr \div 4) + 1 ELSE k + 1 + (i.simm \div 4))
              \in DOMAIN words

(* Whatever the file holds, the process ends.                              *)
Termination == <>Ended

(* Every well-formed program is converted: the relaxation loop ends, and   *)
(* neither an assertion nor write_instr_v2 stops the process.              *)
Converts == WellFormed(input) ~> (pc = "done")

(***************************************************************************)
(* The loop of main implements the abstract relaxation: a pass is a step   *)
(* that shortens every branch that fits.                                   *)
(***************************************************************************)
ShapeOf(k) ==
  LET Kind(x) == [kind |-> x, target |-> attr[k].target_index + 1]
  IN CASE prog[k].op \in {"B", "BAL"}     -> Kind("J16")
       [] prog[k].op \in {"BEQZ", "BNEZ"} -> Kind("I16")
       [] OTHER -> [kind |-> IF prog[k].compressed THEN "two" ELSE "four", target |-> 0]

R == INSTANCE Relaxation WITH
       Shapes <- {sh \in Seq(ShapeInstr) : IsShape(sh)},
       phase  <- IF Laid THEN "final" ELSE IF Laying THEN "shorten" ELSE "load",
       shape  <- IF Laying THEN [k \in DOMAIN prog |-> ShapeOf(k)] ELSE <<>>,
       short  <- IF Laying THEN {k \in DOMAIN prog : /\ prog[k].op \in PseudoBranch
                                                     /\ prog[k].compressed}
                 ELSE {}

ImplementsRelaxation == R!RSpec
=============================================================================
