------------------------------ MODULE Inspect ------------------------------
(***************************************************************************)
(* A program seen by all the tools that read it: the analyzer and the      *)
(* disassembler on the input of the converter, and both, with -c, on what  *)
(* the converter made of it or on a compressed file of other origin. The   *)
(* analyzer has its own copy of the converter's rules; what it estimates   *)
(* is compared here with what the converter does.                          *)
(***************************************************************************)
EXTENDS Converter, Analyzer, Disas, SequencesExt

CONSTANT CompressedFiles     \* files in the compressed set that no converter wrote

ASSUME CompressedAssumption == CompressedFiles \subseteq Seq(Half)

VARIABLES
  tool,          \* "count", "convert", "count -c", "list", "list -c", "over"
  counted,       \* the statistics the analyzer had of the native program
  listed         \* and the text the disassembler made of it
ivars == <<tool, counted, listed>>

NativeFile == [k \in 1..2 * Len(input) |-> input[(k + 1) \div 2][2 - (k % 2)]]

StartAnalyzer(file, command) ==
  LET a == Started(file, command)
  IN /\ options' = a.options /\ contents' = a.contents /\ at' = a.at /\ stat' = a.stat
     /\ stage' = a.stage /\ u_iter' = a.u_iter /\ s_iter' = a.s_iter /\ rows' = a.rows

StartDisas(file, compressed) ==
  /\ v2' = compressed /\ bytes' = file /\ taken' = 0 /\ addr' = 0
  /\ listing' = <<>> /\ ending' = "none" /\ conv' = conv

Command(compressed) == [v2 |-> compressed, psd |-> conv, imm_stat |-> TRUE]

(* Either a program to be converted, or a converter that has run before.   *)
IInit ==
  /\ conv \in BOOLEAN
  /\ v2 = FALSE /\ bytes = <<>> /\ taken = 0 /\ addr = 0 /\ listing = <<>> /\ ending = "none"
  /\ counted = NoStat /\ listed = <<>>
  /\ new_addr = 0 /\ written = 0 /\ prog = <<>> /\ attr = <<>>
  /\ \/ /\ tool = "count" /\ pc = "parse" /\ input \in Programs /\ out = <<>>
        /\ options = Command(FALSE) /\ contents = NativeFile
     \/ /\ tool = "count -c" /\ pc = "done" /\ input = <<>> /\ out \in CompressedFiles
        /\ options = Command(TRUE) /\ contents = out
  /\ at = 0 /\ stat = NoStat /\ stage = "read" /\ u_iter = 0 /\ s_iter = 0 /\ rows = <<>>

Analyze ==
  /\ tool \in {"count", "count -c"}
  /\ ANext
  /\ UNCHANGED <<vars, dvars, ivars>>

AnalyzerEnded == stage \in {"done", "crash", "abort"}

CountedNative ==
  /\ tool = "count" /\ AnalyzerEnded
  /\ tool' = "convert" /\ counted' = stat
  /\ UNCHANGED <<vars, avars, dvars, listed>>

ConvertStep ==
  /\ tool = "convert"
  /\ Next
  /\ UNCHANGED <<avars, dvars, ivars>>

CountCompressed ==
  /\ tool = "convert" /\ pc = "done"
  /\ tool' = "count -c"
  /\ StartAnalyzer(out, Command(TRUE))
  /\ UNCHANGED <<vars, dvars, counted, listed>>

ListNative ==
  /\ tool = "count -c" /\ AnalyzerEnded
  /\ tool' = "list"
  /\ StartDisas(NativeFile, FALSE)
  /\ UNCHANGED <<vars, avars, counted, listed>>

List ==
  /\ tool \in {"list", "list -c"}
  /\ DNext
  /\ UNCHANGED <<vars, avars, ivars>>

ListCompressed ==
  /\ tool = "list" /\ ending # "none"
  /\ tool' = "list -c" /\ listed' = listing
  /\ StartDisas(out, TRUE)
  /\ UNCHANGED <<vars, avars, counted>>

Over ==
  /\ tool = "list -c" /\ ending # "none"
  /\ tool' = "over"
  /\ UNCHANGED <<vars, avars, dvars, counted, listed>>

INext == Analyze \/ CountedNative \/ ConvertStep \/ CountCompressed
           \/ ListNative \/ List \/ ListCompressed \/ Over

ISpec == IInit /\ [][INext]_<<vars, avars, dvars, ivars>>

(***************************************************************************)
(* Properties                                                              *)
(***************************************************************************)
Converting == input # <<>> /\ pc = "done"

(* The bag of the values of a function. *)
BagOf(f) == [v \in {f[k] : k \in DOMAIN f} |-> Cardinality({k \in DOMAIN f : f[k] = v})]

(* What the analyzer with -p makes of a native program is an upper bound   *)
(* for the size of what the converter writes: shortening only brings       *)
(* targets nearer.                                                         *)
EstimateBounds ==
  Converting /\ conv /\ tool # "convert" => comp_size(counted) >= 2 * Len(out)

(* What the word of an instruction is to a NOP behind it. *)
SlotOf(w) ==
  LET op == parse_instr(w).op
  IN CASE is_branch(op) -> "branch" [] op \in Jumps -> "jump" [] op \in Loads -> "load"
       [] OTHER -> "other"

(* Among the first n words of the program: those that are instructions,    *)
(* and the branches, jumps and loads among them that the next one is a NOP *)
(* behind.                                                                 *)
KnownAmong(n) == {k \in 1..n : parse_instr(input[k]).op # "INVALID_OP"}

BeforeNop(n) ==
  {j \in KnownAmong(n) :
     /\ SlotOf(input[j]) # "other"
     /\ \E k \in KnownAmong(n) :
          /\ j < k /\ \A l \in KnownAmong(n) : l <= j \/ k <= l
          /\ Parsed(input[k]).op = "NOP"}

(* The pairs that the analyzer counts are the NOPs behind a branch, a jump *)
(* or a load, where a word that is no instruction is as if it were not     *)
(* there: it does not take back the flags (analyzer.c:614).                *)
NopPairs ==
  AnalyzerEnded /\ tool = "count" =>
    stat.nops = BagOf([j \in BeforeNop(Len(input)) |-> SlotOf(input[j])])

(* Not every pseudo instruction is the same again when it is read back: a  *)
(* shift of $0 by 0 is a MOV, whose short form is a CLEAR, and a CLEAR of  *)
(* $0 comes back as a NOP. A long BEQZ made of beq $0, $r keeps its two    *)
(* registers and is a BEQ then; a long B made of beq $r, $r is written as  *)
(* bgez $r.                                                                *)
Reduced ==
  \A k \in DOMAIN prog :
    LET i == prog[k]
    IN /\ i.op = "MOV" => i.rt # 0
       /\ i.op = "CLEAR" => i.rd # 0
       /\ ~i.compressed => /\ i.op \in {"BEQZ", "BNEZ"} => i.rt = 0
                           /\ i.op = "B" => i.rs = 0

(* The analyzer, reading the converted program with -c -p, finds what the  *)
(* converter wrote: the same operations, the same ones short (and every    *)
(* long access to the stack, because parse_instr_v2 sets no imm for it),   *)
(* the offsets of the layout (but for BLEZ and BGTZ, which are missing in  *)
(* analyzer.c:182). And it finds what it found in the native program: the  *)
(* same immediates, stack accesses, NOPs in delay slots and registers (but *)
(* for SLTZ, of which it counts the rt, a field of the encoding).          *)
AnalyzerAgrees ==
  Converting /\ tool = "count -c" /\ stage \in {"merge", "done", "crash"} /\ conv /\ Reduced =>
    LET Of(P(_)) == {k \in DOMAIN prog : P(prog[k])}
        branches == Of(LAMBDA i : is_branch(i.op) /\ i.op \notin {"BLEZ", "BGTZ"})
        small    == Of(LAMBDA i : i.compressed \/ (i.op \in {"LW", "SW"} /\ i.rs = 29))
    IN /\ stat.freq = BagOf([k \in DOMAIN prog |-> prog[k].op])
       /\ stat.freq_comp = BagOf([k \in small |-> prog[k].op])
       /\ stat.branch_list = BagOf([k \in branches |-> Int16(prog[k].simm)])
       /\ BagCardinality(stat.nops) = BagCardinality(counted.nops)
       /\ \A table \in {"uimm_list", "simm_list", "mem_stat", "rs_count"} :
            stat[table] = counted[table]
       /\ stat.rd_count = counted.rd_count \/ "SLTZ" \in DOMAIN stat.freq

(* The table of the immediates has every value of either list once, in     *)
(* ascending order, with its two counts.                                   *)
MergedOnce ==
  stage = "done" =>
    /\ \A k \in 1..Len(rows) - 1 : rows[k].value < rows[k + 1].value
    /\ {rows[k].value : k \in DOMAIN rows} = DOMAIN stat.uimm_list \cup DOMAIN stat.simm_list
    /\ \A k \in DOMAIN rows :
         /\ rows[k].unsigned = Times(rows[k].value, stat.uimm_list)
         /\ rows[k].signed = Times(rows[k].value, stat.simm_list)

Names(lines) ==
  BagOf([k \in {n \in DOMAIN lines : lines[n].name # "unknown"} |-> lines[k].name])

Known(freq) == [op \in DOMAIN freq \ Cop0 |-> freq[op]]

(* The disassembler prints the instructions that the analyzer counts, of   *)
(* either set and of any file that it reads to its end.                    *)
ListedAsCounted ==
  ending = "done" =>
    CASE tool = "list"   -> Names(listing) = Known(counted.freq)
      [] tool = "list -c" -> Names(listing) = Known(stat.freq)
      [] OTHER -> TRUE

(* The target that a reader finds in line k of a listing. *)
TargetShown(lines, k) ==
  LET l == lines[k]
  IN IF l.name \in {"J", "JAL"} THEN l.operands[1]
     ELSE l.at + (IF l.c THEN 2 ELSE 4) + Last(l.operands)

(* A line without its target. The short form of an ADDU, OR or XOR has the *)
(* destination as its first operand, in whichever place it was before.     *)
Without(l) ==
  LET o == IF is_branch(l.name) \/ IsJump(l.name) THEN Front(l.operands) ELSE l.operands
  IN [name |-> CASE l.name = "J" -> "B" [] l.name = "JAL" -> "BAL" [] OTHER -> l.name,
      operands |-> IF l.name \in {"ADDU", "OR", "XOR"} THEN <<o[1], {o[2], o[3]}>> ELSE o]

(* The listings of a program before and after the conversion, both with    *)
(* -p, are the same but for addresses and offsets: a line of the second    *)
(* has the address of the layout, and a branch or jump in it goes to the   *)
(* line that it goes to in the first.                                      *)
SameListing ==
  Converting /\ tool = "list -c" /\ ending = "done" /\ conv /\ Reduced =>
    /\ Len(listing) = Len(listed)
    /\ \A k \in DOMAIN listing :
         /\ listing[k].at = NewAddr(prog)[k] /\ listing[k].c = prog[k].compressed
         /\ Without(listing[k]) = Without(listed[k])
         /\ Transfers(listed[k].name) =>
              listing[TargetShown(listed, k) \div 4 + 1].at = TargetShown(listing, k)
=============================================================================
