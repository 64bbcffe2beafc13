----------------------------- MODULE Toolchain -----------------------------
(***************************************************************************)
(* test.pl: runs a program on the simulator, converts it, and runs what    *)
(* the converter wrote with the same data, input and number of cycles. Its *)
(* verdict is on the output; this module keeps the state before every      *)
(* cycle of the first run (test.pl: the trace of option -t) and compares   *)
(* all of it.                                                              *)
(***************************************************************************)
EXTENDS Converter

LOCAL INSTANCE SequencesExt

CONSTANTS DataFiles, Inputs, ImemSize, DmemSize, Cycles

VARIABLES
  phase,         \* the line of test.pl: "reference", "convert", "compressed", "compared"
  data, ref_in,  \* the data file and the input, the same for both runs
  v2,            \* which of the programs the simulator runs
  status, sim, stdin, is_eof, stdout, cycles, total_bandwidth,
  trace          \* what the first run went through

run == <<v2, status, sim, stdin, is_eof, stdout, cycles, total_bandwidth>>
test == <<phase, data, ref_in, trace>>

S == INSTANCE Simulator WITH Commands <- {}

(* The files: big-endian bytes of words, and of the halves of out. *)
Split(halves) ==
  [k \in 1..2 * Len(halves) |->
     LET half == halves[(k + 1) \div 2] IN IF k % 2 = 1 THEN half \div 256 ELSE half % 256]

BinU == Split(FlattenSeq(input))
BinC == Split(out)

TInit ==
  /\ Init
  /\ phase = "reference"
  /\ data \in DataFiles
  /\ ref_in \in Inputs
  /\ v2 = FALSE
  /\ status = "running"
  /\ sim = S!Loaded(BinU, data)
  /\ stdin = ref_in
  /\ is_eof = FALSE
  /\ stdout = <<>>
  /\ cycles = 0
  /\ total_bandwidth = 0
  /\ trace = <<>>

(* What there is to see of a run between two cycles. *)
Visible == [status |-> status, sim |-> sim, stdin |-> stdin, stdout |-> stdout,
            cycles |-> cycles, bandwidth |-> total_bandwidth]

SimulateReference ==
  /\ phase = "reference"
  /\ S!Next
  /\ trace' = Append(trace, Visible)
  /\ UNCHANGED <<vars, phase, data, ref_in>>

StartConverter ==
  /\ phase = "reference"
  /\ status # "running"
  /\ trace' = Append(trace, Visible)
  /\ phase' = "convert"
  /\ UNCHANGED <<vars, data, ref_in, run>>

Convert ==
  /\ phase = "convert"
  /\ Next
  /\ UNCHANGED <<test, run>>

(* test.pl does not look at the converter's return value; without a        *)
(* converted program there is nothing to compare.                          *)
StartCompressed ==
  /\ phase = "convert"
  /\ pc = "done"
  /\ phase' = "compressed"
  /\ v2' = TRUE
  /\ status' = "running"
  /\ sim' = S!Loaded(BinC, data)
  /\ stdin' = ref_in
  /\ is_eof' = FALSE
  /\ stdout' = <<>>
  /\ cycles' = 0
  /\ total_bandwidth' = 0
  /\ UNCHANGED <<vars, data, ref_in, trace>>

SimulateCompressed ==
  /\ phase = "compressed"
  /\ S!Next
  /\ UNCHANGED <<vars, test>>

CompareRuns ==
  /\ phase = "compressed"
  /\ status # "running"
  /\ phase' = "compared"
  /\ UNCHANGED <<vars, data, ref_in, trace, run>>

(* Nothing else ends the test. *)
Verdict == phase = "compared" /\ UNCHANGED <<vars, test, run>>

TNext == SimulateReference \/ StartConverter \/ Convert \/ StartCompressed
           \/ SimulateCompressed \/ CompareRuns \/ Verdict

tvars == <<vars, test, run>>

TSpec == TInit /\ [][TNext]_tvars

(***************************************************************************)
(* Properties                                                              *)
(***************************************************************************)
CodeAddress(k) == S!Plus(S!PC_START, S!ToWord(k))

(* Every address of the code in the first program, and where the converter *)
(* put the instruction.                                                    *)
Moved == {<<CodeAddress(4 * (k - 1)), CodeAddress(NewAddr(prog)[k])>> : k \in 1..Len(prog) + 1}

Corresponds(a, b) == a = b \/ <<a, b>> \in Moved

(* The same state of the two runs, the addresses of code moved. *)
Alike(step) ==
  LET old == step.sim IN
  /\ step.status = status /\ step.cycles = cycles
  /\ IF S!Below(old.cur_pc, S!PC_START) THEN old.cur_pc = sim.cur_pc
     ELSE <<old.cur_pc, sim.cur_pc>> \in Moved
  /\ old.jump = sim.jump
  /\ sim.jump => Corresponds(old.jump_addr, sim.jump_addr)
  /\ \A r \in Reg : Corresponds(old.reg[r], sim.reg[r])
  /\ old.hi = sim.hi /\ old.lo = sim.lo
  /\ \A k \in DOMAIN sim.dmem : k % 4 = 1 =>
       Corresponds(S!WordAt(old.dmem, k), S!WordAt(sim.dmem, k))
  /\ step.stdin = stdin /\ step.stdout = stdout

(* The converted program does in every cycle what the original does: they  *)
(* are at the same instruction, their registers and memories hold the same *)
(* values but for addresses of code, and what they read and wrote is the   *)
(* same; they end in the same cycle and in the same way. The converted     *)
(* program never fetches more bytes.                                       *)
SameCycleByCycle ==
  phase = "compressed" =>
    LET n == IF status = "running" THEN cycles + 1 ELSE Len(trace)
    IN /\ n \in DOMAIN trace
       /\ Alike(trace[n])
       /\ total_bandwidth <= trace[n].bandwidth

(* What test.pl prints an "f" for otherwise: the output of the converted   *)
(* program is that of the original (test.pl:72).                           *)
SameOutput == phase = "compared" => stdout = trace[Len(trace)].stdout
=============================================================================
