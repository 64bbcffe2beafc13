------------------------------ MODULE Simulator ------------------------------
(***************************************************************************)
(* simulator/simulator.c: executes a program of native instructions, or    *)
(* with v2 one of the compressed set, one instruction per cycle. A branch  *)
(* takes effect one instruction later: the cycle that executes it sets     *)
(* jump and jump_addr, the next one executes the instruction behind it and *)
(* moves cur_pc to the target.                                             *)
(*                                                                         *)
(* An access outside the memories that the code does not test for, and a   *)
(* quotient that overflows, end in status "undefined": whatever the build  *)
(* does from there on is not described.                                    *)
(***************************************************************************)
EXTENDS InstrV2, Word32

CONSTANTS
  Commands,      \* command lines: option -c, the program, the data, standard input
  ImemSize,      \* sizes of the memories in bytes
  DmemSize,
  Cycles         \* option -n, where 0 would set no limit

(* The largest memory: the largest number TLC has. The code takes any size *)
(* of 32 bits.                                                             *)
MaxSize == 2147483647

ASSUME SizesAssumption ==
  /\ ImemSize \in Nat /\ 4 <= ImemSize /\ ImemSize <= MaxSize
  /\ DmemSize \in Nat /\ 4 <= DmemSize /\ DmemSize <= MaxSize
  /\ Cycles \in Nat \ {0}

Bytes == 0..255

CommandLine == [v2 : BOOLEAN, program : Seq(Bytes), data : Seq(Bytes),
                input : Seq(Bytes)]

ASSUME CommandsAssumption == Commands \subseteq CommandLine

VARIABLES
  v2,            \* option -c: the compressed instruction set
  status,        \* "running", or how the run ended
  sim,           \* struct simulator
  stdin,         \* what is left of standard input
  is_eof,        \* the UART has reported the end of it
  stdout,        \* the bytes sent over the UART
  cycles,        \* the loop variable of simulator_run
  total_bandwidth
io   == <<stdin, is_eof, stdout>>
vars == <<v2, status, sim, stdin, is_eof, stdout, cycles, total_bandwidth>>

PC_START    == <<16384, 0>>
UART_STATUS == <<65535, 65528>>
UART_DATA   == <<65535, 65532>>

StructSimulator ==
  [cur_pc : Word, jump_addr : Word, jump : BOOLEAN, reg : [Reg -> Word], hi : Word, lo : Word,
   imem : Seq(Bytes), dmem : Seq(Bytes)]

(* A file in a memory of the given size, at an offset. *)
Filled(file, offset, size) ==
  [k \in 1..size |-> IF k - offset \in DOMAIN file THEN file[k - offset] ELSE 0]

Loaded(program, data) ==
  [cur_pc |-> PC_START, jump_addr |-> Zero, jump |-> FALSE, reg |-> [r \in Reg |-> Zero],
   hi |-> Zero, lo |-> Zero,
   imem |-> Filled(program, 0, ImemSize), dmem |-> Filled(data, 4, DmemSize)]

(* n bytes from the offset a are inside a memory of the given size. *)
Inside(a, n, size) == ~Below(ToWord(size - n), a)

Index(a) == a[1] * 65536 + a[2] + 1

HalfAt(m, k) == m[k] * 256 + m[k + 1]
WordAt(m, k) == <<HalfAt(m, k), HalfAt(m, k + 2)>>

(***************************************************************************)
(* The first part of the loop: fetch, advance cur_pc, decode.              *)
(***************************************************************************)
ImemOffset(pc) == Minus(pc, PC_START)

(* u8to32 reads four bytes, also where a short instruction comes last. *)
instr_code == WordAt(sim.imem, Index(ImemOffset(sim.cur_pc)))

IsShort(code) == v2 /\ Negative(code)

Decoded == IF v2 THEN parse_instr_v2(instr_code, Blank)
           ELSE [rc |-> 4, instr |-> parse_instr(instr_code)]
instr == Decoded.instr

Length == IF IsShort(instr_code) THEN 2 ELSE 4

(* Mutant: jump stays set. *)
AdvancedJumping ==
  IF sim.jump THEN [sim EXCEPT !.cur_pc = sim.jump_addr]
  ELSE [sim EXCEPT !.cur_pc = Plus(sim.cur_pc, ToWord(Length))]

Advanced ==
  IF sim.jump THEN [sim EXCEPT !.cur_pc = sim.jump_addr, !.jump = FALSE]
  ELSE [sim EXCEPT !.cur_pc = Plus(sim.cur_pc, ToWord(Length))]

(* With v2 the code looks at the first byte of the next instruction. *)
size_next_instr(s) ==
  IF v2 /\ s.imem[Index(ImemOffset(s.cur_pc))] >= 128 THEN 2 ELSE 4

Fetchable ==
  /\ Inside(ImemOffset(sim.cur_pc), 4, ImemSize)
  /\ v2 /\ Decoded.rc # -1 => Inside(ImemOffset(Advanced.cur_pc), 1, ImemSize)

Looping == status = "running" /\ cycles < Cycles

InProgram == ~Below(sim.cur_pc, PC_START)

(* The decoder's assertion and the one behind it. *)
Known == Decoded.rc # -1 /\ instr.op \in Native

Executes(ops) ==
  /\ Looping /\ InProgram /\ Fetchable /\ Known
  /\ instr.op \in ops
  /\ cycles' = cycles + 1
  /\ UNCHANGED v2
  /\ total_bandwidth' = total_bandwidth + IF instr.compressed THEN 2 ELSE 4

(***************************************************************************)
(* The second part: the switch. The operands are read before anything is   *)
(* written; register 0 is cleared at the end of the cycle.                 *)
(***************************************************************************)
rs == sim.reg[instr.rs]
rt == sim.reg[instr.rt]
simm == ToWord(instr.simm)
imm  == <<0, instr.imm>>

(* Mutant: register 0 keeps what is written to it. *)
RetiredAsIs(s) == s

Retired(s) == [s EXCEPT !.reg[0] = Zero]

SetReg(s, r, value) == [s EXCEPT !.reg[r] = value]

Truth(p) == IF p THEN One ELSE Zero

Result ==
  CASE instr.op = "SLL"  -> sll(rt, instr.shamt)
    [] instr.op = "SRL"  -> srl(rt, instr.shamt)
    [] instr.op = "SRA"  -> sra(rt, instr.shamt)
    [] instr.op = "SLLV" -> sll(rt, rs[2] % 32)
    [] instr.op = "SRLV" -> srl(rt, rs[2] % 32)
    [] instr.op = "SRAV" -> sra(rt, rs[2] % 32)
    [] instr.op \in {"ADD", "ADDU"}   -> Plus(rt, rs)
    [] instr.op \in {"SUB", "SUBU"}   -> Minus(rs, rt)
    [] instr.op = "AND"  -> And(rs, rt)
    [] instr.op = "OR"   -> Or(rs, rt)
    [] instr.op = "XOR"  -> Xor(rs, rt)
    [] instr.op = "NOR"  -> Not(Or(rs, rt))
    [] instr.op \in {"ADDI", "ADDIU"} -> Plus(rs, simm)
    [] instr.op = "ANDI" -> And(rs, imm)
    [] instr.op = "ORI"  -> Or(rs, imm)
    [] instr.op = "XORI" -> Xor(rs, imm)
    [] instr.op = "LUI"  -> <<instr.imm, 0>>
    [] instr.op = "SLT"  -> Truth(slt(rs, rt))
    [] instr.op = "SLTU" -> Truth(Below(rs, rt))
    [] instr.op = "SLTI" -> Truth(slt(rs, simm))
    [] instr.op = "SLTIU" -> Truth(Below(rs, imm))
    [] instr.op = "MFHI" -> sim.hi
    [] instr.op = "MFLO" -> sim.lo

Computing == Shifts \cup ShiftVs \cup Alu \cup AluImm \cup Compare \cup {"MFHI", "MFLO"}
Dest == IF instr.op \in AluImm \cup {"SLTI", "SLTIU"} THEN instr.rt ELSE instr.rd

Compute ==
  /\ Executes(Computing)
  /\ sim' = Retired(SetReg(Advanced, Dest, Result))
  /\ UNCHANGED <<status, io>>

(* MULT and DIV take their operands from the registers as they are. The    *)
(* least number divided by -1 overflows.                                   *)
Overflows == instr.op = "DIV" /\ rs = <<32768, 0>> /\ rt = <<65535, 65535>>

HiLo ==
  LET pair(p)  == [hi |-> p[1], lo |-> p[2]]
      ratio(d) == [hi |-> d.rem, lo |-> d.quot]
      old      == [hi |-> sim.hi, lo |-> sim.lo]
  IN CASE instr.op = "MULT"  -> pair(mult(rs, rt))
       [] instr.op = "MULTU" -> pair(multu(rs, rt))
       [] instr.op = "DIV"   -> IF rt = Zero THEN old ELSE ratio(divs(rs, rt))
       [] instr.op = "DIVU"  -> IF rt = Zero THEN old ELSE ratio(divu(rs, rt))
       [] instr.op = "MTHI"  -> [old EXCEPT !.hi = rs]
       [] instr.op = "MTLO"  -> [old EXCEPT !.lo = rs]

MultiplyDivide ==
  /\ Executes({"MULT", "MULTU", "DIV", "DIVU", "MTHI", "MTLO"})
  /\ IF Overflows
     THEN status' = "undefined" /\ UNCHANGED sim
     ELSE /\ sim' = Retired([Advanced EXCEPT !.hi = HiLo.hi, !.lo = HiLo.lo])
          /\ UNCHANGED status
  /\ UNCHANGED io

(***************************************************************************)
(* Loads and stores: the UART, the data memory, and nothing behind it. The *)
(* address is compared with the size, whatever the width of the access.    *)
(***************************************************************************)
Address == Plus(rs, simm)
Width   == CASE instr.op \in {"LB", "LBU", "SB"} -> 1
             [] instr.op \in {"LH", "LHU", "SH"} -> 2
             [] OTHER -> 4

IsUart == Address \in {UART_STATUS, UART_DATA}
BehindMemory == ~Below(Address, ToWord(DmemSize))

LoadUart ==
  /\ Executes(Loads)
  /\ Address = UART_DATA
  /\ LET byte == IF is_eof THEN 1 ELSE IF stdin = <<>> THEN 0 ELSE Head(stdin)
         read == ~is_eof /\ stdin # <<>>
         value == IF instr.op = "LB" /\ read THEN sign_b(byte) ELSE <<0, byte>>
     IN /\ sim' = Retired(SetReg(Advanced, instr.rt, value))
        /\ stdin' = IF read THEN Tail(stdin) ELSE stdin
        /\ is_eof' = (is_eof \/ stdin = <<>>)
  /\ UNCHANGED <<status, stdout>>

(* The status register is always ready, for both directions. *)
LoadStatus ==
  /\ Executes(Loads)
  /\ Address = UART_STATUS
  /\ sim' = Retired(SetReg(Advanced, instr.rt, <<0, 3>>))
  /\ UNCHANGED <<status, io>>

LoadMemory ==
  /\ Executes(Loads)
  /\ ~IsUart
  /\ LET k == Index(Address)
         value == CASE instr.op = "LB"  -> sign_b(sim.dmem[k])
                    [] instr.op = "LBU" -> <<0, sim.dmem[k]>>
                    [] instr.op = "LH"  -> sign_h(HalfAt(sim.dmem, k))
                    [] instr.op = "LHU" -> <<0, HalfAt(sim.dmem, k)>>
                    [] instr.op = "LW"  -> WordAt(sim.dmem, k)
     IN IF BehindMemory
        THEN sim' = Retired(SetReg(Advanced, instr.rt, Zero)) /\ UNCHANGED status
        ELSE IF Inside(Address, Width, DmemSize)
        THEN sim' = Retired(SetReg(Advanced, instr.rt, value)) /\ UNCHANGED status
        ELSE status' = "undefined" /\ UNCHANGED sim
  /\ UNCHANGED io

(* The bytes of a word from the most significant of its last n on. *)
LastBytes(w, n) == [k \in 1..n |-> Byte(w, n - k)]

Store ==
  /\ Executes(Stores)
  /\ IF IsUart \/ BehindMemory
     THEN /\ sim' = Retired(Advanced)
          /\ stdout' = IF Address = UART_DATA THEN Append(stdout, rt[2] % 256) ELSE stdout
          /\ UNCHANGED status
     ELSE IF Inside(Address, Width, DmemSize)
     THEN /\ sim' = Retired([Advanced EXCEPT !.dmem =
                      [k \in DOMAIN @ |->
                         IF k - Index(Address) \in 0..Width - 1
                         THEN LastBytes(rt, Width)[k - Index(Address) + 1]
                         ELSE @[k]]])
          /\ UNCHANGED <<status, stdout>>
     ELSE status' = "undefined" /\ UNCHANGED <<sim, stdout>>
  /\ UNCHANGED <<stdin, is_eof>>

(***************************************************************************)
(* Branches and jumps, and the end.                                        *)
(***************************************************************************)
Taken ==
  CASE instr.op \in {"BLTZ", "BLTZAL"} -> Negative(rs)
    [] instr.op \in {"BGEZ", "BGEZAL"} -> ~Negative(rs)
    [] instr.op = "BEQ"  -> rs = rt
    [] instr.op = "BNE"  -> rs # rt
    [] instr.op = "BLEZ" -> Negative(rs) \/ rs = Zero
    [] instr.op = "BGTZ" -> ~Negative(rs) /\ rs # Zero

(* Mutant: the instruction in the delay slot is taken to have four bytes. *)
LinkFour == Plus(Advanced.cur_pc, ToWord(4))

Link == Plus(Advanced.cur_pc, ToWord(size_next_instr(Advanced)))

Linking == {"BLTZAL", "BGEZAL", "JAL", "JALR"}
LinkReg == IF instr.op = "JALR" THEN instr.rd ELSE 31

Linked == IF instr.op \in Linking THEN SetReg(Advanced, LinkReg, Link) ELSE Advanced

Branch ==
  /\ Executes(NativeBranch)
  /\ sim' = Retired(IF Taken
                    THEN [Linked EXCEPT !.jump = TRUE,
                                        !.jump_addr = Plus(Advanced.cur_pc, simm)]
                    ELSE Linked)
  /\ UNCHANGED <<status, io>>

(* The upper four bits of a J or JAL come from cur_pc. *)
JumpAddr ==
  IF instr.op \in {"JR", "JALR"} THEN rs
  ELSE <<(Advanced.cur_pc[1] \div 4096) * 4096 + ((instr.addr \div 65536) % 4096),
         instr.addr % 65536>>

Jump ==
  /\ Executes(Jumps)
  /\ sim' = Retired([Linked EXCEPT !.jump = TRUE, !.jump_addr = JumpAddr])
  /\ UNCHANGED <<status, io>>

Stop ==
  /\ Executes(Stops)
  /\ sim' = Retired(Advanced)
  /\ status' = "stopped"
  /\ UNCHANGED io

(***************************************************************************)
(* How a run ends otherwise.                                               *)
(***************************************************************************)
Halt(how) == status' = how /\ UNCHANGED <<v2, sim, io, cycles, total_bandwidth>>

LimitReached == status = "running" /\ cycles = Cycles /\ Halt("limit")
InvalidPc    == Looping /\ ~InProgram /\ Halt("invalid_pc")
FetchOutside == Looping /\ InProgram /\ ~Fetchable /\ Halt("undefined")

(* MFC0 and MTC0 are native, but the switch has no case for them. *)
Unknown ==
  /\ Looping /\ InProgram /\ Fetchable
  /\ ~Known \/ instr.op \in Cop0
  /\ Halt("abort")

(* main: a file that does not fit ends the process. The data file starts   *)
(* at address 4.                                                           *)
Init ==
  /\ \E c \in Commands :
       /\ v2 = c.v2
       /\ sim = Loaded(c.program, c.data)
       /\ status = IF Len(c.program) <= ImemSize /\ Len(c.data) <= DmemSize - 4
                   THEN "running" ELSE "exit"
       /\ stdin = c.input
  /\ is_eof = FALSE
  /\ stdout = <<>>
  /\ cycles = 0
  /\ total_bandwidth = 0

Next == \/ Compute \/ MultiplyDivide
        \/ LoadUart \/ LoadStatus \/ LoadMemory \/ Store
        \/ Branch \/ Jump \/ Stop
        \/ LimitReached \/ InvalidPc \/ FetchOutside \/ Unknown

Spec == Init /\ [][Next]_vars /\ WF_vars(Next)

(***************************************************************************)
(* Properties                                                              *)
(***************************************************************************)
Ends == {"stopped", "limit", "invalid_pc", "undefined", "abort", "exit"}

(* Every variable has its type, and register 0 holds zero between cycles.  *)
TypeOK ==
  /\ v2 \in BOOLEAN
  /\ status \in {"running"} \cup Ends
  /\ sim \in StructSimulator
  /\ Len(sim.imem) = ImemSize /\ Len(sim.dmem) = DmemSize
  /\ sim.reg[0] = Zero
  /\ stdin \in Seq(Bytes) /\ stdout \in Seq(Bytes)
  /\ is_eof \in BOOLEAN
  /\ cycles \in 0..Cycles
  /\ total_bandwidth \in 2 * cycles..4 * cycles

(* The processor the cycles implement: a branch or a jump decides what is  *)
(* executed after the instruction behind it, wherever it stands.           *)
AddressBehind(a) ==
  LET offset == ImemOffset(a)
      short  == v2 /\ Inside(offset, 1, ImemSize) /\ sim.imem[Index(offset)] >= 128
  IN Plus(a, ToWord(IF short THEN 2 ELSE 4))

Slot == IF sim.jump THEN sim.jump_addr ELSE AddressBehind(sim.cur_pc)

D == INSTANCE DelaySlot WITH
       halted <- status # "running",
       pc     <- sim.cur_pc,
       npc    <- Slot,
       kind   <- IF instr.op \in Jumps THEN "jump"
                 ELSE IF instr.op \in NativeBranch THEN "branch" ELSE "none",
       target <- IF instr.op \in NativeBranch THEN Plus(Slot, simm) ELSE JumpAddr,
       behind <- AddressBehind(Slot)

ImplementsDelaySlot == D!DSpec

(* A load outside the data memory is ignored and reads zero, as the        *)
(* comments at simulator.c:273, 329 and 391 say; it never leaves it.       *)
LoadsStayInside ==
  status = "undefined" => ~(Fetchable /\ instr.op \in Loads)

(* A cur_pc that leaves the program is reported in the next cycle, as the  *)
(* message at simulator.c:481 says; nothing is read there before.          *)
InvalidPcReported ==
  status = "undefined" =>
    (Inside(ImemOffset(sim.cur_pc), 4, ImemSize) /\ Below(Advanced.cur_pc, PC_START) => Fetchable)
=============================================================================
