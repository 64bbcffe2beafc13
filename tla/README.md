# Verification of Compr-MIPS

TLA+ models of the tools of Compr-MIPS, their model-checking runs, and theorems about them that the
TLA+ proof system checks. Compr-MIPS adds 16-bit instruction formats to MIPS-I: a *converter*
rewrites a program of 32-bit words into the mixed format, a *simulator* executes both, and an
*analyzer* and a *disassembler* inspect them. Paths are relative to the repository (`src/`).

## 1. Inventory

| component | state | operations | interacts with | hard behaviour |
|---|---|---|---|---|
| native codec, `common/instr.c` | none | `parse_instr`, `conv_to_pseudo`, `is_compressible_simple`, `conv_to_native`, `write_instr` | called by every tool | ~60 operations with overlapping pseudo forms; field widths; operations that parse but cannot be written |
| compressed codec, `common/v2_instr.c` | none | `parse_instr_v2`, `write_instr_v2` | calls `write_instr`; called by converter, simulator, analyzer, disassembler | 5-bit operands, 10-bit offsets, formats that share opcodes, an unknown opcode that leaves its result as it was |
| converter, `converter/converter.c` | `prog`, `attr` (address, jump target, index of the target), `num_instr` | `parse_bin`, `correct_branch_offsets`, `correct_jump_targets`, `calc_new_addr`, `compress_branch`, `main` | both codecs; files | the relaxation loop: sizes depend on addresses and addresses on sizes; asserts; failure with part of the output written |
| simulator, `simulator/simulator.c` | registers, `hi`/`lo`, memories, `cur_pc`, `jump`, `jump_addr`, end of input | one cycle of `simulator_run`, loads and stores, the UART | decoders; standard input and output | delay slots, links in delay slots, two instruction sizes, bounds of the memories, end of input |
| analyzer, `analyzer/analyzer.c`, `imm_list.c` | counters, three flags about the instruction before, lists of immediates | `update_*`, `imm_list_*`, merge of two lists | decoders | flags that survive an invalid word, merge of empty lists |
| disassembler, `disas/disas.c`, `common/print_instr.c` | list of targets | printing | decoders | labels of targets in two formats |
| UART escaping, `uart_escape/uart_escape.c` | position in the stream | copy, escape, end mark | simulator and `getchar` of `bench/common/stdio.c` | escape state at the end of the input |
| benchmark runtime, `bench/common/` | buffer of one character | `getchar`, `ungetchar`, `mul`, `div`, fixed point | simulator's UART | end mark, one-character buffer; long division at the limit of its registers, rounding, overflow |
| calculator, `bench/calc.c` | operator stack, ring of tokens | `parse_token`, `parse_term`, `calc_term` | `getchar`/`ungetchar`, fixed point | both arrays full; a line that fails leaves nothing for the next; counters of 8 bits |
| other benchmarks, `bench/*.c` | - | workloads | run on the simulator | not part of the tool chain; `lz4.[ch]` is third-party code |
| end-to-end test, `test.pl` | - | runs original and converted program on the simulator and compares their output | all tools | - |

What makes each correct:

* *codecs*: what is written is decoded again to the same instruction; an instruction taken for
  compressible fits its 16-bit format; a value never leaves its field.
* *converter*: the process ends; it converts every well-formed program; sizes, addresses and offsets
  describe one layout whenever the code relies on it; a short branch is in reach in the final layout;
  every transfer of control goes where it went; it gives up only for the reasons the code names.
* *simulator*: the delay slot executes exactly once, register 0 stays zero, the memories are not left.
* *converter and simulator*: the converted program does what the original does (`test.pl`).
* *UART path*: the program reads exactly the bytes sent, and the end after the last one and not before.
* *analyzer and disassembler*: the estimate of the size bounds what the converter achieves; both read a
  converted program as they read the original.
* *calculator*: the answer is the value of the term; a line has no effect on later ones; no array is left.

The hazards, each at its line and with the properties that would catch it, are in `PROJECT.json`.

## 2. Modules

| module | models | kind |
|---|---|---|
| `Instr` | `common/instr.c`, `instr.h` | operators |
| `InstrV2` | `common/v2_instr.c` | operators |
| `Layout` | `calc_new_addr`, the addresses that a sequence of sizes gives | operators |
| `Relaxation` | what compressing the branches promises, without instructions or passes | abstract specification |
| `Converter` | `converter/converter.c`, the process | detailed specification |
| `Word32` | the arithmetic of `simulator.c` on `uint32_t`: shifts, comparisons, products, quotients | operators |
| `Simulator` | `simulator/simulator.c`, a cycle per step | detailed specification |
| `DelaySlot` | what the simulator promises of the control flow: two program counters | abstract specification |
| `Toolchain` | `test.pl`: the simulator, the converter, and the simulator again | composition |
| `Uart` | `uart_escape.c`, the pipe, the UART of `simulator.c`, `getchar` and `ungetchar` of `bench/common/stdio.c` | detailed specification |
| `Channel` | what a program may expect of `getchar` | abstract specification |
| `InstrFile` | how analyzer and disassembler read a file of either instruction set | operators |
| `Analyzer` | `analyzer/analyzer.c`, `imm_list.c` | detailed specification |
| `Disas` | `disas/disas.c`, `common/print_instr.c` | detailed specification |
| `Inspect` | analyzer, converter and disassembler on the same program | composition |
| `LongDivision` | the loop of `fix_divu` (`fix16.c`) and `divu32` (`div.c`) | detailed specification |
| `Fix16` | `bench/common/fix16.c` | operators |
| `Calc` | `bench/calc.c`; divides with `LongDivision` | detailed specification |
| `CalcTerms` | the value of a term, defined on the grammar; the properties of `Calc` that need it | reference definition |
| `MCRelaxation`, `MCConverter`, `MCSimulator`, `MCToolchain`, `MCUart`, `MCInspect`, `MCCalc` | instances for TLC | model checking |
| `LayoutProofs`, `InstrProofs`, `RelaxationProofs`, `ConverterProofs`, `SimulatorProofs`, `UartProofs`, `CalcProofs`, `InspectProofs` | | theorems and proofs |

**Words.** A 32-bit word is a pair of halves `<<high, low>>`, so that TLC's 32-bit integers never
overflow, and the fields are arithmetic on the halves. A decoded instruction is a record with the
fields of `struct instr`. `parse_instr`, `conv_to_pseudo` and the writers are translated case by case,
with groups of operations that the code treats alike as sets. `write_instr` gives `NoCode` where the
code calls `exit` or fails an `assert`: both end the process, and `Converter` treats them alike. The
operators agree with the compiled C code on 7500 random words, branches and boundary values.

**`Converter`.** `prog` and `attr` are the arrays of the code. `pc` names where `main` is:

| action | code |
|---|---|
| `ParseInstr` | one iteration of `parse_bin` (converter.c:51-103); `exit` at an unknown word |
| `CorrectOffsets` | the first `correct_branch_offsets` of `main` |
| `ConvertJumps` | `main`'s loop that turns near J and JAL into B and BAL (226-249) |
| `CompressBranch` | one call of `compress_branch`: correct, decide, lay out, correct (167-197), and the loop's test |
| `CorrectTargets` | `correct_jump_targets` after the loop |
| `WriteInstr` | one iteration of the last loop (259-286); `exit` where the instruction has no code |
| `Return` | the end of `main` |

The process ends in `done`, `exit` (an error exit) or `abort` (an assert, or the sanitizer with which
`converter/Makefile` builds the tool). One iteration of each loop that touches files is a step; the
loops over `prog` inside a function are one step, as nothing can observe them half done.

**`Relaxation`** is the abstract specification: a program is only the kind and target of each
instruction; in a step any branches that fit under the present layout become short, until none is
left. `Converter` implements it (`ImplementsRelaxation`): each pass shortens all that fit at once.

**`Simulator`.** `sim` is the struct of the code; registers and addresses are pairs of halves, memories are
sequences of bytes. A step is one turn of the loop of `simulator_run`, from the fetch to the clearing of register 0:

| action | code |
|---|---|
| `Compute`, `MultiplyDivide` | the cases from SLL to LUI and SLT to SLTIU; MFHI to DIVU |
| `LoadUart`, `LoadStatus`, `LoadMemory`, `Store` | `lb` to `sw`: the UART's two registers, the memory, nothing behind it |
| `Branch`, `Jump`, `Stop` | BLTZ to BGTZ; J to JALR; SYSCALL and BREAK |
| `LimitReached`, `InvalidPc`, `Unknown` | the loop's condition; a `cur_pc` below the program; the two asserts |
| `FetchOutside` | a fetch behind the instruction memory, for which the code has no test |

What the code does not define (a fetch or an access that crosses the end of a memory, a quotient that
overflows) ends the run as `undefined`: nothing is claimed of what comes after. `v2` is option `-c`; tracing,
printing and the text of warnings are left out. The module was run against the compiled simulator on some 380
random programs in both modes: registers, `hi`, `lo`, output, bandwidth and the way the run ends agree.

**`DelaySlot`** has two program counters and no data: an instruction decides only what comes after the next
one. `npc` is `jump_addr` while `jump` is set, and otherwise the address behind the instruction at `cur_pc`.

**`Toolchain`** is `test.pl` for one program. It EXTENDS `Converter` and has an instance of `Simulator`, which runs
first the original without `v2` and then the converted program with it. `trace` keeps the states of the first
run, and the second is compared with them cycle by cycle. An address of the code in a register or in memory
corresponds to the new address of the same instruction; everything else has to be equal.

**`Uart`** is the pipeline `cat file | uart_escape | simulator` of `test.pl`, or `cat file | simulator` for a
text, with a program that calls `getchar`. The line has no end of file of its own: `uart_escape` doubles a zero
byte and writes 0 1 for the end, and the simulator makes up a 0 and then 1s when its input has ended.

| action | code |
|---|---|
| `ReadFile` | one turn of `uart_escape`'s loop: what it writes for a byte, or for the end |
| `WritePipe`, `ClosePipe` | a `putchar` that has room in the pipe; the end of the process |
| `GetBuffered` | `getchar` with a character given back (stdio.c:42) |
| `GetFirst`, `GetSecond` | its two reads of the UART (47-49, 51-55), between which the writer goes on |
| `UngetChar` | `ungetchar`, which refuses when the buffer is full |

`Channel` is the specification of all that: the bytes one after the other, the last one back, the end once
they are all taken. `AfterTheEnd` is about a program that goes on reading: for an escaped file it gets a second
`EOF`, then bytes of value 1 for ever, and for a text those at once.

**`Analyzer`** keeps the tables of the code as bags. `ReadInstr` is one turn of the loop of `analyze2` with all
six `update_*`; `PrintStat` its end; `UnsignedRow`, `SignedRow`, `BothRow` and `EmptyRow` the turns of the
do-while loop that merges the two sorted lists of immediates. **`Disas`** has `PrintLine` (a turn of its loop,
with `print_instr` and its operands in order) and `EndListing`. **`Inspect`** runs the analyzer on a native
program, the converter, the analyzer with `-c` on the result, and the disassembler on both; or the last three on
a compressed file of other origin, with unknown opcodes.

**`Calc`** has lines of characters to read. `ReadToken`, `PopToParenthesis`, `PopOperators` and `Drain` are the
loops of `parse_term`; `CalcNumber`, `CalcOperator`, `CalcDivision` and `CalcRefused` the turns of the loop of
`calc_term`, `PrintResult` its end; `DivideStep` and `DivideEnd` the division, of which every iteration is a
step. `ReadUndefined` ends the program as `undefined` where `fix_parse` divides by 0 (fix16.c:150: ten to the
number of digits is kept in a word, and is 0 once there are as many digits as the word has bits). Width, fraction
and array sizes are constants. What `parse_token` gives back with `ungetchar` stays in the
text: it is one character at a time, for which `Uart` shows that the buffer is enough.

`Analyzer`, `Disas` and `Fix16` were run against the compiled tools and functions on random files and numbers,
and agree with them.

## 3. Runs

| run | instance | what it shows |
|---|---|---|
| `relaxation` | every program shape of four instructions, reaches 8 and 4 bytes | no shortened branch is pushed out of reach; every order ends in the same least set; it is reached |
| `converter` | 1695 input files (27,305 states): every program of four with branches, jumps and plain instructions in the first two places and a branch or a plain one in the third, programs of six that need up to three changing passes, programs that are refused | layout, offsets and output agree; nothing is refused but for the reasons in the code; every transfer goes where it went; it ends, converts every well-formed program, and implements `Relaxation` |
| `converter_far` | a long field of eight bytes | *violation*: see below |
| `simulator` | some 4400 command lines: in either instruction set, a transfer, then two more places with transfers and plain instructions of both lengths; every load and store at both ends of the memory and at the UART; each way to end | types, register 0, and the refinement of `DelaySlot`, also with branches in delay slots |
| `simulator_outside`, `simulator_invalid` | the programs of `simulator` | *violations*: see below |
| `toolchain` | 1571 programs with two inputs: every operation with operands in up to four registers and values at the edges of the short fields, loads and stores, branches that stay long and that become short, loops, calls and returns, input and output | `SameCycleByCycle`: registers, `hi`, `lo`, memory, input, output and the end are those of the original in every cycle, and no run fetches more bytes. A test that stops before its verdict is reported as a deadlock |
| `toolchain_changed` | programs with a shift by `$0` and a far comparison of `$0` with a register | *violations*: see below |
| `uart` | every file of up to four of the bytes 0, 1, 65 and 255, escaped, and every text of up to three without a zero (45,327 states) | the refinement of `Channel`, what follows the end, and that the end comes |
| `inspect` | branches and jumps that just reach or just miss with the reaches of the code (32 and 1024), every operation with operands that make pseudo instructions, values that a signed and an unsigned instruction share, NOPs and unknown words in delay slots, broken compressed files (118,476 states) | the analyzer's estimate is a bound, its counts of the converted program are those of the original, the disassembler prints what the analyzer counts, and both listings show the same program |
| `calc` | everything of up to four tokens in front of a line that is a term; terms of three and four numbers with every operator and parentheses; full arrays, overflow, division by zero, fractions, one of ten digits that cannot be read (34,575 states) | answers are the values by the grammar, for terms without a product below zero; a printed number is read back; divisions are runs of `LongDivision`; the program ends, or divides by zero while it reads |
| `calc_product` | the lines of `calc` | *violation*: see below |

**Bounds.** `JReach` and `ZReach` (bytes a short branch reaches) are 1024 and 32 in the code. With them
at 8 and 6, programs of four to six instructions already hold branches that reach, that just miss, and
that reach only after others were shortened; the latter is the case the loop exists for, and three
branches that enable each other in turn are the longest chain the six instructions allow. `inspect` has the
real values, with programs at the edges of the fields. `LongReach` (32768 in the code, the reach of a long branch)
matters only in `converter_far`. The proofs hold for all values. Deadlock is not checked: a process that
has ended takes no step. Only `toolchain` checks it, where every test has to reach its verdict.

The simulator's memories have 28 and 16 bytes, where the code takes multiples of 1024: every access is at an address
of a few bytes, at the edge, or behind it. `SizesAssumption` allows every size up to 2^31 - 1 (`MaxSize`, the
largest number of TLC; the code has 32 bits). `Cycles` bounds every run; 8 cycles pass each of the three transfers and
its slot, and in `toolchain` (24 cycles, 64 bytes) the loops and calls run to their end. There `JReach` and
`ZReach` are 16 and 12, so that a branch over four instructions stays long. Left out of its programs, because the
converter does not claim to keep them: transfers in delay slots, computed code addresses, and the three known
violations.

In `uart` the pipe holds two bytes, so that the writer waits in the middle of an escape sequence and the reader
is between its two reads with the pipe empty; a real pipe is larger, and the proof is for every size. `MaxBack` (2)
and `AfterEnd` (3) bound how often a program gives characters back and how often it calls `getchar` after the
end: the first two of those calls differ, the third is as all that follow. `GivenBack` has no byte from 128 on:
`ungetchar` keeps a `char`, which has a sign, and the only caller has no use for such a character.

`calc` has numbers of 10 bits, 3 of them behind the point (32 and 16 in the code), a stack of 3 and a queue of 6
tokens (255 each): both fill up, products leave the range upwards and sums in both directions, and a division takes 13
iterations; a fraction of ten digits is one whose scale is 0, as 32 digits are in the code. The types, the division
and the bounds of the arrays are proved for every width and size.

**Fairness.** `Converter`, `Simulator` and `Calc` are single sequential processes, which run until they end:
`WF_vars(Next)`. `Relaxation` has it for its steps after the program is loaded. `Uart` has two processes that the
operating system both runs: `WF(Write)` for the writer, and `WF(GetChar)` for a program that reads to the end;
none for `UngetChar`, which is the program's choice. `Toolchain` and `Inspect` assume none, as only their safety
is checked.

**Violations**, confirmed with the compiled tools:

* `converter_far`: a branch that stays long and whose offset does not fit 16 bits in units of two
  bytes is written with its offset cut off, silently (v2_instr.c:419 and 496). `TargetsPreserved` fails.
  A program with a BLTZ over 17000 long instructions is converted with status 0 to a wrong target.
* `simulator_outside`: `lw` and its like compare the first byte's address with the size of the memory and
  read up to three bytes behind it (simulator.c:392-401), where the comment says such loads read zero.
* `simulator_invalid`: with `-c` the size of the next instruction is read through `cur_pc` (simulator.c:513), in a
  delay slot already through the target of the jump; a jump to below the program kills the process before the test
  that would print "Invalid pc".
* `toolchain_changed`, in which the trace shows two of them: the original prints 5 and 5, the converted program 0.
  SLLV, SRLV and SRAV by `$0` become CLEAR (instr.c:378, 388, 398); the result should be the other operand, the first
  5. And the long form of `beq $0,$r` is written as `beq $r,$r`, that of `bne $0,$r` as `bne $r,$r`
  (instr.c:574, 583 with v2_instr.c:512, 516). `beq $r,$0`, which compilers write, comes out right.
  In the same way the long form of `beq $r,$r` is written as `bgez $r` (v2_instr.c:500).
* `calc_product`: `fix_mul` adds a half and divides, and C divides towards zero, so that a product below zero is one
  too large: -1 times 1 is -65535/65536, although fix16.c:15 says "round up if fraction is >= 0.5". `Product` is the
  product rounded so; `TermsEvaluated` leaves terms with a product below zero aside, `ProductsRounded` does not.

**Behaviour that the properties leave room for**, each visible in a definition:

* The loop of the converter reaches the least set of short branches, the one growing from all long; two branches
  that would fit only if both were short stay long, so the result is not always the smallest program.
* A long B or BAL takes its register from the fields of the instruction before conversion (v2_instr.c:500);
  `NearJumpsShort` shows that it never comes from a jump, though it does from a BEQ.
* For a branch or jump in the last place `attr[i + 1]` is read behind the array (converter.c:116, 236). The
  sanitizer with which the tool is built ends the process; `AbortsOnlyOutside` says that there is no other reason
  for an abort than this or a target outside the program. Compiled programs end with a delay slot.
* A shift of `$0` by 0 becomes a MOV of `$0`, whose short form reads back as CLEAR, and a CLEAR of `$0` as NOP;
  `Reduced` sets programs with these aside where two listings are compared, and the far comparisons of
  `toolchain_changed`. The short form of an ADDU, OR or XOR has the destination as its first operand; the three commute,
  so `Without` compares their sources as a set.
* The analyzer counts the `rt` of SLTZ as a register, has no distances of BLEZ and BGTZ (analyzer.c:182), and
  counts a long access to the stack as short when it reads a converted program; `AnalyzerAgrees` names each of
  them. An unknown word leaves the flags of the instruction before it (analyzer.c:614), as if it were not there:
  `NopPairs` says what is counted, also for `lw`, an unknown word and a NOP, for which the analyzer prints "1 NOPs in
  Load delay slots". With two empty lists the table of immediates is read through a null pointer (`EmptyRow`); `MergedOnce` is
  about a table that was printed.
* `fix_print` prints no digits for the least number, whose absolute value overflows. `fix_parse` reads a fraction
  right as long as its digits, shifted by 16, fit 32 bits, and `fix_print` prints up to 16: `ReadsBack` is about the
  numbers that fit.

## 4. Proofs

All theorems hold for every value of the constants, under the assumptions the modules name:
`ProgramsAssumption` (an input file is a sequence of words), `ReachAssumption` (reaches of at least two
bytes), `LongReachAssumption`, and for the abstract specification `ShapesAssumption` (targets are inside the program).
For the simulator it is `SizesAssumption`; for the serial line `MessagesAssumption` (a file of bytes; only a text
without zeros is sent unescaped), its `SizesAssumption` and `GivenBackAssumption`; for the calculator and its numbers
`PowAssumption` (powers of two), `DivisorsAssumption`, `FracAssumption`, `CalcSizes` and `FilesAssumption`; for the
tools that read a compressed file of other origin `CompressedAssumption` (it is a sequence of halves).

| module | what it proves |
|---|---|
| `LayoutProofs` | addresses grow with the index and by two or four; if sizes only shrink, the distance between two places only shrinks; a recursive function over 0..n exists and has the values its equation says |
| `RelaxationProofs` | a branch that fits keeps fitting when others are shortened (`ShortenedFits`), since no distance grows; hence the final set is contained in every closed set (`OrderIrrelevant`) |
| `InstrProofs` | parsing, pseudo conversion and the writers keep every field in its width; an instruction has as many halves as its `compressed` flag says; an instruction of whichever operation reads back with the same operation, registers and immediate, in the long and in the short formats, a branch or jump with its offset or target; which instructions have a code |
| `ConverterProofs` | the inductive invariant `IInv` and with it `TypeOK`, `OffsetsDefined`, `LayoutConsistent`, `ShortInReach`, `NoneLeftToShorten`, `NearJumpsShort`, `WrittenAsLaidOut` and `NeverLengthened`; on top of it `TargetsPreserved`, `AbortsOnlyOutside`, `RefusedOnlyUnknown`, that no well-formed program is given up (`NeverStopped`), and the safety part of the refinement of `Relaxation` (`PassesRelax`) |
| `SimulatorProofs` | `TypeOK` and the refinement of `DelaySlot` |
| `UartProofs` | the types, the refinement of `Channel` (`UartImplementsChannel`) and `AfterTheEnd`, for every file, size of the pipe and of the buffer, and every interleaving |
| `CalcProofs` | of the long division: before every iteration quotient and remainder are those of the bits used so far (`DivisionRight`), hence at the end those of the dividend (`QuotientRight`), for every width; of the calculator: the queue and the stack are not left (`ArraysBounded`); every number read, kept or computed is a fix16_t (`CalcTypes`); every division is a run of `LongDivision` on the absolute values of the operands (`DivisionImplemented`, `CalcDivides`, `QuotientOfOperands`) |
| `InspectProofs` | the table of immediates is complete and in order, whatever file was read (`TableComplete`); the estimate of the analyzer bounds what the converter writes, for every program (`EstimateHolds`); the NOPs it counts in delay slots are those behind a branch, a jump or a load, as if unknown words were not there (`NopsCounted`); the disassembler prints what the analyzer counts, of any file in either set (`ListedIsCounted`); what the converter wrote reads back as what it meant (`WrittenReadsBack`); the listings before and after the conversion are the same (`ListingsSame`); the analyzer finds in the output the operations, short forms and offsets that the converter wrote, and otherwise what it found in the input (`AnalyzerCountsWritten`) |

**Hypotheses.** Some theorems name, besides the assumptions on constants, what they need:

* `CodeReach` (`RefusesOnlyUnknown`, `NeverStopped`): `JReach <= 1024`, `ZReach <= 32`, which are the values of
  the code (converter.c:133, 141), and programs of at most 2^25 instructions, whose addresses fit the field of a
  jump. With a greater reach a branch taken for short would not fit its format.
* `2 * Len(p) <= LongReach` for every program (`Preserves`, `ListingsSame`, `AnalyzerCountsWritten`): at most 16384
  instructions with the 16-bit field of the code. Beyond it the property is false, as run `converter_far` shows.
  `PreservesInReach` states it for a program of any length, each long branch of which has an offset that its field
  holds.
* `JReach >= 1024` and `ZReach >= 32` (`EstimateHolds`): the ranges that the analyzer has written down once more
  (analyzer.c:164, 168) are not wider than the converter's. In the code they are the same.
* `JReach = 1024` and `ZReach = 32` (`AnalyzerCountsWritten`): reading a branch of the output, the analyzer
  compares its offset with those numbers once more; another reach would have it count other branches as short.
* `1..Pow[Width - 1] \subseteq Divisors` (the divisions of `Calc`): the divisor of `fix_divu` may be any absolute
  value of a fix16_t other than 0. `DivisorsAssumption` alone describes both callers of the loop.

**The converter.** None of its properties is inductive alone. `ShortInReach` after a pass needs that the distances
only shrank, hence that no flag was taken back, hence that the flags of the state before were right under *its*
layout (`ShortFit`, with `OffsetsCorrect` and `Placed`). `NearJumpsShort` needs where a J stood in the first layout
(`AllLong`, `FromInput`). `OffsetsDefined` after the jumps were converted needs that the targets of jumps were
checked too (`JumpsInside`). `IInv` is the conjunction of these; each action has one lemma, and
`Invariant` combines them. `IInv` was checked by TLC on the instance of run `converter` before it was proved.

What comes out is compared with the input file through two more invariants. `Faithful` says that each instruction
of `prog` is what the decoder makes of its word but for the offset, the flag and the change from J or JAL to B or
BAL, and that `attr` has the index of the target that the word names. `OutputCoded` says that the output has at
every address of the layout the code of the instruction placed there. With the lemmas about the codecs (what has a
code, and that a transfer of control reads back with the offset it was written with) they give `RefusedOnlyUnknown` and
`TargetsPreserved`. For `NeverStopped` a fourth invariant says in which places the process can give up at all.
`PassesRelax` maps `prog` to the set of short branches: a pass shortens branches that fit under the addresses
before it, because `OffsetsCorrect` says that the offsets it reads are those of these addresses.

**The simulator.** `TypeCorrect` is a type invariant and its own inductive invariant; the work is in the operators:
sums, shifts, bitwise operations, products and quotients of pairs of halves are again pairs of halves (`divu` is a
loop of 32 iterations, a recursive function here). `DelaySlotsImplemented` follows from the types and one fact about
the decoders, `AdvancesToSlot`: the number of bytes by which the code moves `cur_pc` on once it has decoded an
instruction is the one that `Slot` reads off the first byte of it, in either instruction set.

**The serial line.** `UartImplementsChannel` needs a description of a pipe of any length that says where a zero byte
belongs. `Start` gives each byte of the file its place in the whole stream (`Layout`'s `Addresses`, with codes of one
or two bytes); the invariant `Going` says that the bytes between the processes are the stream from the reader's place
on (`Carries`), that the reader stands where a code starts, or behind the zero of one while `at` is "escape", and that
what is in the buffer is what was given back. Each step moves one end of the stream; what the reader concludes
(`FirstByte`, `SecondByte`) follows from its place alone. After the end `EndOK` takes over. `Going` was checked by
TLC on the instance of run `uart` before it was proved.

**Numbers.** `DivisionRight` rests on the remainder being below the divisor: `2 * rem + 1` fits the register only
because a divisor is an absolute value, at most half of what the register holds, or because there are no more
iterations than bits (`DivisorsAssumption`, which names the two callers). `CalcTypes` needs, besides the types, that a
line that is being read still has its end in front (`IsText`): without it `parse_token` would look behind the text. The
digit loops are recursive functions, so that their values are numbers by induction on the digits; `ScaleType` is why
the number is undefined only where the scale is 0.

**The analyzer.** `TableComplete` is the correctness of a merge. Its invariant (`MergeOK`) says that the values in the
table are those with a rank below the two iterators (`Taken`), that each of them is less than what is left, and that
the rows have the counts of both lists; the new row is then the least of what is left in each of its three cases.
`EstimateHolds` combines the three programs. While the native file is read, `Counting` says that the estimate is the
sum of two or four bytes for each word read; that one more instruction adds one to a sum over a set of operations is
proved by a least counterexample, on the cardinality of the set. Then `EstimatedIsShort`: the distance of a branch in
the native program is at least the one under the final layout (`NewAddrDistance`), so a branch in reach there is in
reach at the end, and by `LongDoNot`, a part of `IInv`, the converter has then made it short. `OriginOK` carries the
converter's `IInv` and `Faithful` through the steps of all the tools.

`NopsCounted` and `ListedIsCounted` say what a loop over a file has collected. Both readers are described by the
places that they have been at (`Places`): where an instruction starts follows from the file alone, so the analyzer
and the disassembler, which read the file in different calls, have been at the same ones. The analyzer's bag
is then `BagOf` a function over the places, which grows by one argument with each instruction (`BagGrows`), and the
names in the listing are the same bag. `ListedIsCounted` needs that making pseudo instructions twice makes the same
ones as once (`PseudoTwice`), since the analyzer tests for a NOP behind a conversion of its own. The flags of
`NopStat` are what the last known instruction is to the next (`SlotOf`), whatever unknown words lie between.

**Both codecs.** `Means` says when two instructions mean the same: the operation, and those registers and immediates
that the operation has (`WithRs`, `WithImm` and so on), the sources of an ADDU, OR or XOR in either order. What the
decoder makes of a word is `Settled`: `conv_to_pseudo` would not rewrite it again; and an instruction that means the
same as a settled one is settled (`SettledAlike`), so it is enough to show that a code, decoded, means what the native
instruction did (`LongMeans`, `SmallMeans`), and what `conv_to_pseudo` makes of that means what the pseudo instruction
did. `Normal` says what an instruction of the program has of a pseudo instruction besides, for instance the 0 of a
SEQZ; every parsed word has it (`NormalWord`) and the converter leaves it (`NormalKept`). `Reduced` is the exception
(section 3), and with it `WrittenReadsBack` holds for the whole output. In `ListingsSame` the addresses of the lines
are sums of their sizes, hence those of the layout (`LineAddresses`); the names and operands follow from `Means`
(`SameText`), and the targets from what `TargetsPreserved` rests on (`FetchedTransfer`).

`AnalyzerCountsWritten` compares two runs of the same loop. `CountsAs` says when two instructions have the same entry
in every table, but for the rt of an SLTZ; instructions that mean the same do (`MeansCounts`), and so do a J and the B
made of it (`JumpCounts`). Two files whose instructions count alike one by one then have equal tables (`AlikeTables`);
the two counts of NOPs are equal as sums only, because a B stands in another column than the J. The operations, the
short forms and the distances are collected from what is read back (`TablesCollect`, `DistancesCollect`). What the
analyzer takes to be short in the output is what the converter made short (`ShortReadBack`): for a branch by the
offsets, for LW and SW because `parse_instr_v2` gives those of the long format no `imm`, so that only rs decides.

Induction over a sequence or a number is done throughout by taking the least counterexample, as the
theorems of the library that take a predicate as a parameter are out of the provers' reach.

Only model-checked:

* liveness under fairness: `Termination`, `Converts`, `Settles`, `Delivered`, `Returns`, and with it the other half
  of `ImplementsRelaxation`, that the loop goes on while something can be shortened;
* `SameCycleByCycle`: it needs that every operation of the simulator computes the same with the same registers
  before and after conversion, for the whole instruction set in both encodings;
* `TermsEvaluated` and `ReadsBack`: the value of a term, `Values`, is a recursive operator over intervals of the text;
* the runs that end in a violation.

## 5. Not modelled

* `bench/lz4.[ch]`, `lz4_comp.c`, `lz4_dec.c`: a third-party library and its two callers.
* `bench/md5.c`, `sha256.c`, `sha512.c`, `hash_test.c`, `mandelbrot.c`, `qsort.c`, `echo.c`, `hello.c`: workloads
  for the simulator, without state beyond one computation; the hash functions are arithmetic on whole words, which
  small bounds would turn into other functions.
* `bench/common/string.c`, `mul.c`, the output functions of `stdio.c`, the signs in `div.c`: a few lines without
  state.
* The notation of listings and tables, the text of messages, the options that only choose what is printed.
* Failures of `malloc`, `realloc`, `fopen` and `fwrite`; a file whose length is no multiple of four (`fread` drops
  the rest); addresses of code in registers or data memory (the repository asks for programs without jump tables).
* In `test.pl`, the table it prints.

## 6. What is left

1. The simulator on both sides of the conversion (`SameCycleByCycle`) as a theorem, for which `WrittenReadsBack` is the
   part about the codecs.
2. `Toolchain` with the input of the second group of tests of `test.pl`, which goes through `uart_escape`.
