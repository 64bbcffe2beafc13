---------------------------- MODULE MCToolchain ----------------------------
(***************************************************************************)
(* Programs for the test of the tool chain. None has a branch or a jump in *)
(* a delay slot, computes the address of an instruction, or leaves the     *)
(* program: the converter does not claim to keep those.                    *)
(***************************************************************************)
EXTENDS Toolchain, TLC

Special(func, s, t, d, sh) == <<s * 32 + t, d * 2048 + sh * 64 + func>>
Immediate(opcode, s, t, n) == <<opcode * 1024 + s * 32 + t, n % 65536>>

Li(r, n)  == Immediate(9, 0, r, n)
Out(r)    == Immediate(40, 0, r, -4)          \* sb r to the data register of the UART
In(r)     == Immediate(36, 0, r, -4)          \* lbu r from there
Nop       == Special(0, 0, 0, 0, 0)
Add       == Special(33, 2, 3, 4, 0)          \* four bytes in both formats
Inc       == Immediate(9, 4, 4, 1)            \* two bytes in the compressed one
Break     == Special(13, 0, 0, 0, 0)
Jr        == Special(8, 31, 0, 0, 0)
J_(t)     == <<2048, t - 1>>
Jal(t)    == <<3072, t - 1>>

Few  == {0, 1, 2}
Dest == {0, 1, 3}

(* A shift of another register by the amount in $0: see ChangedPrograms.   *)
ShiftByZero(i) == i.op \in ShiftVs /\ i.rs = 0 /\ i.rt # 0 /\ i.rd # 0

Operations ==
  LET three == {Special(f, s, t, d, 0) : f \in ({4, 6, 7, 18} \cup 32..39 \cup {42, 43}),
                                         s \in Few, t \in Few, d \in Dest}
      two   == {Special(f, s, t, 0, 0) : f \in ({17, 19} \cup 24..27), s \in Few, t \in Few}
      shift == {Special(f, 0, t, d, sh) : f \in {0, 2, 3}, t \in Few, d \in Dest, sh \in {0, 1, 31}}
      imms  == {Immediate(o, s, t, n) : o \in 8..15, s \in {0, 1, 2}, t \in {0, 1, 2},
                                        n \in {0, 1, 15, 16, 31, 32, -1, -16, -17}}
  IN {w \in three \cup two \cup shift \cup imms : ~ShiftByZero(parse_instr(w))}

(* One operation on small and large operands, then another on its result. *)
Straight == {<<Li(1, -3), Li(2, 5), w, Special(16, 0, 0, 3, 0), Break, Nop>> : w \in Operations}

(* Loads and stores of every width, with and without the stack pointer.    *)
Memory ==
  {<<Li(29, 4), Li(2, -3), Immediate(st, base, 2, n), Immediate(ld, base, 3, n), Break, Nop>> :
     st \in {40, 41, 43}, ld \in {32, 33, 35, 36, 37}, base \in {0, 29}, n \in {0, 4, 8}}

(* A branch over n instructions, with something in its delay slot. The     *)
(* long form of a comparison with $0 comes out right when $0 is second.    *)
Equalities == {Immediate(o, s, t, 0) : o \in {4, 5}, s \in {0, 1, 2}, t \in {0, 1, 2}}
Against0 == {Immediate(1, s, t, 0) : s \in {0, 1, 2}, t \in {0, 1, 16, 17}}
              \cup {Immediate(o, s, 0, 0) : o \in {6, 7}, s \in {0, 1, 2}}

WrongLong(i) == i.op \in {"BEQ", "BNE"} /\ (i.rs = 0 \/ i.rs = i.rt) /\ i.rt # 0

Over(br, slot, n) ==
  <<Li(1, -3), Li(2, 5), <<br[1], n + 1>>, slot>> \o [k \in 1..n |-> Add] \o <<Inc, Break, Nop>>

Forward(slots) ==
  {Over(br, slot, n) : br \in Equalities \cup Against0, slot \in slots, n \in {1}}
  \cup {Over(br, slot, n) : br \in {w \in Equalities \cup Against0 : ~WrongLong(parse_instr(w))},
                            slot \in slots, n \in {3, 4}}

(* A loop, and a loop with another inside. *)
Loops ==
  {<<Li(2, 2), Inc>> \o body \o <<Immediate(9, 2, 2, -1), <<5 * 1024 + 64, (-3 - Len(body)) % 65536>>,
     slot, Break, Nop>> :
     body \in {<<>>, <<Nop>>, <<Add>>, <<Add, Add>>,
               <<Li(3, 1), <<5 * 1024 + 96, 65535>>, Immediate(9, 3, 3, -1)>>},
     slot \in {Nop, Inc, Add}}

(* Calls, with the return address in its register or on the stack. *)
Calls ==
  {<<Li(29, 8), call, slot, Inc, Break, Nop, Immediate(43, 29, 31, 0)>> \o pad
     \o <<Jal(12 + Len(pad)), Nop, Immediate(35, 29, 31, 0), Jr, slot, Jr, Inc>> :
     call \in {Jal(7), <<1024 + 17, 4>>, <<1024 + 64 + 17, 4>>, <<1024 + 16, 4>>},
     slot \in {Nop, Inc, Add}, pad \in {<<>>, <<Add>>, <<Add, Add>>}}

(* The program of bench/echo.c without its escapes, and one that jumps.    *)
Echo == {<<In(2), Nop, Out(2), <<5 * 1024 + 64, 65532>>, slot, Break, Nop>> : slot \in {Nop, Inc}}
          \cup {<<J_(t), Inc, Add, Out(4), J_(7), Inc, Out(4), Break, Nop>> : t \in {3, 4, 7}}

MCPrograms == Straight \cup Memory \cup Forward({Nop, Inc, Add}) \cup Loops \cup Calls \cup Echo
MCInputs   == {<<>>, <<65, 200>>}
MCData     == {<<9, 130, 7, 255>>}

(***************************************************************************)
(* Programs that the converter changes, twice each: $3 is $2 shifted by    *)
(* $0, which is $2, and is printed; then a far branch compares $0 with $2, *)
(* which is printed unless it is taken.                                    *)
(***************************************************************************)
ChangedPrograms ==
  {<<Li(2, 5), Special(f, 0, 2, 3, 0), Out(3), <<o * 1024 + 2, 6>>, Nop>>
     \o [k \in 1..4 |-> Add] \o <<Out(2), Break, Nop>> : f \in {4, 6, 7}, o \in {4, 5}}
=============================================================================
