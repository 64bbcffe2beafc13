---------------------------- MODULE MCSimulator ----------------------------
(***************************************************************************)
(* Small programs of both instruction sets for the simulator.              *)
(***************************************************************************)
EXTENDS Simulator, SequencesExt

Imm16(n) == n % 65536

(* Instructions as sequences of halves: the long formats, and the small    *)
(* ones with a register or number, or with an offset in instructions.      *)
Special(func, rrs, rrt, rd) == <<rrs * 32 + rrt, rd * 2048 + func>>
Long(opcode, rrs, rrt, n)   == <<opcode * 1024 + rrs * 32 + rrt, Imm16(n)>>
Small(opcode, rds, last)    == <<32768 + opcode * 1024 + rds * 32 + (last % 32)>>
SmallB(opcode, n)           == <<32768 + opcode * 1024 + (n % 1024)>>

(* The bytes of a program. *)
File(instrs) ==
  LET halves == FlattenSeq(instrs)
  IN [k \in 1..2 * Len(halves) |->
        LET half == halves[(k + 1) \div 2] IN IF k % 2 = 1 THEN half \div 256 ELSE half % 256]

Nop   == Small(C_MOV, 0, 0)
Add3  == Special(33, 2, 3, 4)
Break == Special(13, 0, 0, 0)

Here == Long(15, 0, 1, 16384)     \* lui $1: the start of the program

(* Control transfers of both lengths; an offset counts halves.             *)
Transfer ==
  {SmallB(C_B, 2), SmallB(C_B, -1), SmallB(C_BAL, 3), Small(C_BEQZ, 4, 2), Small(C_BNEZ, 4, 2),
   Small(C_JALR, 0, 1), Small(C_JALR, 5, 1), Small(C_JALR, 0, 31),
   Long(1, 1, 17, 2), Long(1, 0, 16, 2), Long(2, 0, 0, 3), Long(3, 0, 0, 4), Long(7, 1, 0, 1)}

Plain == {Nop, Add3, Small(C_LSI, 4, 1)}

(* Transfers in the delay slots of others, and before and behind them.     *)
Slots == {File(<<Here, a, b, c, Nop, Break>>) :
            a \in Transfer, b \in Transfer \cup Plain, c \in Transfer \cup {Nop, Add3}}

(* Addresses of the data memory and of the UART, and the other ways to end.*)
Access(op, at) == File(<<Small(C_LSI, 2, -2), Small(C_LSI, 1, at), Long(op, 1, 2, 0),
                         Long(op, 1, 2, 4), Special(24, 2, 2, 0), Special(18, 0, 0, 3), Break>>)
Accesses == {Access(op, at) : op \in {16, 17, 19, 20, 21, 24, 25, 27}, at \in {0, 4, 15, -8, -4}}

Others ==
  {File(<<Nop, Nop>>),                                  \* runs out of the memory
   File(<<Small(C_JALR, 0, 2), Nop, Nop>>),             \* to address 0
   File(<<<<16384, 0>>, Nop, Nop>>),                    \* MFC0, which is LB there
   File(<<Special(63, 0, 0, 0), Nop>>),                 \* no instruction
   File(<<Small(31, 1, 1), Small(C_LSI, 1, 1), Break>>) \* nor this, but it passes
  }

(* The same transfers, in the native instruction set. *)
Native32 ==
  {Long(1, 1, 17, 1), Long(1, 0, 16, 1), Long(1, 0, 1, -2), Long(2, 0, 0, 4), Long(3, 0, 0, 2),
   Long(4, 0, 0, 2), Long(5, 1, 0, -1), Long(7, 1, 0, 1), Special(8, 1, 0, 0), Special(9, 2, 0, 0)}

NativePrograms ==
  {File(<<Here, a, b, c, <<0, 0>>, Break>>) :
     a \in Native32, b \in Native32 \cup {Add3}, c \in Native32 \cup {Add3}}
  \cup {File(<<<<16384, 0>>, Break>>), File(<<Long(63, 0, 0, 0), Break>>)}

Thirty == [k \in 1..32 |-> 1]

File4 == <<1, 2, 200, 255>>

Command(option, file, content, text) ==
  [v2 |-> option, program |-> file, data |-> content, input |-> text]

MCCommands ==
  {Command(TRUE, p, <<>>, <<>>) : p \in Slots \cup Others \cup {Thirty}}
    \cup {Command(FALSE, p, <<>>, <<>>) : p \in NativePrograms}
    \cup {Command(TRUE, p, File4, text) : p \in Accesses, text \in {<<>>, <<200>>}}
    \cup {Command(TRUE, File(<<Break>>), [k \in 1..n |-> 1], <<>>) : n \in {12, 13}}
=============================================================================
