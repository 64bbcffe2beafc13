---------------------------- MODULE MCConverter ----------------------------
(***************************************************************************)
(* Input files for the converter. A target t counts instructions from 1,   *)
(* like k, the place of the branch.                                        *)
(***************************************************************************)
EXTENDS Converter, TLC

Imm16(n) == n % 65536

Nop   == <<0, 0>>                        \* sll $0, $0, 0: two bytes
Add   == <<67, 2048 + 32>>               \* add $1, $2, $3: four bytes
Mfc0  == <<16384 + 1, 0>>                \* parsed, but write_instr has no code for it
Bad   == <<64512, 0>>                    \* no instruction
B_(k, t)    == <<4096, Imm16(t - k - 1)>>            \* beq  $0, $0, t
Bal(k, t)   == <<1024 + 17, Imm16(t - k - 1)>>       \* bgezal $0, t
Beqz(k, t)  == <<4096 + 64, Imm16(t - k - 1)>>       \* beq  $2, $0, t
Bnez(k, t)  == <<5120 + 64, Imm16(t - k - 1)>>       \* bne  $2, $0, t
Bltz(k, t)  == <<1024 + 64, Imm16(t - k - 1)>>       \* bltz $2, t
J_(k, t)    == <<2048, t - 1>>
Jal(k, t)   == <<3072, t - 1>>

Plain == {Nop, Add}

To(f(_, _), k, ts) == {f(k, t) : t \in ts}

(* Programs of four instructions: anything in the first two places, a      *)
(* branch or a plain instruction in the third.                             *)
AnyAt(k) == Plain \cup To(B_, k, 1..4) \cup To(Beqz, k, 1..4) \cup To(Bltz, k, {1})
              \cup To(J_, k, {1, 4})
Third    == Plain \cup To(B_, 3, {1, 4}) \cup To(Beqz, 3, {1, 2, 4})
Short == {<<a, b, c, Nop>> : a \in AnyAt(1), b \in AnyAt(2), c \in Third}

(* Programs of six in which a branch has to become short before the next   *)
(* one fits: up to three passes that change something.                     *)
Cascade(plain) ==
  {<<a, p, b, p, c, Nop>> :
     p \in plain,
     a \in To(Bnez, 1, {4, 5, 6}) \cup To(Bal, 1, {4, 5, 6}) \cup To(Jal, 1, {6}),
     b \in To(Bnez, 3, {1, 2, 5, 6}) \cup To(B_, 3, {6}),
     c \in To(Bnez, 5, {1, 2, 4, 5}) \cup To(J_, 5, {1, 2, 3})}

(* Programs the converter gives up: an unknown word, a coprocessor         *)
(* instruction, a target outside, a branch or a jump in the last place.    *)
Refused ==
  {<<a, b>> : a \in {Nop, Beqz(1, 1), J_(1, 2)},
              b \in {Bad, Mfc0, Beqz(2, 4), Beqz(2, 1), J_(2, 9), J_(2, 1), Add}}

MCPrograms == {<<>>} \cup Short \cup Cascade(Plain) \cup Refused

(* A conditional branch that has no short form, over n instructions.       *)
FarPrograms ==
  {<<Bltz(1, n + 2)>> \o [k \in 1..n |-> Add] \o <<Nop>> : n \in 0..5}
=============================================================================
