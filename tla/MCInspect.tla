----------------------------- MODULE MCInspect -----------------------------
(***************************************************************************)
(* Input files for the analyzer, the converter and the disassembler, with  *)
(* the reaches of the code: 32 and 1024 bytes.                             *)
(***************************************************************************)
EXTENDS Inspect, TLC

Imm16(n) == n % 65536
Special(func, s, t, d, sh) == <<s * 32 + t, d * 2048 + sh * 64 + func>>
Immediate(opcode, s, t, n) == <<opcode * 1024 + s * 32 + t, Imm16(n)>>

Nop   == <<0, 0>>                        \* sll $0, $0, 0: two bytes
Add   == <<67, 2048 + 32>>               \* add $1, $2, $3: four bytes
Mfc0  == <<16384 + 1, 0>>                \* parsed, but write_instr has no code for it
Bad   == <<64512, 0>>                    \* no instruction
B_(k, t)    == <<4096, Imm16(t - k - 1)>>            \* beq  $0, $0, t
Bal(k, t)   == <<1024 + 17, Imm16(t - k - 1)>>       \* bgezal $0, t
Beqz(k, t)  == <<4096 + 64, Imm16(t - k - 1)>>       \* beq  $2, $0, t
Bnez(k, t)  == <<5120 + 64, Imm16(t - k - 1)>>       \* bne  $2, $0, t
J_(k, t)    == <<2048, t - 1>>
Jal(k, t)   == <<3072, t - 1>>

(***************************************************************************)
(* Branches and jumps that just reach, or just miss, their targets.        *)
(***************************************************************************)
Repeat(word, n) == [k \in 1..n |-> word]

(* k is the place of the branch, t that of its target. *)
Forward(f(_, _), word, n)  == <<f(1, n + 2)>> \o Repeat(word, n) \o <<Nop>>
Backward(f(_, _), word, n) == Repeat(word, n) \o <<f(n + 1, 1), Nop>>

(* n instructions of two bytes over which a BEQZ or BNEZ reaches, or not:  *)
(* 15 and 14 are the last that fit.                                        *)
Zero == {Forward(Beqz, Nop, n)  : n \in {14, 15, 16}}
          \cup {Forward(Bnez, Nop, n)  : n \in {15, 16}}
          \cup {Backward(Beqz, Nop, n) : n \in {14, 15, 16}}
          \cup {Backward(Bnez, Nop, n) : n \in {15, 16}}

(* The same for the unconditional ones, over instructions of four bytes    *)
(* and one of two.                                                         *)
Far(f(_, _)) ==
  {Forward(f, Add, n) : n \in {255, 256}} \cup {Backward(f, Add, n) : n \in {255, 256}}
    \cup {<<f(1, 258), Nop>> \o Repeat(Add, 255) \o <<Nop>>}

ReachPrograms == Zero \cup Far(B_) \cup Far(Bal) \cup Far(J_) \cup Far(Jal)

(***************************************************************************)
(* Every operation, with operands that make pseudo instructions of it.     *)
(***************************************************************************)

(* f of six pairs of small numbers. *)
Six(f(_, _)) == [k \in 1..6 |-> f(k % 2, k % 3)]

(* s and t are 0 or 1, d is 0, 1 or 2. *)
Three == {Six(LAMBDA t, d : Special(f, s, t, d, 0)) :
            f \in ({4, 6, 7} \cup 32..39 \cup {42, 43}), s \in {0, 1}}
Two   == {<<Special(f, 1, 2, 0, 0), Special(9, 1, 0, d, 0), Special(16, 0, 0, d, 0),
            Special(18, 0, 0, d, 0), Special(12, 0, 0, 0, 0)>> :
            f \in ({8, 17, 19} \cup 24..27), d \in {0, 31}}
Shift == {Six(LAMBDA t, d : Special(f, 0, t, d, sh)) : f \in {0, 2, 3}, sh \in {0, 7}}
Mems  == {Six(LAMBDA w, d : Immediate(o, 1 + 28 * w, 2, n + 4 * d)) :
            o \in {32, 33, 35, 36, 37, 40, 41, 43}, n \in {-4, 0, 120}}

(* Immediate instructions of every kind, and one value in a signed and an  *)
(* unsigned instruction.                                                   *)
Imms  == {Six(LAMBDA s, t : Immediate(o, s, t, n))
            \o <<Immediate(p, 1, 2, n - 16), Immediate(22 - p, 1, 2, n - 16)>> :
            o \in 8..15, p \in {9, 13}, n \in {0, 1, 15, 16, 32, -1, -16, -17}}

Plain == Three \cup Two \cup Shift \cup Imms \cup Mems

(* Branches of every kind, and NOPs, unknown words and others around them. *)
Around == {Nop, Bad, Add, Immediate(35, 29, 2, 4), Special(8, 31, 0, 0, 0)}
Kinds  == {J_(2, 4), Jal(2, 1), B_(2, 4), Beqz(2, 3), Mfc0}
            \cup {<<o * 1024 + 64 + 1, 1>> : o \in {4, 5}} \cup {<<o * 1024 + 64, 1>> : o \in {6, 7}}
            \cup {<<1024 + 64 + t, 1>> : t \in {0, 1, 16, 17}}
Slots  == {<<a, b, c, Nop, Nop>> : a \in Around, b \in Around \cup Kinds, c \in Around}

MCPrograms == ReachPrograms \cup Plain \cup Slots

(* An unknown opcode of two bytes, a long instruction cut off by the end   *)
(* of the file, and a word that is no instruction.                         *)
MCCompressedFiles ==
  {<<32768, x, 32768>> : x \in {32768 + 21 * 1024, 65535, 32768 + 1024 + 32 + 2}}
    \cup {<<32768, 66>>, <<32768, 64 * 256 - 1, 0>>}
=============================================================================
