----------------------------- MODULE InstrFile -----------------------------
(***************************************************************************)
(* How analyzer/analyzer.c and disas/disas.c take the instructions out of  *)
(* a file: a sequence of halves, two of which make a native instruction,   *)
(* and one or two a compressed one.                                        *)
(***************************************************************************)
EXTENDS InstrV2

IsLong(file, k) == file[k] < 32768

(* The fread of the second half of a long instruction is not tested: at    *)
(* the end of the file the buffer still holds the first half.              *)
V2Code(file, k) ==
  <<file[k], IF ~IsLong(file, k) THEN 0
             ELSE file[IF k < Len(file) THEN k + 1 ELSE k]>>

(* How many halves are read. *)
V2Halves(file, k) == IF IsLong(file, k) /\ k < Len(file) THEN 2 ELSE 1

(* The instruction at half k: the number of bytes it takes, -1 when an     *)
(* assertion of the decoder fails, and what the struct holds.              *)
Decoded(file, k, v2) ==
  IF v2 THEN parse_instr_v2(V2Code(file, k), Blank)
  ELSE [rc |-> 4, instr |-> parse_instr(<<file[k], file[k + 1]>>)]

(* Whether there is another one behind the first n halves. *)
HasInstr(file, n, v2) == Len(file) - n >= IF v2 THEN 1 ELSE 2
=============================================================================
