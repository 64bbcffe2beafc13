------------------------------- MODULE Layout ------------------------------
(***************************************************************************)
(* The addresses of instructions that follow each other without a gap:     *)
(* calc_new_addr of converter/converter.c. Addresses(size)[k] is the       *)
(* address of instruction k, and Addresses(size)[Len(size) + 1] the end.   *)
(***************************************************************************)
EXTENDS Integers, Sequences

Addresses(size) ==
  LET addr[k \in 1..Len(size) + 1] == IF k = 1 THEN 0 ELSE addr[k - 1] + size[k - 1]
  IN addr

(* A program as far as its layout goes. "two" and "four" are instructions  *)
(* whose size is settled; the target of a branch is an instruction's index. *)
ShapeInstr == [kind : {"two", "four", "J16", "I16"}, target : Nat]

IsShape(sh) ==
  /\ sh \in Seq(ShapeInstr)
  /\ \A k \in DOMAIN sh : sh[k].kind \in {"J16", "I16"} => sh[k].target \in DOMAIN sh
=============================================================================
