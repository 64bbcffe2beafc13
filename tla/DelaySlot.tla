------------------------------ MODULE DelaySlot ------------------------------
(***************************************************************************)
(* The control flow of a MIPS-I processor, without data: two program       *)
(* counters, that of the instruction to execute and that of the one behind *)
(* it. An instruction only ever decides what comes after the next one.     *)
(*                                                                         *)
(* kind, target and size are inputs: what the instruction at pc is, where  *)
(* it would go, and the address behind the instruction at npc.             *)
(***************************************************************************)
VARIABLES
  halted,
  pc, npc,       \* of the instruction to execute, and of its delay slot
  kind,          \* of the instruction at pc: "none", "branch" or "jump"
  target,        \* where it goes if it is taken
  behind         \* the address after npc

dvars == <<halted, pc, npc>>

Fall == npc' = behind
Go   == npc' = target

Execute ==
  /\ ~halted
  /\ UNCHANGED halted
  /\ pc' = npc
  /\ \/ kind \in {"none", "branch"} /\ Fall
     \/ kind \in {"branch", "jump"} /\ Go

Halt ==
  /\ ~halted
  /\ halted' = TRUE

DNext == Execute \/ Halt

DSpec == [][DNext]_dvars
=============================================================================
