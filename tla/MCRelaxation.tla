---------------------------- MODULE MCRelaxation ---------------------------
EXTENDS Relaxation

CONSTANT Length    \* the number of instructions of a program

(* All programs of that length. *)
MCShapes ==
  LET Instrs == {[kind |-> x, target |-> 0] : x \in {"two", "four"}}
                  \cup [kind : {"J16", "I16"}, target : 1..Length]
  IN [1..Length -> Instrs]
=============================================================================
