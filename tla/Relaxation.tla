----------------------------- MODULE Relaxation ----------------------------
(***************************************************************************)
(* What compressing the branches of a program means, without instructions  *)
(* and without passes: a branch that fits the short format under the       *)
(* present addresses may be shortened, any number of them in one step, in  *)
(* any order, until none is left. The loop of main and compress_branch in  *)
(* converter/converter.c are one way of doing it.                          *)
(***************************************************************************)
EXTENDS Layout

CONSTANTS
  Shapes,        \* the programs, as sequences of ShapeInstr
  JReach,        \* a short unconditional branch reaches -JReach..JReach - 2
  ZReach         \* and a short comparison with $0 reaches -ZReach..ZReach - 2

ASSUME ReachAssumption == JReach \in Nat /\ JReach >= 2 /\ ZReach \in Nat /\ ZReach >= 2

ASSUME ShapesAssumption == \A sh \in Shapes : IsShape(sh)

VARIABLES
  phase,         \* "load", "shorten" or "final"
  shape,         \* the program
  short          \* the branches shortened so far
rvars == <<phase, shape, short>>

Branches(sh) == {k \in DOMAIN sh : sh[k].kind \in {"J16", "I16"}}

Sizes(sh, S) == [k \in DOMAIN sh |-> IF sh[k].kind = "two" \/ k \in S THEN 2 ELSE 4]

Offset(sh, S, k) ==
  LET addr == Addresses(Sizes(sh, S)) IN addr[sh[k].target] - addr[k + 1]

Reach(kind) == IF kind = "J16" THEN -JReach..JReach - 2 ELSE -ZReach..ZReach - 2

(* The branches whose target is in reach when those of S are short. *)
Fitting(sh, S) == {k \in Branches(sh) : Offset(sh, S, k) \in Reach(sh[k].kind)}

RInit == phase = "load" /\ shape = <<>> /\ short = {}

(* Mutant: the layout starts before the program has been read. *)
LoadNothing == /\ phase = "load"
               /\ phase' = "shorten"
               /\ UNCHANGED <<shape, short>>

Load == /\ phase = "load"
        /\ shape' \in Shapes
        /\ phase' = "shorten"
        /\ UNCHANGED short

(* Mutants: the reach is not tested; it is tested under the layout in      *)
(* which every branch is short.                                            *)
ShortenBlindly == /\ phase = "shorten"
                  /\ \E S \in SUBSET (Branches(shape) \ short) :
                       S # {} /\ short' = short \cup S
                  /\ UNCHANGED <<phase, shape>>

ShortenOptimistically ==
  /\ phase = "shorten"
  /\ \E S \in SUBSET (Fitting(shape, Branches(shape)) \ short) :
       S # {} /\ short' = short \cup S
  /\ UNCHANGED <<phase, shape>>

Shorten == /\ phase = "shorten"
           /\ \E S \in SUBSET (Fitting(shape, short) \ short) :
                S # {} /\ short' = short \cup S
           /\ UNCHANGED <<phase, shape>>

(* Mutant: a branch that is short already counts as one to shorten. *)
FinishWhenNoneFits == /\ phase = "shorten"
                      /\ Fitting(shape, short) = {}
                      /\ phase' = "final"
                      /\ UNCHANGED <<shape, short>>

Finish == /\ phase = "shorten"
          /\ Fitting(shape, short) \subseteq short
          /\ phase' = "final"
          /\ UNCHANGED <<shape, short>>

RNext == Load \/ Shorten \/ Finish

RSpec == RInit /\ [][RNext]_rvars /\ WF_rvars(Shorten \/ Finish)

(* The variables have their types: the program is one of Shapes and only   *)
(* branches are shortened.                                                 *)
RTypeOK ==
  /\ phase \in {"load", "shorten", "final"}
  /\ phase = "load" => shape = <<>>
  /\ phase # "load" => shape \in Shapes
  /\ short \subseteq Branches(shape)

(* Shortening an instruction never pushes the target of an earlier         *)
(* shortened branch out of its reach, whatever lies between them.          *)
ShortFits == short \subseteq Fitting(shape, short)

(* The result does not depend on the order: it is the least set that       *)
(* contains every branch that fits under it.                               *)
LeastClosed ==
  phase = "final" =>
    \A T \in SUBSET Branches(shape) : Fitting(shape, T) \subseteq T => short \subseteq T

(* Every program that is loaded gets a final layout. *)
Settles == (phase = "shorten") ~> (phase = "final")
=============================================================================
