------------------------------ MODULE Channel ------------------------------
(***************************************************************************)
(* What a program may expect of getchar and ungetchar: it gets the bytes   *)
(* of the file one after the other, can give the last one back, and is     *)
(* told once there is no more.                                             *)
(***************************************************************************)
EXTENDS Naturals, Sequences

VARIABLES
  sent,          \* the bytes of the file
  taken,         \* the bytes the program has and has not given back
  ended          \* the program has been told of the end

cvars == <<sent, taken, ended>>

CInit ==
  /\ taken = <<>>
  /\ ended = FALSE

Take ==
  /\ ~ended
  /\ Len(taken) < Len(sent)
  /\ taken' = Append(taken, sent[Len(taken) + 1])
  /\ UNCHANGED <<sent, ended>>

Return ==
  /\ ~ended
  /\ taken # <<>>
  /\ taken' = SubSeq(taken, 1, Len(taken) - 1)
  /\ UNCHANGED <<sent, ended>>

End ==
  /\ ~ended
  /\ taken = sent
  /\ ended' = TRUE
  /\ UNCHANGED <<sent, taken>>

CNext == Take \/ Return \/ End

CSpec == CInit /\ [][CNext]_cvars
=============================================================================
