------------------------------- MODULE MCCalc -------------------------------
(***************************************************************************)
(* Input for the calculator, with numbers of 10 bits of which 3 are behind *)
(* the point, a stack of 3 and a queue of 6 tokens.                        *)
(***************************************************************************)
EXTENDS CalcTerms

MCPow == [n \in 0..23 |-> 2^n]
MCDivisors == 1..512

Lines(ls) == FlattenSeq([k \in DOMAIN ls |-> ls[k] \o <<"nl">>]) \o <<"eof">>

(* Everything of up to four tokens, before a line that is a term. *)
Short == UNION {[1..n -> {"6", "+", "-", "*", "/", "(", ")"}] : n \in 0..4}

(* Terms of three and four numbers, with and without parentheses.          *)
Ops2 == {"+", "-", "*", "/"}
Three == {<<"7", o, "2", p, "4">> : o \in Ops2, p \in Ops2}
           \cup {<<"(", "7", o, "2", ")", p, "4">> : o \in Ops2, p \in Ops2}
           \cup {<<"7", o, "(", "2", p, "4", ")">> : o \in Ops2, p \in Ops2}
           \cup {<<"3", o, "5", p, "2", q, "6">> : o \in Ops2, p \in Ops2, q \in Ops2}

(* Deep terms, long terms, numbers with fractions and spaces, numbers that *)
(* leave their range, characters that belong to no token, and as many      *)
(* digits behind a point as a number has bits.                             *)
Others ==
  {<<"(", "(", "(", "2", ")", ")", ")">>, <<"(", "(", "(", "(", "2", ")", ")", ")", ")">>,
   <<"1", "+", "(", "2", "+", "(", "3", "+", "4", ")", ")">>,
   <<"1", "+", "2", "+", "3", "+", "4", "+", "5">>,
   <<"1", "2", ".", "5", " ", "*", " ", "0", ".", "2", "5">>, <<"1", "/", "8">>,
   <<"5", ".", "2", "/", "0", ".", "0">>, <<"0", "-", "3", "/", "2">>,
   <<"6", "3", "+", "6", "3">>, <<"0", "-", "6", "3", "-", "6", "3">>, <<"6", "4">>,
   <<"6", "3", "*", "6", "3">>, <<"3", "*", "x">>, <<"(", "0", "-", "1", ")", "*", "3">>, <<".", "5">>, <<"1", " ", "2">>,
   <<"1", "+", "0", ".">> \o [k \in 1..10 |-> "0"]}

MCFiles ==
  {Lines(<<a, <<"2", "+", "3", "*", "4">>>>) : a \in Short}
    \cup {Lines(<<a, <<"1", "-", "2">>>>) : a \in Three \cup Others}
=============================================================================
