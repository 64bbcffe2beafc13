----------------------------- MODULE CalcTerms -----------------------------
(***************************************************************************)
(* What the calculator should answer: the value of a term by the usual     *)
(* rules, defined on the grammar of terms and not by a stack and a queue.  *)
(***************************************************************************)
EXTENDS Calc

(* How many parentheses are open behind the k-th token. *)
Depth(ts, k) ==
  Cardinality({j \in 1..k : ts[j].op = "LPAR"}) - Cardinality({j \in 1..k : ts[j].op = "RPAR"})

(* The operator that is applied last: of those outside all parentheses the *)
(* last of the lowest precedence.                                          *)
Outside(ts, ops) == {k \in DOMAIN ts : ts[k].op \in ops /\ Depth(ts, k) = 0}

Main(ts) ==
  LET weak == Outside(ts, {"PLUS", "MINUS"})
  IN IF weak # {} THEN Max(weak) ELSE Max(Outside(ts, {"MULT", "DIV"}))

(* The quotient, rounded towards zero. *)
Quotient(l, r) ==
  IF r = 0 THEN FIX_MAX
  ELSE LET q == (Magnitude(l) * One) \div Magnitude(r)
           m == IF q > FIX_MAX THEN FIX_MAX ELSE q
       IN IF (l < 0) # (r < 0) THEN -m ELSE m

(* The product, to the nearest number, and up from a half (fix16.c:15).    *)
Product(l, r) == Clamped((l * r + One \div 2) \div One)

Applied(op, l, r) ==
  CASE op = "PLUS"  -> Clamped(l + r)
    [] op = "MINUS" -> Clamped(l - r)
    [] op = "MULT"  -> Product(l, r)
    [] op = "DIV"   -> Quotient(l, r)

(* The value of an operator and two values. It is marked if there is a     *)
(* product below zero in it.                                               *)
Combined(op, l, r) ==
  [number |-> Applied(op, l.number, r.number),
   below  |-> l.below \/ r.below \/ (op = "MULT" /\ l.number * r.number < 0)]

(* The set of the value of a term, or the empty set for a text that is no  *)
(* term.                                                                   *)
RECURSIVE Values(_)
Values(ts) ==
  IF Outside(ts, Operators) # {}
  THEN LET k == Main(ts)
       IN {Combined(ts[k].op, l, r) : l \in Values(SubSeq(ts, 1, k - 1)),
                                      r \in Values(SubSeq(ts, k + 1, Len(ts)))}
  ELSE IF Len(ts) = 1 /\ ts[1].op = "NUMBER"
  THEN {[number |-> ts[1].number, below |-> FALSE]}
  ELSE IF Len(ts) >= 3 /\ ts[1].op = "LPAR" /\ ts[Len(ts)].op = "RPAR"
            /\ \A k \in 1..Len(ts) - 1 : Depth(ts, k) > 0
  THEN Values(SubSeq(ts, 2, Len(ts) - 1))
  ELSE {}

(***************************************************************************)
(* Properties                                                              *)
(***************************************************************************)
Complaints == {Say("Stack already full"), Say("Queue already full")}

Complained == console # <<>> /\ Last(console) \in Complaints

Answering == at = "calc" /\ Ended

(* The answer to a line that is a term is the value of the term, whatever  *)
(* the lines before it were, unless the line has been answered with a      *)
(* complaint that there is no room or has a product below zero in it.      *)
TermsEvaluated ==
  Answering /\ ~Complained =>
    \A v \in Values(Front(term)) : ~v.below => Top = Number_(v.number)

(* The same of every term: fix_mul rounds up "if fraction is >= 0.5"       *)
(* (fix16.c:15), a product below zero like any other. C's division rounds  *)
(* towards zero, though, and -1 * 1 is -65535/65536.                       *)
ProductsRounded ==
  Answering /\ ~Complained =>
    \A v \in Values(Front(term)) : Top = Number_(v.number)

(* The characters of a printed number. *)
Written(p) ==
  LET Width10 == CHOOSE n \in 1..10 : p.int < 10^n /\ \A j \in 1..n - 1 : p.int >= 10^j
      Char(d) == DigitChars[d + 1]
  IN [n \in 1..Width10 |-> Char((p.int \div 10^(Width10 - n)) % 10)]
       \o <<".">> \o [n \in DOMAIN p.frac |-> Char(p.frac[n])]

(* A number that was printed without a sign is read back as the same       *)
(* number, if its fraction has no more digits than fix_parse can scale in  *)
(* its register: 4 of 32 bits in the code.                                 *)
ReadsBack ==
  Answering /\ Top.op = "NUMBER" /\ Top.number >= 0 =>
    LET p == fix_print(Top.number)
    IN 10^Len(p.frac) * One <= Pow[Width] =>
         fix_parse(Written(p) \o <<"nl">>)
           = [defined |-> TRUE, number |-> Top.number, rest |-> <<"nl">>]

(* The program reads to the end of its input, unless it divides by 0 on    *)
(* the way, and none of its loops runs for ever.                           *)
Returns == <>(at \in {"returned", "undefined"})
=============================================================================
