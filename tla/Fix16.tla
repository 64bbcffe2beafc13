------------------------------- MODULE Fix16 -------------------------------
(***************************************************************************)
(* bench/common/fix16.c: numbers with a sign of Width bits, Frac of which  *)
(* are behind the point (32 and 16 in the code). Loops over digits are     *)
(* functions; the loop of the division is in LongDivision.                 *)
(***************************************************************************)
EXTENDS LongDivision, Sequences, SequencesExt

CONSTANT Frac

ASSUME FracAssumption == Frac \in 1..Width - 1 /\ Bits = Width + Frac

One     == Pow[Frac]
FIX_MAX == Pow[Width - 1] - 1
FIX_MIN == -Pow[Width - 1]
Fix     == FIX_MIN..FIX_MAX

(* Mutant: there is no test for an underflow. *)
ClampedUp(n) == IF n > FIX_MAX THEN FIX_MAX ELSE n

Clamped(n) == IF n > FIX_MAX THEN FIX_MAX ELSE IF n < FIX_MIN THEN FIX_MIN ELSE n

(* A register of Width bits, read with a sign. *)
Wrapped(n) == ((n + Pow[Width - 1]) % Pow[Width]) - Pow[Width - 1]

(* Mutant: a sign is not taken away. *)
MagnitudeSigned(n) == n

Magnitude(n) == IF n < 0 THEN -n ELSE n

fix_add(left, right) == Clamped(left + right)
fix_sub(left, right) == Clamped(left - right)

(* C's division of the sum by FIX_CONST_1 truncates. *)
fix_mul(left, right) ==
  LET sum == left * right + One \div 2
  IN Clamped(IF sum < 0 THEN -((-sum) \div One) ELSE sum \div One)

(* What fix_div makes of fix_divu's quotient. *)
fix_div_result(left, right, q) ==
  LET result == IF q >= FIX_MAX THEN FIX_MAX ELSE q
  IN IF (left < 0) # (right < 0) THEN -result ELSE result

(***************************************************************************)
(* Text. A character is a string of one letter, "nl", or "eof".            *)
(***************************************************************************)
DigitChars == <<"0", "1", "2", "3", "4", "5", "6", "7", "8", "9">>
IsDigit(c) == c \in ToSet(DigitChars)
Digit(c)   == (CHOOSE n \in 1..10 : DigitChars[n] = c) - 1

(* How many digits a text begins with, and their number. *)
Digits(text) ==
  CHOOSE n \in 0..Len(text) :
    /\ \A k \in 1..n : IsDigit(text[k])
    /\ n < Len(text) => ~IsDigit(text[n + 1])

(* result and frac: gcc's multiplication of signed numbers wraps. *)
Number(text, n) ==
  LET number[k \in 0..n] == IF k = 0 THEN 0
                            ELSE (10 * number[k - 1] + Digit(text[k])) % Pow[Width]
  IN number[n]

(* scale: behind as many digits as the register has bits it is 0. *)
Scale(n) ==
  LET scale[k \in 0..n] == IF k = 0 THEN 1 ELSE (10 * scale[k - 1]) % Pow[Width]
  IN scale[n]

(* Mutant: the fraction is scaled before it is complete. *)
FractionEarly(text, n) == IF n = 0 THEN 0 ELSE (One \div 10) * Number(text, n)

(* frac << 16 is cut to 32 bits, as scale is. *)
Fraction(text, n) == ((Number(text, n) * One) % Pow[Width]) \div Scale(n)

(* fix_parse: the number, and the text from the character that ungetchar   *)
(* puts back; undefined when it divides by 0.                              *)
fix_parse(text) ==
  LET signed == text[1] \in {"+", "-"}
      t1     == IF signed THEN Tail(text) ELSE text
      n      == Digits(t1)
      t2     == SubSeq(t1, n + 1, Len(t1))
      point  == t2[1] = "."
      f      == IF point THEN Digits(Tail(t2)) ELSE 0
      value  == Number(t1, n) * One + IF point THEN Fraction(Tail(t2), f) ELSE 0
  IN [defined |-> Scale(f) # 0,
      number  |-> IF Scale(f) = 0 THEN 0
                  ELSE Wrapped(IF text[1] = "-" THEN -value ELSE value),
      rest    |-> IF point THEN SubSeq(t2, f + 2, Len(t2)) ELSE t2]

(* fix_print: the number and the digits before and behind the point. It    *)
(* stops when the rest of the fraction is 0. For FIX_MIN, which is its own *)
(* negative, the number before the point is negative, and what is printed  *)
(* for it are no digits.                                                   *)
fix_print(f) ==
  LET m     == Magnitude(f)
      part  == m % One
      Ten(n) == (part * 10^n) % One
      stop  == CHOOSE n \in 1..Frac + 1 : Ten(n) = 0 /\ \A j \in 1..n - 1 : Ten(j) # 0
  IN [minus |-> f < 0, int |-> IF f = FIX_MIN THEN -(m \div One) ELSE m \div One,
      frac |-> [n \in 1..stop |-> (Ten(n - 1) * 10) \div One]]
=============================================================================
