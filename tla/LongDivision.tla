---------------------------- MODULE LongDivision ----------------------------
(***************************************************************************)
(* The long division of the benchmark runtime: fix_divu of                 *)
(* bench/common/fix16.c, and divu32 of bench/common/div.c, which has the   *)
(* same loop over fewer bits. The processor of the benchmarks need not     *)
(* have a divider.                                                         *)
(*                                                                         *)
(* The dividend is a register of Bits bits (48 of a uint64_t in fix_divu,  *)
(* 32 in divu32), the remainder one of Width bits (32 in both). Pow[n] is  *)
(* two to the power of n.                                                  *)
(***************************************************************************)
EXTENDS Integers

CONSTANTS Bits, Width, Pow, Divisors

ASSUME WidthAssumption == Bits \in Nat \ {0} /\ Width \in Nat \ {0}

ASSUME PowAssumption ==
  /\ Pow \in [0..Bits + Width -> Nat]
  /\ Pow[0] = 1
  /\ \A n \in 0..Bits + Width - 1 : Pow[n + 1] = 2 * Pow[n]
  /\ \A n \in 0..Bits + Width : \A m \in 0..n : Pow[m] <= Pow[n]

(* In fix_divu a divisor is the absolute value of a number with a sign; in *)
(* divu32 it is any unsigned number, and there are no more bits than fit   *)
(* the remainder.                                                          *)
ASSUME DivisorsAssumption ==
  /\ Divisors \subseteq 1..Pow[Width] - 1 /\ 1 \in Divisors
  /\ (\A d \in Divisors : d <= Pow[Width - 1]) \/ Bits <= Width

VARIABLES
  num,          \* the bits of the dividend that have not been used, at the top
  divisor,
  quot, rem,
  i,            \* how many are left: one more than the code's i
  dividend      \* what num was at the beginning
lvars == <<num, divisor, quot, rem, i, dividend>>

LInit ==
  /\ num = 0 /\ divisor = 1 /\ quot = 0 /\ rem = 0 /\ i = 0 /\ dividend = 0

Divide(n, d) ==
  /\ num' = n /\ dividend' = n /\ divisor' = d
  /\ quot' = 0 /\ rem' = 0 /\ i' = Bits

TopBit == num \div Pow[Bits - 1]

(* Mutant: the remainder is compared with the divisor too strictly. *)
IterateGreater ==
  LET r == (2 * rem + TopBit) % Pow[Width]
  IN /\ i > 0
     /\ i' = i - 1
     /\ num' = (2 * num) % Pow[Bits]
     /\ IF r > divisor
        THEN rem' = r - divisor /\ quot' = 2 * quot + 1
        ELSE rem' = r /\ quot' = 2 * quot
     /\ UNCHANGED <<divisor, dividend>>

(* Mutant: i has no sign, and is never below 0. *)
IterateUnsigned ==
  LET r == (2 * rem + TopBit) % Pow[Width]
  IN /\ i > 0
     /\ i' = IF i = 1 THEN Bits ELSE i - 1
     /\ num' = (2 * num) % Pow[Bits]
     /\ IF r >= divisor
        THEN rem' = r - divisor /\ quot' = (2 * quot + 1) % Pow[Bits]
        ELSE rem' = r /\ quot' = (2 * quot) % Pow[Bits]
     /\ UNCHANGED <<divisor, dividend>>

(* One iteration of the loop. *)
Iterate ==
  LET r == (2 * rem + TopBit) % Pow[Width]
  IN /\ i > 0
     /\ i' = i - 1
     /\ num' = (2 * num) % Pow[Bits]
     /\ IF r >= divisor
        THEN rem' = r - divisor /\ quot' = 2 * quot + 1
        ELSE rem' = r /\ quot' = 2 * quot
     /\ UNCHANGED <<divisor, dividend>>

LNext ==
  \/ /\ i = 0
     /\ num' \in 0..Pow[Bits] - 1 /\ divisor' \in Divisors
     /\ Divide(num', divisor')
  \/ Iterate

LSpec == LInit /\ [][LNext]_lvars

(***************************************************************************)
(* Properties                                                              *)
(***************************************************************************)

(* Before every iteration quot and rem are the quotient and the remainder  *)
(* of the leading bits of the dividend, so that at the end they are those  *)
(* of all of it; and the remainder can be doubled in its register.         *)
Divides ==
  /\ num = (dividend * Pow[Bits - i]) % Pow[Bits]
  /\ quot * divisor + rem = (dividend * Pow[Bits - i]) \div Pow[Bits]
  /\ rem < divisor
  /\ i > 0 => 2 * rem + 1 < Pow[Width]
=============================================================================
