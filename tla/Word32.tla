------------------------------- MODULE Word32 -------------------------------
(***************************************************************************)
(* The arithmetic of simulator/simulator.c on uint32_t: words as pairs of  *)
(* halves, because TLC's integers have 32 bits and a sign.                 *)
(***************************************************************************)
EXTENDS Instr

Zero == <<0, 0>>
One  == <<0, 1>>

(* The word of an integer, negative ones in two's complement. *)
ToWord(n) == <<(n \div 65536) % 65536, n % 65536>>

Negative(a) == a[1] >= 32768

(***************************************************************************)
(* The operators of C on uint32_t that the simulator uses.                 *)
(***************************************************************************)
Plus(a, b) ==
  LET low == a[2] + b[2]
  IN <<(a[1] + b[1] + low \div 65536) % 65536, low % 65536>>

Not(a) == <<65535 - a[1], 65535 - a[2]>>

Minus(a, b) == Plus(Plus(a, Not(b)), One)

Below(a, b) == a[1] < b[1] \/ (a[1] = b[1] /\ a[2] < b[2])

(* The bits of a half, from the first one on, and the half of 16 bits.     *)
Bit(x, n) == (x \div 2^(16 - n)) % 2

FromBits(bit) ==
  LET value[n \in 0..16] == IF n = 0 THEN 0 ELSE 2 * value[n - 1] + bit[n]
  IN value[16]

Bitwise(f(_, _), a, b) ==
  LET half(k) == FromBits([n \in 1..16 |-> f(Bit(a[k], n), Bit(b[k], n))])
  IN <<half(1), half(2)>>

And(a, b) == Bitwise(LAMBDA x, y : x * y, a, b)
Or(a, b)  == Bitwise(LAMBDA x, y : x + y - x * y, a, b)
Xor(a, b) == Bitwise(LAMBDA x, y : (x + y) % 2, a, b)

(***************************************************************************)
(* The functions of simulator.c. n is the amount of a shift.               *)
(***************************************************************************)
sll(w, n) ==
  IF n >= 16 THEN <<(w[2] * 2^(n - 16)) % 65536, 0>>
  ELSE <<(w[1] * 2^n + w[2] \div 2^(16 - n)) % 65536, (w[2] * 2^n) % 65536>>

srl(w, n) ==
  IF n >= 16 THEN <<0, w[1] \div 2^(n - 16)>>
  ELSE <<w[1] \div 2^n, w[2] \div 2^n + (w[1] % 2^n) * 2^(16 - n)>>

sra(w, n) == IF Negative(w) THEN Not(srl(Not(w), n)) ELSE srl(w, n)

slt(a, b) == IF Negative(a) # Negative(b) THEN Negative(a) ELSE Below(a, b)

sign_b(byte) == IF byte < 128 THEN <<0, byte>> ELSE <<65535, 65280 + byte>>
sign_h(half) == IF half < 32768 THEN <<0, half>> ELSE <<65535, half>>

(* The product of two words, from their bytes: <<hi, lo>>. *)
Byte(w, i) == (w[2 - i \div 2] \div 256^(i % 2)) % 256

multu(a, b) ==
  LET term(k, i) == IF k - i \in 0..3 THEN Byte(a, i) * Byte(b, k - i) ELSE 0
      column(k) == term(k, 0) + term(k, 1) + term(k, 2) + term(k, 3)
      sum[k \in 0..7] == column(k) + IF k = 0 THEN 0 ELSE sum[k - 1] \div 256
      half(k) == (sum[k + 1] % 256) * 256 + (sum[k] % 256)
  IN <<<<half(6), half(4)>>, <<half(2), half(0)>>>>

mult(a, b) ==
  LET p  == multu(a, b)
      h1 == IF Negative(a) THEN Minus(p[1], b) ELSE p[1]
  IN <<IF Negative(b) THEN Minus(h1, a) ELSE h1, p[2]>>

(* Quotient and remainder, one bit of a after the other. The remainder     *)
(* needs 33 bits before the divisor is taken off.                          *)
divu(a, b) ==
  LET bit(n) == (a[1 + n \div 16] \div 2^(15 - (n % 16))) % 2
      next(d, n) ==
        LET low == 2 * d.rem[2] + bit(n)
            r   == <<2 * d.rem[1] + low \div 65536, low % 65536>>
            q   == sll(d.quot, 1)
        IN IF Below(r, b) THEN [quot |-> q, rem |-> r]
           ELSE [quot |-> Plus(q, One), rem |-> Minus(r, b)]
      div[n \in 0..32] == IF n = 0 THEN [quot |-> Zero, rem |-> Zero] ELSE next(div[n - 1], n - 1)
  IN div[32]

Negated(a) == Minus(Zero, a)
Magnitude(a) == IF Negative(a) THEN Negated(a) ELSE a

(* C's signed division truncates, and the remainder has the sign of a. *)
divs(a, b) ==
  LET d == divu(Magnitude(a), Magnitude(b))
  IN [quot |-> IF Negative(a) # Negative(b) THEN Negated(d.quot) ELSE d.quot,
      rem  |-> IF Negative(a) THEN Negated(d.rem) ELSE d.rem]
=============================================================================
