--------------------------- MODULE SimulatorProofs --------------------------
(***************************************************************************)
(* The simulator keeps its types, and its cycles implement the delay slots *)
(* of DelaySlot: for every program, every size of the memories and every   *)
(* number of cycles.                                                       *)
(*                                                                         *)
(* First the arithmetic of Word32: every operator yields a word. A prover  *)
(* knows a power of two with a number for its exponent, and nothing of one *)
(* with a variable there; a shift is split into the sixteen of them.       *)
(***************************************************************************)
EXTENDS Simulator, LayoutProofs, InstrProofs

PowerPairs ==
  {<<1, 65536>>, <<2, 32768>>, <<4, 16384>>, <<8, 8192>>, <<16, 4096>>, <<32, 2048>>,
   <<64, 1024>>, <<128, 512>>, <<256, 256>>, <<512, 128>>, <<1024, 64>>, <<2048, 32>>,
   <<4096, 16>>, <<8192, 8>>, <<16384, 4>>, <<32768, 2>>, <<65536, 1>>}

(* Two powers whose product is 65536. *)
LEMMA Powers ==
  ASSUME NEW n \in 0..16
  PROVE  <<2^n, 2^(16 - n)>> \in PowerPairs
<1> DEFINE pair(k) == <<2^k, 2^(16 - k)>> \in PowerPairs
<1>1. /\ pair(0) /\ pair(1) /\ pair(2) /\ pair(3) /\ pair(4) /\ pair(5) /\ pair(6)
      /\ pair(7) /\ pair(8) /\ pair(9) /\ pair(10) /\ pair(11) /\ pair(12)
      /\ pair(13) /\ pair(14) /\ pair(15) /\ pair(16)
  BY DEF PowerPairs
<1>2. \/ n = 0 \/ n = 1 \/ n = 2 \/ n = 3 \/ n = 4 \/ n = 5 \/ n = 6 \/ n = 7 \/ n = 8
      \/ n = 9 \/ n = 10 \/ n = 11 \/ n = 12 \/ n = 13 \/ n = 14 \/ n = 15 \/ n = 16
  OBVIOUS
<1> HIDE DEF pair
<1>3. pair(n)
  BY ONLY <1>1, <1>2, Zenon
<1> QED
  BY <1>3, Zenon DEF pair

(* What the shifts and Bit compute of halves is a half or a bit. *)
LEMMA PowerArithmetic ==
  ASSUME NEW p, NEW q, <<p, q>> \in PowerPairs, NEW x \in Half, NEW y \in Half
  PROVE  /\ x \div p \in Half
         /\ (x \div p) % 2 \in 0..1
         /\ (x * p + y \div q) % 65536 \in Half
         /\ (x * p) % 65536 \in Half
         /\ y \div p + (x % p) * q \in Half
<1>1. x \in Nat /\ x <= 65535 /\ y \in Nat /\ y <= 65535
  BY HalfBounds
<1>2. \/ p = 1 /\ q = 65536
      \/ p = 2 /\ q = 32768
      \/ p = 4 /\ q = 16384
      \/ p = 8 /\ q = 8192
      \/ p = 16 /\ q = 4096
      \/ p = 32 /\ q = 2048
      \/ p = 64 /\ q = 1024
      \/ p = 128 /\ q = 512
      \/ p = 256 /\ q = 256
      \/ p = 512 /\ q = 128
      \/ p = 1024 /\ q = 64
      \/ p = 2048 /\ q = 32
      \/ p = 4096 /\ q = 16
      \/ p = 8192 /\ q = 8
      \/ p = 16384 /\ q = 4
      \/ p = 32768 /\ q = 2
      \/ p = 65536 /\ q = 1
  BY DEF PowerPairs
<1>3. x \div p \in Nat /\ x \div p <= 65535 /\ (x \div p) % 2 \in 0..1
  <2>1. x \div p \in Nat /\ x \div p <= x
    BY ONLY <1>1, <1>2, SMTT(60)
  <2> QED
    BY ONLY <1>1, <2>1
<1>4. x * p + y \div q \in Nat /\ x * p \in Nat
  BY ONLY <1>1, <1>2, SMTT(60)
<1>5. y \div p + (x % p) * q \in Nat /\ y \div p + (x % p) * q <= 65535
  BY ONLY <1>1, <1>2, SMTT(60)
<1> QED
  BY <1>3, <1>4, <1>5, HalfFits, Remainders

(* The bounds of the halves of a word. *)
LEMMA WordBounds ==
  ASSUME NEW a \in Word
  PROVE  a[1] \in Nat /\ a[1] <= 65535 /\ a[2] \in Nat /\ a[2] <= 65535
BY WordParts, HalfBounds

(* Every integer has a word, and so have zero and one. *)
LEMMA ToWordType ==
  /\ \A n \in Int : ToWord(n) \in Word
  /\ Zero \in Word /\ One \in Word
<1>1. \A n \in Int : n % 65536 \in Half /\ (n \div 65536) % 65536 \in Half
  BY Remainders, HalfFits
<1>2. 0 \in Half /\ 1 \in Half
  BY HalfFits
<1> QED
  BY <1>1, <1>2, WordParts DEF ToWord, Zero, One

(* Sums, complements and differences of words are words. *)
LEMMA PlusType ==
  ASSUME NEW a \in Word, NEW b \in Word
  PROVE  Plus(a, b) \in Word /\ Not(a) \in Word /\ Minus(a, b) \in Word
<1>1. ASSUME NEW c \in Word, NEW d \in Word
      PROVE  Plus(c, d) \in Word
  <2> DEFINE low == c[2] + d[2]
             high == c[1] + d[1] + low \div 65536
  <2>1. low \in Int /\ high \in Int
    BY WordBounds
  <2> HIDE DEF low, high
  <2>2. low % 65536 \in Half /\ high % 65536 \in Half
    BY <2>1, Remainders, HalfFits
  <2> QED
    BY <2>2, WordParts DEF Plus, low, high
<1>2. ASSUME NEW c \in Word
      PROVE  Not(c) \in Word
  <2>1. /\ 65535 - c[1] \in Nat /\ 65535 - c[1] <= 65535
        /\ 65535 - c[2] \in Nat /\ 65535 - c[2] <= 65535
    BY WordBounds
  <2> QED
    BY <2>1, HalfFits, WordParts DEF Not
<1> QED
  BY <1>1, <1>2, ToWordType DEF Minus

(* Shifted words are words. *)
LEMMA ShiftType ==
  ASSUME NEW w \in Word, NEW n \in 0..31
  PROVE  sll(w, n) \in Word /\ srl(w, n) \in Word /\ sra(w, n) \in Word
<1>1. 0 \in Half
  BY HalfFits
<1>2. ASSUME NEW c \in Word
      PROVE  sll(c, n) \in Word /\ srl(c, n) \in Word
  <2>1. c[1] \in Half /\ c[2] \in Half
    BY WordParts
  <2>2. CASE n >= 16
    <3> DEFINE p == 2^(n - 16)
               q == 2^(16 - (n - 16))
               high == (c[2] * p) % 65536
               low  == c[1] \div p
    <3>1. n - 16 \in 0..16
      BY <2>2
    <3>2. <<p, q>> \in PowerPairs
      BY <3>1, Powers, Zenon
    <3>3. sll(c, n) = <<high, 0>> /\ srl(c, n) = <<0, low>>
      BY <2>2 DEF sll, srl
    <3> HIDE DEF p, q
    <3>4. high \in Half /\ low \in Half
      BY <2>1, <3>2, PowerArithmetic
    <3> HIDE DEF high, low
    <3> QED
      BY <1>1, <3>3, <3>4, WordParts
  <2>3. CASE ~(n >= 16)
    <3> DEFINE p == 2^n
               q == 2^(16 - n)
               left1  == (c[1] * p + c[2] \div q) % 65536
               left2  == (c[2] * p) % 65536
               right1 == c[1] \div p
               right2 == c[2] \div p + (c[1] % p) * q
    <3>1. n \in 0..16
      BY <2>3
    <3>2. <<p, q>> \in PowerPairs
      BY <3>1, Powers, Zenon
    <3>3. sll(c, n) = <<left1, left2>> /\ srl(c, n) = <<right1, right2>>
      BY <2>3 DEF sll, srl
    <3> HIDE DEF p, q
    <3>4. left1 \in Half /\ left2 \in Half /\ right1 \in Half /\ right2 \in Half
      BY <2>1, <3>2, PowerArithmetic
    <3> HIDE DEF left1, left2, right1, right2
    <3> QED
      BY <3>3, <3>4, WordParts
  <2> QED
    BY <2>2, <2>3
<1>3. Not(w) \in Word
  BY PlusType
<1>4. Not(srl(Not(w), n)) \in Word
  BY <1>2, <1>3, PlusType
<1> QED
  BY <1>2, <1>4 DEF sra

(* Sixteen bits make a half. *)
LEMMA BitsType ==
  ASSUME NEW bit \in [1..16 -> 0..1]
  PROVE  FromBits(bit) \in Half
<1> DEFINE step == [nv \in (1..16) \X Int |-> 2 * nv[2] + bit[nv[1]]]
           eq(h) == h = [n \in 0..16 |-> IF n = 0 THEN 0 ELSE 2 * h[n - 1] + bit[n]]
           value == CHOOSE h : eq(h)
<1>1. \A n \in 1..16 : \A v \in Int : step[<<n, v>>] = 2 * v + bit[n] /\ step[<<n, v>>] \in Int
  OBVIOUS
<1> HIDE DEF step
<1>2. PICK h : IsRec(h, 16, 0, step)
  BY RecExists
<1>3. h \in [0..16 -> Int]
  <2>1. 0 \in Int /\ 16 \in Nat /\ \A n \in 1..16 : \A v \in Int : step[<<n, v>>] \in Int
    BY <1>1
  <2> QED
    BY <1>2, <2>1, RecType, Zenon
<1>4. eq(h)
  <2>1. h = [n \in 0..16 |-> IF n = 0 THEN 0 ELSE step[<<n, h[n - 1]>>]]
    BY <1>2 DEF IsRec
  <2>2. ASSUME NEW n \in 0..16
        PROVE  h[n] = IF n = 0 THEN 0 ELSE 2 * h[n - 1] + bit[n]
    <3>1. CASE n = 0
      BY <2>1, <3>1
    <3>2. CASE n # 0
      <4>1. n \in 1..16 /\ n - 1 \in 0..16
        BY <3>2
      <4>2. h[n - 1] \in Int
        BY <1>3, <4>1
      <4>3. step[<<n, h[n - 1]>>] = 2 * h[n - 1] + bit[n]
        BY <1>1, <4>1, <4>2
      <4> QED
        BY <2>1, <3>2, <4>3
    <3> QED
      BY <3>1, <3>2
  <2> QED
    BY <1>3, <2>2
<1>5. eq(value)
  BY <1>4
<1>6. FromBits(bit) = value[16]
  BY DEF FromBits
<1> HIDE DEF value
<1>7. /\ value[0] = 0
      /\ \A n \in 1..16 : value[n] = 2 * value[n - 1] + bit[n]
  BY <1>5
<1> HIDE DEF eq
<1> DEFINE next(n, m) == value[n] = 2 * value[m] + bit[n] /\ bit[n] \in 0..1
           upto(n, b) == value[n] \in Nat /\ value[n] <= b
<1>8. \A m \in 0..15, n \in 1..16 : n = m + 1 => next(n, m)
  <2>1. ASSUME NEW m \in 0..15, NEW n \in 1..16, n = m + 1
        PROVE  next(n, m)
    <3>1. n - 1 = m /\ bit[n] \in 0..1
      BY <2>1
    <3> QED
      BY <1>7, <3>1
  <2> QED
    BY <2>1
<1>9. \A m, n : \A b \in Nat : next(n, m) /\ upto(m, b) => upto(n, 2 * b + 1)
  OBVIOUS
<1>10. upto(0, 0)
  BY <1>7
<1> HIDE DEF next, upto
<1>11. /\ next(1, 0) /\ next(2, 1) /\ next(3, 2) /\ next(4, 3) /\ next(5, 4) /\ next(6, 5)
       /\ next(7, 6) /\ next(8, 7) /\ next(9, 8) /\ next(10, 9) /\ next(11, 10)
       /\ next(12, 11) /\ next(13, 12) /\ next(14, 13) /\ next(15, 14) /\ next(16, 15)
  BY ONLY <1>8
<1>12. \A m, n : \A b \in Nat : next(n, m) /\ upto(m, b) => upto(n, 2 * b + 1)
  BY <1>9
<1>13. upto(1, 1)
  BY ONLY <1>11, <1>12, <1>10
<1>14. upto(2, 3)
  BY ONLY <1>11, <1>12, <1>13
<1>15. upto(3, 7)
  BY ONLY <1>11, <1>12, <1>14
<1>16. upto(4, 15)
  BY ONLY <1>11, <1>12, <1>15
<1>17. upto(5, 31)
  BY ONLY <1>11, <1>12, <1>16
<1>18. upto(6, 63)
  BY ONLY <1>11, <1>12, <1>17
<1>19. upto(7, 127)
  BY ONLY <1>11, <1>12, <1>18
<1>20. upto(8, 255)
  BY ONLY <1>11, <1>12, <1>19
<1>21. upto(9, 511)
  BY ONLY <1>11, <1>12, <1>20
<1>22. upto(10, 1023)
  BY ONLY <1>11, <1>12, <1>21
<1>23. upto(11, 2047)
  BY ONLY <1>11, <1>12, <1>22
<1>24. upto(12, 4095)
  BY ONLY <1>11, <1>12, <1>23
<1>25. upto(13, 8191)
  BY ONLY <1>11, <1>12, <1>24
<1>26. upto(14, 16383)
  BY ONLY <1>11, <1>12, <1>25
<1>27. upto(15, 32767)
  BY ONLY <1>11, <1>12, <1>26
<1>28. upto(16, 65535)
  BY ONLY <1>11, <1>12, <1>27
<1>29. value[16] \in Half
  BY <1>28, HalfFits DEF upto
<1> QED
  BY <1>6, <1>29, Zenon

(* The bits of a half. *)
LEMMA BitType ==
  ASSUME NEW x \in Half, NEW n \in 1..16
  PROVE  Bit(x, n) \in 0..1
<1> DEFINE p == 2^(16 - n)
           q == 2^(16 - (16 - n))
<1>1. 16 - n \in 0..16
  OBVIOUS
<1>2. <<p, q>> \in PowerPairs
  BY <1>1, Powers, Zenon
<1> HIDE DEF p, q
<1>3. (x \div p) % 2 \in 0..1
  BY <1>2, PowerArithmetic
<1> QED
  BY <1>3, Zenon DEF Bit, p

(* The bitwise operators of words yield words. *)
LEMMA BitwiseType ==
  ASSUME NEW a \in Word, NEW b \in Word
  PROVE  And(a, b) \in Word /\ Or(a, b) \in Word /\ Xor(a, b) \in Word
<1>1. ASSUME NEW x \in Half, NEW y \in Half
      PROVE  /\ FromBits([n \in 1..16 |-> Bit(x, n) * Bit(y, n)]) \in Half
             /\ FromBits([n \in 1..16 |-> Bit(x, n) + Bit(y, n) - Bit(x, n) * Bit(y, n)]) \in Half
             /\ FromBits([n \in 1..16 |-> (Bit(x, n) + Bit(y, n)) % 2]) \in Half
  <2> DEFINE and == [n \in 1..16 |-> Bit(x, n) * Bit(y, n)]
             or  == [n \in 1..16 |-> Bit(x, n) + Bit(y, n) - Bit(x, n) * Bit(y, n)]
             xor == [n \in 1..16 |-> (Bit(x, n) + Bit(y, n)) % 2]
  <2>1. ASSUME NEW i, i \in {0, 1}, NEW j, j \in {0, 1}
        PROVE  i * j \in 0..1 /\ i + j - i * j \in 0..1 /\ (i + j) % 2 \in 0..1
    BY <2>1
  <2>2. \A n \in 1..16 : Bit(x, n) \in {0, 1} /\ Bit(y, n) \in {0, 1}
    BY BitType
  <2>3. \A n \in 1..16 : /\ Bit(x, n) * Bit(y, n) \in 0..1
                         /\ Bit(x, n) + Bit(y, n) - Bit(x, n) * Bit(y, n) \in 0..1
                         /\ (Bit(x, n) + Bit(y, n)) % 2 \in 0..1
    BY <2>1, <2>2, Zenon
  <2>4. and \in [1..16 -> 0..1] /\ or \in [1..16 -> 0..1] /\ xor \in [1..16 -> 0..1]
    BY <2>3, Zenon
  <2> QED
    BY <2>4, BitsType, Zenon
<1>2. a[1] \in Half /\ a[2] \in Half /\ b[1] \in Half /\ b[2] \in Half
  BY WordParts
<1>3. And(a, b) \in Word
  BY <1>1, <1>2, WordParts, Zenon DEF And, Bitwise
<1>4. Or(a, b) \in Word
  BY <1>1, <1>2, WordParts, Zenon DEF Or, Bitwise
<1>5. Xor(a, b) \in Word
  BY <1>1, <1>2, WordParts, Zenon DEF Xor, Bitwise
<1> QED
  BY <1>3, <1>4, <1>5

(* Sign extended bytes and halves are words. *)
LEMMA SignType ==
  /\ \A byte \in Bytes : sign_b(byte) \in Word /\ <<0, byte>> \in Word
  /\ \A half \in Half : sign_h(half) \in Word /\ <<0, half>> \in Word
<1>1. 0 \in Half /\ 65535 \in Half
  BY HalfFits
<1>2. \A byte \in Bytes : byte \in Half /\ 65280 + byte \in Half
  <2>1. ASSUME NEW byte \in Bytes
        PROVE  /\ byte \in Nat /\ byte <= 65535
               /\ 65280 + byte \in Nat /\ 65280 + byte <= 65535
    BY DEF Bytes
  <2> QED
    BY <2>1, HalfFits
<1> QED
  BY <1>1, <1>2, WordParts DEF sign_b, sign_h

(* The bytes of a word. *)
LEMMA ByteType ==
  ASSUME NEW w \in Word, NEW i \in 0..3
  PROVE  Byte(w, i) \in Bytes
<1> DEFINE field(x, e) == (x \div 256^e) % 256
           at  == 2 - i \div 2
           exp == i % 2
<1>1. ASSUME NEW x \in Half
      PROVE  field(x, 0) \in Bytes /\ field(x, 1) \in Bytes
  <2>1. x \in Nat
    BY HalfBounds
  <2> QED
    BY <2>1 DEF Bytes
<1>2. at \in {1, 2} /\ exp \in {0, 1}
  OBVIOUS
<1>3. Byte(w, i) = field(w[at], exp)
  BY DEF Byte
<1> HIDE DEF field, at, exp
<1>4. w[1] \in Half /\ w[2] \in Half
  BY WordParts
<1> QED
  BY <1>1, <1>2, <1>3, <1>4, Zenon

(* The product of two words is two words. *)
LEMMA MultuType ==
  ASSUME NEW a \in Word, NEW b \in Word
  PROVE  multu(a, b)[1] \in Word /\ multu(a, b)[2] \in Word
<1> DEFINE term(k, i) == IF k - i \in 0..3 THEN Byte(a, i) * Byte(b, k - i) ELSE 0
           column(k)  == term(k, 0) + term(k, 1) + term(k, 2) + term(k, 3)
           step       == [nv \in (1..7) \X Int |-> column(nv[1]) + nv[2] \div 256]
           eq(h)      == h = [k \in 0..7 |-> column(k) + IF k = 0 THEN 0 ELSE h[k - 1] \div 256]
           sum        == CHOOSE h : eq(h)
           half(k)    == (sum[k + 1] % 256) * 256 + (sum[k] % 256)
<1>1. \A k \in 0..7 : column(k) \in Int
  <2>1. ASSUME NEW k \in 0..7, NEW i \in 0..3
        PROVE  term(k, i) \in Int
    <3>1. CASE k - i \in 0..3
      <4>1. Byte(a, i) \in Bytes /\ Byte(b, k - i) \in Bytes
        BY <3>1, ByteType, Zenon
      <4>2. Byte(a, i) * Byte(b, k - i) \in Int
        <5>1. \A x, y \in Bytes : x * y \in Int
          BY DEF Bytes
        <5> QED
          BY <4>1, <5>1, Zenon
      <4> QED
        BY <3>1, <4>2, Zenon
    <3>2. CASE k - i \notin 0..3
      BY <3>2
    <3> QED
      BY <3>1, <3>2, Zenon
  <2> HIDE DEF term
  <2> QED
    BY <2>1
<1>2. multu(a, b) = <<<<half(6), half(4)>>, <<half(2), half(0)>>>>
  BY DEF multu
<1> HIDE DEF column
<1>3. \A n \in 1..7 : \A v \in Int : step[<<n, v>>] = column(n) + v \div 256
                                  /\ step[<<n, v>>] \in Int
  BY <1>1
<1> HIDE DEF step
<1>4. PICK h : IsRec(h, 7, column(0), step)
  BY RecExists
<1>5. h \in [0..7 -> Int]
  <2>1. column(0) \in Int /\ 7 \in Nat /\ \A n \in 1..7 : \A v \in Int : step[<<n, v>>] \in Int
    BY <1>1, <1>3
  <2> QED
    BY <1>4, <2>1, RecType, Zenon
<1>6. eq(h)
  <2>1. h = [n \in 0..7 |-> IF n = 0 THEN column(0) ELSE step[<<n, h[n - 1]>>]]
    BY <1>4 DEF IsRec
  <2>2. ASSUME NEW n \in 0..7
        PROVE  h[n] = column(n) + IF n = 0 THEN 0 ELSE h[n - 1] \div 256
    <3>1. CASE n = 0
      BY <1>1, <2>1, <3>1
    <3>2. CASE n # 0
      <4>1. n \in 1..7 /\ n - 1 \in 0..7
        BY <3>2
      <4>2. h[n - 1] \in Int
        BY <1>5, <4>1
      <4>3. step[<<n, h[n - 1]>>] = column(n) + h[n - 1] \div 256
        BY <1>3, <4>1, <4>2
      <4> QED
        BY <2>1, <3>2, <4>3
    <3> QED
      BY <3>1, <3>2
  <2> QED
    BY <1>5, <2>2
<1>7. eq(sum)
  BY <1>6, ZenonT(60)
<1> HIDE DEF sum
<1>8. /\ sum[0] = column(0) + 0
      /\ \A n \in 1..7 : sum[n] = column(n) + sum[n - 1] \div 256
  BY <1>7
<1> HIDE DEF eq
<1>9. \A n \in 0..7 : sum[n] \in Int
  <2>1. sum[0] \in Int
    BY <1>1, <1>8
  <2>2. ASSUME NEW n \in 1..7, sum[n - 1] \in Int
        PROVE  sum[n] \in Int
    BY <1>1, <1>8, <2>2
  <2> QED
    BY <2>1, <2>2, RecValues
<1>10. \A k \in 0..6 : half(k) \in Half
  <2>1. ASSUME NEW x \in Int, NEW y \in Int
        PROVE  (x % 256) * 256 + (y % 256) \in Half
    <3>1. /\ (x % 256) * 256 + (y % 256) \in Nat
          /\ (x % 256) * 256 + (y % 256) <= 65535
      OBVIOUS
    <3> QED
      BY <3>1, HalfFits
  <2>2. \A k \in 0..6 : sum[k + 1] \in Int /\ sum[k] \in Int
    BY <1>9
  <2> QED
    BY <2>1, <2>2
<1> HIDE DEF half
<1>11. half(6) \in Half /\ half(4) \in Half /\ half(2) \in Half /\ half(0) \in Half
  BY <1>10
<1> QED
  BY <1>2, <1>11, WordParts

(* The signed product is two words. *)
LEMMA MultType ==
  ASSUME NEW a \in Word, NEW b \in Word
  PROVE  mult(a, b)[1] \in Word /\ mult(a, b)[2] \in Word
<1> DEFINE p  == multu(a, b)
           h1 == IF Negative(a) THEN Minus(p[1], b) ELSE p[1]
           h2 == IF Negative(b) THEN Minus(h1, a) ELSE h1
<1>1. p[1] \in Word /\ p[2] \in Word
  BY MultuType
<1>2. mult(a, b) = <<h2, p[2]>>
  BY DEF mult
<1> HIDE DEF p
<1>3. h1 \in Word
  BY <1>1, PlusType
<1> HIDE DEF h1
<1>4. h2 \in Word
  BY <1>3, PlusType
<1> HIDE DEF h2
<1> QED
  BY <1>1, <1>2, <1>4

(* A word is taken off a number of 33 bits. *)
LEMMA MinusWide ==
  ASSUME NEW x \in Int, NEW y \in Int, NEW b \in Word
  PROVE  Minus(<<x, y>>, b) \in Word
<1> DEFINE c == Not(b)
           low == y + c[2]
           high == x + c[1] + low \div 65536
<1>1. c \in Word
  BY PlusType
<1>2. low \in Int /\ high \in Int
  <2> HIDE DEF c
  <2> QED
    BY <1>1, WordBounds
<1>3. Plus(<<x, y>>, c) = <<high % 65536, low % 65536>>
  BY DEF Plus
<1> HIDE DEF low, high, c
<1>4. high % 65536 \in Half /\ low % 65536 \in Half
  BY <1>2, Remainders, HalfFits
<1>5. Plus(<<x, y>>, c) \in Word
  BY <1>3, <1>4, WordParts
<1> QED
  BY <1>5, PlusType, ToWordType DEF Minus, c

(* One step of the division keeps quotient and remainder words. *)
Ratio == [quot : Word, rem : Word]

DivBit(a, n) == (a[1 + n \div 16] \div 2^(15 - (n % 16))) % 2

DivNext(a, b, d, n) ==
  LET low == 2 * d.rem[2] + DivBit(a, n)
      r   == <<2 * d.rem[1] + low \div 65536, low % 65536>>
      q   == sll(d.quot, 1)
  IN IF Below(r, b) THEN [quot |-> q, rem |-> r]
     ELSE [quot |-> Plus(q, One), rem |-> Minus(r, b)]

(* The bits of the dividend. *)
LEMMA DivBitType ==
  ASSUME NEW a \in Word, NEW n \in 0..31
  PROVE  DivBit(a, n) \in 0..1
<1> DEFINE e == 15 - (n % 16)
           p == 2^e
           q == 2^(16 - e)
           x == a[1 + n \div 16]
<1>1. e \in 0..16
  OBVIOUS
<1>2. x \in Half
  <2> DEFINE k == 1 + n \div 16
  <2>1. k \in {1, 2}
    OBVIOUS
  <2> HIDE DEF k
  <2>2. a[k] \in Half
    BY <2>1, WordParts
  <2> QED
    BY <2>2, Zenon DEF k
<1>3. DivBit(a, n) = (x \div p) % 2
  BY DEF DivBit
<1> HIDE DEF e
<1>4. <<p, q>> \in PowerPairs
  BY <1>1, Powers, Zenon
<1> HIDE DEF p, q, x
<1> QED
  BY <1>2, <1>3, <1>4, PowerArithmetic

LEMMA DivNextType ==
  ASSUME NEW a \in Word, NEW b \in Word, NEW d \in Ratio, NEW n \in 0..31
  PROVE  DivNext(a, b, d, n) \in Ratio
<1> DEFINE low == 2 * d.rem[2] + DivBit(a, n)
           x   == 2 * d.rem[1] + low \div 65536
           y   == low % 65536
           q   == sll(d.quot, 1)
<1>1. d.rem \in Word /\ d.quot \in Word
  BY DEF Ratio
<1>2. low \in Nat
  BY <1>1, WordBounds, DivBitType
<1>3. x \in Nat /\ y \in Half
  <2> HIDE DEF low
  <2> QED
    BY <1>1, <1>2, WordBounds, Remainders, HalfFits
<1>4. q \in Word /\ Plus(q, One) \in Word
  <2>1. 1 \in 0..31
    OBVIOUS
  <2>2. q \in Word
    BY <1>1, <2>1, ShiftType, Zenon
  <2> HIDE DEF q
  <2> QED
    BY <2>2, PlusType, ToWordType
<1>5. DivNext(a, b, d, n) =
        IF Below(<<x, y>>, b) THEN [quot |-> q, rem |-> <<x, y>>]
        ELSE [quot |-> Plus(q, One), rem |-> Minus(<<x, y>>, b)]
  BY DEF DivNext
<1> HIDE DEF low, x, y, q
<1>6. Minus(<<x, y>>, b) \in Word
  BY <1>3, HalfBounds, MinusWide
<1>7. ASSUME Below(<<x, y>>, b)
      PROVE  <<x, y>> \in Word
  <2>1. x <= 65535
    BY <1>3, <1>7, WordBounds DEF Below
  <2> QED
    BY <1>3, <2>1, HalfFits, WordParts
<1> QED
  BY <1>4, <1>5, <1>6, <1>7 DEF Ratio

(* Quotient and remainder are words. *)
LEMMA DivuType ==
  ASSUME NEW a \in Word, NEW b \in Word
  PROVE  divu(a, b) \in Ratio
<1> DEFINE base  == [quot |-> Zero, rem |-> Zero]
           step  == [nv \in (1..32) \X Ratio |-> DivNext(a, b, nv[2], nv[1] - 1)]
           eq(h) == h = [n \in 0..32 |-> IF n = 0 THEN base ELSE DivNext(a, b, h[n - 1], n - 1)]
           div   == CHOOSE h : eq(h)
<1>1. base \in Ratio
  BY ToWordType DEF Ratio
<1>2. divu(a, b) = div[32]
  BY DEF divu, DivNext, DivBit
<1>3. \A n \in 1..32 : \A v \in Ratio : step[<<n, v>>] = DivNext(a, b, v, n - 1)
                                     /\ DivNext(a, b, v, n - 1) \in Ratio
  <2>1. \A n \in 1..32 : n - 1 \in 0..31
    OBVIOUS
  <2> QED
    BY <2>1, DivNextType
<1> HIDE DEF base, step
<1>4. PICK h : IsRec(h, 32, base, step)
  BY RecExists
<1>5. h \in [0..32 -> Ratio]
  <2>1. 32 \in Nat /\ \A n \in 1..32 : \A v \in Ratio : step[<<n, v>>] \in Ratio
    BY <1>3
  <2> QED
    BY <1>1, <1>4, <2>1, RecType, Zenon
<1>6. eq(h)
  <2>1. h = [n \in 0..32 |-> IF n = 0 THEN base ELSE step[<<n, h[n - 1]>>]]
    BY <1>4 DEF IsRec
  <2>2. ASSUME NEW n \in 0..32
        PROVE  h[n] = IF n = 0 THEN base ELSE DivNext(a, b, h[n - 1], n - 1)
    <3>1. CASE n = 0
      BY <2>1, <3>1
    <3>2. CASE n # 0
      <4>1. n \in 1..32 /\ n - 1 \in 0..32
        BY <3>2
      <4>2. h[n - 1] \in Ratio
        BY <1>5, <4>1
      <4>3. step[<<n, h[n - 1]>>] = DivNext(a, b, h[n - 1], n - 1)
        BY <1>3, <4>1, <4>2
      <4> QED
        BY <2>1, <3>2, <4>3
    <3> QED
      BY <3>1, <3>2
  <2> QED
    BY <1>5, <2>2
<1>7. eq(div)
  BY <1>6
<1> HIDE DEF div
<1>8. /\ div[0] = base
      /\ \A n \in 1..32 : div[n] = DivNext(a, b, div[n - 1], n - 1)
  BY <1>7
<1> HIDE DEF eq
<1>9. div[32] \in Ratio
  <2>1. div[0] \in Ratio
    BY <1>1, <1>8
  <2>2. ASSUME NEW n \in 1..32, div[n - 1] \in Ratio
        PROVE  div[n] \in Ratio
    BY <1>3, <1>8, <2>2
  <2>3. \A n \in 0..32 : div[n] \in Ratio
    BY <2>1, <2>2, RecValues
  <2> QED
    BY <2>3
<1> QED
  BY <1>2, <1>9

(* The signed quotient and remainder are words. *)
LEMMA DivsType ==
  ASSUME NEW a \in Word, NEW b \in Word
  PROVE  divs(a, b) \in Ratio
<1>1. \A c \in Word : Negated(c) \in Word /\ Magnitude(c) \in Word
  BY PlusType, ToWordType DEF Negated, Magnitude
<1> DEFINE d == divu(Magnitude(a), Magnitude(b))
<1>2. d \in Ratio
  BY <1>1, DivuType
<1>3. divs(a, b) =
        [quot |-> IF Negative(a) # Negative(b) THEN Negated(d.quot) ELSE d.quot,
         rem  |-> IF Negative(a) THEN Negated(d.rem) ELSE d.rem]
  BY DEF divs
<1> HIDE DEF d
<1> QED
  BY <1>1, <1>2, <1>3 DEF Ratio

(***************************************************************************)
(* Fetching and decoding.                                                  *)
(***************************************************************************)

(* The sizes of the memories are words. *)
LEMMA Sizes ==
  /\ ImemSize \in Nat /\ ImemSize >= 4 /\ ImemSize <= MaxSize
  /\ DmemSize \in Nat /\ DmemSize >= 4 /\ DmemSize <= MaxSize
  /\ Cycles \in Nat /\ Cycles > 0
BY SizesAssumption

(* n bytes that are inside a memory have indices of it. *)
LEMMA InsideIndex ==
  ASSUME NEW a \in Word, NEW n \in 1..4, NEW size \in Nat, size >= 4, size <= MaxSize
  PROVE  /\ Inside(a, n, size) <=> Index(a) + n - 1 <= size
         /\ Index(a) \in Nat /\ Index(a) >= 1
<1> DEFINE m == size - n
           high == m \div 65536
           low == m % 65536
<1>1. /\ a[1] \in Nat /\ a[1] <= 65535 /\ a[2] \in Nat /\ a[2] <= 65535
  BY WordBounds
<1>2. MaxSize \in Nat /\ m \in Nat /\ m <= MaxSize
  <2>1. MaxSize \in Nat
    BY SMT DEF MaxSize
  <2> QED
    BY <2>1, SMT
<1>3. /\ high \in Nat /\ high <= 65535 /\ low \in Nat /\ low <= 65535
      /\ m = 65536 * high + low
  <2> HIDE DEF m
  <2> QED
    BY <1>2, SMT DEF MaxSize
<1>4. ToWord(m) = <<high, low>>
  <2>1. high % 65536 = high
    <3> HIDE DEF high
    <3> QED
      BY <1>3
  <2> QED
    BY <2>1, SMT DEF ToWord
<1> HIDE DEF high, low
<1>5. Inside(a, n, size) <=> ~(high < a[1] \/ (high = a[1] /\ low < a[2]))
  BY <1>4 DEF Inside, Below
<1>6. Index(a) = a[1] * 65536 + a[2] + 1
  BY DEF Index
<1>7. Inside(a, n, size) <=> a[1] * 65536 + a[2] <= m
  <2> HIDE DEF m
  <2> QED
    BY <1>1, <1>3, <1>5
<1> QED
  BY <1>1, <1>2, <1>6, <1>7

(* Halves and words of a memory. *)
LEMMA MemoryType ==
  ASSUME NEW m \in Seq(Bytes), NEW k \in Nat, k >= 1
  PROVE  /\ k <= Len(m) => m[k] \in Bytes
         /\ k + 1 <= Len(m) => HalfAt(m, k) \in Half
         /\ k + 3 <= Len(m) => WordAt(m, k) \in Word
<1>1. \A j \in Nat : j >= 1 /\ j <= Len(m) => m[j] \in Bytes
  OBVIOUS
<1>2. \A x, y \in Bytes : x * 256 + y \in Half
  <2>1. ASSUME NEW x \in Bytes, NEW y \in Bytes
        PROVE  x * 256 + y \in Nat /\ x * 256 + y <= 65535
    BY DEF Bytes
  <2> QED
    BY <2>1, HalfFits
<1>3. ASSUME NEW j \in Nat, j >= 1, j + 1 <= Len(m)
      PROVE  HalfAt(m, j) \in Half
  <2>1. m[j] \in Bytes /\ m[j + 1] \in Bytes
    BY <1>1, <1>3
  <2> QED
    BY <1>2, <2>1, Zenon DEF HalfAt
<1>4. ASSUME k + 3 <= Len(m)
      PROVE  WordAt(m, k) \in Word
  <2>1. HalfAt(m, k) \in Half /\ HalfAt(m, k + 2) \in Half
    BY <1>3, <1>4
  <2> QED
    BY <2>1, WordParts, Zenon DEF WordAt
<1> QED
  BY <1>1, <1>3, <1>4

(***************************************************************************)
(* What a cycle reads.                                                     *)
(***************************************************************************)

(* The machine, between cycles and in one. *)
Machine(s) == s \in StructSimulator /\ Len(s.imem) = ImemSize /\ Len(s.dmem) = DmemSize

(* The fields of a machine. *)
LEMMA MachineFields ==
  ASSUME NEW s, Machine(s)
  PROVE  /\ s.cur_pc \in Word /\ s.jump_addr \in Word /\ s.jump \in BOOLEAN
         /\ \A r \in Reg : s.reg[r] \in Word
         /\ s.hi \in Word /\ s.lo \in Word
         /\ s.imem \in Seq(Bytes) /\ Len(s.imem) = ImemSize
         /\ s.dmem \in Seq(Bytes) /\ Len(s.dmem) = DmemSize
BY DEF Machine, StructSimulator

(* The offset of an address in the instruction memory is a word. *)
LEMMA ImemOffsetType ==
  ASSUME NEW a \in Word
  PROVE  ImemOffset(a) \in Word
<1>1. 16384 \in Half /\ 0 \in Half
  BY HalfFits
<1>2. PC_START \in Word
  BY <1>1, WordParts DEF PC_START
<1> QED
  BY <1>2, PlusType DEF ImemOffset

(* The instruction that is fetched from inside the memory. *)
LEMMA FetchType ==
  ASSUME Machine(sim), Inside(ImemOffset(sim.cur_pc), 4, ImemSize)
  PROVE  /\ instr_code \in Word
         /\ instr \in StructInstr
<1> DEFINE a == ImemOffset(sim.cur_pc)
<1>1. a \in Word
  BY MachineFields, ImemOffsetType
<1>2. Index(a) \in Nat /\ Index(a) >= 1 /\ Index(a) + 3 <= ImemSize
  <2> HIDE DEF a
  <2>1. Inside(a, 4, ImemSize)
    BY DEF a
  <2> QED
    BY <1>1, <2>1, Sizes, InsideIndex
<1>3. instr_code \in Word
  <2> HIDE DEF a
  <2>1. WordAt(sim.imem, Index(a)) \in Word
    BY <1>2, MachineFields, MemoryType
  <2> QED
    BY <2>1 DEF instr_code, a
<1>4. instr \in {parse_instr_v2(instr_code, Blank).instr, parse_instr(instr_code)}
  BY DEF instr, Decoded
<1> QED
  BY <1>3, <1>4, ParseType, ParseV2Type

(* The operands of an instruction. *)
LEMMA Operands ==
  ASSUME Machine(sim), instr \in StructInstr
  PROVE  /\ rs \in Word /\ rt \in Word /\ simm \in Word /\ imm \in Word
         /\ instr.rd \in Reg /\ instr.rt \in Reg /\ instr.shamt \in 0..31
         /\ instr.imm \in Half /\ instr.addr \in Nat
         /\ Address \in Word
<1> HIDE DEF instr
<1>1. /\ instr.rs \in Reg /\ instr.rt \in Reg /\ instr.rd \in Reg /\ instr.shamt \in Reg
      /\ instr.imm \in Half /\ instr.simm \in Int /\ instr.addr \in Nat
  BY DEF StructInstr
<1>2. rs \in Word /\ rt \in Word
  BY <1>1, MachineFields DEF rs, rt
<1>3. simm \in Word
  BY <1>1, ToWordType DEF simm
<1>4. imm \in Word
  BY <1>1, SignType DEF imm
<1>5. Address \in Word
  BY <1>2, <1>3, PlusType DEF Address
<1> QED
  BY <1>1, <1>2, <1>3, <1>4, <1>5 DEF Reg

(***************************************************************************)
(* What a cycle writes.                                                    *)
(***************************************************************************)

(* The first part of a cycle. *)
LEMMA AdvancedMachine ==
  ASSUME Machine(sim)
  PROVE  /\ Machine(Advanced)
         /\ Advanced.imem = sim.imem /\ Advanced.dmem = sim.dmem
         /\ Advanced.jump = FALSE
<1> DEFINE next == Plus(sim.cur_pc, ToWord(Length))
<1>1. next \in Word
  <2>1. Length \in Int
    BY DEF Length
  <2> QED
    BY <2>1, MachineFields, ToWordType, PlusType
<1>2. Advanced = IF sim.jump THEN [sim EXCEPT !.cur_pc = sim.jump_addr, !.jump = FALSE]
                 ELSE [sim EXCEPT !.cur_pc = next]
  BY DEF Advanced
<1> HIDE DEF next
<1> QED
  BY <1>1, <1>2 DEF Machine, StructSimulator

(* Setting a register, and clearing register 0 at the end. *)
LEMMA WrittenMachine ==
  ASSUME NEW s, Machine(s)
  PROVE  /\ \A r \in Reg : \A value \in Word :
              /\ Machine(SetReg(s, r, value))
              /\ SetReg(s, r, value).cur_pc = s.cur_pc
              /\ SetReg(s, r, value).jump = s.jump
              /\ SetReg(s, r, value).imem = s.imem
         /\ Machine(Retired(s))
         /\ Retired(s).reg[0] = Zero
         /\ Retired(s).cur_pc = s.cur_pc /\ Retired(s).imem = s.imem
         /\ Retired(s).jump = s.jump /\ Retired(s).jump_addr = s.jump_addr
<1>1. 0 \in Reg /\ Zero \in Word
  BY ToWordType DEF Reg
<1>2. ASSUME NEW r \in Reg, NEW value \in Word
      PROVE  /\ Machine([s EXCEPT !.reg[r] = value])
             /\ [s EXCEPT !.reg[r] = value].reg[r] = value
             /\ [s EXCEPT !.reg[r] = value].cur_pc = s.cur_pc
             /\ [s EXCEPT !.reg[r] = value].jump = s.jump
             /\ [s EXCEPT !.reg[r] = value].jump_addr = s.jump_addr
             /\ [s EXCEPT !.reg[r] = value].imem = s.imem
  BY DEF Machine, StructSimulator
<1> QED
  BY <1>1, <1>2 DEF SetReg, Retired

(* What holds of a step that executes an instruction.                      *)
Cycle ==
  /\ status = "running"
  /\ Inside(ImemOffset(sim.cur_pc), 4, ImemSize)
  /\ v2 /\ Decoded.rc # -1 => Inside(ImemOffset(Advanced.cur_pc), 1, ImemSize)
  /\ instr \in StructInstr
  /\ rs \in Word /\ rt \in Word /\ simm \in Word /\ imm \in Word
  /\ instr.rd \in Reg /\ instr.rt \in Reg /\ instr.shamt \in 0..31
  /\ instr.imm \in Half /\ instr.addr \in Nat
  /\ Address \in Word
  /\ Machine(sim) /\ Machine(Advanced) /\ Advanced.jump = FALSE
  /\ Advanced.imem = sim.imem /\ Advanced.dmem = sim.dmem

LEMMA CycleFacts ==
  ASSUME TypeOK, NEW ops, Executes(ops)
  PROVE  Cycle /\ instr.op \in ops /\ v2' = v2
<1>1. Machine(sim)
  BY DEF TypeOK, Machine
<1>2. /\ status = "running" /\ Fetchable /\ instr.op \in ops /\ v2' = v2
  BY DEF Executes, Looping
<1>3. /\ Inside(ImemOffset(sim.cur_pc), 4, ImemSize)
      /\ v2 /\ Decoded.rc # -1 => Inside(ImemOffset(Advanced.cur_pc), 1, ImemSize)
  BY <1>2 DEF Fetchable
<1>4. instr \in StructInstr
  BY <1>1, <1>3, FetchType
<1> QED
  BY <1>1, <1>2, <1>3, <1>4, Operands, AdvancedMachine DEF Cycle

(* A cycle that ends with a machine keeps the types. *)
LEMMA CycleTypes ==
  ASSUME TypeOK, NEW ops, Executes(ops),
         status' \in {"running"} \cup Ends,
         Machine(sim'), sim'.reg[0] = Zero,
         stdin' \in Seq(Bytes), stdout' \in Seq(Bytes), is_eof' \in BOOLEAN
  PROVE  TypeOK'
<1>1. cycles \in Nat /\ cycles < Cycles /\ cycles' = cycles + 1
  BY Sizes DEF TypeOK, Executes, Looping
<1>2. cycles' \in 0..Cycles
  BY <1>1, Sizes
<1>3. total_bandwidth' \in 2 * cycles'..4 * cycles'
  <2> DEFINE two == IF instr.compressed THEN 2 ELSE 4
  <2>1. total_bandwidth' = total_bandwidth + two
    BY DEF Executes
  <2>2. two \in {2, 4}
    OBVIOUS
  <2> HIDE DEF two
  <2>3. total_bandwidth \in 2 * cycles..4 * cycles
    BY DEF TypeOK
  <2> QED
    BY <1>1, <2>1, <2>2, <2>3
<1>4. v2' \in BOOLEAN
  BY DEF TypeOK, Executes
<1> QED
  BY <1>2, <1>3, <1>4 DEF TypeOK, Machine

(***************************************************************************)
(* The cycles, by kind of instruction.                                     *)
(***************************************************************************)

(* The step of a cycle that is no taken branch. *)
Falls ==
  /\ sim'.cur_pc = Advanced.cur_pc /\ sim'.imem = sim.imem
  /\ sim'.jump = FALSE

(* What an instruction computes is a word. *)
LEMMA ResultType ==
  ASSUME Cycle, instr.op \in Computing
  PROVE  Result \in Word
<1> DEFINE n == rs[2] % 32
           Results ==
             {sll(rt, instr.shamt), srl(rt, instr.shamt), sra(rt, instr.shamt),
              sll(rt, n), srl(rt, n), sra(rt, n), Plus(rt, rs), Minus(rs, rt),
              And(rs, rt), Or(rs, rt), Xor(rs, rt), Not(Or(rs, rt)), Plus(rs, simm),
              And(rs, imm), Or(rs, imm), Xor(rs, imm), <<instr.imm, 0>>,
              Truth(slt(rs, rt)), Truth(Below(rs, rt)), Truth(slt(rs, simm)),
              Truth(Below(rs, imm)), sim.hi, sim.lo}
<1>1. instr.op \in {"SLL", "SRL", "SRA", "SLLV", "SRLV", "SRAV", "ADD", "ADDU", "SUB", "SUBU",
                   "AND", "OR", "XOR", "NOR", "ADDI", "ADDIU", "ANDI", "ORI", "XORI", "LUI",
                   "SLT", "SLTU", "SLTI", "SLTIU", "MFHI", "MFLO"}
  BY Zenon DEF Computing, Shifts, ShiftVs, Alu, AluImm, Compare
<1>2. Result \in Results
  BY <1>1, ZenonT(60) DEF Result
<1>3. rs \in Word /\ rt \in Word /\ simm \in Word /\ imm \in Word
  BY DEF Cycle
<1>4. instr.shamt \in 0..31 /\ n \in 0..31
  BY <1>3, WordBounds DEF Cycle
<1>5. <<instr.imm, 0>> \in Word
  BY HalfFits, WordParts DEF Cycle
<1>6. sim.hi \in Word /\ sim.lo \in Word
  BY MachineFields DEF Cycle
<1>7. /\ Truth(slt(rs, rt)) \in Word /\ Truth(Below(rs, rt)) \in Word
      /\ Truth(slt(rs, simm)) \in Word /\ Truth(Below(rs, imm)) \in Word
  BY ToWordType, Zenon DEF Truth
<1> HIDE DEF n
<1>8. /\ sll(rt, instr.shamt) \in Word /\ srl(rt, instr.shamt) \in Word
      /\ sra(rt, instr.shamt) \in Word
      /\ sll(rt, n) \in Word /\ srl(rt, n) \in Word /\ sra(rt, n) \in Word
  BY <1>3, <1>4, ShiftType
<1>9. /\ Plus(rt, rs) \in Word /\ Minus(rs, rt) \in Word /\ Plus(rs, simm) \in Word
      /\ And(rs, rt) \in Word /\ Or(rs, rt) \in Word /\ Xor(rs, rt) \in Word
      /\ And(rs, imm) \in Word /\ Or(rs, imm) \in Word /\ Xor(rs, imm) \in Word
  BY <1>3, PlusType, BitwiseType
<1>10. Not(Or(rs, rt)) \in Word
  BY <1>9, PlusType
<1> QED
  BY <1>2, <1>5, <1>6, <1>7, <1>8, <1>9, <1>10, Zenon

(* A computation keeps the types and goes on behind. *)
LEMMA ComputeStep ==
  ASSUME TypeOK, Compute
  PROVE  TypeOK' /\ Falls /\ status' = status
<1>1. Executes(Computing)
  BY DEF Compute
<1>2. Cycle /\ instr.op \in Computing
  BY <1>1, CycleFacts
<1>3. Result \in Word
  BY <1>2, ResultType
<1>4. Dest \in Reg
  BY <1>2 DEF Cycle, Dest
<1> DEFINE s == SetReg(Advanced, Dest, Result)
<1>5. Machine(s) /\ s.cur_pc = Advanced.cur_pc /\ s.jump = FALSE /\ s.imem = sim.imem
  BY <1>2, <1>3, <1>4, WrittenMachine DEF Cycle
<1>6. sim' = Retired(s)
  BY DEF Compute
<1> HIDE DEF s
<1>7. Machine(sim') /\ sim'.reg[0] = Zero /\ Falls
  BY <1>5, <1>6, WrittenMachine DEF Falls
<1>8. UNCHANGED <<status, stdin, is_eof, stdout>>
  BY DEF Compute, io
<1>9. TypeOK'
  BY <1>1, <1>7, <1>8, CycleTypes DEF TypeOK
<1> QED
  BY <1>7, <1>8, <1>9

(* The registers HI and LO get words. *)
LEMMA HiLoType ==
  ASSUME Cycle, instr.op \in {"MULT", "MULTU", "DIV", "DIVU", "MTHI", "MTLO"}
  PROVE  HiLo.hi \in Word /\ HiLo.lo \in Word
<1> DEFINE Pair == [hi : Word, lo : Word]
           pair(p)  == [hi |-> p[1], lo |-> p[2]]
           ratio(d) == [hi |-> d.rem, lo |-> d.quot]
           old      == [hi |-> sim.hi, lo |-> sim.lo]
           mthi     == [old EXCEPT !.hi = rs]
           mtlo     == [old EXCEPT !.lo = rs]
           s == divs(rs, rt)
           u == divu(rs, rt)
<1>1. HiLo \in {pair(mult(rs, rt)), pair(multu(rs, rt)), old, ratio(s), ratio(u), mthi, mtlo}
  BY Zenon DEF HiLo
<1>2. rs \in Word /\ rt \in Word /\ sim.hi \in Word /\ sim.lo \in Word
  BY MachineFields DEF Cycle
<1>3. /\ mult(rs, rt)[1] \in Word /\ mult(rs, rt)[2] \in Word
      /\ multu(rs, rt)[1] \in Word /\ multu(rs, rt)[2] \in Word
  BY <1>2, MultType, MultuType
<1>4. s \in Ratio /\ u \in Ratio
  BY <1>2, DivsType, DivuType
<1>5. pair(mult(rs, rt)) \in Pair /\ pair(multu(rs, rt)) \in Pair
  BY <1>3
<1>6. old \in Pair /\ mthi \in Pair /\ mtlo \in Pair
  BY <1>2
<1> HIDE DEF s, u
<1>7. ratio(s) \in Pair /\ ratio(u) \in Pair
  BY <1>4 DEF Ratio
<1> HIDE DEF pair, ratio, old, mthi, mtlo
<1>8. HiLo \in Pair
  BY <1>1, <1>5, <1>6, <1>7, Zenon
<1> QED
  BY <1>8

(* A multiplication or division goes on behind, or overflows. *)
LEMMA MultiplyDivideStep ==
  ASSUME TypeOK, MultiplyDivide
  PROVE  /\ TypeOK'
         /\ (status' = status /\ Falls) \/ status' = "undefined"
<1> DEFINE ops == {"MULT", "MULTU", "DIV", "DIVU", "MTHI", "MTLO"}
<1>1. Executes(ops)
  BY DEF MultiplyDivide
<1>2. Cycle /\ instr.op \in ops
  BY <1>1, CycleFacts
<1>3. UNCHANGED <<stdin, is_eof, stdout>>
  BY DEF MultiplyDivide, io
<1>4. CASE Overflows
  <2>1. status' = "undefined" /\ sim' = sim
    BY <1>4 DEF MultiplyDivide
  <2>2. Machine(sim') /\ sim'.reg[0] = Zero
    BY <1>2, <2>1 DEF TypeOK, Cycle
  <2>3. TypeOK'
    BY <1>1, <1>3, <2>1, <2>2, CycleTypes DEF TypeOK, Ends
  <2> QED
    BY <2>1, <2>3
<1>5. CASE ~Overflows
  <2> DEFINE s == [Advanced EXCEPT !.hi = HiLo.hi, !.lo = HiLo.lo]
  <2>1. sim' = Retired(s) /\ status' = status
    BY <1>5 DEF MultiplyDivide
  <2>2. HiLo.hi \in Word /\ HiLo.lo \in Word
    BY <1>2, HiLoType
  <2>3. Machine(s) /\ s.cur_pc = Advanced.cur_pc /\ s.jump = FALSE /\ s.imem = sim.imem
    BY <1>2, <2>2 DEF Cycle, Machine, StructSimulator
  <2> HIDE DEF s
  <2>4. Machine(sim') /\ sim'.reg[0] = Zero /\ Falls
    BY <2>1, <2>3, WrittenMachine DEF Falls
  <2>5. TypeOK'
    BY <1>1, <1>3, <2>1, <2>4, CycleTypes DEF TypeOK
  <2> QED
    BY <2>1, <2>4, <2>5
<1> QED
  BY <1>4, <1>5

(* A load that writes a word goes on behind. *)
LEMMA LoadWrites ==
  ASSUME TypeOK, Executes(Loads), NEW value \in Word,
         sim' = Retired(SetReg(Advanced, instr.rt, value)), status' = status,
         stdin' \in Seq(Bytes), stdout' \in Seq(Bytes), is_eof' \in BOOLEAN
  PROVE  TypeOK' /\ Falls
<1>1. Cycle
  BY CycleFacts
<1> DEFINE s == SetReg(Advanced, instr.rt, value)
<1>2. Machine(s) /\ s.cur_pc = Advanced.cur_pc /\ s.jump = FALSE /\ s.imem = sim.imem
  BY <1>1, WrittenMachine DEF Cycle
<1>3. sim' = Retired(s)
  OBVIOUS
<1> HIDE DEF s
<1>4. Machine(sim') /\ sim'.reg[0] = Zero /\ Falls
  BY <1>2, <1>3, WrittenMachine DEF Falls
<1>5. TypeOK'
  BY <1>4, CycleTypes DEF TypeOK
<1> QED
  BY <1>4, <1>5

(* A load from the UART takes a byte of standard input, if there is one. *)
LEMMA LoadUartStep ==
  ASSUME TypeOK, LoadUart
  PROVE  TypeOK' /\ Falls /\ status' = status
<1> DEFINE byte == IF is_eof THEN 1 ELSE IF stdin = <<>> THEN 0 ELSE Head(stdin)
           read == ~is_eof /\ stdin # <<>>
           value == IF instr.op = "LB" /\ read THEN sign_b(byte) ELSE <<0, byte>>
<1>1. Executes(Loads) /\ status' = status /\ stdout' = stdout
  BY DEF LoadUart
<1>2. /\ sim' = Retired(SetReg(Advanced, instr.rt, value))
      /\ stdin' = IF read THEN Tail(stdin) ELSE stdin
      /\ is_eof' = (is_eof \/ stdin = <<>>)
  BY DEF LoadUart
<1>3. stdin \in Seq(Bytes) /\ is_eof \in BOOLEAN /\ stdout \in Seq(Bytes)
  BY DEF TypeOK
<1>4. byte \in Bytes
  <2>1. 0 \in Bytes /\ 1 \in Bytes
    BY DEF Bytes
  <2>2. stdin # <<>> => Head(stdin) \in Bytes
    BY <1>3
  <2> QED
    BY <2>1, <2>2
<1>5. stdin' \in Seq(Bytes) /\ is_eof' \in BOOLEAN
  BY <1>2, <1>3
<1> HIDE DEF byte, read
<1>6. value \in Word
  BY <1>4, SignType
<1> HIDE DEF value
<1> QED
  BY <1>1, <1>2, <1>3, <1>5, <1>6, LoadWrites

(* The status register reads as a constant. *)
LEMMA LoadStatusStep ==
  ASSUME TypeOK, LoadStatus
  PROVE  TypeOK' /\ Falls /\ status' = status
<1>1. /\ Executes(Loads) /\ status' = status
      /\ stdin' = stdin /\ stdout' = stdout /\ is_eof' = is_eof
      /\ sim' = Retired(SetReg(Advanced, instr.rt, <<0, 3>>))
  BY DEF LoadStatus, io
<1>2. <<0, 3>> \in Word
  BY HalfFits, WordParts
<1> QED
  BY <1>1, <1>2, LoadWrites DEF TypeOK

(* A load reads the data memory, nothing behind it, or ends undefined. *)
LEMMA LoadMemoryStep ==
  ASSUME TypeOK, LoadMemory
  PROVE  /\ TypeOK'
         /\ (status' = status /\ Falls) \/ status' = "undefined"
<1> DEFINE k == Index(Address)
           value == CASE instr.op = "LB"  -> sign_b(sim.dmem[k])
                      [] instr.op = "LBU" -> <<0, sim.dmem[k]>>
                      [] instr.op = "LH"  -> sign_h(HalfAt(sim.dmem, k))
                      [] instr.op = "LHU" -> <<0, HalfAt(sim.dmem, k)>>
                      [] instr.op = "LW"  -> WordAt(sim.dmem, k)
<1>1. Executes(Loads)
  BY DEF LoadMemory
<1>2. Cycle /\ instr.op \in Loads
  BY <1>1, CycleFacts
<1>3. stdin' \in Seq(Bytes) /\ stdout' \in Seq(Bytes) /\ is_eof' \in BOOLEAN
  BY DEF LoadMemory, io, TypeOK
<1>4. \/ sim' = Retired(SetReg(Advanced, instr.rt, Zero)) /\ status' = status
      \/ /\ Inside(Address, Width, DmemSize)
         /\ sim' = Retired(SetReg(Advanced, instr.rt, value)) /\ status' = status
      \/ sim' = sim /\ status' = "undefined"
  BY DEF LoadMemory
<1>5. CASE sim' = Retired(SetReg(Advanced, instr.rt, Zero)) /\ status' = status
  BY <1>1, <1>3, <1>5, ToWordType, LoadWrites
<1>6. CASE /\ Inside(Address, Width, DmemSize)
           /\ sim' = Retired(SetReg(Advanced, instr.rt, value)) /\ status' = status
  <2>1. instr.op \in {"LB", "LBU", "LH", "LHU", "LW"}
    BY <1>2 DEF Loads
  <2>2. Width = IF instr.op \in {"LB", "LBU"} THEN 1 ELSE IF instr.op \in {"LH", "LHU"} THEN 2 ELSE 4
    BY <2>1 DEF Width
  <2>3. Width \in 1..4
    BY <2>2
  <2>4. k \in Nat /\ k >= 1 /\ k + Width - 1 <= DmemSize
    BY <1>2, <1>6, <2>3, InsideIndex, Sizes DEF Cycle
  <2>5. sim.dmem \in Seq(Bytes) /\ Len(sim.dmem) = DmemSize
    BY <1>2, MachineFields DEF Cycle
  <2> HIDE DEF k
  <2>6. /\ sim.dmem[k] \in Bytes
        /\ instr.op \in {"LH", "LHU"} => HalfAt(sim.dmem, k) \in Half
        /\ instr.op = "LW" => WordAt(sim.dmem, k) \in Word
    BY <2>2, <2>3, <2>4, <2>5, Sizes, MemoryType
  <2>7. value \in Word
    BY <2>1, <2>6, SignType, Zenon
  <2> HIDE DEF value
  <2> QED
    BY <1>1, <1>3, <1>6, <2>7, LoadWrites
<1>7. CASE sim' = sim /\ status' = "undefined"
  <2>1. Machine(sim') /\ sim'.reg[0] = Zero
    BY <1>2, <1>7 DEF TypeOK, Cycle
  <2> QED
    BY <1>1, <1>3, <1>7, <2>1, CycleTypes DEF Ends
<1> HIDE DEF value
<1> QED
  BY <1>4, <1>5, <1>6, <1>7

(* The bytes of a word that are stored. *)
LEMMA LastBytesType ==
  ASSUME NEW w \in Word, NEW n \in 1..4
  PROVE  \A k \in 1..n : LastBytes(w, n)[k] \in Bytes
<1>1. ASSUME NEW k \in 1..n
      PROVE  LastBytes(w, n)[k] \in Bytes
  <2>1. n - k \in 0..3
    OBVIOUS
  <2>2. Byte(w, n - k) \in Bytes
    BY <2>1, ByteType, Zenon
  <2>3. LastBytes(w, n)[k] = Byte(w, n - k)
    BY DEF LastBytes
  <2> QED
    BY <2>2, <2>3
<1> QED
  BY <1>1

(* A store changes the data memory, or nothing but the output.             *)
LEMMA StoreStep ==
  ASSUME TypeOK, Store
  PROVE  /\ TypeOK'
         /\ (status' = status /\ Falls) \/ status' = "undefined"
<1>1. Executes(Stores)
  BY DEF Store
<1>2. Cycle /\ instr.op \in Stores
  BY <1>1, CycleFacts
<1>3. stdin' \in Seq(Bytes) /\ is_eof' \in BOOLEAN /\ stdout \in Seq(Bytes)
  BY DEF Store, TypeOK
<1>4. CASE IsUart \/ BehindMemory
  <2>1. /\ sim' = Retired(Advanced) /\ status' = status
        /\ stdout' = IF Address = UART_DATA THEN Append(stdout, rt[2] % 256) ELSE stdout
    BY <1>4 DEF Store
  <2>2. rt[2] % 256 \in Bytes
    <3>1. rt[2] \in Nat
      BY <1>2, WordBounds DEF Cycle
    <3> HIDE DEF rt
    <3> QED
      BY <3>1 DEF Bytes
  <2>3. stdout' \in Seq(Bytes)
    <3> DEFINE byte == rt[2] % 256
    <3>1. byte \in Bytes
      BY <2>2
    <3> HIDE DEF byte
    <3>2. Append(stdout, byte) \in Seq(Bytes)
      BY <1>3, <3>1
    <3> QED
      BY <1>3, <2>1, <3>2 DEF byte
  <2>4. Machine(sim') /\ sim'.reg[0] = Zero /\ Falls
    BY <1>2, <2>1, WrittenMachine DEF Falls, Cycle
  <2>5. TypeOK'
    BY <1>1, <1>3, <2>1, <2>3, <2>4, CycleTypes DEF TypeOK
  <2> QED
    BY <2>1, <2>4, <2>5
<1>5. CASE ~(IsUart \/ BehindMemory) /\ Inside(Address, Width, DmemSize)
  <2> DEFINE mem == [k \in DOMAIN Advanced.dmem |->
                       IF k - Index(Address) \in 0..Width - 1
                       THEN LastBytes(rt, Width)[k - Index(Address) + 1]
                       ELSE Advanced.dmem[k]]
             s == [Advanced EXCEPT !.dmem = mem]
  <2>1. sim' = Retired(s) /\ status' = status /\ stdout' = stdout
    BY <1>5 DEF Store
  <2>2. Width \in 1..4
    BY DEF Width
  <2>3. /\ Advanced.dmem \in Seq(Bytes) /\ Len(Advanced.dmem) = DmemSize
        /\ Index(Address) \in Nat /\ DmemSize \in Nat /\ rt \in Word
    <3>1. Index(Address) \in Nat
      BY <1>2, WordBounds DEF Cycle, Index
    <3> QED
      BY <1>2, <3>1, MachineFields, Sizes DEF Cycle
  <2>4. mem \in Seq(Bytes) /\ Len(mem) = DmemSize
    <3>1. DOMAIN Advanced.dmem = 1..DmemSize
      BY <2>3
    <3>2. \A k \in 1..DmemSize : Advanced.dmem[k] \in Bytes
      BY <2>3
    <3> HIDE DEF rt, Address, Width, Advanced
    <3>3. \A k \in 1..DmemSize : k - Index(Address) \in 0..Width - 1
            => LastBytes(rt, Width)[k - Index(Address) + 1] \in Bytes
      <4>1. \A j \in 1..Width : LastBytes(rt, Width)[j] \in Bytes
        BY <2>2, <2>3, LastBytesType
      <4>2. \A k \in 1..DmemSize : k - Index(Address) \in 0..Width - 1
              => k - Index(Address) + 1 \in 1..Width
        BY <2>2, <2>3
      <4> QED
        BY <4>1, <4>2
    <3>4. mem \in [1..DmemSize -> Bytes]
      BY <3>1, <3>2, <3>3
    <3> HIDE DEF mem
    <3> QED
      BY <2>3, <3>4
  <2> HIDE DEF mem
  <2>5. Machine(s) /\ s.cur_pc = Advanced.cur_pc /\ s.jump = FALSE /\ s.imem = sim.imem
    BY <1>2, <2>4 DEF Cycle, Machine, StructSimulator
  <2> HIDE DEF s
  <2>6. Machine(sim') /\ sim'.reg[0] = Zero /\ Falls
    BY <2>1, <2>5, WrittenMachine DEF Falls
  <2>7. TypeOK'
    BY <1>1, <1>3, <2>1, <2>6, CycleTypes DEF TypeOK
  <2> QED
    BY <2>1, <2>6, <2>7
<1>6. CASE ~(IsUart \/ BehindMemory) /\ ~Inside(Address, Width, DmemSize)
  <2>1. status' = "undefined" /\ sim' = sim /\ stdout' = stdout
    BY <1>6 DEF Store
  <2>2. Machine(sim') /\ sim'.reg[0] = Zero
    BY <1>2, <2>1 DEF TypeOK, Cycle
  <2> QED
    BY <1>1, <1>3, <2>1, <2>2, CycleTypes DEF Ends
<1> QED
  BY <1>4, <1>5, <1>6

(* The machine with the return address written. *)
LEMMA LinkedMachine ==
  ASSUME Cycle
  PROVE  /\ Machine(Linked) /\ Linked.cur_pc = Advanced.cur_pc
         /\ Linked.jump = FALSE /\ Linked.imem = sim.imem
<1>1. Link \in Word
  <2>1. size_next_instr(Advanced) \in Int
    BY DEF size_next_instr
  <2>2. Advanced.cur_pc \in Word
    BY MachineFields DEF Cycle
  <2> QED
    BY <2>1, <2>2, ToWordType, PlusType DEF Link
<1>2. LinkReg \in Reg
  BY DEF LinkReg, Cycle, Reg
<1>3. Linked = IF instr.op \in Linking THEN SetReg(Advanced, LinkReg, Link) ELSE Advanced
  BY DEF Linked
<1> QED
  BY <1>1, <1>2, <1>3, WrittenMachine DEF Cycle

(* A machine that is about to jump. *)
LEMMA JumpingMachine ==
  ASSUME Cycle, NEW target \in Word
  PROVE  LET s == [Linked EXCEPT !.jump = TRUE, !.jump_addr = target]
         IN /\ Machine(s) /\ s.cur_pc = Advanced.cur_pc /\ s.imem = sim.imem
            /\ s.jump = TRUE /\ s.jump_addr = target
BY LinkedMachine DEF Machine, StructSimulator

(* The step of a taken branch or a jump.                                   *)
Goes(target) ==
  /\ sim'.cur_pc = Advanced.cur_pc /\ sim'.imem = sim.imem
  /\ sim'.jump = TRUE /\ sim'.jump_addr = target

(* A branch falls through or goes to its target. *)
LEMMA BranchStep ==
  ASSUME TypeOK, Branch
  PROVE  /\ TypeOK' /\ status' = status
         /\ Falls \/ Goes(Plus(Advanced.cur_pc, simm))
<1> DEFINE target == Plus(Advanced.cur_pc, simm)
           s == [Linked EXCEPT !.jump = TRUE, !.jump_addr = target]
<1>1. /\ Executes(NativeBranch) /\ UNCHANGED <<status, stdin, is_eof, stdout>>
      /\ sim' = Retired(s) \/ sim' = Retired(Linked)
  BY DEF Branch, io
<1>2. Cycle
  BY <1>1, CycleFacts
<1>3. target \in Word
  BY <1>2, MachineFields, PlusType DEF Cycle
<1> HIDE DEF target
<1>4. /\ Machine(s) /\ s.cur_pc = Advanced.cur_pc /\ s.imem = sim.imem
      /\ s.jump = TRUE /\ s.jump_addr = target
  BY <1>2, <1>3, JumpingMachine
<1> HIDE DEF s
<1>5. Machine(sim') /\ sim'.reg[0] = Zero /\ (Falls \/ Goes(target))
  BY <1>1, <1>2, <1>4, LinkedMachine, WrittenMachine, ZenonT(60) DEF Falls, Goes
<1>6. TypeOK'
  BY <1>1, <1>5, CycleTypes DEF TypeOK
<1> QED
  BY <1>1, <1>5, <1>6 DEF target

(* The target of a jump is a word. *)
LEMMA JumpAddrType ==
  ASSUME Cycle
  PROVE  JumpAddr \in Word
<1> DEFINE pc == Advanced.cur_pc
           high == (pc[1] \div 4096) * 4096 + ((instr.addr \div 65536) % 4096)
           low == instr.addr % 65536
<1>1. rs \in Word /\ pc \in Word /\ instr.addr \in Nat
  BY MachineFields DEF Cycle
<1>2. JumpAddr = IF instr.op \in {"JR", "JALR"} THEN rs ELSE <<high, low>>
  BY DEF JumpAddr
<1> HIDE DEF pc, rs, instr
<1>3. high \in Nat /\ high <= 65535
  BY <1>1, WordBounds
<1>4. low \in Half
  BY <1>1, Remainders, HalfFits
<1> HIDE DEF high, low
<1> QED
  BY <1>1, <1>2, <1>3, <1>4, HalfFits, WordParts

(* A jump goes to its target. *)
LEMMA JumpStep ==
  ASSUME TypeOK, Jump
  PROVE  TypeOK' /\ status' = status /\ Goes(JumpAddr)
<1> DEFINE s == [Linked EXCEPT !.jump = TRUE, !.jump_addr = JumpAddr]
<1>1. /\ Executes(Jumps) /\ UNCHANGED <<status, stdin, is_eof, stdout>>
      /\ sim' = Retired(s)
  BY DEF Jump, io
<1>2. Cycle
  BY <1>1, CycleFacts
<1>3. /\ Machine(s) /\ s.cur_pc = Advanced.cur_pc /\ s.imem = sim.imem
      /\ s.jump = TRUE /\ s.jump_addr = JumpAddr
  BY <1>2, JumpAddrType, JumpingMachine
<1> HIDE DEF s
<1>4. Machine(sim') /\ sim'.reg[0] = Zero /\ Goes(JumpAddr)
  BY <1>1, <1>2, <1>3, WrittenMachine DEF Goes
<1>5. TypeOK'
  BY <1>1, <1>4, CycleTypes DEF TypeOK
<1> QED
  BY <1>1, <1>4, <1>5

(* BREAK and SYSCALL end the run. *)
LEMMA StopStep ==
  ASSUME TypeOK, Stop
  PROVE  TypeOK' /\ status' = "stopped"
<1>1. /\ Executes(Stops) /\ UNCHANGED <<stdin, is_eof, stdout>>
      /\ sim' = Retired(Advanced) /\ status' = "stopped"
  BY DEF Stop, io
<1>2. Cycle
  BY <1>1, CycleFacts
<1>3. Machine(sim') /\ sim'.reg[0] = Zero
  BY <1>1, <1>2, WrittenMachine DEF Cycle
<1> QED
  BY <1>1, <1>3, CycleTypes DEF TypeOK, Ends

(* What ends a run without an instruction changes nothing else.            *)
LEMMA HaltStep ==
  ASSUME TypeOK, NEW how \in Ends, Halt(how)
  PROVE  TypeOK'
BY DEF TypeOK, Halt, io

(* A memory with a file in it. *)
LEMMA FilledType ==
  ASSUME NEW file \in Seq(Bytes), NEW offset \in Nat, NEW size \in Nat
  PROVE  Filled(file, offset, size) \in Seq(Bytes) /\ Len(Filled(file, offset, size)) = size
<1> DEFINE mem == Filled(file, offset, size)
<1>1. mem = [k \in 1..size |-> IF k - offset \in DOMAIN file THEN file[k - offset] ELSE 0]
  BY DEF Filled
<1> HIDE DEF mem
<1>2. \A k \in 1..size : mem[k] \in Bytes
  <2>1. 0 \in Bytes
    BY DEF Bytes
  <2>2. \A k \in DOMAIN file : file[k] \in Bytes
    OBVIOUS
  <2> QED
    BY <1>1, <2>1, <2>2
<1>3. mem \in [1..size -> Bytes]
  BY <1>1, <1>2
<1>4. mem \in Seq(Bytes) /\ Len(mem) = size
  BY <1>3
<1> QED
  BY <1>4 DEF mem

(* A run starts with its types, whatever the command line is. *)
LEMMA InitTypes == Init => TypeOK
<1>1. SUFFICES ASSUME Init PROVE TypeOK
  OBVIOUS
<1>2. PICK c \in Commands :
        /\ v2 = c.v2
        /\ sim = Loaded(c.program, c.data)
        /\ status \in {"running", "exit"}
        /\ stdin = c.input
  BY <1>1 DEF Init
<1>3. /\ c.v2 \in BOOLEAN /\ c.program \in Seq(Bytes) /\ c.data \in Seq(Bytes)
      /\ c.input \in Seq(Bytes)
  BY CommandsAssumption DEF CommandLine
<1> DEFINE imem == Filled(c.program, 0, ImemSize)
           dmem == Filled(c.data, 4, DmemSize)
           reg  == [r \in Reg |-> Zero]
<1>4. /\ imem \in Seq(Bytes) /\ Len(imem) = ImemSize
      /\ dmem \in Seq(Bytes) /\ Len(dmem) = DmemSize
  BY <1>3, Sizes, FilledType
<1>5. PC_START \in Word /\ Zero \in Word
  BY HalfFits, WordParts, ToWordType DEF PC_START
<1>6. 0 \in Reg
  BY DEF Reg
<1>7. reg \in [Reg -> Word] /\ reg[0] = Zero
  BY <1>5, <1>6
<1>8. sim = [cur_pc |-> PC_START, jump_addr |-> Zero, jump |-> FALSE, reg |-> reg,
             hi |-> Zero, lo |-> Zero, imem |-> imem, dmem |-> dmem]
  BY <1>2 DEF Loaded
<1> HIDE DEF imem, dmem, reg
<1>9. /\ sim \in StructSimulator /\ Len(sim.imem) = ImemSize /\ Len(sim.dmem) = DmemSize
      /\ sim.reg[0] = Zero
  BY <1>4, <1>5, <1>7, <1>8 DEF StructSimulator
<1>10. /\ is_eof = FALSE /\ stdout = <<>> /\ cycles = 0 /\ total_bandwidth = 0
  BY <1>1 DEF Init
<1>11. cycles \in 0..Cycles /\ total_bandwidth \in 2 * cycles..4 * cycles
  BY <1>10, Sizes
<1>12. v2 \in BOOLEAN /\ stdin \in Seq(Bytes)
  BY <1>2, <1>3
<1>13. stdout \in Seq(Bytes) /\ is_eof \in BOOLEAN
  <2>1. stdout \in Seq(Bytes)
    BY <1>10, SMT
  <2>2. is_eof \in BOOLEAN
    BY <1>10, Zenon
  <2> QED
    BY <2>1, <2>2
<1>14. status \in {"running"} \cup Ends
  BY <1>2 DEF Ends
<1> QED
  BY <1>9, <1>11, <1>12, <1>13, <1>14 DEF TypeOK

(* Every step keeps the types. *)
LEMMA NextTypes == TypeOK /\ [Next]_vars => TypeOK'
<1>1. SUFFICES ASSUME TypeOK, [Next]_vars PROVE TypeOK'
  OBVIOUS
<1>2. ASSUME Compute PROVE TypeOK'
  BY <1>1, <1>2, ComputeStep
<1>3. ASSUME MultiplyDivide PROVE TypeOK'
  BY <1>1, <1>3, MultiplyDivideStep
<1>4. ASSUME LoadUart PROVE TypeOK'
  BY <1>1, <1>4, LoadUartStep
<1>5. ASSUME LoadStatus PROVE TypeOK'
  BY <1>1, <1>5, LoadStatusStep
<1>6. ASSUME LoadMemory PROVE TypeOK'
  BY <1>1, <1>6, LoadMemoryStep
<1>7. ASSUME Store PROVE TypeOK'
  BY <1>1, <1>7, StoreStep
<1>8. ASSUME Branch PROVE TypeOK'
  BY <1>1, <1>8, BranchStep
<1>9. ASSUME Jump PROVE TypeOK'
  BY <1>1, <1>9, JumpStep
<1>10. ASSUME Stop PROVE TypeOK'
  BY <1>1, <1>10, StopStep
<1>11. ASSUME LimitReached \/ InvalidPc \/ FetchOutside \/ Unknown PROVE TypeOK'
  BY <1>1, <1>11, HaltStep DEF LimitReached, InvalidPc, FetchOutside, Unknown, Ends
<1>12. ASSUME UNCHANGED vars PROVE TypeOK'
  BY <1>1, <1>12 DEF TypeOK, vars, io
<1> QED
  BY <1>1, <1>2, <1>3, <1>4, <1>5, <1>6, <1>7, <1>8, <1>9, <1>10, <1>11, <1>12 DEF Next

(* Registers, memories and counters have their types in every run of every *)
(* program, and register 0 holds zero between cycles, whatever simulator.c *)
(* wrote to it in a cycle.                                                 *)
THEOREM TypeCorrect == Spec => []TypeOK
<1>1. Init => TypeOK
  BY InitTypes
<1>2. TypeOK /\ [Next]_vars => TypeOK'
  BY NextTypes
<1> QED
  BY <1>1, <1>2, PTL DEF Spec

(***************************************************************************)
(* The refinement of DelaySlot.                                            *)
(***************************************************************************)

(* The cycle goes on at the second program counter: the length that is     *)
(* read off the word fetched is the one read off its first byte.           *)
LEMMA AdvancesToSlot ==
  ASSUME Cycle
  PROVE  Advanced.cur_pc = Slot
<1> DEFINE a == ImemOffset(sim.cur_pc)
           m == sim.imem
           k == Index(a)
<1>1. a \in Word /\ m \in Seq(Bytes) /\ Len(m) = ImemSize /\ sim \in StructSimulator
  BY MachineFields, ImemOffsetType DEF Cycle, Machine
<1>2. Inside(a, 4, ImemSize)
  BY DEF Cycle
<1>3. Inside(a, 1, ImemSize) /\ k \in Nat /\ k >= 1 /\ k + 3 <= ImemSize
  <2> HIDE DEF a
  <2> QED
    BY <1>1, <1>2, Sizes, InsideIndex
<1>4. m[k] \in Bytes /\ m[k + 1] \in Bytes
  <2> HIDE DEF k, m, a
  <2> QED
    BY <1>1, <1>3, Sizes
<1>5. instr_code[1] = m[k] * 256 + m[k + 1]
  BY DEF instr_code, WordAt, HalfAt
<1>6. Negative(instr_code) <=> m[k] >= 128
  <2>1. \A x, y \in Bytes : x * 256 + y >= 32768 <=> x >= 128
    BY SMT DEF Bytes
  <2>2. Negative(instr_code) <=> instr_code[1] >= 32768
    BY DEF Negative
  <2> HIDE DEF m, k
  <2> QED
    BY <1>4, <1>5, <2>1, <2>2, SMT
<1>7. Length = IF v2 /\ m[k] >= 128 THEN 2 ELSE 4
  BY <1>6 DEF Length, IsShort
<1>8. AddressBehind(sim.cur_pc) = Plus(sim.cur_pc, ToWord(Length))
  BY <1>3, <1>7 DEF AddressBehind
<1>9. Advanced.cur_pc = IF sim.jump THEN sim.jump_addr
                        ELSE Plus(sim.cur_pc, ToWord(Length))
  <2> DEFINE next == Plus(sim.cur_pc, ToWord(Length))
  <2>1. Advanced = IF sim.jump THEN [sim EXCEPT !.cur_pc = sim.jump_addr, !.jump = FALSE]
                   ELSE [sim EXCEPT !.cur_pc = next]
    BY DEF Advanced
  <2> HIDE DEF next
  <2>2. Advanced.cur_pc = IF sim.jump THEN sim.jump_addr ELSE next
    BY <1>1, <2>1 DEF StructSimulator
  <2> QED
    BY <2>2 DEF next
<1> QED
  BY <1>8, <1>9 DEF Slot

(* After a step that is no jump the address behind the slot comes next. *)
LEMMA FallsThrough ==
  ASSUME Cycle, Falls, v2' = v2
  PROVE  sim'.cur_pc = Slot /\ Slot' = AddressBehind(Slot)
<1>1. sim'.cur_pc = Slot
  BY AdvancesToSlot DEF Falls
<1>2. sim'.imem = sim.imem /\ sim'.jump = FALSE
  BY DEF Falls
<1> DEFINE next == Slot
<1> HIDE DEF next
<1>3. Slot' = AddressBehind(next)
  BY <1>1, <1>2 DEF Slot, AddressBehind, next
<1> QED
  BY <1>1, <1>3 DEF next

(* The kinds of instruction. *)
LEMMA Kinds ==
  /\ Computing \cap Jumps = {} /\ Loads \cap Jumps = {} /\ Stores \cap Jumps = {}
  /\ NativeBranch \cap Jumps = {}
  /\ {"MULT", "MULTU", "DIV", "DIVU", "MTHI", "MTLO"} \cap Jumps = {}
BY DEF Computing, Shifts, ShiftVs, Alu, AluImm, Compare, Loads, Stores, NativeBranch, Jumps

(* A cycle that goes on behind is a step of the processor. *)
LEMMA FallsRefines ==
  ASSUME Cycle, Falls, v2' = v2, status' = status, instr.op \notin Jumps
  PROVE  D!DNext
<1>1. sim'.cur_pc = Slot /\ Slot' = AddressBehind(Slot)
  BY FallsThrough
<1>2. status = "running"
  BY DEF Cycle
<1> HIDE DEF Slot
<1> QED
  BY <1>1, <1>2 DEF D!DNext, D!Execute, D!Fall

(* So is one that jumps or takes a branch. *)
LEMMA GoesRefines ==
  ASSUME Cycle, status' = status, NEW target, Goes(target),
         \/ instr.op \in NativeBranch /\ target = Plus(Advanced.cur_pc, simm)
         \/ instr.op \in Jumps /\ target = JumpAddr
  PROVE  D!DNext
<1>1. sim'.cur_pc = Slot /\ Slot' = target
  BY AdvancesToSlot DEF Goes, Slot
<1>2. status = "running" /\ Advanced.cur_pc = Slot
  BY AdvancesToSlot DEF Cycle
<1>3. instr.op \in Jumps => instr.op \notin NativeBranch
  BY Kinds
<1> HIDE DEF Slot
<1> QED
  BY <1>1, <1>2, <1>3 DEF D!DNext, D!Execute, D!Go

(* Every step is one of the processor, or none.                            *)
LEMMA StepRefines == TypeOK /\ [Next]_vars => [D!DNext]_D!dvars
<1>1. SUFFICES ASSUME TypeOK, [Next]_vars PROVE [D!DNext]_D!dvars
  OBVIOUS
<1>2. ASSUME status = "running", status' # "running" PROVE D!DNext
  BY <1>2 DEF D!DNext, D!Halt
<1>3. ASSUME NEW ops, Executes(ops), ops \cap Jumps = {}, Falls, status' = status
      PROVE  D!DNext
  <2>1. Cycle /\ instr.op \in ops /\ v2' = v2
    BY <1>1, <1>3, CycleFacts
  <2>2. instr.op \notin Jumps
    BY <1>3, <2>1, Zenon
  <2> QED
    BY <1>3, <2>1, <2>2, FallsRefines
<1>4. ASSUME NEW ops, Executes(ops), status' = "undefined" PROVE D!DNext
  BY <1>2, <1>4 DEF Executes, Looping
<1>5. ASSUME Compute PROVE D!DNext
  BY <1>1, <1>3, <1>5, ComputeStep, Kinds DEF Compute
<1>6. ASSUME MultiplyDivide PROVE D!DNext
  BY <1>1, <1>3, <1>4, <1>6, MultiplyDivideStep, Kinds DEF MultiplyDivide
<1>7. ASSUME LoadUart PROVE D!DNext
  BY <1>1, <1>3, <1>7, LoadUartStep, Kinds DEF LoadUart
<1>8. ASSUME LoadStatus PROVE D!DNext
  BY <1>1, <1>3, <1>8, LoadStatusStep, Kinds DEF LoadStatus
<1>9. ASSUME LoadMemory PROVE D!DNext
  BY <1>1, <1>3, <1>4, <1>9, LoadMemoryStep, Kinds DEF LoadMemory
<1>10. ASSUME Store PROVE D!DNext
  BY <1>1, <1>3, <1>4, <1>10, StoreStep, Kinds DEF Store
<1>11. ASSUME Branch PROVE D!DNext
  <2>1. Executes(NativeBranch)
    BY <1>11 DEF Branch
  <2>2. Cycle /\ instr.op \in NativeBranch
    BY <1>1, <2>1, CycleFacts
  <2>3. status' = status /\ (Falls \/ Goes(Plus(Advanced.cur_pc, simm)))
    BY <1>1, <1>11, BranchStep
  <2>4. CASE Falls
    BY <1>3, <2>1, <2>3, <2>4, Kinds
  <2>5. CASE Goes(Plus(Advanced.cur_pc, simm))
    BY <2>2, <2>3, <2>5, GoesRefines
  <2> QED
    BY <2>3, <2>4, <2>5
<1>12. ASSUME Jump PROVE D!DNext
  <2>1. Executes(Jumps)
    BY <1>12 DEF Jump
  <2>2. Cycle /\ instr.op \in Jumps
    BY <1>1, <2>1, CycleFacts
  <2> QED
    BY <1>1, <1>12, <2>2, JumpStep, GoesRefines
<1>13. ASSUME Stop PROVE D!DNext
  BY <1>2, <1>13 DEF Stop, Executes, Looping
<1>14. ASSUME LimitReached \/ InvalidPc \/ FetchOutside \/ Unknown PROVE D!DNext
  BY <1>2, <1>14 DEF LimitReached, InvalidPc, FetchOutside, Unknown, Halt, Looping
<1>15. ASSUME UNCHANGED vars PROVE UNCHANGED D!dvars
  BY <1>15 DEF vars, D!dvars, Slot, AddressBehind
<1> QED
  BY <1>1, <1>5, <1>6, <1>7, <1>8, <1>9, <1>10, <1>11, <1>12, <1>13, <1>14, <1>15 DEF Next

(* Every run of simulator.c, of either instruction set, is a run of the    *)
(* processor with a delay slot: what a branch or a jump decides is where   *)
(* the run goes after the instruction behind it, also when that one is a   *)
(* branch, has two bytes or comes after a target of another jump.          *)
THEOREM DelaySlotsImplemented == Spec => ImplementsDelaySlot
<1> QED
  BY TypeCorrect, StepRefines, PTL DEF Spec, ImplementsDelaySlot, D!DSpec
=============================================================================
