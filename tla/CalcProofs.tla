----------------------------- MODULE CalcProofs -----------------------------
(***************************************************************************)
(* No line of the input, of any length, makes the calculator leave its     *)
(* arrays. The counters alone do not show it: queue_start only grows while *)
(* a line is evaluated, and it is the clearing behind every line that      *)
(* brings it back to 0 before the next token is queued.                    *)
(*                                                                         *)
(* Every number it reads or computes is a fix16_t, and every division is a *)
(* run of the long division, for every width and every input. The long     *)
(* division itself comes first: it is right for registers of every width.  *)
(***************************************************************************)
EXTENDS Calc, LayoutProofs, SequenceTheorems

(***************************************************************************)
(* The long division. The invariant of its loop is Divides; the types      *)
(* below are what it needs besides.                                        *)
(*                                                                         *)
(* That the remainder can be doubled in its register has two reasons: in   *)
(* fix_divu no divisor is greater than 2^(Width - 1), and in divu32 the    *)
(* remainder has no more bits than have been taken from the dividend.      *)
(***************************************************************************)
LTypes ==
  /\ i \in 0..Bits
  /\ num \in 0..Pow[Bits] - 1 /\ dividend \in 0..Pow[Bits] - 1
  /\ divisor \in Divisors
  /\ quot \in Nat /\ rem \in Nat

LInv == LTypes /\ Divides

(* The powers of two that the loop uses. *)
LEMMA Powers ==
  /\ Pow[Bits] \in Nat \ {0} /\ Pow[Bits - 1] \in Nat \ {0} /\ Pow[Width] \in Nat
  /\ Pow[Bits] = 2 * Pow[Bits - 1]
  /\ Pow[0] = 1 /\ Pow[Width] > 1
  /\ \A k \in 0..Bits - 1 : Pow[k] \in Nat \ {0} /\ Pow[k + 1] = 2 * Pow[k]
<1> USE WidthAssumption, PowAssumption
<1>1. Pow[0] = 1 /\ Pow[Width] \in Nat /\ Pow[Bits] \in Nat
  OBVIOUS
<1>2. \A k \in 0..Bits + Width : Pow[k] \in Nat /\ Pow[0] <= Pow[k]
  OBVIOUS
<1>3. \A k \in 0..Bits - 1 : Pow[k] \in Nat \ {0} /\ Pow[k + 1] = 2 * Pow[k]
  <2> TAKE k \in 0..Bits - 1
  <2>1. k \in 0..Bits + Width - 1 /\ k \in 0..Bits + Width
    OBVIOUS
  <2>2. Pow[k + 1] = 2 * Pow[k]
    BY <2>1
  <2>3. Pow[k] \in Nat /\ Pow[k] >= 1
    BY <1>1, <1>2, <2>1
  <2> QED BY <2>2, <2>3
<1>4. Bits - 1 \in 0..Bits - 1 /\ (Bits - 1) + 1 = Bits
  OBVIOUS
<1>5. Pow[Bits - 1] \in Nat \ {0} /\ Pow[Bits] = 2 * Pow[Bits - 1]
  BY <1>3, <1>4
<1>6. Pow[1] = 2
  <2>1. 0 \in 0..Bits - 1 /\ 0 + 1 = 1
    OBVIOUS
  <2> QED BY <2>1, <1>1, <1>3
<1>7. Pow[1] <= Pow[Width]
  OBVIOUS
<1>8. Pow[Width] > 1
  BY <1>1, <1>6, <1>7
<1>9. Pow[Bits] \in Nat \ {0}
  BY <1>5
<1> QED BY ONLY <1>1, <1>3, <1>5, <1>8, <1>9

(* What \div and % are. *)
LEMMA Division ==
  ASSUME NEW a \in Nat, NEW P \in Nat \ {0}
  PROVE  /\ a \div P \in Nat /\ a % P \in 0..P - 1
         /\ a = P * (a \div P) + (a % P)
<1>1. a \div P \in Nat
  OBVIOUS
<1>2. a % P \in 0..P - 1
  OBVIOUS
<1>3. a = P * (a \div P) + (a % P)
  OBVIOUS
<1> QED BY <1>1, <1>2, <1>3

(* A product of naturals is one. *)
LEMMA ProductIsNat ==
  ASSUME NEW a \in Nat, NEW b \in Nat
  PROVE  a * b \in Nat
  OBVIOUS

(* Quotient and remainder are determined by their sum. *)
LEMMA DivisionUnique ==
  ASSUME NEW P \in Nat \ {0}, NEW q \in Nat, NEW r \in 0..P - 1
  PROVE  (P * q + r) \div P = q /\ (P * q + r) % P = r
  OBVIOUS

(* What the next bit makes of the quotient and the remainder. *)
LEMMA NextBit ==
  ASSUME NEW a \in Nat, NEW h \in Nat \ {0}, NEW P \in Nat \ {0}, P = 2 * h
  PROVE  /\ (a % P) \div h \in {0, 1}
         /\ (2 * a) \div P = 2 * (a \div P) + ((a % P) \div h)
         /\ (2 * a) % P = (2 * (a % P)) % P
<1>0. PICK q \in Nat, r \in 0..P - 1 : a \div P = q /\ a % P = r /\ a = P * q + r
  <2>1. /\ a \div P \in Nat /\ a % P \in 0..P - 1
        /\ a = P * (a \div P) + (a % P)
    BY Division
  <2> QED BY <2>1, Zenon
<1>1. 2 * a = P * (2 * q) + 2 * r
  BY <1>0
<1>2. /\ r \div h \in {0, 1}
      /\ (2 * a) \div P = 2 * q + (r \div h)
      /\ (2 * a) % P = (2 * r) % P
  <2>1. CASE r < h
    <3>1. 2 * r \in 0..P - 1 /\ 2 * q \in Nat
      BY <2>1
    <3>3. r \div h = 0
      BY <2>1
    <3>4. (P * (2 * q) + 2 * r) \div P = 2 * q /\ (P * (2 * q) + 2 * r) % P = 2 * r
      BY <3>1, DivisionUnique
    <3>5. 2 * r = P * 0 + 2 * r /\ (P * 0 + 2 * r) % P = 2 * r
      BY <3>1, DivisionUnique
    <3> QED BY <1>1, <3>3, <3>4, <3>5
  <2>2. CASE r >= h
    <3>1. r - h \in 0..h - 1 /\ r = h * 1 + (r - h)
      BY <2>2
    <3>2. r \div h = 1
      BY <3>1, DivisionUnique
    <3>3. 2 * r - P \in 0..P - 1 /\ 2 * r = P * 1 + (2 * r - P) /\ 2 * q + 1 \in Nat
      BY <2>2
    <3>4. P * (2 * q + 1) = P * (2 * q) + P
      OBVIOUS
    <3>5. 2 * a = P * (2 * q + 1) + (2 * r - P)
      BY <1>1, <3>4
    <3>6. (P * (2 * q + 1) + (2 * r - P)) \div P = 2 * q + 1
          /\ (P * (2 * q + 1) + (2 * r - P)) % P = 2 * r - P
      BY <3>3, DivisionUnique
    <3>7. (P * 1 + (2 * r - P)) % P = 2 * r - P
      BY <3>3, DivisionUnique
    <3> QED BY <3>2, <3>3, <3>5, <3>6, <3>7
  <2> QED BY <2>1, <2>2
<1> QED BY ONLY <1>0, <1>2

(* A remainder is at most the number of which it is one, and that has no   *)
(* more bits than have been seen.                                          *)
LEMMA FewBits ==
  ASSUME NEW a \in Nat, NEW P \in Nat \ {0}, NEW p \in Nat, a < P * p,
         NEW q \in Nat, NEW d \in Nat, NEW r \in Nat, a \div P = q * d + r,
         NEW W \in Nat, 2 * p <= W
  PROVE  2 * r + 1 < W
<1>1. a \div P \in Nat /\ a % P \in Nat /\ a = P * (a \div P) + (a % P)
  BY Division
<1>2. P * (a \div P) < P * p
  BY <1>1
<1>3. a \div P < p
  BY <1>1, <1>2
<1>4. q * d \in Nat
  BY ProductIsNat
<1>5. r < p
  BY <1>1, <1>3, <1>4
<1> QED BY <1>5

(* Nothing has been divided yet. *)
LEMMA InitLInv == LInit => LInv
<1> SUFFICES ASSUME LInit PROVE LInv
  OBVIOUS
<1>1. Pow[Bits] \in Nat \ {0} /\ Bits \in Nat
  BY Powers, WidthAssumption
<1>2. 1 \in Divisors
  BY DivisorsAssumption
<1>3. Pow[Bits - 0] = Pow[Bits] /\ 0 * Pow[Bits] = Pow[Bits] * 0 + 0
  BY <1>1
<1>4. (Pow[Bits] * 0 + 0) \div Pow[Bits] = 0 /\ (Pow[Bits] * 0 + 0) % Pow[Bits] = 0
  BY <1>1, DivisionUnique
<1> QED
  BY <1>1, <1>2, <1>3, <1>4 DEF LInit, LInv, LTypes, Divides

(* The loop starts with nothing of the dividend. *)
LEMMA DivideLInv ==
  ASSUME NEW n \in 0..Pow[Bits] - 1, NEW d \in Divisors, Divide(n, d)
  PROVE  LInv'
<1>1. Pow[Bits] \in Nat \ {0} /\ Bits \in Nat \ {0} /\ Pow[0] = 1 /\ Pow[Width] > 1 /\ Pow[Width] \in Nat
  BY Powers, WidthAssumption
<1>2. d \in Nat \ {0}
  BY DivisorsAssumption, <1>1
<1>3. Pow[Bits - Bits] = 1 /\ n * 1 = Pow[Bits] * 0 + n
  BY <1>1
<1>4. (Pow[Bits] * 0 + n) \div Pow[Bits] = 0 /\ (Pow[Bits] * 0 + n) % Pow[Bits] = n
  BY <1>1, DivisionUnique
<1>5. LTypes'
  BY <1>1 DEF Divide, LTypes
<1>6. Divides'
  BY <1>1, <1>2, <1>3, <1>4 DEF Divide, Divides
<1> QED BY <1>5, <1>6 DEF LInv

(* One iteration takes the next bit of the dividend. The bits seen so far  *)
(* are the number seen.                                                    *)
LEMMA IterateLInv ==
  ASSUME LInv, Iterate
  PROVE  LInv'
<1> DEFINE k == Bits - i
           D == dividend * Pow[k]
           P == Pow[Bits]
           h == Pow[Bits - 1]
           W == Pow[Width]
<1>1. /\ i \in 1..Bits /\ k \in 0..Bits - 1 /\ i' = i - 1 /\ Bits - i' = k + 1
      /\ P \in Nat \ {0} /\ h \in Nat \ {0} /\ P = 2 * h /\ W \in Nat /\ W > 1
      /\ Pow[k] \in Nat /\ Pow[k + 1] = 2 * Pow[k]
      /\ dividend \in Nat /\ divisor \in Nat \ {0} /\ divisor \in Divisors
      /\ quot \in Nat /\ rem \in Nat /\ D \in Nat
  BY Powers, WidthAssumption, DivisorsAssumption DEF LInv, LTypes, Iterate
<1>2. /\ num = D % P /\ quot * divisor + rem = D \div P
      /\ rem < divisor /\ 2 * rem + 1 < W
  BY <1>1 DEF LInv, Divides
<1>3. dividend' = dividend /\ divisor' = divisor /\ num' = (2 * num) % P
  BY DEF Iterate
<1>4. dividend' * Pow[Bits - i'] = 2 * D
  BY <1>1, <1>3
<1> HIDE DEF D, P, h, W, k
<1>5. TopBit = (D % P) \div h
  BY <1>2 DEF TopBit, h
<1>6. TopBit \in {0, 1} /\ (2 * D) \div P = 2 * (D \div P) + TopBit /\ (2 * D) % P = num'
  BY <1>1, <1>2, <1>3, <1>5, NextBit
<1>7. (2 * rem + TopBit) % W = 2 * rem + TopBit
  BY <1>1, <1>2, <1>6
<1> DEFINE r == 2 * rem + TopBit
<1>8. r \in Nat /\ r < 2 * divisor
  BY <1>1, <1>2, <1>6
<1>9. (2 * D) \div P = 2 * (quot * divisor) + r
  BY <1>1, <1>2, <1>6
<1>10. /\ quot' \in Nat /\ rem' \in Nat /\ rem' < divisor
       /\ quot' * divisor + rem' = 2 * (quot * divisor) + r
  <2>1. CASE r >= divisor
    <3>1. rem' = r - divisor /\ quot' = 2 * quot + 1
      BY <2>1, <1>7 DEF Iterate, W
    <3>2. (2 * quot + 1) * divisor = 2 * (quot * divisor) + divisor
      BY <1>1
    <3> QED BY <1>1, <1>8, <2>1, <3>1, <3>2
  <2>2. CASE r < divisor
    <3>1. rem' = r /\ quot' = 2 * quot
      BY <1>1, <1>8, <2>2, <1>7 DEF Iterate, W
    <3>2. (2 * quot) * divisor = 2 * (quot * divisor)
      BY <1>1
    <3> QED BY <1>1, <1>8, <2>2, <3>1, <3>2
  <2> QED BY <1>1, <1>8, <2>1, <2>2
<1>11. LTypes'
  <2>1. num' \in 0..P - 1
    <3>1. 2 * D \in Nat /\ P \in Nat \ {0}
      BY <1>1
    <3>2. (2 * D) % P \in 0..P - 1
      BY ONLY <3>1, Division
    <3> QED BY <1>6, <3>2
  <2>2. dividend' \in 0..P - 1
    BY <1>3 DEF LInv, LTypes, P
  <2>3. i' \in 0..Bits /\ divisor' \in Divisors
    BY <1>1, <1>3, WidthAssumption
  <2> QED BY ONLY <1>10, <2>1, <2>2, <2>3 DEF LTypes, P
<1>12. i' > 0 => 2 * rem' + 1 < W
  <2> SUFFICES ASSUME i' > 0 PROVE 2 * rem' + 1 < W
    OBVIOUS
  <2>1. CASE \A d \in Divisors : d <= Pow[Width - 1]
    <3>1. W = 2 * Pow[Width - 1] /\ Pow[Width - 1] \in Nat
      <4>1. Width - 1 \in 0..Bits + Width - 1 /\ (Width - 1) + 1 = Width
        BY WidthAssumption
      <4> QED BY <4>1, PowAssumption, WidthAssumption DEF W
    <3>2. divisor <= Pow[Width - 1]
      BY <2>1, <1>1
    <3> QED BY <1>1, <1>10, <3>1, <3>2
  <2>2. CASE Bits <= Width
    <3>1. k + 1 \in 0..Bits - 1 /\ k + 2 <= Width
      BY <1>1, <2>2, WidthAssumption
    <3>2. /\ Pow[k + 1] \in Nat \ {0}
          /\ Pow[(k + 1) + 1] = 2 * Pow[k + 1]
      BY <3>1, Powers
    <3>3. 2 * Pow[k + 1] <= W
      <4>1. (k + 1) + 1 \in 0..Width
        BY <1>1, <3>1, WidthAssumption
      <4>2. Pow[(k + 1) + 1] <= Pow[Width]
        BY <4>1, PowAssumption, WidthAssumption, SMTT(30)
      <4> QED BY <3>2, <4>2 DEF W
    <3>4. 2 * D = dividend * Pow[k + 1]
      BY <1>1 DEF D
    <3>5. dividend < P
      BY <1>1 DEF LInv, LTypes, P
    <3>6. 2 * D < P * Pow[k + 1]
      BY <1>1, <3>2, <3>4, <3>5
    <3>7. 2 * D \in Nat /\ P \in Nat \ {0} /\ Pow[k + 1] \in Nat /\ 2 * D < P * Pow[k + 1]
      BY <1>1, <3>2, <3>6
    <3>8. (2 * D) \div P = quot' * divisor + rem'
      BY <1>9, <1>10
    <3>9. quot' \in Nat /\ divisor \in Nat /\ rem' \in Nat /\ W \in Nat
      BY <1>1, <1>10
    <3> QED BY ONLY <3>3, <3>7, <3>8, <3>9, FewBits, Zenon
  <2> QED BY <2>1, <2>2, DivisorsAssumption
<1>13. Divides'
  BY <1>3, <1>4, <1>6, <1>9, <1>10, <1>12 DEF Divides, P, W
<1> QED BY <1>11, <1>13 DEF LInv

(* Both together. *)
LEMMA StepLInv == LInv /\ [LNext]_lvars => LInv'
<1> SUFFICES ASSUME LInv, [LNext]_lvars PROVE LInv'
  OBVIOUS
<1>1. CASE LNext
  <2>1. CASE num' \in 0..Pow[Bits] - 1 /\ divisor' \in Divisors /\ Divide(num', divisor')
    <3> DEFINE n == num'
               d == divisor'
    <3>1. n \in 0..Pow[Bits] - 1 /\ d \in Divisors /\ Divide(n, d)
      BY <2>1
    <3> QED BY <3>1, DivideLInv
  <2>2. CASE Iterate
    BY <2>2, IterateLInv
  <2> QED BY <1>1, <2>1, <2>2 DEF LNext
<1>2. CASE UNCHANGED lvars
  BY <1>2 DEF LInv, LTypes, Divides, lvars
<1> QED BY <1>1, <1>2

(***************************************************************************)
(* fix_divu and divu32: at every step of the loop, and so at its end, the  *)
(* quotient and the remainder are right, whatever the width of the         *)
(* registers and whatever the divisor.                                     *)
(***************************************************************************)
THEOREM DivisionRight == LSpec => []Divides
<1>1. LInit => LInv
  BY InitLInv
<1>2. LInv /\ [LNext]_lvars => LInv'
  BY StepLInv
<1>3. LInv => Divides
  BY DEF LInv
<1> QED
  BY <1>1, <1>2, <1>3, PTL DEF LSpec

(* In particular, when the loop ends, they are those of the whole dividend. *)
THEOREM QuotientRight ==
  LSpec => [](i = 0 => quot = dividend \div divisor /\ rem = dividend % divisor)
<1>1. LInit => LInv
  BY InitLInv
<1>2. LInv /\ [LNext]_lvars => LInv'
  BY StepLInv
<1>3. LInv => (i = 0 => quot = dividend \div divisor /\ rem = dividend % divisor)
  <2> SUFFICES ASSUME LInv, i = 0
               PROVE  quot = dividend \div divisor /\ rem = dividend % divisor
    OBVIOUS
  <2>1. /\ Pow[Bits] \in Nat \ {0} /\ dividend \in Nat /\ Bits \in Nat
        /\ divisor \in Nat \ {0} /\ quot \in Nat /\ rem \in 0..divisor - 1
    BY Powers, WidthAssumption, DivisorsAssumption DEF LInv, LTypes, Divides
  <2>2. quot * divisor + rem = (dividend * Pow[Bits]) \div Pow[Bits]
    BY <2>1 DEF LInv, Divides
  <2>3. dividend * Pow[Bits] = Pow[Bits] * dividend + 0
    BY <2>1
  <2>4. (Pow[Bits] * dividend + 0) \div Pow[Bits] = dividend
    BY <2>1, DivisionUnique
  <2>5. dividend = divisor * quot + rem
    BY <2>1, <2>2, <2>3, <2>4
  <2>6. (divisor * quot + rem) \div divisor = quot /\ (divisor * quot + rem) % divisor = rem
    BY <2>1, DivisionUnique
  <2> QED BY <2>5, <2>6
<1> QED
  BY <1>1, <1>2, <1>3, PTL DEF LSpec

(***************************************************************************)
(* The arrays                                                              *)
(***************************************************************************)

(* Until a line is evaluated the queue begins at the beginning. *)
QueueInv ==
  /\ at \in Loops
  /\ \E S : stack \in Seq(S)
  /\ Len(stack) <= STACK_SIZE
  /\ queue_start \in Nat /\ queue_size \in Nat
  /\ queue_start + queue_size <= QUEUE_SIZE
  /\ at \notin {"calc", "divide"} => queue_start = 0
  /\ at = "divide" => Len(stack) < STACK_SIZE

(* The three ways in which a step touches the queue. *)
LEMMA Pushed ==
  ASSUME QueueInv, at \notin {"calc", "divide"}, NEW x, push_queue(x)
  PROVE  /\ queue_start' = 0 /\ queue_size' \in Nat
         /\ queue_start' + queue_size' <= QUEUE_SIZE
  BY CalcSizes DEF QueueInv, push_queue

(* What a pop leaves of the queue is still inside queue[QUEUE_SIZE]. *)
LEMMA Taken ==
  ASSUME QueueInv, ~Ended, pop_queue
  PROVE  /\ queue_start' \in Nat /\ queue_size' \in Nat
         /\ queue_start' + queue_size' <= QUEUE_SIZE
<1>1. queue_size # 0
  BY DEF Ended, NextToken, Token
<1> QED BY <1>1, CalcSizes DEF QueueInv, pop_queue

(* A step that touches neither the queue nor the stack keeps both bounds. *)
LEMMA Untouched ==
  ASSUME QueueInv, UNCHANGED qvars
  PROVE  /\ queue_start' \in Nat /\ queue_size' \in Nat /\ queue_start' = queue_start
         /\ queue_start' + queue_size' <= QUEUE_SIZE
  BY DEF QueueInv, qvars

(* And the ways in which it touches the stack. *)
IsStack(s) == (\E S : s \in Seq(S)) /\ Len(s) <= STACK_SIZE

(* A push changes the stack only while there is room (push_stack). *)
LEMMA StackPush ==
  ASSUME NEW s, IsStack(s), NEW x
  PROVE  IsStack(push_stack(s, x))
<1>1. PICK S : s \in Seq(S)
  BY DEF IsStack
<1> DEFINE T == S \cup {x}
<1>2. s \in Seq(T) /\ x \in T
  BY <1>1
<1>3. CASE Len(s) = STACK_SIZE
  BY <1>3 DEF push_stack, IsStack
<1>4. CASE Len(s) # STACK_SIZE
  <2>1. Append(s, x) \in Seq(T) /\ Len(Append(s, x)) = Len(s) + 1 /\ Len(s) \in Nat
    BY <1>2
  <2>2. Len(s) + 1 <= STACK_SIZE
    BY <1>4, <2>1, CalcSizes DEF IsStack
  <2> QED BY <1>4, <2>1, <2>2 DEF push_stack, IsStack
<1> QED BY <1>3, <1>4

(* A pop leaves a stack of at most STACK_SIZE elements (pop_stack). *)
LEMMA StackPop ==
  ASSUME IsStack(stack)
  PROVE  IsStack(Popped)
<1>1. PICK S : stack \in Seq(S)
  BY DEF IsStack
<1>2. CASE stack = <<>>
  BY <1>2 DEF Popped, IsStack
<1>3. CASE stack # <<>>
  <2>1. Front(stack) \in Seq(S) /\ Len(Front(stack)) = Len(stack) - 1 /\ Len(stack) \in Nat
    BY <1>1, <1>3 DEF Front
  <2> QED BY <1>3, <2>1, CalcSizes DEF Popped, IsStack
<1> QED BY <1>2, <1>3

(* A result takes the place of two operands. *)
LEMMA StackResult ==
  ASSUME IsStack(stack), TwoNumbers, NEW x
  PROVE  IsStack(Append(Front2, x)) /\ IsStack(Front2) /\ Len(Front2) < STACK_SIZE
<1>1. PICK S : stack \in Seq(S)
  BY DEF IsStack
<1> DEFINE T == S \cup {x}
<1>2. stack \in Seq(T) /\ x \in T /\ Len(stack) \in Nat /\ Len(stack) >= 2
  BY <1>1 DEF TwoNumbers
<1>3. Front(stack) \in Seq(T) /\ Len(Front(stack)) = Len(stack) - 1
  BY <1>2 DEF Front
<1>4. Front2 \in Seq(T) /\ Len(Front2) = Len(stack) - 2
  BY <1>2, <1>3 DEF Front2, Front
<1>5. Append(Front2, x) \in Seq(T) /\ Len(Append(Front2, x)) = Len(stack) - 1
  BY <1>2, <1>4
<1> QED BY <1>2, <1>4, <1>5, CalcSizes DEF IsStack

(* What a step has to show. *)
LEMMA Kept ==
  ASSUME IsStack(stack'), at' \in Loops, at' = "divide" => Len(stack') < STACK_SIZE,
         queue_start' \in Nat, queue_size' \in Nat, queue_start' + queue_size' <= QUEUE_SIZE,
         at' \notin {"calc", "divide"} => queue_start' = 0
  PROVE  QueueInv'
  BY DEF QueueInv, IsStack

(* Reading a token keeps the array bounds. *)
LEMMA ReadTokenInv ==
  ASSUME QueueInv, ReadToken
  PROVE  QueueInv'
<1> DEFINE x == parse_token(text).token
<1>1. /\ at = "parse"
      /\ at' = CASE x.op \in Operators -> "operator"
                 [] x.op = "RPAR"    -> "parenthesis"
                 [] x.op = "END"     -> "drain"
                 [] x.op = "INVALID" -> "returned"
                 [] OTHER            -> "parse"
      /\ IF x.op = "NUMBER" THEN push_queue(x) ELSE UNCHANGED qvars
      /\ stack' = IF x.op = "LPAR" THEN push_stack(stack, x) ELSE stack
  BY DEF ReadToken
<1> HIDE DEF x
<1>2. at' \in {"operator", "parenthesis", "drain", "returned", "parse"}
  BY <1>1
<1>3. IsStack(stack')
  BY <1>1, StackPush DEF QueueInv, IsStack
<1>4. queue_start' = 0 /\ queue_size' \in Nat /\ queue_start' + queue_size' <= QUEUE_SIZE
  BY <1>1, Pushed, Untouched DEF QueueInv
<1> QED BY <1>2, <1>3, <1>4, Kept DEF Loops

(* A division by 0 while it is read changes nothing of them. *)
LEMMA ReadUndefinedInv ==
  ASSUME QueueInv, ReadUndefined
  PROVE  QueueInv'
BY DEF ReadUndefined, QueueInv, qvars, Loops

(* Moving the operators of a parenthesis to the queue keeps them. *)
LEMMA PopToParenthesisInv ==
  ASSUME QueueInv, PopToParenthesis
  PROVE  QueueInv'
<1>1. at = "parenthesis" /\ stack' = Popped /\ at' \in {"parenthesis", "parse", "returned"}
  BY DEF PopToParenthesis
<1>2. push_queue(Top) \/ UNCHANGED qvars
  BY DEF PopToParenthesis
<1>3. IsStack(stack')
  BY <1>1, StackPop DEF QueueInv, IsStack
<1>4. queue_start' = 0 /\ queue_size' \in Nat /\ queue_start' + queue_size' <= QUEUE_SIZE
  BY <1>1, <1>2, Pushed, Untouched DEF QueueInv
<1> QED BY <1>1, <1>3, <1>4, Kept DEF Loops

(* Moving operators that bind as strongly to the queue keeps them. *)
LEMMA PopOperatorsInv ==
  ASSUME QueueInv, PopOperators
  PROVE  QueueInv'
<1>1. at = "operator" /\ at' \in {"operator", "parse"}
      /\ (stack' = Popped \/ stack' = push_stack(stack, t))
      /\ (push_queue(Top) \/ UNCHANGED qvars)
  BY DEF PopOperators
<1>2. IsStack(stack')
  BY <1>1, StackPop, StackPush DEF QueueInv, IsStack
<1>3. queue_start' = 0 /\ queue_size' \in Nat /\ queue_start' + queue_size' <= QUEUE_SIZE
  BY <1>1, Pushed, Untouched DEF QueueInv
<1> QED BY <1>1, <1>2, <1>3, Kept DEF Loops

(* Moving the rest of the stack to the queue at the end keeps them. *)
LEMMA DrainInv ==
  ASSUME QueueInv, Drain
  PROVE  QueueInv'
<1>1. at = "drain" /\ at' \in {"calc", "drain"} /\ stack' = Popped /\ push_queue(Top)
  BY DEF Drain
<1>2. IsStack(stack')
  BY <1>1, StackPop DEF QueueInv, IsStack
<1>3. queue_start' = 0 /\ queue_size' \in Nat /\ queue_start' + queue_size' <= QUEUE_SIZE
  BY <1>1, Pushed
<1> QED BY <1>1, <1>2, <1>3, Kept DEF Loops

(* The steps that take a token out of the queue. *)
LEMMA CalcInv ==
  ASSUME QueueInv, CalcNumber \/ CalcOperator \/ CalcDivision
  PROVE  QueueInv'
<1>1. at = "calc" /\ ~Ended /\ pop_queue /\ at' \in {"calc", "divide"}
  BY DEF CalcNumber, CalcOperator, CalcDivision
<1>2. queue_start' \in Nat /\ queue_size' \in Nat /\ queue_start' + queue_size' <= QUEUE_SIZE
  BY <1>1, Taken
<1>3. IsStack(stack)
  BY DEF QueueInv, IsStack
<1>4. IsStack(stack') /\ (at' = "divide" => Len(stack') < STACK_SIZE)
  <2>1. CASE CalcNumber
    BY <1>1, <1>3, <2>1, StackPush DEF CalcNumber
  <2>2. CASE CalcOperator
    BY <1>1, <1>3, <2>2, StackResult DEF CalcOperator
  <2>3. CASE CalcDivision
    BY <1>1, <1>3, <2>3, StackResult DEF CalcDivision
  <2> QED BY <2>1, <2>2, <2>3
<1> QED BY <1>1, <1>2, <1>4, Kept DEF Loops

(* The steps of the division keep them. *)
LEMMA DivideInv ==
  ASSUME QueueInv, DivideStep \/ DivideEnd
  PROVE  QueueInv'
<1>1. CASE DivideStep
  BY <1>1 DEF DivideStep, cvars, QueueInv
<1>2. CASE DivideEnd
  <2> DEFINE x == Number_(fix_div_result(left, right, quot))
  <2>1. at = "divide" /\ at' = "calc" /\ stack' = Append(stack, x) /\ UNCHANGED qvars
    BY <1>2 DEF DivideEnd
  <2> HIDE DEF x
  <2>2. stack' = push_stack(stack, x)
    BY <2>1 DEF QueueInv, push_stack
  <2>3. IsStack(stack')
    BY <2>2, StackPush DEF QueueInv, IsStack
  <2>4. queue_start' \in Nat /\ queue_size' \in Nat /\ queue_start' + queue_size' <= QUEUE_SIZE
    BY <2>1, Untouched
  <2> QED BY <2>1, <2>3, <2>4, Kept DEF Loops
<1> QED BY <1>1, <1>2

(* The end of a line clears both. *)
LEMMA EndLineInv ==
  ASSUME QueueInv, CalcRefused \/ PrintResult
  PROVE  QueueInv'
<1>1. PICK message : EndLine(message)
  BY DEF CalcRefused, PrintResult
<1>2. stack' = <<>> /\ queue_start' = 0 /\ queue_size' = 0 /\ at' = "parse"
  BY <1>1 DEF EndLine
<1>3. IsStack(stack')
  BY <1>2, CalcSizes DEF IsStack
<1> QED BY <1>2, <1>3, CalcSizes, Kept DEF Loops

(* The bounds of the arrays, and what they need, hold all the time.        *)
THEOREM QueueStays == CSpec => []QueueInv
<1>1. CInit => QueueInv
  <2> SUFFICES ASSUME CInit PROVE QueueInv
    OBVIOUS
  <2>1. stack = <<>> /\ <<>> \in Seq({}) /\ Len(<<>>) = 0
    BY DEF CInit
  <2>2. \E S : stack \in Seq(S)
    BY <2>1
  <2> QED BY <2>1, <2>2, CalcSizes DEF CInit, QueueInv, Loops
<1>2. QueueInv /\ [CNext]_<<lvars, cvars>> => QueueInv'
  <2> SUFFICES ASSUME QueueInv, [CNext]_<<lvars, cvars>> PROVE QueueInv'
    OBVIOUS
  <2>1. CASE UNCHANGED <<lvars, cvars>>
    BY <2>1 DEF cvars, QueueInv
  <2>2. CASE CNext
    BY <2>2, ReadTokenInv, ReadUndefinedInv, PopToParenthesisInv, PopOperatorsInv, DrainInv,
       CalcInv, DivideInv, EndLineInv DEF CNext
  <2> QED BY <2>1, <2>2
<1> QED
  BY <1>1, <1>2, PTL DEF CSpec

(***************************************************************************)
(* calc.c never reads or writes an element that is not in its arrays, and  *)
(* neither counter exceeds the array's size, which fits its 8 bits.        *)
(***************************************************************************)
THEOREM ArraysBounded == CSpec => []QueueInside
<1>1. QueueInv => QueueInside
  BY DEF QueueInv, QueueInside
<1> QED
  BY <1>1, QueueStays, PTL

(***************************************************************************)
(* Numbers                                                                 *)
(***************************************************************************)

(* Pow has the powers of two: a product of two of them is the power of the *)
(* sum of the exponents.                                                   *)
LEMMA PowSum ==
  ASSUME NEW a \in Nat, NEW b \in Nat, a + b <= Bits + Width
  PROVE  Pow[a + b] = Pow[a] * Pow[b]
<1> USE WidthAssumption, PowAssumption
<1> SUFFICES ASSUME Pow[a + b] # Pow[a] * Pow[b] PROVE FALSE
  OBVIOUS
<1> DEFINE T == {n \in 0..b : Pow[a + n] # Pow[a] * Pow[n]}
<1>1. b \in T
  OBVIOUS
<1>2. PICK m \in T : \A n \in T : m <= n
  <2>1. T \in SUBSET Nat
    OBVIOUS
  <2> HIDE DEF T
  <2> QED
    BY <1>1, <2>1, LeastNatural
<1>3. \A n \in 0..Bits + Width : Pow[n] \in Nat
  OBVIOUS
<1>4. m # 0
  <2>1. Pow[a] * 1 = Pow[a] /\ a + 0 = a
    BY <1>3
  <2> QED
    BY <1>2, <2>1
<1>5. m \in 1..b /\ m - 1 \in 0..b /\ m - 1 \notin T
  BY <1>2, <1>4
<1>6. Pow[a + (m - 1)] = Pow[a] * Pow[m - 1]
  BY <1>5
<1>7. /\ Pow[a + m] = 2 * Pow[a + (m - 1)] /\ Pow[m] = 2 * Pow[m - 1]
  <2>1. a + (m - 1) \in 0..Bits + Width - 1 /\ (a + (m - 1)) + 1 = a + m
    BY <1>5
  <2>2. m - 1 \in 0..Bits + Width - 1 /\ (m - 1) + 1 = m
    BY <1>5
  <2> QED
    BY <2>1, <2>2
<1>8. Pow[a] * (2 * Pow[m - 1]) = 2 * (Pow[a] * Pow[m - 1])
  <2>1. Pow[a] \in Nat /\ Pow[m - 1] \in Nat
    BY <1>3, <1>5
  <2> QED
    BY ONLY <2>1
<1> QED
  BY <1>2, <1>6, <1>7, <1>8

(* The numbers around the point. *)
LEMMA FixFacts ==
  /\ Frac \in 1..Width - 1 /\ Bits = Width + Frac
  /\ One \in Nat \ {0} /\ Pow[Width - 1] \in Nat \ {0}
  /\ Pow[Width] = 2 * Pow[Width - 1] /\ Pow[Width] \in Nat \ {0}
  /\ Fix = {n \in Int : -Pow[Width - 1] <= n /\ n <= Pow[Width - 1] - 1}
  /\ Pow[Width - 1] * One = Pow[Bits - 1]
<1> USE WidthAssumption, FracAssumption
<1>1. One \in Nat \ {0} /\ Pow[Width - 1] \in Nat \ {0}
  BY Powers DEF One
<1>2. Width \in 0..Bits - 1 /\ Width - 1 \in 0..Bits - 1 /\ (Width - 1) + 1 = Width
  OBVIOUS
<1>3. Pow[Width] = 2 * Pow[Width - 1] /\ Pow[Width] \in Nat \ {0}
  BY <1>2, Powers
<1>4. Pow[Width - 1] * Pow[Frac] = Pow[Bits - 1]
  <2>1. Width - 1 \in Nat /\ Frac \in Nat /\ (Width - 1) + Frac <= Bits + Width
        /\ (Width - 1) + Frac = Bits - 1
    OBVIOUS
  <2> QED
    BY <2>1, PowSum
<1> QED
  BY <1>1, <1>3, <1>4 DEF One, Fix, FIX_MIN, FIX_MAX

(* What leaves its range is set to the end of it. *)
LEMMA ClampedType ==
  ASSUME NEW n \in Int
  PROVE  Clamped(n) \in Fix
BY FixFacts DEF Clamped, FIX_MIN, FIX_MAX

(* A register holds a number with a sign. *)
LEMMA WrappedType ==
  ASSUME NEW n \in Int
  PROVE  Wrapped(n) \in Fix
<1> DEFINE P == Pow[Width - 1]
           r == (n + P) % (2 * P)
<1>1. P \in Nat \ {0} /\ Pow[Width] = 2 * P
  BY FixFacts
<1> HIDE DEF P
<1>2. r \in 0..2 * P - 1
  BY <1>1
<1> HIDE DEF r
<1>3. r - P >= -P /\ r - P <= P - 1 /\ r - P \in Int
  BY <1>1, <1>2
<1>4. Wrapped(n) = r - P
  BY <1>1 DEF Wrapped, P, r
<1> QED
  BY <1>3, <1>4, FixFacts DEF P

(* fix_add, fix_sub and fix_mul answer with a number of the register.      *)
LEMMA ArithmeticType ==
  ASSUME NEW l \in Fix, NEW r \in Fix
  PROVE  /\ fix_add(l, r) \in Fix /\ fix_sub(l, r) \in Fix /\ fix_mul(l, r) \in Fix
<1>1. l \in Int /\ r \in Int /\ l * r \in Int
  BY FixFacts
<1>2. l + r \in Int /\ l - r \in Int
  BY <1>1
<1>3. fix_mul(l, r) \in Fix
  <2> DEFINE sum == l * r + One \div 2
             up == sum \div One
             down == (-sum) \div One
  <2>1. One \in Nat \ {0}
    BY FixFacts
  <2>2. sum \in Int
    BY <1>1, <2>1
  <2> HIDE DEF sum
  <2>3. up \in Int /\ -down \in Int
    BY <2>1, <2>2
  <2> HIDE DEF up, down
  <2>4. (IF sum < 0 THEN -down ELSE up) \in Int
    BY <2>3
  <2>5. fix_mul(l, r) = Clamped(IF sum < 0 THEN -down ELSE up)
    BY DEF fix_mul, sum, up, down
  <2> QED
    BY <2>4, <2>5, ClampedType
<1> QED
  BY <1>2, <1>3, ClampedType DEF fix_add, fix_sub

(* So does fix_div, whatever the quotient of the magnitudes is.            *)
LEMMA QuotientType ==
  ASSUME NEW l, NEW r, NEW q \in Nat
  PROVE  fix_div_result(l, r, q) \in Fix
<1>1. (IF q >= FIX_MAX THEN FIX_MAX ELSE q) \in 0..Pow[Width - 1] - 1
  BY FixFacts DEF FIX_MAX
<1> QED
  BY <1>1, FixFacts DEF fix_div_result

(* The magnitude of a number, also that of the least, is a divisor of the  *)
(* loop, and shifted a dividend.                                           *)
LEMMA MagnitudeFits ==
  ASSUME NEW n \in Fix
  PROVE  /\ Magnitude(n) \in 0..Pow[Width - 1]
         /\ n # 0 => Magnitude(n) \in 1..Pow[Width - 1]
         /\ Magnitude(n) * One \in 0..Pow[Bits] - 1
<1>1. Magnitude(n) \in 0..Pow[Width - 1] /\ (n # 0 => Magnitude(n) \in 1..Pow[Width - 1])
  BY FixFacts DEF Magnitude
<1>2. /\ Pow[Bits] = 2 * Pow[Bits - 1] /\ Pow[Bits - 1] \in Nat \ {0}
      /\ Pow[Width - 1] * One = Pow[Bits - 1] /\ One \in Nat \ {0} /\ Pow[Width - 1] \in Nat
  BY Powers, FixFacts
<1> DEFINE m == Magnitude(n)
           P == Pow[Width - 1]
<1>3. m \in Nat /\ m <= P /\ P \in Nat /\ One \in Nat
  BY <1>1, <1>2
<1> HIDE DEF m, P
<1>4. m * One \in Nat /\ m * One <= P * One
  BY ONLY <1>3
<1> QED
  BY <1>1, <1>2, <1>4 DEF m, P

(***************************************************************************)
(* Text                                                                    *)
(***************************************************************************)

(* What there is to read ends with the end of the file, and only there.    *)
IsText(s) ==
  s \in Seq(STRING) /\ Len(s) > 0 /\ \A k \in 1..Len(s) : s[k] = "eof" <=> k = Len(s)

(* Before its last character a text has a rest, which is a text. *)
LEMMA TextRest ==
  ASSUME NEW s, IsText(s), NEW k \in 1..Len(s)
  PROVE  /\ IsText(SubSeq(s, k, Len(s))) /\ SubSeq(s, k, Len(s))[1] = s[k]
         /\ Tail(SubSeq(s, k, Len(s))) \in Seq(STRING)
         /\ s[k] # "eof" => IsText(Tail(SubSeq(s, k, Len(s)))) /\ k + 1 \in 1..Len(s)
<1> DEFINE n == Len(s)
           r == SubSeq(s, k, n)
<1>1. s \in Seq(STRING) /\ n \in Nat /\ \A j \in 1..n : s[j] = "eof" <=> j = n
  BY DEF IsText
<1>2. r \in Seq(STRING) /\ Len(r) = n - k + 1 /\ \A j \in 1..n - k + 1 : r[j] = s[k + j - 1]
  BY <1>1
<1> HIDE DEF r, n
<1>3. IsText(r) /\ r[1] = s[k]
  <2>1. \A j \in 1..n - k + 1 : k + j - 1 \in 1..n
    BY <1>1 DEF n
  <2>2. k \in 1..n
    BY DEF n
  <2>3. Len(r) > 0 /\ 1 \in 1..n - k + 1 /\ k + 1 - 1 = k
    BY <1>1, <1>2, <2>2
  <2>4. \A j \in 1..n - k + 1 : r[j] = "eof" <=> k + j - 1 = n
    BY <1>1, <1>2, <2>1
  <2>5. \A j \in 1..Len(r) : r[j] = "eof" <=> j = Len(r)
    BY <1>1, <1>2, <2>2, <2>4
  <2>6. r[1] = s[k]
    BY <1>2, <2>3
  <2> QED
    BY <1>2, <2>3, <2>5, <2>6 DEF IsText
<1>4. Tail(r) \in Seq(STRING)
  BY <1>3 DEF IsText
<1>5. s[k] # "eof" => IsText(Tail(r)) /\ k + 1 \in 1..n
  <2> SUFFICES ASSUME s[k] # "eof" PROVE IsText(Tail(r)) /\ k + 1 \in 1..n
    OBVIOUS
  <2>1. k \in 1..n - 1
    BY <1>1 DEF n
  <2>2. Len(Tail(r)) = n - k /\ \A j \in 1..n - k : Tail(r)[j] = s[k + j]
    BY <1>2, <2>1, <1>1
  <2>3. \A j \in 1..n - k : k + j \in 1..n
    BY <1>1, <2>1
  <2>4. \A j \in 1..n - k : Tail(r)[j] = "eof" <=> k + j = n
    BY <1>1, <2>2, <2>3
  <2>5. \A j \in 1..Len(Tail(r)) : Tail(r)[j] = "eof" <=> j = Len(Tail(r))
    BY <1>1, <2>1, <2>2, <2>4
  <2>6. Len(Tail(r)) > 0 /\ k + 1 \in 1..n
    BY <1>1, <2>1, <2>2
  <2> QED
    BY <1>4, <2>5, <2>6 DEF IsText
<1> QED
  BY <1>3, <1>4, <1>5 DEF r, n

(* Ten characters are digits; no sign, no point and no end is one.         *)
LEMMA DigitFacts ==
  /\ ~IsDigit("eof") /\ ~IsDigit("+") /\ ~IsDigit("-") /\ ~IsDigit(".")
  /\ \A c \in Characters : ~IsDigit(c) /\ c # "eof"
  /\ \A c : IsDigit(c) => Digit(c) \in Int
<1>1. \A c : IsDigit(c) <=> \E n \in 1..10 : DigitChars[n] = c
  BY DEF IsDigit, ToSet, DigitChars
<1>2. \A c : IsDigit(c) <=> c \in {"0", "1", "2", "3", "4", "5", "6", "7", "8", "9"}
  BY DEF IsDigit, ToSet, DigitChars
<1>3. ASSUME NEW c, IsDigit(c) PROVE Digit(c) \in Int
  <2> DEFINE n == CHOOSE n \in 1..10 : DigitChars[n] = c
  <2>1. n \in 1..10
    BY <1>1, <1>3
  <2> HIDE DEF n
  <2>2. n - 1 \in Int
    BY <2>1
  <2> QED
    BY <2>2 DEF Digit, n
<1>4. \A c \in Characters : ~IsDigit(c) /\ c # "eof"
  BY <1>2 DEF Characters
<1> QED
  BY <1>2, <1>3, <1>4

(* A text begins with so many digits, and has a character behind them.     *)
LEMMA DigitsFound ==
  ASSUME NEW s, IsText(s)
  PROVE  /\ Digits(s) \in 0..Len(s) - 1 /\ Digits(s) + 1 \in 1..Len(s)
         /\ \A k \in 1..Digits(s) : IsDigit(s[k])
         /\ ~IsDigit(s[Digits(s) + 1])
<1> DEFINE T == {k \in 1..Len(s) : ~IsDigit(s[k])}
           Ok(n) == /\ \A k \in 1..n : IsDigit(s[k])
                    /\ n < Len(s) => ~IsDigit(s[n + 1])
<1>1. Len(s) \in Nat \ {0} /\ s[Len(s)] = "eof"
  BY DEF IsText
<1>2. PICK m \in T : \A n \in T : m <= n
  <2>1. T \in SUBSET Nat /\ Len(s) \in T
    BY <1>1, DigitFacts
  <2> HIDE DEF T
  <2> QED
    BY <2>1, LeastNatural
<1>3. m - 1 \in 0..Len(s) - 1 /\ Ok(m - 1)
  <2>1. m \in 1..Len(s) /\ ~IsDigit(s[m]) /\ (m - 1) + 1 = m
    BY <1>2
  <2>2. ASSUME NEW k \in 1..m - 1 PROVE IsDigit(s[k])
    <3>1. k \in 1..Len(s) /\ ~(m <= k)
      BY <1>1, <2>1
    <3>2. k \notin T
      BY <1>2, <3>1
    <3> QED
      BY <3>1, <3>2
  <2> HIDE DEF T
  <2> QED
    BY <1>1, <2>1, <2>2
<1>4. Digits(s) \in 0..Len(s) /\ Ok(Digits(s))
  <2>1. \E n \in 0..Len(s) : Ok(n)
    <3> HIDE DEF Ok
    <3>1. m - 1 \in 0..Len(s)
      BY <1>1, <1>3
    <3> QED
      BY <1>3, <3>1
  <2>2. Digits(s) = CHOOSE n \in 0..Len(s) : Ok(n)
    BY DEF Digits
  <2> HIDE DEF Ok
  <2> QED
    BY <2>1, <2>2
<1>5. Digits(s) # Len(s)
  BY <1>1, <1>4, DigitFacts
<1> DEFINE d == Digits(s)
<1> HIDE DEF d
<1>6. d \in 0..Len(s) - 1 /\ d + 1 \in 1..Len(s) /\ d < Len(s)
  BY <1>1, <1>4, <1>5 DEF d
<1> QED
  BY <1>4, <1>6 DEF d

(* The value of n digits. *)
LEMMA NumberType ==
  ASSUME NEW s, NEW n \in Nat, \A k \in 1..n : IsDigit(s[k])
  PROVE  Number(s, n) \in Int
<1> DEFINE step == [nv \in (1..n) \X Int |-> (10 * nv[2] + Digit(s[nv[1]])) % Pow[Width]]
           eq(h) == h = [k \in 0..n |-> IF k = 0 THEN 0
                                        ELSE (10 * h[k - 1] + Digit(s[k])) % Pow[Width]]
           value == CHOOSE h : eq(h)
<1>1. \A k \in 1..n : \A v \in Int :
        step[<<k, v>>] = (10 * v + Digit(s[k])) % Pow[Width] /\ step[<<k, v>>] \in Int
  <2> TAKE k \in 1..n, v \in Int
  <2>1. step[<<k, v>>] = (10 * v + Digit(s[k])) % Pow[Width]
    OBVIOUS
  <2>2. Digit(s[k]) \in Int /\ Pow[Width] \in Nat \ {0}
    BY DigitFacts, FixFacts
  <2> HIDE DEF step
  <2> QED
    BY <2>1, <2>2
<1> HIDE DEF step
<1>2. PICK h : IsRec(h, n, 0, step)
  BY RecExists
<1>3. h \in [0..n -> Int]
  <2>1. 0 \in Int /\ n \in Nat /\ \A k \in 1..n : \A v \in Int : step[<<k, v>>] \in Int
    BY <1>1
  <2> QED
    BY <1>2, <2>1, RecType
<1>4. eq(h)
  <2>1. h = [k \in 0..n |-> IF k = 0 THEN 0 ELSE step[<<k, h[k - 1]>>]]
    BY <1>2 DEF IsRec
  <2>2. \A k \in 0..n : (IF k = 0 THEN 0 ELSE step[<<k, h[k - 1]>>])
           = IF k = 0 THEN 0 ELSE (10 * h[k - 1] + Digit(s[k])) % Pow[Width]
    BY <1>1, <1>3
  <2> QED
    BY <2>1, <2>2
<1>5. eq(value)
  BY <1>4
<1>6. ASSUME NEW g, eq(g) PROVE g[n] \in Int
  <2>1. g[0] = 0 /\ 0 \in Int
    BY <1>6
  <2>2. ASSUME NEW k \in 1..n, g[k - 1] \in Int PROVE g[k] \in Int
    <3>1. g[k] = (10 * g[k - 1] + Digit(s[k])) % Pow[Width]
      BY <1>6
    <3>2. Digit(s[k]) \in Int /\ Pow[Width] \in Nat \ {0}
      BY DigitFacts, FixFacts
    <3> QED
      BY <2>2, <3>1, <3>2
  <2>3. \A k \in 0..n : g[k] \in Int
    BY <2>1, <2>2, RecValues
  <2> QED
    BY <2>3
<1>7. Number(s, n) = value[n]
  BY DEF Number
<1> HIDE DEF value, eq
<1> QED
  BY <1>5, <1>6, <1>7

(* And the power of ten that belongs to them. *)
LEMMA ScaleType ==
  ASSUME NEW n \in Nat
  PROVE  Scale(n) \in Nat
<1> DEFINE step == [nv \in (1..n) \X Nat |-> (10 * nv[2]) % Pow[Width]]
           eq(h) == h = [k \in 0..n |-> IF k = 0 THEN 1 ELSE (10 * h[k - 1]) % Pow[Width]]
           value == CHOOSE h : eq(h)
<1>0. Pow[Width] \in Nat \ {0}
  BY FixFacts
<1>1. \A k \in 1..n : \A v \in Nat :
        step[<<k, v>>] = (10 * v) % Pow[Width] /\ step[<<k, v>>] \in Nat
  BY <1>0
<1> HIDE DEF step
<1>2. PICK h : IsRec(h, n, 1, step)
  BY RecExists
<1>3. h \in [0..n -> Nat]
  <2>1. 1 \in Nat /\ n \in Nat /\ \A k \in 1..n : \A v \in Nat : step[<<k, v>>] \in Nat
    BY <1>1
  <2> QED
    BY <1>2, <2>1, RecType
<1>4. eq(h)
  <2>1. h = [k \in 0..n |-> IF k = 0 THEN 1 ELSE step[<<k, h[k - 1]>>]]
    BY <1>2 DEF IsRec
  <2>2. \A k \in 0..n : (IF k = 0 THEN 1 ELSE step[<<k, h[k - 1]>>])
           = IF k = 0 THEN 1 ELSE (10 * h[k - 1]) % Pow[Width]
    BY <1>1, <1>3
  <2> QED
    BY <2>1, <2>2
<1>5. eq(value)
  BY <1>4
<1>6. ASSUME NEW g, eq(g) PROVE g[n] \in Nat
  <2>1. g[0] = 1 /\ 1 \in Nat
    BY <1>6
  <2>2. ASSUME NEW k \in 1..n, g[k - 1] \in Nat PROVE g[k] \in Nat
    BY <1>0, <1>6, <2>2
  <2>3. \A k \in 0..n : g[k] \in Nat
    BY <2>1, <2>2, RecValues
  <2> QED
    BY <2>3
<1>7. Scale(n) = value[n]
  BY DEF Scale
<1> HIDE DEF value, eq
<1> QED
  BY <1>5, <1>6, <1>7

(* A fraction, unless it is divided by 0. *)
LEMMA FractionType ==
  ASSUME NEW s, NEW n \in Nat, \A k \in 1..n : IsDigit(s[k]), Scale(n) # 0
  PROVE  Fraction(s, n) \in Int
<1> DEFINE a == Number(s, n)
           r == (a * One) % Pow[Width]
           d == Scale(n)
<1>1. a \in Int /\ One \in Nat \ {0} /\ Pow[Width] \in Nat \ {0}
  BY NumberType, FixFacts
<1>2. d \in Nat \ {0}
  BY ScaleType
<1> HIDE DEF a, d
<1>3. a * One \in Int
  BY <1>1
<1>4. r \in Int
  BY <1>1, <1>3
<1> HIDE DEF r
<1>5. r \div d \in Int
  BY <1>2, <1>4
<1> QED
  BY <1>5 DEF Fraction, r, a, d

(* fix_parse, called at a digit, reads a number and leaves a text.         *)
LEMMA ParsedNumber ==
  ASSUME NEW s, IsText(s), IsDigit(s[1])
  PROVE  /\ fix_parse(s).number \in Fix
         /\ IsText(fix_parse(s).rest)
<1> DEFINE n == Digits(s)
           t2 == SubSeq(s, n + 1, Len(s))
           point == t2[1] = "."
           f == IF point THEN Digits(Tail(t2)) ELSE 0
           value == Number(s, n) * One + IF point THEN Fraction(Tail(t2), f) ELSE 0
           p == [defined |-> Scale(f) # 0,
                 number  |-> IF Scale(f) = 0 THEN 0 ELSE Wrapped(value),
                 rest    |-> IF point THEN SubSeq(t2, f + 2, Len(t2)) ELSE t2]
<1>1. s[1] \notin {"+", "-"}
  BY DigitFacts
<1>2. fix_parse(s) = p
  BY <1>1, Zenon DEF fix_parse
<1>3. n + 1 \in 1..Len(s) /\ n \in Nat /\ \A k \in 1..n : IsDigit(s[k])
  BY DigitsFound
<1> HIDE DEF n
<1>4. IsText(t2) /\ t2[1] = s[n + 1]
  BY <1>3, TextRest
<1>5. point => IsText(Tail(t2))
  BY <1>3, <1>4, TextRest
<1> HIDE DEF t2
<1>6. point => /\ f \in 0..Len(Tail(t2)) - 1 /\ \A k \in 1..f : IsDigit(Tail(t2)[k])
  BY <1>5, DigitsFound
<1>7. f \in Nat
  BY <1>6
<1>8. point => IsText(SubSeq(t2, f + 2, Len(t2)))
  <2>1. t2 \in Seq(STRING) /\ Len(t2) \in Nat /\ Len(t2) > 0
    BY <1>4 DEF IsText
  <2>2. Len(Tail(t2)) = Len(t2) - 1
    BY <2>1
  <2>3. point => f + 2 \in 1..Len(t2)
    BY <1>6, <2>1, <2>2
  <2> HIDE DEF f
  <2> QED
    BY <1>4, <2>3, TextRest
<1>9. Scale(f) # 0 => value \in Int
  <2>1. Number(s, n) * One \in Int
    BY <1>3, NumberType, FixFacts
  <2>2. point /\ Scale(f) # 0 => Fraction(Tail(t2), f) \in Int
    <3> HIDE DEF f, point
    <3> QED
      BY <1>6, <1>7, FractionType
  <2> DEFINE a == Number(s, n) * One
  <2> HIDE DEF f, point, a
  <2> QED
    BY <2>1, <2>2 DEF a
<1> HIDE DEF value, f
<1>10. p.number \in Fix
  <2>1. 0 \in Fix
    BY FixFacts
  <2> QED
    BY <1>9, <2>1, WrappedType
<1>11. IsText(p.rest)
  BY <1>4, <1>8
<1> QED
  BY <1>2, <1>10, <1>11

(* A text has a first character that is no space. *)
LEMMA SomeCharacter ==
  ASSUME NEW s, IsText(s)
  PROVE  \E k \in 1..Len(s) : s[k] # " " /\ \A j \in 1..k - 1 : s[j] = " "
<1> DEFINE Space(c) == c = " "
           T == {k \in 1..Len(s) : ~Space(s[k])}
<1>1. Len(s) \in Nat /\ Len(s) \in 1..Len(s) /\ s[Len(s)] = "eof"
  BY DEF IsText
<1>2. ~Space("eof")
  OBVIOUS
<1> HIDE DEF Space
<1>3. T \in SUBSET Nat /\ Len(s) \in T
  BY <1>1, <1>2
<1> HIDE DEF T
<1>4. PICK m \in T : \A k \in T : m <= k
  BY <1>3, LeastNatural
<1>5. m \in 1..Len(s) /\ ~Space(s[m])
  BY <1>4 DEF T
<1>6. ASSUME NEW j \in 1..m - 1 PROVE Space(s[j])
  <2>1. j \in 1..Len(s) /\ ~(m <= j)
    BY <1>1, <1>5
  <2> QED
    BY <1>4, <2>1 DEF T
<1> QED
  BY <1>5, <1>6, Zenon DEF Space

(* A token, and the text behind it, unless the token ends the program.     *)
LEMMA ParsedToken ==
  ASSUME NEW s, IsText(s)
  PROVE  LET p == parse_token(s) IN
         /\ p.token \in Tokens /\ p.rest \in Seq(STRING)
         /\ p.token.op # "INVALID" => IsText(p.rest)
<1> DEFINE Ok(k) == s[k] # " " /\ \A j \in 1..k - 1 : s[j] = " "
           n == CHOOSE k \in 1..Len(s) : Ok(k)
           c == s[n]
           from == SubSeq(s, n, Len(s))
           parsed == fix_parse(from)
           p == parse_token(s)
<1>1. n \in 1..Len(s)
  BY SomeCharacter
<1> HIDE DEF n
<1>2. /\ IsText(from) /\ from[1] = c /\ Tail(from) \in Seq(STRING)
      /\ c # "eof" => IsText(Tail(from))
  BY <1>1, TextRest
<1>3. 0 \in Fix /\ \A op \in Ops : Token(op) \in Tokens
  BY FixFacts DEF Tokens, Token
<1>4. \A r : IsText(r) => r \in Seq(STRING)
  BY DEF IsText
<1>5. CASE c \in Characters
  <2>0. ~IsDigit(c)
    BY <1>5, DigitFacts
  <2>1. p.token = Token(OpOf[c]) /\ p.rest = Tail(from)
    BY <1>5, <2>0, Zenon DEF parse_token, n
  <2>2. OpOf[c] \in Ops
    BY <1>5 DEF OpOf, Characters, Ops, Operators
  <2>3. c # "eof"
    BY <1>5, DigitFacts
  <2> HIDE DEF from
  <2> QED
    BY <1>2, <1>3, <2>1, <2>2, <2>3
<1>6. CASE c \notin Characters /\ IsDigit(c)
  <2> DEFINE x == [op |-> "NUMBER", number |-> parsed.number]
  <2>1. p = [[defined |-> TRUE, token |-> x, rest |-> parsed.rest, said |-> <<>>]
               EXCEPT !.defined = parsed.defined]
    BY <1>6, Zenon DEF parse_token, n
  <2>2. parsed.number \in Fix /\ IsText(parsed.rest)
    BY <1>2, <1>6, ParsedNumber
  <2> HIDE DEF parsed
  <2>3. x \in Tokens
    BY <2>2 DEF Tokens, Ops
  <2> HIDE DEF x
  <2>4. p.token = x /\ p.rest = parsed.rest
    BY <2>1
  <2> QED
    BY <1>4, <2>2, <2>3, <2>4
<1>7. CASE c \notin Characters /\ ~IsDigit(c)
  <2>1. p.token = Token("INVALID") /\ p.rest = Tail(from)
    BY <1>7, Zenon DEF parse_token, n
  <2>2. Token("INVALID").op = "INVALID" /\ "INVALID" \in Ops
    BY DEF Token, Ops
  <2> HIDE DEF from
  <2> QED
    BY <1>2, <1>3, <2>1, <2>2
<1> QED
  BY <1>5, <1>6, <1>7

(***************************************************************************)
(* Types                                                                   *)
(***************************************************************************)

(* While the program reads there is something to read; a quotient is a     *)
(* natural number.                                                         *)
TypesInv ==
  /\ CTypeOK
  /\ at \notin {"returned", "undefined"} => IsText(text)
  /\ quot \in Nat

(* What is left of a sequence without its last element. *)
LEMMA FrontType ==
  ASSUME NEW S, NEW s, s \in Seq(S), s # <<>>
  PROVE  Front(s) \in Seq(S) /\ Len(Front(s)) = Len(s) - 1 /\ Last(s) \in S
<1>1. Len(s) \in Nat /\ Len(s) > 0 /\ \A k \in 1..Len(s) : s[k] \in S
  OBVIOUS
<1>2. /\ 1 \in Int /\ Len(s) - 1 \in Int /\ \A k \in 1..Len(s) - 1 : s[k] \in S
      /\ Len(s) \in 1..Len(s) /\ (Len(s) - 1) - 1 + 1 = Len(s) - 1
  BY <1>1
<1>3. Front(s) \in Seq(S)
  BY <1>2, SubSeqProperties DEF Front
<1>4. Len(Front(s)) = IF 1 <= Len(s) - 1 THEN (Len(s) - 1) - 1 + 1 ELSE 0
  BY <1>2, SubSeqProperties DEF Front
<1>5. Len(Front(s)) = Len(s) - 1
  <2> DEFINE n == Len(s)
             f == Len(Front(s))
  <2>1. n \in Nat /\ n > 0 /\ f = IF 1 <= n - 1 THEN (n - 1) - 1 + 1 ELSE 0
    BY <1>1, <1>4
  <2> HIDE DEF n, f
  <2>2. f = n - 1
    BY ONLY <2>1
  <2> QED
    BY <2>2 DEF n, f
<1> QED
  BY <1>1, <1>2, <1>3, <1>5 DEF Last

(* What comes from the stack and goes to it are tokens. *)
LEMMA StackTokens ==
  ASSUME stack \in Seq(Tokens)
  PROVE  /\ Top \in Tokens /\ Popped \in Seq(Tokens)
         /\ \A x \in Tokens : push_stack(stack, x) \in Seq(Tokens)
         /\ TwoNumbers => /\ First \in Fix /\ Second \in Fix /\ Front2 \in Seq(Tokens)
                          /\ \A n \in Fix : Append(Front2, Number_(n)) \in Seq(Tokens)
<1>1. Token("INVALID") \in Tokens /\ \A n \in Fix : Number_(n) \in Tokens
  BY FixFacts DEF Token, Tokens, Ops, Number_
<1>2. CASE stack = <<>>
  <2>1. Len(stack) = 0
    BY <1>2
  <2> QED
    BY <1>1, <1>2, <2>1 DEF Top, Popped, push_stack, TwoNumbers
<1>3. CASE stack # <<>>
  <2>1. Front(stack) \in Seq(Tokens) /\ Len(Front(stack)) = Len(stack) - 1 /\ Last(stack) \in Tokens
    BY <1>3, FrontType
  <2>2. ASSUME TwoNumbers
        PROVE  First \in Fix /\ Second \in Fix /\ Front2 \in Seq(Tokens)
    <3>1. Len(stack) \in 1..Len(stack) /\ Len(stack) - 1 \in 1..Len(stack) /\ Len(stack) >= 2
      BY <2>2 DEF TwoNumbers
    <3>2. stack[Len(stack)] \in Tokens /\ stack[Len(stack) - 1] \in Tokens
      BY <3>1
    <3>3. Front2 \in Seq(Tokens)
      BY <2>1, <3>1 DEF Front2, Front
    <3> QED
      BY <3>2, <3>3 DEF First, Second, Tokens
  <2>3. \A x \in Tokens : push_stack(stack, x) \in Seq(Tokens)
    BY DEF push_stack
  <2> QED
    BY <1>1, <1>3, <2>1, <2>2, <2>3 DEF Top, Popped
<1> QED
  BY <1>2, <1>3

(* And so for the queue. *)
LEMMA QueueTokens ==
  ASSUME queue \in [0..QUEUE_SIZE - 1 -> Tokens]
  PROVE  /\ \A x \in Tokens : push_queue(x) => queue' \in [0..QUEUE_SIZE - 1 -> Tokens]
         /\ UNCHANGED qvars \/ pop_queue => queue' = queue
         /\ QueueInv => NextToken \in Tokens
<1>1. ASSUME NEW x \in Tokens, push_queue(x)
      PROVE  queue' \in [0..QUEUE_SIZE - 1 -> Tokens]
  BY <1>1 DEF push_queue
<1>2. UNCHANGED qvars \/ pop_queue => queue' = queue
  BY DEF qvars, pop_queue
<1>3. ASSUME QueueInv PROVE NextToken \in Tokens
  <2>1. Token("INVALID") \in Tokens
    BY FixFacts DEF Token, Tokens, Ops
  <2>2. queue_size # 0 => queue_start \in 0..QUEUE_SIZE - 1
    BY <1>3, CalcSizes DEF QueueInv
  <2> QED
    BY <2>1, <2>2 DEF NextToken
<1> QED
  BY <1>1, <1>2, <1>3

(* parse_term, token by token. *)
LEMMA ReadTokenTypes ==
  ASSUME TypesInv, ReadToken
  PROVE  TypesInv'
<1> DEFINE p == parse_token(text)
           x == p.token
<1>1. /\ at = "parse" /\ t' = x /\ text' = p.rest /\ term' = Append(term, x)
      /\ at' = CASE x.op \in Operators -> "operator"
                 [] x.op = "RPAR"    -> "parenthesis"
                 [] x.op = "END"     -> "drain"
                 [] x.op = "INVALID" -> "returned"
                 [] OTHER            -> "parse"
      /\ IF x.op = "NUMBER" THEN push_queue(x) ELSE UNCHANGED qvars
      /\ stack' = IF x.op = "LPAR" THEN push_stack(stack, x) ELSE stack
      /\ UNCHANGED <<lvars, left, right>>
  BY DEF ReadToken
<1>2. x \in Tokens /\ p.rest \in Seq(STRING) /\ (x.op # "INVALID" => IsText(p.rest))
  BY <1>1, ParsedToken DEF TypesInv
<1> HIDE DEF p
<1>3. at' \in {"operator", "parenthesis", "drain", "returned", "parse"}
  BY <1>1
<1>4. x.op = "INVALID" => at' = "returned"
  BY <1>1 DEF Operators
<1> HIDE DEF x
<1>5. stack' \in Seq(Tokens) /\ queue' \in [0..QUEUE_SIZE - 1 -> Tokens]
  BY <1>1, <1>2, StackTokens, QueueTokens DEF TypesInv, CTypeOK
<1>6. term' \in Seq(Tokens) /\ quot' = quot /\ left' = left /\ right' = right
  BY <1>1, <1>2 DEF TypesInv, CTypeOK, lvars
<1> QED
  BY <1>1, <1>2, <1>3, <1>4, <1>5, <1>6 DEF TypesInv, CTypeOK, Loops

(* The steps that move tokens between the stack and the queue. *)
LEMMA MovedTypes ==
  ASSUME TypesInv, PopToParenthesis \/ PopOperators \/ Drain
  PROVE  TypesInv'
<1>1. /\ at \in {"parenthesis", "operator", "drain"} /\ at' \in Loops
      /\ stack' = Popped \/ stack' = push_stack(stack, t)
      /\ push_queue(Top) \/ UNCHANGED qvars
      /\ UNCHANGED <<lvars, text, t, left, right, term>>
  BY DEF PopToParenthesis, PopOperators, Drain, Loops
<1>2. stack' \in Seq(Tokens) /\ queue' \in [0..QUEUE_SIZE - 1 -> Tokens]
  BY <1>1, StackTokens, QueueTokens DEF TypesInv, CTypeOK
<1> QED
  BY <1>1, <1>2 DEF TypesInv, CTypeOK, lvars

(* A step of calc_term, and the end of a line. *)
LEMMA CalcTypesKept ==
  ASSUME TypesInv, QueueInv, CalcNumber \/ CalcOperator \/ CalcDivision
  PROVE  TypesInv'
<1>1. /\ at = "calc" /\ at' \in {"calc", "divide"} /\ pop_queue
      /\ text' = text /\ t' = t /\ term' = term
  BY DEF CalcNumber, CalcOperator, CalcDivision
<1>2. queue' \in [0..QUEUE_SIZE - 1 -> Tokens] /\ NextToken \in Tokens
  BY <1>1, QueueTokens DEF TypesInv, CTypeOK
<1>3. stack \in Seq(Tokens) /\ left \in Fix /\ right \in Fix
  BY DEF TypesInv, CTypeOK
<1>4. /\ stack' \in Seq(Tokens) /\ left' \in Fix /\ right' \in Fix /\ quot' \in Nat
  <2>1. CASE CalcNumber
    BY <1>2, <1>3, <2>1, StackTokens DEF CalcNumber, lvars, TypesInv
  <2>2. CASE CalcOperator
    <3> DEFINE op == NextToken.op
               n == CASE op = "PLUS" -> fix_add(Second, First)
                      [] op = "MINUS" -> fix_sub(Second, First)
                      [] op = "MULT" -> fix_mul(Second, First)
    <3>1. /\ op \in {"PLUS", "MINUS", "MULT"} /\ TwoNumbers /\ stack' = Append(Front2, Number_(n))
          /\ UNCHANGED <<lvars, left, right>>
      BY <2>2 DEF CalcOperator
    <3>2. First \in Fix /\ Second \in Fix
      BY <1>3, <3>1, StackTokens
    <3>3. /\ fix_add(Second, First) \in Fix /\ fix_sub(Second, First) \in Fix
          /\ fix_mul(Second, First) \in Fix
      BY <3>2, ArithmeticType
    <3> HIDE DEF op
    <3>4. n \in Fix
      BY <3>1, <3>3
    <3> HIDE DEF n
    <3> QED
      BY <1>3, <3>1, <3>4, StackTokens DEF lvars, TypesInv
  <2>3. CASE CalcDivision
    <3>1. /\ TwoNumbers /\ left' = Second /\ right' = First
          /\ stack' = Append(Front2, Number_(FIX_MAX)) \/ stack' = Front2
          /\ quot' \in {quot, 0}
      BY <2>3 DEF CalcDivision, Divide, lvars
    <3>2. FIX_MAX \in Fix
      BY FixFacts DEF FIX_MAX
    <3>3. /\ First \in Fix /\ Second \in Fix /\ Front2 \in Seq(Tokens)
          /\ Append(Front2, Number_(FIX_MAX)) \in Seq(Tokens)
      BY <1>3, <3>1, <3>2, StackTokens
    <3> QED
      BY <3>1, <3>3 DEF TypesInv
  <2> QED
    BY <1>1, <2>1, <2>2, <2>3
<1> QED
  BY <1>1, <1>2, <1>4 DEF TypesInv, CTypeOK, Loops

(* The iterations of a division, and its result. *)
LEMMA DivideTypes ==
  ASSUME TypesInv, DivideStep \/ DivideEnd
  PROVE  TypesInv'
<1>1. CASE DivideStep
  <2>1. quot' \in {2 * quot, 2 * quot + 1}
    BY <1>1 DEF DivideStep, Iterate
  <2>2. quot' \in Nat
    BY <2>1 DEF TypesInv
  <2> QED
    BY <1>1, <2>2 DEF DivideStep, cvars, TypesInv, CTypeOK
<1>2. CASE DivideEnd
  <2> DEFINE q == fix_div_result(left, right, quot)
  <2>1. /\ at = "divide" /\ at' = "calc" /\ stack' = Append(stack, Number_(q))
        /\ UNCHANGED <<lvars, text, t, qvars, left, right, term>>
    BY <1>2 DEF DivideEnd
  <2>2. q \in Fix
    BY QuotientType DEF TypesInv
  <2> HIDE DEF q
  <2>3. Number_(q) \in Tokens
    BY <2>2 DEF Number_, Tokens, Ops
  <2>4. stack' \in Seq(Tokens)
    BY <2>1, <2>3 DEF TypesInv, CTypeOK
  <2> QED
    BY <2>1, <2>4 DEF TypesInv, CTypeOK, lvars, qvars, Loops
<1> QED
  BY <1>1, <1>2

(* Whatever is read, numbers stay numbers of the register, tokens tokens,  *)
(* and before the end of the file there is something left to read.         *)
THEOREM TypesStay == CSpec => []TypesInv
<1>1. CInit => TypesInv
  <2> SUFFICES ASSUME CInit PROVE TypesInv
    OBVIOUS
  <2>1. Token("INVALID") \in Tokens /\ 0 \in Fix
    BY FixFacts DEF Token, Tokens, Ops
  <2>2. IsText(text)
    BY FilesAssumption DEF CInit, IsText
  <2>3. stack \in Seq(Tokens) /\ term \in Seq(Tokens) /\ at = "parse" /\ t \in Tokens
        /\ queue \in [0..QUEUE_SIZE - 1 -> Tokens] /\ left \in Fix /\ right \in Fix
    BY <2>1 DEF CInit
  <2> QED
    BY <2>2, <2>3 DEF CInit, LInit, TypesInv, CTypeOK, IsText, Loops
<1>2. TypesInv /\ QueueInv /\ [CNext]_<<lvars, cvars>> => TypesInv'
  <2> SUFFICES ASSUME TypesInv, QueueInv, [CNext]_<<lvars, cvars>> PROVE TypesInv'
    OBVIOUS
  <2>1. CASE UNCHANGED <<lvars, cvars>>
    BY <2>1 DEF cvars, lvars, TypesInv, CTypeOK
  <2>2. CASE ReadUndefined
    BY <2>2 DEF ReadUndefined, lvars, qvars, TypesInv, CTypeOK, Loops
  <2>3. CASE CalcRefused \/ PrintResult
    <3>1. PICK message : EndLine(message)
      BY <2>3 DEF CalcRefused, PrintResult
    <3>2. at = "calc"
      BY <2>3 DEF CalcRefused, PrintResult
    <3>3. /\ stack' = <<>> /\ term' = <<>> /\ at' = "parse" /\ queue' = queue
          /\ UNCHANGED <<lvars, text, t, left, right>>
      BY <3>1 DEF EndLine
    <3> QED
      BY <3>2, <3>3 DEF lvars, TypesInv, CTypeOK, Loops
  <2> QED
    BY <2>1, <2>2, <2>3, ReadTokenTypes, MovedTypes, CalcTypesKept, DivideTypes DEF CNext
<1> QED
  BY <1>1, <1>2, QueueStays, PTL DEF CSpec

(* Every variable of the calculator keeps its type: its numbers are those  *)
(* of the register, however the operations over- and underflow.            *)
THEOREM CalcTypes == CSpec => []CTypeOK
<1>1. TypesInv => CTypeOK
  BY DEF TypesInv
<1> QED
  BY <1>1, TypesStay, PTL

(***************************************************************************)
(* Division                                                                *)
(***************************************************************************)

(* No division is begun before the last one has ended, and what it divides *)
(* are the magnitudes of the operands.                                     *)
Dividing ==
  IF at = "divide" THEN /\ dividend = Magnitude(left) * One /\ divisor = Magnitude(right)
                        /\ right # 0
  ELSE i = 0

(* Every step of the calculator is one of the division or leaves it alone. *)
LEMMA DivisionStep ==
  ASSUME 1..Pow[Width - 1] \subseteq Divisors, TypesInv, Dividing, [CNext]_<<lvars, cvars>>
  PROVE  [LNext]_lvars /\ Dividing'
<1>1. CASE CalcDivision
  <2>1. at = "calc" /\ TwoNumbers /\ left' = Second /\ right' = First
    BY <1>1 DEF CalcDivision
  <2>2. First \in Fix /\ Second \in Fix
    BY <2>1, StackTokens DEF TypesInv, CTypeOK
  <2>3. i = 0
    BY <2>1 DEF Dividing
  <2>4. CASE First = 0
    BY <1>1, <2>1, <2>3, <2>4 DEF CalcDivision, Dividing, lvars
  <2>5. CASE First # 0
    <3> DEFINE n == Magnitude(Second) * One
               d == Magnitude(First)
    <3>1. at' = "divide" /\ Divide(n, d)
      BY <1>1, <2>5 DEF CalcDivision
    <3>2. n \in 0..Pow[Bits] - 1 /\ d \in Divisors
      BY <2>2, <2>5, MagnitudeFits
    <3>3. dividend' = Magnitude(left') * One /\ divisor' = Magnitude(right') /\ right' # 0
      BY <2>1, <2>5, <3>1 DEF Divide
    <3> HIDE DEF n, d
    <3>4. num' = n /\ divisor' = d
      BY <3>1 DEF Divide
    <3>5. LNext
      BY <2>3, <3>1, <3>2, <3>4 DEF LNext
    <3> QED
      BY <3>1, <3>3, <3>5 DEF Dividing
  <2> QED
    BY <2>4, <2>5
<1>2. CASE DivideStep
  <2>1. Iterate /\ UNCHANGED cvars /\ at = "divide"
    BY <1>2 DEF DivideStep
  <2> QED
    BY <2>1 DEF LNext, Iterate, cvars, Dividing
<1>3. CASE DivideEnd
  BY <1>3 DEF DivideEnd, lvars, Dividing
<1>4. CASE CalcRefused \/ PrintResult
  <2>1. PICK message : EndLine(message)
    BY <1>4 DEF CalcRefused, PrintResult
  <2>2. at = "calc" /\ at' = "parse" /\ UNCHANGED lvars
    BY <1>4, <2>1 DEF CalcRefused, PrintResult, EndLine
  <2> QED
    BY <2>2 DEF lvars, Dividing
<1>5. CASE ReadToken
  <2> DEFINE x == parse_token(text).token
  <2>1. /\ at = "parse" /\ UNCHANGED lvars
        /\ at' = CASE x.op \in Operators -> "operator"
                   [] x.op = "RPAR"    -> "parenthesis"
                   [] x.op = "END"     -> "drain"
                   [] x.op = "INVALID" -> "returned"
                   [] OTHER            -> "parse"
    BY <1>5 DEF ReadToken
  <2> HIDE DEF x
  <2>2. at' # "divide"
    BY <2>1
  <2> QED
    BY <2>1, <2>2 DEF lvars, Dividing
<1>6. CASE ReadUndefined \/ PopToParenthesis \/ PopOperators \/ Drain \/ CalcNumber \/ CalcOperator
  <2>1. at # "divide" /\ at' # "divide" /\ UNCHANGED lvars
    BY <1>6 DEF ReadUndefined, PopToParenthesis, PopOperators, Drain, CalcNumber, CalcOperator
  <2> QED
    BY <2>1 DEF lvars, Dividing
<1>7. CASE UNCHANGED <<lvars, cvars>>
  BY <1>7 DEF lvars, cvars, Dividing
<1> QED
  BY <1>1, <1>2, <1>3, <1>4, <1>5, <1>6, <1>7 DEF CNext

(* The divisions of the calculator are runs of the loop of LongDivision,   *)
(* with an assumption that says no more than that this loop is defined for *)
(* every divisor that a number can have.                                   *)
THEOREM DivisionImplemented ==
  ASSUME 1..Pow[Width - 1] \subseteq Divisors
  PROVE  CSpec => ImplementsDivision
<1>1. CInit => LInit /\ Dividing
  BY DEF CInit, LInit, Dividing
<1>2. TypesInv /\ Dividing /\ [CNext]_<<lvars, cvars>> => [LNext]_lvars /\ Dividing'
  BY DivisionStep
<1> QED
  BY <1>1, <1>2, TypesStay, PTL DEF CSpec, ImplementsDivision, LSpec

(* So they have the invariant of that loop: before each iteration quotient *)
(* and remainder are those of the bits used so far.                        *)
THEOREM CalcDivides ==
  ASSUME 1..Pow[Width - 1] \subseteq Divisors
  PROVE  CSpec => []Divides
BY DivisionImplemented, DivisionRight, PTL DEF ImplementsDivision

(* And at the end of a division the quotient is that of the operands'      *)
(* magnitudes, rounded towards zero.                                       *)
THEOREM QuotientOfOperands ==
  ASSUME 1..Pow[Width - 1] \subseteq Divisors
  PROVE  CSpec => [](at = "divide" /\ i = 0 =>
                       quot = (Magnitude(left) * One) \div Magnitude(right))
<1>1. CInit => Dividing
  BY DEF CInit, LInit, Dividing
<1>2. TypesInv /\ Dividing /\ [CNext]_<<lvars, cvars>> => Dividing'
  BY DivisionStep
<1> DEFINE Ended_ == i = 0 => quot = dividend \div divisor /\ rem = dividend % divisor
<1>3. Dividing /\ Ended_ => (at = "divide" /\ i = 0 =>
                               quot = (Magnitude(left) * One) \div Magnitude(right))
  BY DEF Dividing
<1>4. LSpec => []Ended_
  BY QuotientRight
<1> HIDE DEF Ended_
<1> QED
  BY <1>1, <1>2, <1>3, <1>4, TypesStay, DivisionImplemented, PTL DEF CSpec, ImplementsDivision
=============================================================================
