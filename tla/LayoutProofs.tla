---------------------------- MODULE LayoutProofs ---------------------------
(***************************************************************************)
(* What Addresses computes, and that making instructions shorter brings    *)
(* every two of them closer together.                                      *)
(*                                                                         *)
(* The prover takes a recursive function for a CHOOSE: that a function     *)
(* with the defining equation exists has to be proved, and what is proved  *)
(* about it by induction is proved by a least counterexample here.         *)
(***************************************************************************)
EXTENDS Layout, WellFoundedInduction, TLAPS

(* Every nonempty set of naturals has a least element.                     *)
LEMMA LeastNatural ==
  ASSUME NEW T \in SUBSET Nat, T # {}
  PROVE  \E m \in T : \A n \in T : m <= n
<1> DEFINE Less == {ss \in Nat \X Nat : ss[1] < ss[2]}
<1>1. IsWellFoundedOn(Less, Nat)
  BY NatLessThanWellFounded, Zenon DEF OpToRel
<1> HIDE DEF Less
<1>2. PICK m \in T : \A n \in T : <<n, m>> \notin Less
  BY <1>1, WFMin
<1>3. \A n \in T : ~(n < m)
  BY <1>2 DEF Less
<1> QED
  BY <1>3

(***************************************************************************)
(* A function defined along 0..N: from the base, step gives its value at n *)
(* from the one before. The prover has to be shown that there is one.      *)
(***************************************************************************)
IsRec(h, N, base, step) ==
  h = [n \in 0..N |-> IF n = 0 THEN base ELSE step[<<n, h[n - 1]>>]]

(* Some function satisfies the equation. *)
LEMMA RecExists ==
  ASSUME NEW N \in Nat, NEW base, NEW step
  PROVE  \E h : IsRec(h, N, base, step)
<1> DEFINE T == {n \in Nat : ~\E h : IsRec(h, n, base, step)}
<1>1. SUFFICES ASSUME T # {} PROVE FALSE
  OBVIOUS
<1>2. PICK m \in T : \A n \in T : m <= n
  BY <1>1, LeastNatural
<1>3. m # 0
  <2> DEFINE z == [n \in 0..0 |-> base]
  <2>1. z = [n \in 0..0 |-> IF n = 0 THEN base ELSE step[<<n, z[n - 1]>>]]
    OBVIOUS
  <2> QED
    BY <2>1 DEF IsRec
<1>4. PICK f : IsRec(f, m - 1, base, step)
  BY <1>2, <1>3
<1> DEFINE g == [n \in 0..m |-> IF n = m THEN step[<<m, f[m - 1]>>] ELSE f[n]]
<1>5. g = [n \in 0..m |-> IF n = 0 THEN base ELSE step[<<n, g[n - 1]>>]]
  <2>1. ASSUME NEW n \in 0..m
        PROVE  g[n] = IF n = 0 THEN base ELSE step[<<n, g[n - 1]>>]
    <3>1. f = [k \in 0..m - 1 |-> IF k = 0 THEN base ELSE step[<<k, f[k - 1]>>]]
      BY <1>4 DEF IsRec
    <3>2. CASE n = m
      BY <3>2, <1>3
    <3>3. CASE n # m
      BY <3>3, <3>1
    <3> QED
      BY <3>2, <3>3
  <2> QED
    BY <2>1
<1> QED
  BY <1>2, <1>5 DEF IsRec

(* Induction along 0..N. *)
LEMMA RecValues ==
  ASSUME NEW N \in Nat, NEW V, NEW h, h[0] \in V,
         \A n \in 1..N : h[n - 1] \in V => h[n] \in V
  PROVE  \A n \in 0..N : h[n] \in V
<1> DEFINE T == {n \in 0..N : h[n] \notin V}
<1>1. SUFFICES ASSUME T # {} PROVE FALSE
  OBVIOUS
<1>2. PICK m \in T : \A n \in T : m <= n
  <2>1. T \in SUBSET Nat
    OBVIOUS
  <2> HIDE DEF T
  <2> QED
    BY <1>1, <2>1, LeastNatural
<1>3. m \in 1..N /\ m - 1 \in 0..N /\ ~(m <= m - 1)
  BY <1>2
<1>4. m - 1 \notin T
  BY <1>2, <1>3
<1> QED
  BY <1>2, <1>3, <1>4

(* Every value is in a set that has the base and is closed under the step. *)
LEMMA RecType ==
  ASSUME NEW N \in Nat, NEW V, NEW base \in V, NEW step,
         \A n \in 1..N : \A v \in V : step[<<n, v>>] \in V,
         NEW h, IsRec(h, N, base, step)
  PROVE  h \in [0..N -> V]
<1>1. h = [n \in 0..N |-> IF n = 0 THEN base ELSE step[<<n, h[n - 1]>>]]
  BY DEF IsRec
<1>2. h[0] \in V
  BY <1>1
<1>3. ASSUME NEW n \in 1..N, h[n - 1] \in V
      PROVE  h[n] \in V
  <2>1. h[n] = step[<<n, h[n - 1]>>]
    BY <1>1
  <2> QED
    BY <1>3, <2>1
<1>4. \A n \in 0..N : h[n] \in V
  BY <1>2, <1>3, RecValues
<1>5. h = [n \in 0..N |-> h[n]]
  BY <1>1
<1> QED
  BY <1>4, <1>5

(* The equation of the function that Addresses defines.                    *)
IsAddr(f, size, n) ==
  f = [k \in 1..n + 1 |-> IF k = 1 THEN 0 ELSE f[k - 1] + size[k - 1]]

(* Some function satisfies the equation, however long the program is.      *)
LEMMA AddrExists ==
  ASSUME NEW size, NEW N \in Nat
  PROVE  \E f : IsAddr(f, size, N)
<1> DEFINE T == {n \in Nat : ~\E f : IsAddr(f, size, n)}
<1>1. SUFFICES ASSUME T # {} PROVE FALSE
  OBVIOUS
<1>2. PICK m \in T : \A n \in T : m <= n
  BY <1>1, LeastNatural
<1>3. m # 0
  <2> DEFINE z == [k \in 1..1 |-> 0]
  <2>1. z = [k \in 1..0 + 1 |-> IF k = 1 THEN 0 ELSE z[k - 1] + size[k - 1]]
    OBVIOUS
  <2> QED
    BY <2>1 DEF IsAddr
<1>4. PICK f : IsAddr(f, size, m - 1)
  BY <1>2, <1>3
<1> DEFINE g == [k \in 1..m + 1 |-> IF k = m + 1 THEN f[m] + size[m] ELSE f[k]]
<1>5. g = [k \in 1..m + 1 |-> IF k = 1 THEN 0 ELSE g[k - 1] + size[k - 1]]
  <2>1. ASSUME NEW k \in 1..m + 1
        PROVE  g[k] = IF k = 1 THEN 0 ELSE g[k - 1] + size[k - 1]
    <3>1. f = [j \in 1..m |-> IF j = 1 THEN 0 ELSE f[j - 1] + size[j - 1]]
      BY <1>2, <1>3, <1>4 DEF IsAddr
    <3>2. CASE k = m + 1
      BY <3>2, <1>3
    <3>3. CASE k # m + 1
      BY <3>3, <3>1
    <3> QED
      BY <3>2, <3>3
  <2> QED
    BY <2>1
<1> QED
  BY <1>2, <1>5 DEF IsAddr

(* So Addresses is a function with the equation of its definition.         *)
LEMMA AddressesEquation ==
  ASSUME NEW size, Len(size) \in Nat
  PROVE  IsAddr(Addresses(size), size, Len(size))
<1>1. PICK f : IsAddr(f, size, Len(size))
  BY AddrExists
<1> QED
  BY <1>1 DEF Addresses, IsAddr

(* The addresses, one after the other. *)
LEMMA AddressesSteps ==
  ASSUME NEW size \in Seq(Nat)
  PROVE  /\ Addresses(size) \in [1..Len(size) + 1 -> Nat]
         /\ Addresses(size)[1] = 0
         /\ \A k \in 1..Len(size) : Addresses(size)[k + 1] = Addresses(size)[k] + size[k]
<1> DEFINE n == Len(size)
           a == Addresses(size)
<1>1. n \in Nat /\ \A k \in 1..n : size[k] \in Nat
  OBVIOUS
<1>2. a = [k \in 1..n + 1 |-> IF k = 1 THEN 0 ELSE a[k - 1] + size[k - 1]]
  BY <1>1, AddressesEquation DEF IsAddr
<1> HIDE DEF n, a
<1>3. a[1] = 0
  BY <1>1, <1>2
<1>4. \A k \in 1..n : a[k + 1] = a[k] + size[k]
  <2>1. ASSUME NEW k \in 1..n PROVE a[k + 1] = a[k] + size[k]
    <3>1. k + 1 \in 1..n + 1 /\ k + 1 # 1 /\ (k + 1) - 1 = k
      BY <1>1
    <3> QED
      BY <1>2, <3>1
  <2> QED
    BY <2>1
<1>5. \A k \in 1..n + 1 : a[k] \in Nat
  <2> DEFINE T == {k \in 1..n + 1 : a[k] \notin Nat}
  <2>1. SUFFICES ASSUME T # {} PROVE FALSE
    OBVIOUS
  <2>2. T \in SUBSET Nat
    BY <1>1
  <2>3. PICK m \in T : \A k \in T : m <= k
    BY <2>1, <2>2, LeastNatural
  <2>4. m # 1
    BY <2>3, <1>3
  <2>5. m - 1 \in 1..n /\ m - 1 \notin T
    BY <1>1, <2>3, <2>4
  <2>6. a[m - 1] \in Nat
    BY <1>1, <2>5
  <2> QED
    BY <1>1, <1>4, <2>3, <2>5, <2>6, SMTT(30)
<1> QED
  BY <1>1, <1>2, <1>3, <1>4, <1>5 DEF n, a

(* The addresses of the instructions up to m and of the one after them     *)
(* depend on the sizes of those instructions only.                         *)
LEMMA AddressesPrefix ==
  ASSUME NEW s \in Seq(Nat), NEW t \in Seq(Nat), NEW m \in Nat,
         m <= Len(s), m <= Len(t), \A k \in 1..m : s[k] = t[k]
  PROVE  \A k \in 1..m + 1 : Addresses(s)[k] = Addresses(t)[k]
<1> DEFINE a == Addresses(s)
           b == Addresses(t)
           T == {k \in 1..m + 1 : a[k] # b[k]}
<1>1. SUFFICES ASSUME T # {} PROVE FALSE
  OBVIOUS
<1>2. /\ a[1] = 0 /\ \A k \in 1..m : a[k + 1] = a[k] + s[k]
      /\ b[1] = 0 /\ \A k \in 1..m : b[k + 1] = b[k] + t[k]
  BY AddressesSteps
<1> HIDE DEF a, b
<1>3. T \in SUBSET Nat
  OBVIOUS
<1>4. PICK k \in T : \A j \in T : k <= j
  BY <1>1, <1>3, LeastNatural
<1>5. k # 1
  BY <1>2, <1>4
<1>6. k - 1 \in 1..m /\ k - 1 \notin T
  BY <1>4, <1>5
<1>7. a[k - 1] = b[k - 1]
  BY <1>6
<1>8. (k - 1) + 1 = k
  BY <1>4
<1> QED
  BY <1>2, <1>4, <1>6, <1>7, <1>8

(* Adding the smaller of two numbers to the smaller of two differences.    *)
LEMMA SumsOrdered ==
  \A x, x0, y, y0, p, q \in Nat :
    0 <= x - x0 /\ x - x0 <= y - y0 /\ p <= q
      => 0 <= (x + p) - x0 /\ (x + p) - x0 <= (y + q) - y0
OBVIOUS

(* When no instruction gets longer, no distance does: the heart of why     *)
(* shortening a branch cannot push another one out of its reach.           *)
LEMMA AddressesShrink ==
  ASSUME NEW s \in Seq(Nat), NEW t \in Seq(Nat), Len(s) = Len(t),
         \A k \in 1..Len(s) : t[k] <= s[k],
         NEW i \in 1..Len(s) + 1, NEW j \in i..Len(s) + 1
  PROVE  /\ 0 <= Addresses(t)[j] - Addresses(t)[i]
         /\ Addresses(t)[j] - Addresses(t)[i] <= Addresses(s)[j] - Addresses(s)[i]
<1> DEFINE n == Len(s)
           a == Addresses(s)
           b == Addresses(t)
           T == {k \in i..n + 1 : ~(0 <= b[k] - b[i] /\ b[k] - b[i] <= a[k] - a[i])}
<1>1. n \in Nat /\ \A k \in 1..n : s[k] \in Nat /\ t[k] \in Nat /\ t[k] <= s[k]
  OBVIOUS
<1>2. /\ a \in [1..n + 1 -> Nat] /\ \A k \in 1..n : a[k + 1] = a[k] + s[k]
      /\ b \in [1..n + 1 -> Nat] /\ \A k \in 1..n : b[k + 1] = b[k] + t[k]
  BY AddressesSteps
<1> HIDE DEF a, b
<1>3. SUFFICES ASSUME T # {} PROVE FALSE
  BY DEF a, b
<1>4. i \in 1..n + 1 /\ T \in SUBSET Nat
  BY <1>1
<1> HIDE DEF n
<1>5. PICK k \in T : \A l \in T : k <= l
  BY <1>3, <1>4, LeastNatural
<1>6. k # i
  BY <1>2, <1>4, <1>5, <1>1
<1>7. k - 1 \in 1..n /\ k - 1 \in i..n + 1 /\ k - 1 \notin T
  BY <1>1, <1>4, <1>5, <1>6
<1>8. 0 <= b[k - 1] - b[i] /\ b[k - 1] - b[i] <= a[k - 1] - a[i]
  BY <1>7
<1>9. k \in i..n + 1 /\ (k - 1) + 1 = k
  BY <1>1, <1>4, <1>5
<1>10. a[k] = a[k - 1] + s[k - 1] /\ b[k] = b[k - 1] + t[k - 1]
  BY <1>2, <1>7, <1>9
<1>11. s[k - 1] \in Nat /\ t[k - 1] \in Nat /\ t[k - 1] <= s[k - 1]
  BY <1>1, <1>7
<1>12. k - 1 \in 1..n + 1
  BY <1>1, <1>7
<1>13. a[k - 1] \in Nat /\ b[k - 1] \in Nat /\ a[i] \in Nat /\ b[i] \in Nat
  BY <1>2, <1>4, <1>12
<1>14. /\ 0 <= (b[k - 1] + t[k - 1]) - b[i]
       /\ (b[k - 1] + t[k - 1]) - b[i] <= (a[k - 1] + s[k - 1]) - a[i]
  BY <1>8, <1>11, <1>13, SumsOrdered
<1> QED
  BY <1>5, <1>10, <1>14

(* A difference that gets smaller and keeps its sign stays in the reach of *)
(* a format of m bytes forwards and backwards.                             *)
LEMMA StillInReach ==
  ASSUME NEW m \in Nat, m >= 2,
         NEW x \in Nat, NEW y \in Nat, x - y \in -m..m - 2,
         NEW u \in Nat, NEW v \in Nat,
         \/ 0 <= u - v /\ u - v <= x - y
         \/ 0 <= v - u /\ v - u <= y - x
  PROVE  u - v \in -m..m - 2
OBVIOUS
=============================================================================
