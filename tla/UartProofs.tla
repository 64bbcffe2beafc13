----------------------------- MODULE UartProofs -----------------------------
(***************************************************************************)
(* The serial line implements the channel, for every file, every size of   *)
(* the pipe and of the buffer of ungetchar, and every order of the steps   *)
(* of the processes.                                                       *)
(*                                                                         *)
(* The invariant says where the line is: the bytes between the processes   *)
(* are the codes of the characters that the writer has read and the        *)
(* program has not, and every one of them is where the code starts that    *)
(* the layout of the whole stream gives it. That a byte after a zero is    *)
(* taken for the end follows from where that zero stands, and from nothing *)
(* that the reader knows.                                                  *)
(***************************************************************************)
EXTENDS Uart, LayoutProofs, SequenceTheorems

(***************************************************************************)
(* The stream. w[k] is how many bytes the code of the k-th byte has, p[k]  *)
(* how many there are before it.                                           *)
(***************************************************************************)
IsCoding(s, w, p) ==
  /\ s \in Seq(Nat)
  /\ w \in [1..Len(s) -> {1, 2}]
  /\ p \in [1..Len(s) + 1 -> Nat]
  /\ p[1] = 0
  /\ \A k \in 1..Len(s) : p[k + 1] = p[k] + w[k]

(* What a coding is, fact by fact. *)
LEMMA CodingFacts ==
  ASSUME NEW s, NEW w, NEW p, IsCoding(s, w, p)
  PROVE  /\ Len(s) \in Nat
         /\ \A j \in 1..Len(s) + 1 : p[j] \in Nat
         /\ \A j \in 1..Len(s) : w[j] \in {1, 2} /\ p[j + 1] = p[j] + w[j] /\ s[j] \in Nat
<1>1. Len(s) \in Nat /\ \A j \in 1..Len(s) : s[j] \in Nat
  <2>1. s \in Seq(Nat)
    BY DEF IsCoding
  <2> QED BY ONLY <2>1
<1>2. \A j \in 1..Len(s) + 1 : p[j] \in Nat
  BY DEF IsCoding
<1>3. \A j \in 1..Len(s) : w[j] \in {1, 2} /\ p[j + 1] = p[j] + w[j]
  BY DEF IsCoding
<1> QED BY ONLY <1>1, <1>2, <1>3

(* Sums of the numbers that these lemmas are about. *)
LEMMA SumsGrow ==
  \A a, x, e, y, f \in Nat : a + x <= e /\ f = e + y => a + x <= f
OBVIOUS

(* Sums of the numbers that these lemmas are about: the place behind the last code. *)
LEMMA PlaceBehind ==
  \A k, r, len, e \in Nat :
    len = e - r => (k + r = e + 1 => k = len + 1) /\ (k + r = e + 2 => k = len + 2)
OBVIOUS

(* One code after the other. *)
LEMMA CodesOrdered ==
  ASSUME NEW s, NEW w, NEW p, IsCoding(s, w, p)
  PROVE  \A c \in 0..Len(s) : \A j \in 1..c : p[j] + w[j] <= p[c + 1]
<1> DEFINE T == {c \in 0..Len(s) : ~\A j \in 1..c : p[j] + w[j] <= p[c + 1]}
<1>1. SUFFICES ASSUME T # {} PROVE FALSE
  OBVIOUS
<1>2. Len(s) \in Nat /\ T \in SUBSET Nat
  BY DEF IsCoding
<1>3. PICK c \in T : \A d \in T : c <= d
  BY <1>1, <1>2, LeastNatural
<1>4. PICK j \in 1..c : ~(p[j] + w[j] <= p[c + 1])
  BY <1>3
<1>5. PICK d \in Nat : c = d + 1
  <2>1. c \in Nat /\ c # 0
    BY <1>2, <1>3, <1>4
  <2>2. c - 1 \in Nat /\ c = (c - 1) + 1
    BY <2>1
  <2> QED BY <2>2
<1>6. /\ d \in 0..Len(s) /\ d + 1 \in 1..Len(s) /\ j \in 1..d + 1 /\ j \in 1..Len(s)
      /\ ~(p[j] + w[j] <= p[(d + 1) + 1])
  BY <1>2, <1>3, <1>4, <1>5
<1>7. /\ p[(d + 1) + 1] = p[d + 1] + w[d + 1] /\ p[d + 1] \in Nat /\ w[d + 1] \in {1, 2}
      /\ p[j] \in Nat /\ w[j] \in {1, 2}
  <2>1. d + 1 \in 1..Len(s) + 1 /\ j \in 1..Len(s) + 1
    BY <1>2, <1>6
  <2> QED BY <1>6, <2>1, CodingFacts
<1>8. j # d + 1
  BY <1>6, <1>7
<1>9. j \in 1..d
  BY <1>6, <1>8
<1>10. d \notin T
  BY <1>3, <1>5
<1>11. p[j] + w[j] <= p[d + 1]
  BY <1>6, <1>9, <1>10
<1>12. PICK a \in Nat, x \in Nat, e \in Nat, y \in Nat, f \in Nat :
         a = p[j] /\ x = w[j] /\ e = p[d + 1] /\ y = w[d + 1] /\ f = p[(d + 1) + 1]
  <2>1. p[(d + 1) + 1] \in Nat
    BY ONLY <1>7
  <2> QED BY ONLY <1>7, <2>1, Zenon
<1>13. f = e + y /\ a + x <= e /\ ~(a + x <= f) /\ f \in Nat
  <2>1. f = e + y
    BY ONLY <1>7, <1>12, Zenon
  <2>2. a + x <= e
    BY ONLY <1>11, <1>12, Zenon
  <2>3. ~(a + x <= f)
    BY ONLY <1>6, <1>12, Zenon
  <2> QED BY <2>1, <2>2, <2>3, f \in Nat
<1> QED BY ONLY <1>13, SumsGrow, a \in Nat, x \in Nat, e \in Nat, y \in Nat, Zenon

(* The first len elements of q are bytes of the stream behind the first r: *)
(* those of the first c codes, and m of the mark of the end.               *)
Carries(s, w, p, q, len, r, c, m) ==
  /\ len = p[c + 1] + m - r
  /\ \A j \in 1..c, k \in 1..len :
       /\ k + r = p[j] + 1 => q[k] = s[j]
       /\ k + r = p[j] + 2 /\ w[j] = 2 => q[k] = 0
  /\ m = 2 => \A k \in 1..len :
       /\ k + r = p[Len(s) + 1] + 1 => q[k] = 0
       /\ k + r = p[Len(s) + 1] + 2 => q[k] = 1

(* A byte of it is read. *)
LEMMA CarriesRead ==
  ASSUME NEW s, NEW w, NEW p, IsCoding(s, w, p),
         NEW c \in 0..Len(s), NEW m \in {0, 2}, NEW r \in Nat, NEW len \in Nat \ {0},
         NEW q, Carries(s, w, p, q, len, r, c, m),
         NEW q2, \A k \in 1..len - 1 : q2[k] = q[k + 1]
  PROVE  Carries(s, w, p, q2, len - 1, r + 1, c, m)
<1>0. Len(s) \in Nat /\ c + 1 \in 1..Len(s) + 1 /\ \A j \in 1..Len(s) + 1 : p[j] \in Nat
  BY CodingFacts
<1>1. len - 1 = p[c + 1] + m - (r + 1)
  <2>1. p[c + 1] \in Nat /\ len = p[c + 1] + m - r
    BY <1>0 DEF Carries
  <2> QED BY <2>1
<1>2. \A k \in 1..len - 1 : k + 1 \in 1..len /\ (k + 1) + r = k + (r + 1)
  OBVIOUS
<1>3. ASSUME NEW j \in 1..c, NEW k \in 1..len - 1
      PROVE  /\ k + (r + 1) = p[j] + 1 => q2[k] = s[j]
             /\ k + (r + 1) = p[j] + 2 /\ w[j] = 2 => q2[k] = 0
  <2>1. PICK i \in 1..len : i = k + 1 /\ i + r = k + (r + 1)
    BY <1>2
  <2>2. q2[k] = q[i]
    BY <2>1
  <2>3. (i + r = p[j] + 1 => q[i] = s[j]) /\ (i + r = p[j] + 2 /\ w[j] = 2 => q[i] = 0)
    BY DEF Carries
  <2> QED BY <2>1, <2>2, <2>3
<1>4. ASSUME m = 2, NEW k \in 1..len - 1
      PROVE  /\ k + (r + 1) = p[Len(s) + 1] + 1 => q2[k] = 0
             /\ k + (r + 1) = p[Len(s) + 1] + 2 => q2[k] = 1
  <2>1. PICK i \in 1..len : i = k + 1 /\ i + r = k + (r + 1)
    BY <1>2
  <2>2. q2[k] = q[i]
    BY <2>1
  <2>3. /\ i + r = p[Len(s) + 1] + 1 => q[i] = 0
        /\ i + r = p[Len(s) + 1] + 2 => q[i] = 1
    BY <1>4 DEF Carries
  <2> QED BY <2>1, <2>2, <2>3
<1> QED BY <1>1, <1>3, <1>4 DEF Carries

(* The code of the next byte is put behind it. *)
LEMMA CarriesByte ==
  ASSUME NEW s, NEW w, NEW p, IsCoding(s, w, p),
         NEW c \in Nat, c < Len(s), NEW r \in Nat, NEW len \in Nat,
         NEW q, Carries(s, w, p, q, len, r, c, 0),
         NEW q2, \A k \in 1..len : q2[k] = q[k],
         q2[len + 1] = s[c + 1], w[c + 1] = 2 => q2[len + 2] = 0
  PROVE  Carries(s, w, p, q2, len + w[c + 1], r, c + 1, 0)
<1>1. /\ Len(s) \in Nat /\ c + 1 \in 1..Len(s) /\ w[c + 1] \in {1, 2}
      /\ p[(c + 1) + 1] = p[c + 1] + w[c + 1] /\ p[c + 1] \in Nat
  BY CodingFacts
<1>2. len = p[c + 1] - r /\ len + w[c + 1] = p[(c + 1) + 1] + 0 - r
  BY <1>1 DEF Carries
<1>3. \A j \in 1..c : p[j] + w[j] <= p[c + 1] /\ w[j] \in {1, 2} /\ p[j] \in Nat
  <2>1. c \in 0..Len(s) /\ \A j \in 1..c : j \in 1..Len(s)
    BY <1>1
  <2> QED BY <2>1, CodesOrdered, CodingFacts
<1>4. ASSUME NEW j \in 1..c, NEW k \in 1..len + w[c + 1]
      PROVE  /\ k + r = p[j] + 1 => q2[k] = s[j]
             /\ k + r = p[j] + 2 /\ w[j] = 2 => q2[k] = 0
  <2>1. CASE k \in 1..len
    BY <2>1 DEF Carries
  <2>2. CASE k \notin 1..len
    <3>1. k \in Nat /\ k > len
      BY <1>1, <1>3, <2>2
    <3>2. PICK e \in Nat, x \in Nat, y \in {1, 2} :
            e = p[c + 1] /\ x = p[j] /\ y = w[j] /\ x + y <= e /\ len = e - r
      BY <1>1, <1>2, <1>3
    <3>3. k + r # x + 1 /\ (y = 2 => k + r # x + 2)
      <4>1. x + y <= e /\ len = e - r
        BY <3>2
      <4> QED BY ONLY <3>1, <4>1, x \in Nat, y \in {1, 2}, e \in Nat, r \in Nat, len \in Nat
    <3> QED BY <3>2, <3>3
  <2> QED BY <2>1, <2>2
<1>5. ASSUME NEW k \in 1..len + w[c + 1]
      PROVE  /\ k + r = p[c + 1] + 1 => q2[k] = s[c + 1]
             /\ k + r = p[c + 1] + 2 /\ w[c + 1] = 2 => q2[k] = 0
  <2>1. (k + r = p[c + 1] + 1 => k = len + 1) /\ (k + r = p[c + 1] + 2 => k = len + 2)
    <3>1. PICK e \in Nat : e = p[c + 1] /\ len = e - r
      BY <1>1, <1>2
    <3>2. k \in Int
      BY <1>1
    <3>3. (k + r = e + 1 => k = len + 1) /\ (k + r = e + 2 => k = len + 2)
      <4>1. k \in Nat /\ len = e - r
        BY <3>1, <3>2, <1>1
      <4> QED BY ONLY <4>1, e \in Nat, r \in Nat, len \in Nat, PlaceBehind
    <3> QED BY ONLY <3>1, <3>3
  <2> QED BY ONLY <2>1, q2[len + 1] = s[c + 1], w[c + 1] = 2 => q2[len + 2] = 0
<1>6. \A j \in 1..c + 1 : j \in 1..c \/ j = c + 1
  OBVIOUS
<1> QED BY <1>2, <1>4, <1>5, <1>6, SMTT(30) DEF Carries

(* The mark of the end is put behind all of them. *)
LEMMA CarriesMark ==
  ASSUME NEW s, NEW w, NEW p, IsCoding(s, w, p), NEW r \in Nat, NEW len \in Nat,
         NEW q, Carries(s, w, p, q, len, r, Len(s), 0),
         NEW q2, \A k \in 1..len : q2[k] = q[k], q2[len + 1] = 0, q2[len + 2] = 1
  PROVE  Carries(s, w, p, q2, len + 2, r, Len(s), 2)
<1>1. Len(s) \in Nat /\ Len(s) + 1 \in 1..Len(s) + 1 /\ p[Len(s) + 1] \in Nat
  BY CodingFacts
<1>2. len = p[Len(s) + 1] - r /\ len + 2 = p[Len(s) + 1] + 2 - r
  BY <1>1 DEF Carries
<1>3. \A j \in 1..Len(s) : p[j] + w[j] <= p[Len(s) + 1] /\ w[j] \in {1, 2} /\ p[j] \in Nat
  BY <1>1, CodesOrdered, CodingFacts
<1>4. ASSUME NEW j \in 1..Len(s), NEW k \in 1..len + 2
      PROVE  /\ k + r = p[j] + 1 => q2[k] = s[j]
             /\ k + r = p[j] + 2 /\ w[j] = 2 => q2[k] = 0
  <2>1. CASE k \in 1..len
    BY <2>1 DEF Carries
  <2>2. CASE k \notin 1..len
    <3>1. k \in Nat /\ k > len
      BY <1>3, <2>2
    <3>2. PICK e \in Nat, x \in Nat, y \in {1, 2} :
            e = p[Len(s) + 1] /\ x = p[j] /\ y = w[j] /\ x + y <= e /\ len = e - r
      BY <1>1, <1>2, <1>3
    <3>3. k + r # x + 1 /\ (y = 2 => k + r # x + 2)
      <4>1. x + y <= e /\ len = e - r
        BY <3>2
      <4> QED BY ONLY <3>1, <4>1, x \in Nat, y \in {1, 2}, e \in Nat, r \in Nat, len \in Nat
    <3> QED BY <3>2, <3>3
  <2> QED BY <2>1, <2>2
<1>5. ASSUME NEW k \in 1..len + 2
      PROVE  /\ k + r = p[Len(s) + 1] + 1 => q2[k] = 0
             /\ k + r = p[Len(s) + 1] + 2 => q2[k] = 1
  <2>1. /\ k + r = p[Len(s) + 1] + 1 => k = len + 1
        /\ k + r = p[Len(s) + 1] + 2 => k = len + 2
    <3>1. PICK e \in Nat : e = p[Len(s) + 1] /\ len = e - r
      BY <1>1, <1>2
    <3>2. (k + r = e + 1 => k = len + 1) /\ (k + r = e + 2 => k = len + 2)
      <4>1. k \in Nat /\ len = e - r
        BY <3>1
      <4> QED BY ONLY <4>1, e \in Nat, r \in Nat, len \in Nat, PlaceBehind
    <3> QED BY ONLY <3>1, <3>2
  <2> QED BY ONLY <2>1, q2[len + 1] = 0, q2[len + 2] = 1
<1> QED BY <1>2, <1>4, <1>5 DEF Carries

(***************************************************************************)
(* Types                                                                   *)
(***************************************************************************)
LEMMA ByteFacts ==
  /\ Byte \subseteq Nat /\ Byte \subseteq Char
  /\ 0 \in Byte /\ 1 \in Byte /\ EOF \in Char
  /\ \A c \in Char : SignedChar(c) \in Char
  /\ \A c \in 0..127 : SignedChar(c) = c
BY DEF Byte, Char, EOF, SignedChar

(* One or two elements. *)
LEMMA ShortSeqs ==
  ASSUME NEW S, NEW a \in S, NEW b \in S
  PROVE  /\ <<>> \in Seq(S) /\ Len(<<>>) = 0
         /\ <<a>> \in Seq(S) /\ Len(<<a>>) = 1 /\ <<a>>[1] = a
         /\ <<a, b>> \in Seq(S) /\ Len(<<a, b>>) = 2 /\ <<a, b>>[1] = a /\ <<a, b>>[2] = b
OBVIOUS

(* An element is put behind a sequence, or the last one is taken away. *)
LEMMA AppendFacts ==
  ASSUME NEW S, NEW q \in Seq(S), NEW x \in S
  PROVE  /\ Append(q, x) \in Seq(S)
         /\ Len(Append(q, x)) = Len(q) + 1
         /\ \A k \in 1..Len(q) : Append(q, x)[k] = q[k]
         /\ Append(q, x)[Len(q) + 1] = x
OBVIOUS

(* The last element and those before it.                                   *)
LEMMA FrontFacts ==
  ASSUME NEW S, NEW q \in Seq(S), q # <<>>
  PROVE  /\ Len(q) \in Nat \ {0}
         /\ Front(q) \in Seq(S)
         /\ Len(Front(q)) = Len(q) - 1
         /\ \A k \in 1..Len(q) - 1 : Front(q)[k] = q[k]
         /\ Last(q) = q[Len(q)] /\ Last(q) \in S
<1>1. Len(q) \in Nat \ {0}
  BY EmptySeq
<1>2. \A k \in 1..Len(q) - 1 : q[k] \in S /\ 1 + k - 1 = k
  BY <1>1, ElementOfSeq
<1> DEFINE h == SubSeq(q, 1, Len(q) - 1)
<1>3. /\ h \in Seq(S)
      /\ Len(h) = IF 1 <= Len(q) - 1 THEN Len(q) - 1 - 1 + 1 ELSE 0
      /\ \A k \in 1..Len(q) - 1 - 1 + 1 : h[k] = q[1 + k - 1]
  <2>1. 1 \in Int /\ Len(q) - 1 \in Int
    BY <1>1
  <2> QED BY <1>2, <2>1, SubSeqProperties
<1>4. Front(q) = h /\ Last(q) = q[Len(q)]
  BY Zenon DEF Front, Last
<1>5. q[Len(q)] \in S
  BY <1>1, ElementOfSeq
<1> HIDE DEF h
<1>6. Len(h) = Len(q) - 1
  <2>1. PICK l \in Nat \ {0} : l = Len(q)
    BY <1>1
  <2>2. Len(h) = l - 1
    BY <1>3, <2>1
  <2> QED BY ONLY <2>1, <2>2
<1>7. ASSUME NEW k \in 1..Len(q) - 1 PROVE h[k] = q[k]
  <2>1. k \in 1..Len(q) - 1 - 1 + 1 /\ 1 + k - 1 = k
    BY <1>1
  <2> QED BY <1>3, <2>1
<1> QED BY ONLY <1>1, <1>3, <1>4, <1>5, <1>6, <1>7

(* Only its first len elements count. *)
LEMMA CarriesSame ==
  ASSUME NEW s, NEW w, NEW p, NEW r, NEW c, NEW m, NEW len \in Nat,
         NEW q, Carries(s, w, p, q, len, r, c, m),
         NEW q2, \A k \in 1..len : q2[k] = q[k]
  PROVE  Carries(s, w, p, q2, len, r, c, m)
BY DEF Carries

(* What is read where the code of a byte starts: the byte if it has been   *)
(* sent, else the mark of the end, if that has been sent.                  *)
LEMMA FirstByte ==
  ASSUME NEW s, NEW w, NEW p, IsCoding(s, w, p),
         NEW c \in 0..Len(s), NEW g \in 0..c, NEW m \in {0, 2}, m = 2 => c = Len(s),
         NEW len \in Nat, NEW q, Carries(s, w, p, q, len, p[g + 1], c, m)
  PROVE  /\ len # 0 /\ g < c => q[1] = s[g + 1]
         /\ len # 0 /\ g = c => m = 2 /\ q[1] = 0
         /\ len = 0 => m = 0 /\ g = c
<1>1. Len(s) \in Nat /\ c + 1 \in 1..Len(s) + 1 /\ p[c + 1] \in Nat /\ p[g + 1] \in Nat
  <2>1. Len(s) \in Nat
    BY CodingFacts
  <2>2. c + 1 \in 1..Len(s) + 1 /\ g + 1 \in 1..Len(s) + 1
    BY <2>1
  <2> QED BY <2>1, <2>2, CodingFacts
<1>2. len = p[c + 1] + m - p[g + 1]
  BY DEF Carries
<1>3. CASE g < c
  <2>1. g + 1 \in 1..c /\ g + 1 \in 1..Len(s)
    BY <1>1, <1>3
  <2>2. p[g + 1] + w[g + 1] <= p[c + 1] /\ w[g + 1] \in {1, 2}
    BY <2>1, CodesOrdered, CodingFacts
  <2>3. len # 0
    <3>1. PICK a \in Nat, e \in Nat, x \in {1, 2} :
            a = p[g + 1] /\ e = p[c + 1] /\ x = w[g + 1] /\ a + x <= e /\ len = e + m - a
      BY <1>1, <1>2, <2>2
    <3>2. a + x <= e /\ len = e + m - a
      BY <3>1
    <3> QED BY ONLY <3>2, a \in Nat, e \in Nat, x \in {1, 2}, m \in {0, 2}
  <2>4. 1 \in 1..len /\ 1 + p[g + 1] = p[g + 1] + 1
    BY <1>1, <2>3
  <2>5. q[1] = s[g + 1]
    BY <2>1, <2>4 DEF Carries
  <2> QED BY <1>3, <2>3, <2>5
<1>4. CASE g = c
  <2>1. len = m
    BY <1>1, <1>2, <1>4
  <2>2. ASSUME len # 0 PROVE q[1] = 0
    <3>1. m = 2 /\ c = Len(s) /\ 1 \in 1..len /\ 1 + p[g + 1] = p[Len(s) + 1] + 1
      BY <1>1, <1>4, <2>1, <2>2
    <3> QED BY <3>1 DEF Carries
  <2> QED BY <1>4, <2>1, <2>2
<1> QED BY <1>3, <1>4

(* What is read in the second place of a code, and it has been sent.       *)
LEMMA SecondByte ==
  ASSUME NEW s, NEW w, NEW p, IsCoding(s, w, p),
         NEW c \in 0..Len(s), NEW g \in 0..c, NEW m \in {0, 2}, m = 2 => c = Len(s),
         NEW len \in Nat, NEW q, Carries(s, w, p, q, len, p[g + 1] + 1, c, m),
         g < c => w[g + 1] = 2, g = c => m = 2
  PROVE  len # 0 /\ q[1] = IF g < c THEN 0 ELSE 1
<1>1. Len(s) \in Nat /\ c + 1 \in 1..Len(s) + 1 /\ p[c + 1] \in Nat /\ p[g + 1] \in Nat
  <2>1. Len(s) \in Nat
    BY CodingFacts
  <2>2. c + 1 \in 1..Len(s) + 1 /\ g + 1 \in 1..Len(s) + 1
    BY <2>1
  <2> QED BY <2>1, <2>2, CodingFacts
<1>2. len = p[c + 1] + m - (p[g + 1] + 1)
  BY DEF Carries
<1>3. CASE g < c
  <2>1. g + 1 \in 1..c /\ g + 1 \in 1..Len(s) /\ w[g + 1] = 2
    BY <1>1, <1>3
  <2>2. p[g + 1] + 2 <= p[c + 1]
    BY <2>1, CodesOrdered
  <2>3. len # 0
    <3>1. PICK a \in Nat, e \in Nat :
            a = p[g + 1] /\ e = p[c + 1] /\ a + 2 <= e /\ len = e + m - (a + 1)
      BY <1>1, <1>2, <2>2
    <3>2. a + 2 <= e /\ len = e + m - (a + 1)
      BY <3>1
    <3> QED BY ONLY <3>2, a \in Nat, e \in Nat, m \in {0, 2}
  <2>4. 1 \in 1..len /\ 1 + (p[g + 1] + 1) = p[g + 1] + 2
    BY <1>1, <2>3
  <2>5. q[1] = 0
    BY <2>1, <2>4 DEF Carries
  <2> QED BY <1>3, <2>3, <2>5
<1>4. CASE g = c
  <2>1. m = 2 /\ c = Len(s) /\ len = 1
    BY <1>1, <1>2, <1>4
  <2>2. 1 \in 1..len /\ 1 + (p[g + 1] + 1) = p[Len(s) + 1] + 2
    BY <1>1, <1>4, <2>1
  <2>3. q[1] = 1
    BY <2>1, <2>2 DEF Carries
  <2> QED BY <1>4, <2>1, <2>3
<1> QED BY <1>3, <1>4

(* The bytes between the processes, in the order in which they are read.   *)
FlowOf(a, b) ==
  [k \in 1..Len(a) + Len(b) |-> IF k <= Len(a) THEN a[k] ELSE b[k - Len(a)]]

(* A byte is read from the pipe.                                           *)
LEMMA FlowTail ==
  ASSUME NEW S, NEW a \in Seq(S), NEW b \in Seq(S), a # <<>>
  PROVE  /\ Len(Tail(a)) + Len(b) = Len(a) + Len(b) - 1
         /\ FlowOf(a, b)[1] = Head(a)
         /\ \A k \in 1..Len(a) + Len(b) - 1 : FlowOf(Tail(a), b)[k] = FlowOf(a, b)[k + 1]
<1>1. /\ Len(a) \in Nat \ {0} /\ Len(b) \in Nat /\ Len(Tail(a)) = Len(a) - 1
      /\ \A k \in 1..Len(a) - 1 : Tail(a)[k] = a[k + 1]
      /\ Head(a) = a[1]
  BY EmptySeq, HeadTailProperties, LenProperties
<1>2. FlowOf(a, b)[1] = Head(a)
  BY <1>1 DEF FlowOf
<1>3. ASSUME NEW k \in 1..Len(a) + Len(b) - 1
      PROVE  FlowOf(Tail(a), b)[k] = FlowOf(a, b)[k + 1]
  <2>1. k \in 1..Len(Tail(a)) + Len(b) /\ k + 1 \in 1..Len(a) + Len(b)
    BY <1>1
  <2>2. CASE k + 1 <= Len(a)
    <3>1. k <= Len(Tail(a)) /\ k \in 1..Len(a) - 1
      BY <1>1, <2>2
    <3> QED BY <1>1, <2>1, <2>2, <3>1 DEF FlowOf
  <2>3. CASE ~(k + 1 <= Len(a))
    <3>1. ~(k <= Len(Tail(a))) /\ k - Len(Tail(a)) = k + 1 - Len(a)
      BY <1>1, <2>3
    <3> QED BY <2>1, <2>3, <3>1 DEF FlowOf
  <2> QED BY <2>2, <2>3
<1> QED BY <1>1, <1>2, <1>3

(* A byte goes from the writer into the pipe. *)
LEMMA FlowMove ==
  ASSUME NEW S, NEW a \in Seq(S), NEW b \in Seq(S), b # <<>>
  PROVE  /\ Len(Append(a, Head(b))) + Len(Tail(b)) = Len(a) + Len(b)
         /\ FlowOf(Append(a, Head(b)), Tail(b)) = FlowOf(a, b)
<1>1. /\ Len(a) \in Nat /\ Len(b) \in Nat \ {0} /\ Len(Tail(b)) = Len(b) - 1
      /\ \A k \in 1..Len(b) - 1 : Tail(b)[k] = b[k + 1]
      /\ Head(b) = b[1] /\ Head(b) \in S
  BY EmptySeq, HeadTailProperties, LenProperties
<1> DEFINE x == Append(a, Head(b))
<1>2. Len(x) = Len(a) + 1 /\ x[Len(a) + 1] = b[1] /\ \A k \in 1..Len(a) : x[k] = a[k]
  BY <1>1, AppendFacts
<1> HIDE DEF x
<1>3. Len(x) + Len(Tail(b)) = Len(a) + Len(b)
  BY <1>1, <1>2
<1>4. ASSUME NEW k \in 1..Len(a) + Len(b)
      PROVE  FlowOf(x, Tail(b))[k] = FlowOf(a, b)[k]
  <2>1. CASE k <= Len(a)
    <3>1. k <= Len(x) /\ k \in 1..Len(a)
      BY <1>1, <1>2, <2>1
    <3> QED BY <1>2, <1>3, <2>1, <3>1 DEF FlowOf
  <2>2. CASE k = Len(a) + 1
    <3>1. k <= Len(x) /\ ~(k <= Len(a)) /\ k - Len(a) = 1
      BY <1>1, <1>2, <2>2
    <3> QED BY <1>2, <1>3, <2>2, <3>1 DEF FlowOf
  <2>3. CASE k > Len(a) + 1
    <3>1. /\ ~(k <= Len(x)) /\ ~(k <= Len(a))
          /\ k - Len(x) \in 1..Len(b) - 1 /\ (k - Len(x)) + 1 = k - Len(a)
      BY <1>1, <1>2, <2>3
    <3> QED BY <1>1, <1>3, <3>1 DEF FlowOf
  <2> QED BY <1>1, <2>1, <2>2, <2>3
<1>5. FlowOf(x, Tail(b)) = FlowOf(a, b)
  BY <1>3, <1>4 DEF FlowOf
<1> QED BY <1>3, <1>5 DEF x

(* The writer has one or two more bytes to write. *)
LEMMA FlowPut ==
  ASSUME NEW S, NEW a \in Seq(S), NEW b \in Seq(S)
  PROVE  /\ \A k \in 1..Len(a) : FlowOf(a, b)[k] = FlowOf(a, <<>>)[k]
         /\ \A k \in 1..Len(b) : FlowOf(a, b)[Len(a) + k] = b[k]
<1>1. Len(a) \in Nat /\ Len(b) \in Nat /\ Len(<<>>) = 0
  BY LenProperties, EmptySeq
<1>2. ASSUME NEW k \in 1..Len(a) PROVE FlowOf(a, b)[k] = FlowOf(a, <<>>)[k]
  <2>1. k <= Len(a) /\ k \in 1..Len(a) + Len(b) /\ k \in 1..Len(a) + Len(<<>>)
    BY <1>1
  <2> QED BY <2>1 DEF FlowOf
<1>3. ASSUME NEW k \in 1..Len(b) PROVE FlowOf(a, b)[Len(a) + k] = b[k]
  <2>1. /\ ~(Len(a) + k <= Len(a)) /\ Len(a) + k \in 1..Len(a) + Len(b)
        /\ Len(a) + k - Len(a) = k
    BY <1>1
  <2> QED BY <2>1 DEF FlowOf
<1> QED BY <1>2, <1>3

(* Types at the start, ...                                                 *)
LEMMA TypesInit ==
  UInit => UTypeOK
<1> SUFFICES ASSUME UInit PROVE UTypeOK
  OBVIOUS
<1>1. PICK m \in Messages : sent = m[1] /\ escaped = m[2]
  BY DEF UInit
<1>2. m[1] \in Seq(Byte) /\ m[2] \in BOOLEAN
  BY MessagesAssumption
<1>3. Len(sent) \in Nat /\ PipeSize \in Nat /\ CHAR_BUFFER_SIZE \in Nat
  BY <1>1, <1>2, SizesAssumption, LenProperties
<1>4. \A S : <<>> \in Seq(S) /\ Len(<<>>) = 0
  BY EmptySeq
<1>5. /\ file = sent /\ writer = "copies" /\ pending = <<>> /\ pipe = <<>>
      /\ is_eof = FALSE /\ at = "idle" /\ buffer = <<>> /\ returned = <<>> /\ backs = 0
  BY DEF UInit
<1>6. sent \in Seq(Byte) /\ escaped \in BOOLEAN /\ file \in Seq(Byte) /\ Len(file) <= Len(sent)
  BY ONLY <1>1, <1>2, <1>3, <1>5
<1>7. /\ pending \in Seq(Byte) /\ Len(pending) <= 2 /\ pipe \in Seq(Byte) /\ Len(pipe) <= PipeSize
      /\ buffer \in Seq(Char) /\ Len(buffer) <= CHAR_BUFFER_SIZE /\ returned \in Seq(Char)
  <2>1. 0 <= 2 /\ 0 <= PipeSize /\ 0 <= CHAR_BUFFER_SIZE
    BY ONLY <1>3
  <2> QED BY ONLY <1>4, <1>5, <2>1, Zenon
<1> QED BY <1>5, <1>6, <1>7 DEF UTypeOK

(* ... and after every step.                                               *)
LEMMA TypesNext ==
  UTypeOK /\ [UNext]_uvars => UTypeOK'
<1> SUFFICES ASSUME UTypeOK, [UNext]_uvars PROVE UTypeOK'
  OBVIOUS
<1>1. /\ Len(sent) \in Nat /\ Len(file) \in Nat /\ Len(pending) \in Nat /\ Len(pipe) \in Nat
      /\ Len(buffer) \in Nat /\ PipeSize \in Nat /\ CHAR_BUFFER_SIZE \in Nat
  BY LenProperties, SizesAssumption DEF UTypeOK
<1>2. CASE UNCHANGED uvars
  BY <1>2 DEF UTypeOK, uvars, line, program
<1>3. ASSUME ReadFile PROVE UTypeOK'
  <2>1. UNCHANGED <<sent, escaped, pipe, is_eof, at, buffer, returned, backs>>
    BY <1>3 DEF ReadFile, program
  <2>2. CASE file # <<>>
    <3>1. file' = Tail(file) /\ pending' = Escaped(Head(file)) /\ writer' = writer
      BY <1>3, <2>2 DEF ReadFile
    <3>2. Head(file) \in Byte /\ Tail(file) \in Seq(Byte) /\ Len(Tail(file)) = Len(file) - 1
      BY <2>2, HeadTailProperties DEF UTypeOK
    <3>3. Len(Tail(file)) <= Len(sent)
      <4>1. Len(file) <= Len(sent)
        BY DEF UTypeOK
      <4> QED BY ONLY <1>1, <3>2, <4>1
    <3>4. pending' \in Seq(Byte) /\ Len(pending') <= 2
      <4>1. 0 \in Byte /\ 1 <= 2 /\ 2 <= 2
        BY ByteFacts
      <4> QED BY <3>1, <3>2, <4>1, ShortSeqs DEF Escaped, ESCAPE_BYTE
    <3> QED BY <2>1, <3>1, <3>2, <3>3, <3>4 DEF UTypeOK
  <2>3. CASE file = <<>>
    <3>1. file' = file /\ pending' = EscapedEnd /\ writer' = "ends"
      BY <1>3, <2>3 DEF ReadFile
    <3>2. pending' \in Seq(Byte) /\ Len(pending') <= 2
      <4>1. 0 \in Byte /\ 1 \in Byte /\ 0 <= 2 /\ 2 <= 2
        BY ByteFacts
      <4> QED BY <3>1, <4>1, ShortSeqs DEF EscapedEnd, ESCAPE_BYTE
    <3> QED BY <2>1, <3>1, <3>2 DEF UTypeOK
  <2> QED BY <2>2, <2>3
<1>4. ASSUME WritePipe PROVE UTypeOK'
  <2>1. UNCHANGED <<sent, escaped, file, writer, is_eof, at, buffer, returned, backs>>
    BY <1>4 DEF WritePipe, program
  <2>2. /\ pending # <<>> /\ Len(pipe) < PipeSize
        /\ pipe' = Append(pipe, Head(pending)) /\ pending' = Tail(pending)
    BY <1>4 DEF WritePipe
  <2>3. Head(pending) \in Byte /\ Tail(pending) \in Seq(Byte) /\ Len(Tail(pending)) = Len(pending) - 1
    BY <2>2, HeadTailProperties DEF UTypeOK
  <2>4. Append(pipe, Head(pending)) \in Seq(Byte) /\ Len(Append(pipe, Head(pending))) = Len(pipe) + 1
    BY <2>3, AppendFacts DEF UTypeOK
  <2>5. Len(pending') <= 2 /\ Len(pipe') <= PipeSize
    <3>1. Len(pending) <= 2
      BY DEF UTypeOK
    <3>2. Len(pending') = Len(pending) - 1 /\ Len(pipe') = Len(pipe) + 1 /\ Len(pipe) < PipeSize
      BY <2>2, <2>3, <2>4
    <3> QED BY ONLY <1>1, <3>1, <3>2
  <2> QED BY <2>1, <2>2, <2>3, <2>4, <2>5 DEF UTypeOK
<1>5. ASSUME ClosePipe PROVE UTypeOK'
  BY <1>5 DEF ClosePipe, program, UTypeOK
<1>6. ASSUME NEW byte, Data(byte)
      PROVE  /\ pipe' \in Seq(Byte) /\ Len(pipe') <= PipeSize /\ is_eof' \in BOOLEAN
             /\ UNCHANGED pipe \/ pipe' = Tail(pipe)
  <2>1. CASE pipe # <<>> /\ pipe' = Tail(pipe) /\ UNCHANGED is_eof
    <3>1. Tail(pipe) \in Seq(Byte) /\ Len(Tail(pipe)) = Len(pipe) - 1
      BY <2>1, HeadTailProperties DEF UTypeOK
    <3>2. Len(Tail(pipe)) <= PipeSize
      <4>1. Len(pipe) <= PipeSize
        BY DEF UTypeOK
      <4> QED BY ONLY <1>1, <3>1, <4>1
    <3> QED BY <2>1, <3>1, <3>2 DEF UTypeOK
  <2>2. CASE pipe' = pipe /\ is_eof' \in BOOLEAN
    BY <2>2 DEF UTypeOK
  <2> QED BY <1>6, <2>1, <2>2 DEF Data, UTypeOK
<1>7. ASSUME GetBuffered PROVE UTypeOK'
  <2>1. /\ UNCHANGED <<sent, escaped, file, writer, pending, pipe, is_eof, at, backs>>
        /\ buffer # <<>>
        /\ returned' = Append(returned, SignedChar(Last(buffer))) /\ buffer' = Front(buffer)
    BY <1>7 DEF GetBuffered, line
  <2>2. Front(buffer) \in Seq(Char) /\ Len(Front(buffer)) = Len(buffer) - 1 /\ Last(buffer) \in Char
    BY <2>1, FrontFacts DEF UTypeOK
  <2>3. Append(returned, SignedChar(Last(buffer))) \in Seq(Char)
    BY <2>2, ByteFacts, AppendFacts DEF UTypeOK
  <2>4. Len(buffer') <= CHAR_BUFFER_SIZE
    <3>1. Len(buffer) <= CHAR_BUFFER_SIZE /\ Len(buffer') = Len(buffer) - 1
      BY <2>1, <2>2 DEF UTypeOK
    <3> QED BY ONLY <1>1, <3>1
  <2> QED BY <2>1, <2>2, <2>3, <2>4 DEF UTypeOK
<1>8. ASSUME GetFirst PROVE UTypeOK'
  <2>1. UNCHANGED <<sent, escaped, file, writer, pending, buffer, backs>>
    BY <1>8 DEF GetFirst, line
  <2>2. PICK byte \in Byte :
          /\ Data(byte)
          /\ \/ at' = "escape" /\ UNCHANGED returned
             \/ returned' = Append(returned, byte) /\ UNCHANGED at
    BY <1>8 DEF GetFirst
  <2>3. Append(returned, byte) \in Seq(Char)
    BY ByteFacts, AppendFacts DEF UTypeOK
  <2> QED BY <1>6, <2>1, <2>2, <2>3 DEF UTypeOK
<1>9. ASSUME GetSecond PROVE UTypeOK'
  <2>1. UNCHANGED <<sent, escaped, file, writer, pending, buffer, backs>> /\ at' = "idle"
    BY <1>9 DEF GetSecond, line
  <2>2. PICK byte \in Byte : Data(byte) /\ returned' = Append(returned, IF byte = 0 THEN 0 ELSE EOF)
    BY <1>9 DEF GetSecond
  <2>3. returned' \in Seq(Char)
    BY <2>2, ByteFacts, AppendFacts DEF UTypeOK
  <2> QED BY <1>6, <2>1, <2>2, <2>3 DEF UTypeOK
<1>10. ASSUME UngetChar PROVE UTypeOK'
  <2>1. UNCHANGED <<sent, escaped, file, writer, pending, pipe, is_eof, at>> /\ backs' = backs + 1
    BY <1>10 DEF UngetChar, line
  <2>2. returned # <<>>
    BY <1>10 DEF UngetChar
  <2>3. CASE UNCHANGED <<buffer, returned>>
    BY <2>1, <2>3 DEF UTypeOK
  <2>4. CASE /\ ~(Len(buffer) >= CHAR_BUFFER_SIZE)
             /\ buffer' = Append(buffer, Last(returned)) /\ returned' = Front(returned)
    <3>1. Front(returned) \in Seq(Char) /\ Last(returned) \in Char
      BY <2>2, FrontFacts DEF UTypeOK
    <3>2. buffer' \in Seq(Char) /\ Len(buffer') = Len(buffer) + 1
      BY <2>4, <3>1, AppendFacts DEF UTypeOK
    <3>3. Len(buffer') <= CHAR_BUFFER_SIZE
      BY ONLY <1>1, <2>4, <3>2
    <3> QED BY <2>1, <2>4, <3>1, <3>2, <3>3 DEF UTypeOK
  <2> QED BY <1>10, <2>3, <2>4 DEF UngetChar
<1> QED
  BY <1>2, <1>3, <1>4, <1>5, <1>7, <1>8, <1>9, <1>10 DEF UNext, Write, GetChar

(* Types: in particular the pipe and the buffer of ungetchar stay within   *)
(* their sizes (stdio.c:79).                                               *)
THEOREM UartTypes == USpec => []UTypeOK
<1>1. UInit => UTypeOK
  BY TypesInit
<1>2. UTypeOK /\ [UNext]_uvars => UTypeOK'
  BY TypesNext
<1> QED BY <1>1, <1>2, PTL DEF USpec

(***************************************************************************)
(* Where the line is, until the program is told of the end                 *)
(***************************************************************************)
Widths == [k \in 1..Len(sent) |-> IF escaped /\ sent[k] = 0 THEN 2 ELSE 1]
Start == Addresses(Widths)

(* How many bytes of the file the writer has read, how many the program    *)
(* has been given, with those that it gave back, and how many bytes of the *)
(* stream are the mark of the end, and have been read.                     *)
Copied == Len(sent) - Len(file)
Given == Len(returned) + Len(buffer)
Mark == IF escaped /\ writer # "copies" THEN 2 ELSE 0
ReadIn(g) == IF escaped /\ at = "escape" THEN Start[g + 1] + 1 ELSE Start[g + 1]

WriterOK ==
  /\ \A k \in 1..Len(file) : file[k] = sent[Copied + k]
  /\ writer # "copies" => file = <<>>
  /\ writer = "closed" => pending = <<>>
  /\ escaped \/ \A k \in 1..Len(sent) : sent[k] # 0

ReaderOK ==
  /\ \A k \in 1..Len(returned) : returned[k] = sent[k]
  /\ \A k \in 1..Len(buffer) : buffer[k] = sent[Given + 1 - k] /\ buffer[k] \in 0..127
  /\ Given <= Copied

EscapeOK ==
  /\ at = "escape" => buffer = <<>>
  /\ at = "escape" /\ escaped => IF Given < Copied THEN sent[Given + 1] = 0 ELSE Mark = 2
  /\ at = "escape" /\ ~escaped => Given = Len(sent)
  /\ is_eof <=> (at = "escape" /\ ~escaped)

StreamOK ==
  Carries(sent, Widths, Start, FlowOf(pipe, pending), Len(pipe) + Len(pending),
          ReadIn(Given), Copied, Mark)

Going == WriterOK /\ ReaderOK /\ EscapeOK /\ StreamOK

(* The lengths are numbers, and no more is read than there is.             *)
LEMMA Numbers ==
  ASSUME UTypeOK
  PROVE  /\ Len(sent) \in Nat /\ Len(file) \in Nat /\ Len(pending) \in Nat /\ Len(pipe) \in Nat
         /\ Len(buffer) \in Nat /\ Len(returned) \in Nat
         /\ Copied \in 0..Len(sent) /\ Given \in Nat /\ Mark \in {0, 2}
         /\ escaped \in BOOLEAN /\ at \in {"idle", "escape"}
<1>1. /\ Len(sent) \in Nat /\ Len(file) \in Nat /\ Len(pending) \in Nat /\ Len(pipe) \in Nat
      /\ Len(buffer) \in Nat /\ Len(returned) \in Nat /\ Len(file) <= Len(sent)
  BY LenProperties DEF UTypeOK
<1>2. Copied \in 0..Len(sent) /\ Given \in Nat
  BY ONLY <1>1 DEF Copied, Given
<1> QED BY <1>1, <1>2 DEF Mark, UTypeOK

(* The widths and starts of this file are a coding of it.                  *)
LEMMA CodingOfFile ==
  ASSUME UTypeOK
  PROVE  IsCoding(sent, Widths, Start)
<1>1. sent \in Seq(Nat) /\ Len(sent) \in Nat
  <2>1. sent \in Seq(Byte)
    BY DEF UTypeOK
  <2>2. Byte \subseteq Nat
    BY ByteFacts
  <2> QED BY ONLY <2>1, <2>2, SeqMonotonic, LenProperties
<1>2. Widths \in [1..Len(sent) -> {1, 2}]
  BY DEF Widths
<1>3. Widths \in Seq(Nat) /\ Len(Widths) = Len(sent)
  BY <1>1, <1>2
<1>4. /\ Start \in [1..Len(sent) + 1 -> Nat]
      /\ Start[1] = 0
      /\ \A k \in 1..Len(sent) : Start[k + 1] = Start[k] + Widths[k]
  <2>1. /\ Start \in [1..Len(Widths) + 1 -> Nat]
        /\ Start[1] = 0
        /\ \A k \in 1..Len(Widths) : Start[k + 1] = Start[k] + Widths[k]
    BY <1>3, AddressesSteps DEF Start
  <2> QED BY <1>3, <2>1
<1> QED BY <1>1, <1>2, <1>4 DEF IsCoding

(* What is read is something that the writer has read before.              *)
LEMMA ReadNumber ==
  ASSUME UTypeOK, ReaderOK
  PROVE  Given \in 0..Copied /\ Start[Given + 1] \in Nat /\ ReadIn(Given) \in Nat
<1>1. Len(sent) \in Nat /\ Copied \in 0..Len(sent) /\ Given \in Nat /\ Given <= Copied
  BY Numbers DEF ReaderOK
<1>2. Given \in 0..Copied /\ Given + 1 \in 1..Len(sent) + 1
  BY ONLY <1>1
<1>3. Start[Given + 1] \in Nat
  BY <1>2, CodingOfFile, CodingFacts
<1> QED BY <1>2, <1>3 DEF ReadIn

(* Nothing is sent.                                                        *)
LEMMA GoingInit ==
  UInit => Going
<1> SUFFICES ASSUME UInit PROVE Going
  OBVIOUS
<1>1. UTypeOK
  BY TypesInit
<1>2. /\ file = sent /\ writer = "copies" /\ pending = <<>> /\ pipe = <<>>
      /\ is_eof = FALSE /\ at = "idle" /\ buffer = <<>> /\ returned = <<>>
  BY DEF UInit
<1>3. Len(sent) \in Nat /\ Len(<<>>) = 0
  BY <1>1, Numbers, EmptySeq
<1>4. Copied = 0 /\ Given = 0 /\ Mark = 0 /\ ReadIn(0) = Start[1] /\ Start[1] = 0
  BY <1>1, <1>2, <1>3, CodingOfFile DEF Copied, Given, Mark, ReadIn, IsCoding
<1>5. WriterOK
  <2>1. PICK m \in Messages : sent = m[1] /\ escaped = m[2]
    BY DEF UInit
  <2>2. m[2] \/ \A k \in DOMAIN m[1] : m[1][k] # 0
    BY MessagesAssumption
  <2>3. DOMAIN sent = 1..Len(sent)
    BY <1>1, LenProperties DEF UTypeOK
  <2>4. escaped \/ \A k \in 1..Len(sent) : sent[k] # 0
    BY ONLY <2>1, <2>2, <2>3
  <2>5. \A k \in 1..Len(file) : file[k] = sent[Copied + k]
    BY <1>2, <1>4
  <2> QED BY <1>2, <2>4, <2>5 DEF WriterOK
<1>6. ReaderOK
  BY <1>2, <1>3, <1>4 DEF ReaderOK
<1>7. EscapeOK
  BY <1>2 DEF EscapeOK
<1>8. StreamOK
  BY <1>2, <1>3, <1>4 DEF StreamOK, Carries
<1> QED BY <1>5, <1>6, <1>7, <1>8 DEF Going

(***************************************************************************)
(* The steps of the writer                                                 *)
(***************************************************************************)
WriterKeeps ==
  UNCHANGED <<sent, escaped, is_eof, at, buffer, returned>>

(* They change nothing that the reader has or goes by. *)
LEMMA KeptByWriter ==
  ASSUME WriterKeeps
  PROVE  Widths' = Widths /\ Start' = Start /\ Given' = Given /\ ReadIn(Given)' = ReadIn(Given)
<1>1. Widths' = Widths
  BY DEF WriterKeeps, Widths
<1>2. Start' = Start /\ Given' = Given
  BY <1>1 DEF WriterKeeps, Start, Given
<1> QED BY <1>1, <1>2 DEF WriterKeeps, ReadIn

(* The writer reads a byte and has its code to write.                      *)
LEMMA GoingReadByte ==
  ASSUME UTypeOK, UTypeOK', Going, ReadFile, file # <<>>
  PROVE  Going'
<1>1. /\ writer = "copies" /\ pending = <<>> /\ file' = Tail(file)
      /\ pending' = Escaped(Head(file)) /\ writer' = writer /\ pipe' = pipe
      /\ WriterKeeps
  BY DEF ReadFile, WriterKeeps, program
<1>2. /\ Len(sent) \in Nat /\ Len(file) \in Nat /\ Len(pipe) \in Nat /\ Copied \in 0..Len(sent)
      /\ Given \in Nat /\ escaped \in BOOLEAN
  BY Numbers
<1>3. /\ Len(file) # 0 /\ Len(file') = Len(file) - 1 /\ Head(file) = file[1] /\ Head(file) \in Byte
      /\ \A k \in 1..Len(file) - 1 : file'[k] = file[k + 1]
  BY <1>1, EmptySeq, HeadTailProperties, LenProperties DEF UTypeOK
<1>4. Copied' = Copied + 1 /\ Copied < Len(sent) /\ Copied \in Nat
  BY <1>1, <1>2, <1>3 DEF Copied, WriterKeeps
<1>5. Mark = 0 /\ Mark' = 0
  BY <1>1 DEF Mark, WriterKeeps
<1>6. \A k \in 1..Len(file) : file[k] = sent[Copied + k]
  BY DEF Going, WriterOK
<1>7. WriterOK'
  <2>1. ASSUME NEW k \in 1..Len(file') PROVE file'[k] = sent'[Copied' + k]
    <3>1. k \in 1..Len(file) - 1 /\ k + 1 \in 1..Len(file) /\ Copied + (k + 1) = (Copied + 1) + k
      BY <1>2, <1>3, <1>4
    <3>2. file'[k] = file[k + 1] /\ file[k + 1] = sent[Copied + (k + 1)]
      BY <1>3, <1>6, <3>1
    <3> QED BY <1>1, <1>4, <3>1, <3>2 DEF WriterKeeps
  <2>2. escaped \/ \A k \in 1..Len(sent) : sent[k] # 0
    BY DEF Going, WriterOK
  <2> QED BY <1>1, <2>1, <2>2 DEF WriterOK, WriterKeeps
<1>8. ReaderOK'
  <2>1. Given' <= Copied'
    <3>1. Given <= Copied
      BY DEF Going, ReaderOK
    <3> QED BY <1>1, <1>2, <1>4, <3>1, KeptByWriter
  <2>2. Given' = Given
    BY <1>1, KeptByWriter
  <2> QED BY <1>1, <2>1, <2>2 DEF Going, ReaderOK, WriterKeeps
<1>9. EscapeOK'
  <2>1. Given' = Given
    BY <1>1, KeptByWriter
  <2>2. ASSUME at = "escape", escaped PROVE sent[Given + 1] = 0 /\ Given < Copied + 1
    <3>1. Given < Copied /\ sent[Given + 1] = 0
      BY <1>5, <2>2 DEF Going, EscapeOK
    <3> QED BY <1>2, <1>4, <3>1
  <2> QED BY <1>1, <1>4, <2>1, <2>2 DEF Going, EscapeOK, WriterKeeps
<1>10. StreamOK'
  <2> DEFINE q == FlowOf(pipe, <<>>)
             q2 == FlowOf(pipe, pending')
  <2>1. Carries(sent, Widths, Start, q, Len(pipe), ReadIn(Given), Copied, 0)
    <3>1. Len(pipe) + Len(<<>>) = Len(pipe)
      BY <1>2, EmptySeq
    <3> QED BY <1>1, <1>5, <3>1 DEF Going, StreamOK
  <2>2. 0 \in Byte /\ sent[Copied + 1] = Head(file)
    <3>1. 0 \in Byte
      BY ByteFacts
    <3>2. 1 \in 1..Len(file)
      BY <1>2, <1>3
    <3> QED BY <1>3, <1>6, <3>1, <3>2
  <2>3. /\ pending' \in Seq(Byte) /\ Len(pending') = Widths[Copied + 1]
        /\ pending'[1] = sent[Copied + 1]
        /\ Widths[Copied + 1] = 2 => pending'[2] = 0
    <3>1. Copied + 1 \in 1..Len(sent)
      BY <1>2, <1>4
    <3> QED BY <1>1, <1>2, <1>3, <2>2, <3>1, ShortSeqs DEF Escaped, ESCAPE_BYTE, Widths
  <2>4. Widths[Copied + 1] \in {1, 2}
    <3>1. Copied + 1 \in 1..Len(sent)
      BY <1>2, <1>4
    <3> QED BY <3>1 DEF Widths
  <2>5. /\ \A k \in 1..Len(pipe) : q2[k] = q[k]
        /\ q2[Len(pipe) + 1] = sent[Copied + 1]
        /\ Widths[Copied + 1] = 2 => q2[Len(pipe) + 2] = 0
    <3>1. pipe \in Seq(Byte)
      BY DEF UTypeOK
    <3>2. /\ \A k \in 1..Len(pipe) : q2[k] = q[k]
          /\ \A k \in 1..Len(pending') : q2[Len(pipe) + k] = pending'[k]
      BY <2>3, <3>1, FlowPut
    <3>3. 1 \in 1..Len(pending') /\ (Widths[Copied + 1] = 2 => 2 \in 1..Len(pending'))
      BY <2>3, <2>4
    <3> QED BY <2>3, <3>2, <3>3
  <2> HIDE DEF q, q2
  <2>6. ReadIn(Given) \in Nat
    BY ReadNumber DEF Going
  <2>7. Carries(sent, Widths, Start, q2, Len(pipe) + Widths[Copied + 1], ReadIn(Given), Copied + 1, 0)
    BY <1>2, <1>4, <2>1, <2>5, <2>6, CodingOfFile, CarriesByte
  <2> QED BY <1>1, <1>4, <1>5, <2>3, <2>7, KeptByWriter DEF StreamOK, WriterKeeps, q2
<1> QED BY <1>7, <1>8, <1>9, <1>10 DEF Going

(* The writer has read all of the file: it has the mark to write, or nothing. *)
LEMMA GoingReadEnd ==
  ASSUME UTypeOK, UTypeOK', Going, ReadFile, file = <<>>
  PROVE  Going'
<1>1. /\ writer = "copies" /\ pending = <<>> /\ file' = file
      /\ pending' = EscapedEnd /\ writer' = "ends" /\ pipe' = pipe /\ WriterKeeps
  BY DEF ReadFile, WriterKeeps, program
<1>2. /\ Len(sent) \in Nat /\ Len(pipe) \in Nat /\ escaped \in BOOLEAN
      /\ Copied' = Copied /\ Copied = Len(sent)
  BY <1>1, Numbers, EmptySeq DEF Copied, WriterKeeps
<1>3. Mark = 0 /\ Mark' = IF escaped THEN 2 ELSE 0
  BY <1>1 DEF Mark, WriterKeeps
<1>4. Given' = Given
  BY <1>1, KeptByWriter
<1>5. WriterOK'
  BY <1>1, <1>2 DEF Going, WriterOK, WriterKeeps
<1>6. ReaderOK'
  BY <1>1, <1>2, <1>4 DEF Going, ReaderOK, WriterKeeps
<1>7. EscapeOK'
  BY <1>1, <1>2, <1>3, <1>4 DEF Going, EscapeOK, WriterKeeps
<1>8. StreamOK'
  <2> DEFINE q == FlowOf(pipe, <<>>)
             q2 == FlowOf(pipe, pending')
  <2>1. Carries(sent, Widths, Start, q, Len(pipe), ReadIn(Given), Len(sent), 0)
    <3>1. Len(pipe) + Len(<<>>) = Len(pipe)
      BY <1>2, EmptySeq
    <3> QED BY <1>1, <1>2, <1>3, <3>1 DEF Going, StreamOK
  <2>2. ReadIn(Given) \in Nat
    BY ReadNumber DEF Going
  <2>3. CASE ~escaped
    <3>1. pending' = <<>>
      BY <1>1, <2>3 DEF EscapedEnd
    <3>2. Len(pipe') + Len(pending') = Len(pipe) + Len(pending)
      BY <1>1, <3>1
    <3> QED BY <1>1, <1>2, <1>3, <2>3, <3>1, <3>2, KeptByWriter DEF Going, StreamOK, WriterKeeps
  <2>4. CASE escaped
    <3>1. 0 \in Byte /\ 1 \in Byte
      BY ByteFacts
    <3>2. /\ pending' \in Seq(Byte) /\ Len(pending') = 2
          /\ pending'[1] = 0 /\ pending'[2] = 1
      BY <1>1, <2>4, <3>1, ShortSeqs DEF EscapedEnd, ESCAPE_BYTE
    <3>3. /\ \A k \in 1..Len(pipe) : q2[k] = q[k]
          /\ q2[Len(pipe) + 1] = 0 /\ q2[Len(pipe) + 2] = 1
      <4>1. pipe \in Seq(Byte)
        BY DEF UTypeOK
      <4>2. /\ \A k \in 1..Len(pipe) : q2[k] = q[k]
            /\ \A k \in 1..Len(pending') : q2[Len(pipe) + k] = pending'[k]
        <5>1. PICK b \in Seq(Byte) : b = pending'
          BY <3>2
        <5>2. /\ \A k \in 1..Len(pipe) : FlowOf(pipe, b)[k] = FlowOf(pipe, <<>>)[k]
              /\ \A k \in 1..Len(b) : FlowOf(pipe, b)[Len(pipe) + k] = b[k]
          BY <4>1, FlowPut
        <5> QED BY <5>1, <5>2
      <4> QED BY <3>2, <4>2
    <3> HIDE DEF q, q2
    <3>4. Carries(sent, Widths, Start, q2, Len(pipe) + 2, ReadIn(Given), Len(sent), 2)
      BY <1>2, <2>1, <2>2, <3>3, CodingOfFile, CarriesMark
    <3> QED BY <1>1, <1>2, <1>3, <2>4, <3>2, <3>4, KeptByWriter DEF StreamOK, WriterKeeps, q2
  <2> QED BY <1>2, <2>3, <2>4
<1> QED BY <1>5, <1>6, <1>7, <1>8 DEF Going

(* A byte moves into the pipe.                                             *)
LEMMA GoingWrite ==
  ASSUME UTypeOK, Going, WritePipe
  PROVE  Going'
<1>1. /\ pending # <<>> /\ file' = file /\ writer' = writer
      /\ pipe' = Append(pipe, Head(pending)) /\ pending' = Tail(pending) /\ WriterKeeps
  BY DEF WritePipe, WriterKeeps, program
<1>2. Copied' = Copied /\ Given' = Given /\ Mark' = Mark
  BY <1>1, KeptByWriter DEF Copied, Mark, WriterKeeps
<1>3. writer # "closed"
  BY <1>1 DEF Going, WriterOK
<1>4. WriterOK' /\ ReaderOK' /\ EscapeOK'
  BY <1>1, <1>2, <1>3 DEF Going, WriterOK, ReaderOK, EscapeOK, WriterKeeps
<1>5. /\ Len(pipe') + Len(pending') = Len(pipe) + Len(pending)
      /\ FlowOf(pipe', pending') = FlowOf(pipe, pending)
  <2>1. pipe \in Seq(Byte) /\ pending \in Seq(Byte)
    BY DEF UTypeOK
  <2> QED BY ONLY <1>1, <2>1, FlowMove
<1>6. StreamOK'
  BY <1>1, <1>2, <1>5, KeptByWriter DEF Going, StreamOK, WriterKeeps
<1> QED BY <1>4, <1>6 DEF Going

(* The writer ends.                                                        *)
LEMMA GoingClose ==
  ASSUME UTypeOK, Going, ClosePipe
  PROVE  Going'
<1>1. /\ writer = "ends" /\ writer' = "closed" /\ pending = <<>>
      /\ file' = file /\ pending' = pending /\ pipe' = pipe /\ WriterKeeps
  BY DEF ClosePipe, WriterKeeps, program
<1>2. Copied' = Copied /\ Given' = Given /\ Mark' = Mark
  BY <1>1, KeptByWriter DEF Copied, Mark, WriterKeeps
<1>3. WriterOK' /\ ReaderOK' /\ EscapeOK'
  BY <1>1, <1>2 DEF Going, WriterOK, ReaderOK, EscapeOK, WriterKeeps
<1>4. StreamOK'
  BY <1>1, <1>2, KeptByWriter DEF Going, StreamOK, WriterKeeps
<1> QED BY <1>3, <1>4 DEF Going

(***************************************************************************)
(* The steps of the program                                                *)
(***************************************************************************)
ReaderKeeps ==
  UNCHANGED <<sent, escaped, file, writer, pending>>

(* The steps of the program change nothing of the writer.                  *)
LEMMA KeptByReader ==
  ASSUME ReaderKeeps
  PROVE  /\ Widths' = Widths /\ Start' = Start /\ Copied' = Copied /\ Mark' = Mark
         /\ WriterOK => WriterOK'
<1>1. Widths' = Widths /\ Copied' = Copied /\ Mark' = Mark
  BY DEF ReaderKeeps, Widths, Copied, Mark
<1>2. Start' = Start
  BY <1>1 DEF Start
<1>3. WriterOK => WriterOK'
  BY <1>1 DEF WriterOK, ReaderKeeps
<1> QED BY <1>1, <1>2, <1>3

(* What the writer has sent when it has ended. *)
LEMMA MarkSent ==
  ASSUME UTypeOK, WriterOK
  PROVE  Mark = 2 => Copied = Len(sent)
<1>1. Mark = 2 => file = <<>>
  BY DEF Mark, WriterOK
<1> QED BY <1>1, Numbers, EmptySeq DEF Copied

(* A byte that is read from the pipe is the first one of the stream. *)
LEMMA DataTaken ==
  ASSUME UTypeOK, Going, ReaderKeeps, pipe # <<>>, pipe' = Tail(pipe)
  PROVE  /\ Len(pipe) + Len(pending) \in Nat \ {0}
         /\ FlowOf(pipe, pending)[1] = Head(pipe) /\ Head(pipe) \in Byte
         /\ Carries(sent, Widths, Start, FlowOf(pipe', pending'), Len(pipe') + Len(pending'),
                    ReadIn(Given) + 1, Copied, Mark)
<1>1. /\ Len(pipe) + Len(pending) \in Nat \ {0} /\ Copied \in 0..Len(sent) /\ Mark \in {0, 2}
      /\ ReadIn(Given) \in Nat
  <2>1. Len(pipe) \in Nat \ {0} /\ Len(pending) \in Nat
    BY Numbers, EmptySeq DEF UTypeOK
  <2>2. Len(pipe) + Len(pending) \in Nat \ {0}
    BY ONLY <2>1
  <2> QED BY <2>2, Numbers, ReadNumber DEF Going
<1>2. /\ Len(pipe') + Len(pending') = Len(pipe) + Len(pending) - 1
      /\ FlowOf(pipe, pending)[1] = Head(pipe)
      /\ \A k \in 1..Len(pipe) + Len(pending) - 1 :
           FlowOf(pipe', pending')[k] = FlowOf(pipe, pending)[k + 1]
  <2>1. pipe \in Seq(Byte) /\ pending \in Seq(Byte) /\ pending' = pending
    BY DEF UTypeOK, ReaderKeeps
  <2> QED BY ONLY <2>1, pipe # <<>>, pipe' = Tail(pipe), FlowTail
<1>3. Head(pipe) \in Byte
  BY HeadTailProperties DEF UTypeOK
<1>4. Carries(sent, Widths, Start, FlowOf(pipe, pending), Len(pipe) + Len(pending),
              ReadIn(Given), Copied, Mark)
  BY DEF Going, StreamOK
<1>5. Carries(sent, Widths, Start, FlowOf(pipe', pending'), Len(pipe) + Len(pending) - 1,
              ReadIn(Given) + 1, Copied, Mark)
  <2>1. PICK s, w, p, c, m, r, l, f, f2 :
          /\ s = sent /\ w = Widths /\ p = Start /\ c = Copied /\ m = Mark /\ r = ReadIn(Given)
          /\ l = Len(pipe) + Len(pending)
          /\ f = FlowOf(pipe, pending) /\ f2 = FlowOf(pipe', pending')
    OBVIOUS
  <2>2. /\ c \in 0..Len(s) /\ m \in {0, 2} /\ r \in Nat /\ l \in Nat \ {0}
        /\ IsCoding(s, w, p) /\ Carries(s, w, p, f, l, r, c, m)
        /\ \A k \in 1..l - 1 : f2[k] = f[k + 1]
    <3>1. IsCoding(sent, Widths, Start)
      BY CodingOfFile
    <3> QED BY ONLY <1>1, <1>2, <1>4, <2>1, <3>1
  <2>3. Carries(s, w, p, f2, l - 1, r + 1, c, m)
    BY ONLY <2>2, CarriesRead, SMTT(30)
  <2> QED BY ONLY <2>1, <2>3
<1> QED BY <1>1, <1>2, <1>3, <1>5

(* getchar has one more byte of the file. *)
LEMMA Got ==
  ASSUME UTypeOK, ReaderOK, NEW x \in Char, returned' = Append(returned, x),
         buffer = <<>>, buffer' = <<>>, UNCHANGED sent, Copied' = Copied,
         Given < Copied, x = sent[Given + 1]
  PROVE  ReaderOK' /\ Given' = Given + 1
<1>1. Len(returned) \in Nat /\ Copied \in Nat /\ Len(buffer) = 0 /\ Len(buffer') = 0
  BY Numbers, EmptySeq
<1>2. /\ Len(returned') = Len(returned) + 1
      /\ \A k \in 1..Len(returned) : returned'[k] = returned[k]
      /\ returned'[Len(returned) + 1] = x
  BY AppendFacts DEF UTypeOK
<1>3. Given = Len(returned) /\ Given' = Given + 1
  BY <1>1, <1>2 DEF Given
<1>4. ASSUME NEW k \in 1..Len(returned') PROVE returned'[k] = sent[k]
  <2>1. k \in 1..Len(returned) \/ k = Len(returned) + 1
    BY <1>1, <1>2
  <2>2. \A i \in 1..Len(returned) : returned[i] = sent[i]
    BY DEF ReaderOK
  <2> QED BY <1>2, <1>3, <2>1, <2>2
<1>5. Given' <= Copied'
  BY <1>1, <1>3
<1> QED BY <1>1, <1>3, <1>4, <1>5 DEF ReaderOK

(* The first read of getchar: a byte, or a zero that it cannot tell yet.   *)
LEMMA GoingGetFirst ==
  ASSUME UTypeOK, Going, GetFirst
  PROVE  Going'
<1>1. at = "idle" /\ buffer = <<>> /\ buffer' = <<>> /\ ReaderKeeps
  BY DEF GetFirst, ReaderKeeps, line
<1>2. PICK byte \in Byte :
        /\ Data(byte)
        /\ IF byte = 0
           THEN at' = "escape" /\ returned' = returned
           ELSE returned' = Append(returned, byte) /\ at' = at
  BY DEF GetFirst, ESCAPE_BYTE
<1>3. /\ Given \in 0..Copied /\ Start[Given + 1] \in Nat /\ Copied \in 0..Len(sent)
      /\ Len(sent) \in Nat /\ Mark \in {0, 2} /\ escaped \in BOOLEAN
      /\ Len(pipe) \in Nat /\ Len(pending) \in Nat
  BY Numbers, ReadNumber DEF Going
<1>4. ~is_eof /\ ReadIn(Given) = Start[Given + 1]
  BY <1>1 DEF Going, EscapeOK, ReadIn
<1>5. /\ WriterOK' /\ Widths' = Widths /\ Start' = Start /\ Copied' = Copied /\ Mark' = Mark
      /\ sent' = sent /\ escaped' = escaped /\ pending' = pending
  BY <1>1, KeptByReader DEF Going, ReaderKeeps
<1> DEFINE q == FlowOf(pipe, pending)
           len == Len(pipe) + Len(pending)
<1>6. /\ len # 0 /\ Given < Copied => q[1] = sent[Given + 1]
      /\ len # 0 /\ Given = Copied => Mark = 2 /\ q[1] = 0
      /\ len = 0 => Mark = 0 /\ Given = Copied
  <2>1. Carries(sent, Widths, Start, q, len, Start[Given + 1], Copied, Mark)
    BY <1>4 DEF Going, StreamOK
  <2>2. Mark = 2 => Copied = Len(sent)
    BY MarkSent DEF Going
  <2>3. IsCoding(sent, Widths, Start) /\ len \in Nat
    BY <1>3, CodingOfFile
  <2> HIDE DEF q, len
  <2> QED <3>1. PICK s, w, p, c, g, m, f, l :
            /\ s = sent /\ w = Widths /\ p = Start /\ c = Copied /\ g = Given /\ m = Mark
            /\ f = q /\ l = len
        OBVIOUS
      <3>2. /\ c \in 0..Len(s) /\ g \in 0..c /\ m \in {0, 2} /\ (m = 2 => c = Len(s)) /\ l \in Nat
            /\ IsCoding(s, w, p) /\ Carries(s, w, p, f, l, p[g + 1], c, m)
        BY ONLY <1>3, <2>1, <2>2, <2>3, <3>1
      <3>3. /\ l # 0 /\ g < c => f[1] = s[g + 1]
            /\ l # 0 /\ g = c => m = 2 /\ f[1] = 0
            /\ l = 0 => m = 0 /\ g = c
        BY ONLY <3>2, FirstByte
      <3> QED BY ONLY <3>1, <3>3
<1>7. byte = 0 => Given' = Given /\ ReaderOK'
  <2>1. ASSUME byte = 0 PROVE Given' = Given /\ returned' = returned
    BY <1>1, <1>2, <2>1 DEF Given
  <2> QED BY <1>1, <1>5, <2>1 DEF Going, ReaderOK
<1>8. CASE pipe # <<>>
  <2>1. byte = Head(pipe) /\ pipe' = Tail(pipe) /\ is_eof' = is_eof
    BY <1>2, <1>4, <1>8 DEF Data
  <2>2. /\ len # 0 /\ q[1] = byte
        /\ Carries(sent, Widths, Start, FlowOf(pipe', pending'), Len(pipe') + Len(pending'),
                   Start[Given + 1] + 1, Copied, Mark)
    BY <1>1, <1>4, <1>8, <2>1, DataTaken
  <2> HIDE DEF q, len
  <2>3. CASE byte = 0
    <3>1. IF Given < Copied THEN sent[Given + 1] = 0 ELSE Mark = 2
      BY <1>3, <1>6, <2>2, <2>3
    <3>2. escaped
      <4>1. CASE Given < Copied
        <5>1. Given + 1 \in 1..Len(sent) /\ sent[Given + 1] = 0
          BY <1>3, <3>1, <4>1
        <5> QED BY <5>1 DEF Going, WriterOK
      <4>2. CASE Mark = 2
        BY <4>2 DEF Mark
      <4> QED BY <3>1, <4>1, <4>2
    <3>3. EscapeOK'
      BY <1>1, <1>2, <1>4, <1>5, <1>7, <2>1, <2>3, <3>1, <3>2 DEF EscapeOK
    <3>4. StreamOK'
      <4>1. ReadIn(Given)' = Start[Given + 1] + 1
        BY <1>2, <1>5, <1>7, <2>3, <3>2 DEF ReadIn
      <4> QED BY <1>5, <2>2, <4>1 DEF StreamOK
    <3> QED BY <1>5, <1>7, <2>3, <3>3, <3>4 DEF Going
  <2>4. CASE byte # 0
    <3>1. Given < Copied /\ byte = sent[Given + 1]
      BY <1>3, <1>6, <2>2, <2>4
    <3>2. returned' = Append(returned, byte) /\ at' = "idle" /\ byte \in Char
      BY <1>1, <1>2, <2>4, ByteFacts
    <3>3. ReaderOK' /\ Given' = Given + 1
      BY <1>1, <1>5, <3>1, <3>2, Got DEF Going
    <3>4. EscapeOK'
      BY <1>4, <2>1, <3>2 DEF EscapeOK
    <3>5. StreamOK'
      <4>1. Given + 1 \in 1..Len(sent)
        BY <1>3, <3>1
      <4>2. Widths[Given + 1] = 1
        BY <2>4, <3>1, <4>1 DEF Widths
      <4>3. Start[(Given + 1) + 1] = Start[Given + 1] + 1
        BY <4>1, <4>2, CodingOfFile, CodingFacts
      <4>4. ReadIn(Given)' = Start[Given + 1] + 1
        BY <1>5, <3>2, <3>3, <4>3 DEF ReadIn
      <4> QED BY <1>5, <2>2, <4>4 DEF StreamOK
    <3> QED BY <1>5, <3>3, <3>4, <3>5 DEF Going
  <2> QED BY <2>3, <2>4
<1>9. CASE pipe = <<>>
  <2>1. byte = 0 /\ is_eof' = TRUE /\ pipe' = pipe /\ writer = "closed"
    BY <1>2, <1>4, <1>9 DEF Data
  <2>2. len = 0
    BY <1>9, <2>1, EmptySeq DEF Going, WriterOK
  <2>3. ~escaped /\ Given = Len(sent)
    <3>1. Mark = 0 /\ Given = Copied /\ file = <<>>
      BY <1>6, <2>1, <2>2 DEF Going, WriterOK
    <3>2. ~escaped
      BY <2>1, <3>1 DEF Mark
    <3> QED BY <1>3, <3>1, <3>2, EmptySeq DEF Copied
  <2>4. at' = "escape"
    BY <1>2, <2>1
  <2>5. EscapeOK'
    BY <1>1, <1>5, <1>7, <2>1, <2>3, <2>4 DEF EscapeOK
  <2>6. StreamOK'
    <3>1. ReadIn(Given)' = ReadIn(Given)
      BY <1>4, <1>5, <1>7, <2>1, <2>3 DEF ReadIn
    <3> QED BY <1>5, <2>1, <3>1 DEF Going, StreamOK
  <2> QED BY <1>5, <1>7, <2>1, <2>5, <2>6 DEF Going
<1> QED BY <1>8, <1>9

(* The second read of getchar: either it has a zero byte of the file, or   *)
(* it has all of the file and says so.                                     *)
EndStart ==
  /\ buffer = <<>> /\ at = "idle"
  /\ IF escaped THEN pipe = <<>> /\ pending = <<>> /\ writer # "copies" /\ ~is_eof ELSE is_eof

(* The second half of a code: a byte more, or the end of the input. *)
LEMMA GoingGetSecond ==
  ASSUME UTypeOK, UTypeOK', Going, GetSecond
  PROVE  Going' \/ (returned = sent /\ returned' = Append(returned, EOF) /\ EndStart')
<1>1. at = "escape" /\ at' = "idle" /\ buffer = <<>> /\ buffer' = <<>> /\ ReaderKeeps
  BY DEF GetSecond, ReaderKeeps, line, Going, EscapeOK
<1>2. PICK byte \in Byte :
        Data(byte) /\ returned' = Append(returned, IF byte = 0 THEN 0 ELSE EOF)
  BY DEF GetSecond
<1>3. /\ Given \in 0..Copied /\ Start[Given + 1] \in Nat /\ Copied \in 0..Len(sent)
      /\ Len(sent) \in Nat /\ Mark \in {0, 2} /\ escaped \in BOOLEAN
      /\ Len(pipe) \in Nat /\ Len(pending) \in Nat
  BY Numbers, ReadNumber DEF Going
<1>4. ASSUME Given = Len(sent) PROVE returned = sent
  <2>1. Len(returned) = Len(sent)
    BY <1>1, <1>4, Numbers, EmptySeq DEF Given
  <2>2. \A k \in 1..Len(returned) : returned[k] = sent[k]
    BY DEF Going, ReaderOK
  <2>3. returned \in Seq(Char) /\ sent \in Seq(Byte)
    BY DEF UTypeOK
  <2> QED BY ONLY <2>1, <2>2, <2>3, SeqEqual
<1>5. CASE ~escaped
  <2>1. is_eof /\ Given = Len(sent)
    BY <1>1, <1>5 DEF Going, EscapeOK
  <2>2. byte = 1 /\ is_eof'
    BY <1>2, <2>1 DEF Data
  <2>3. EndStart'
    BY <1>1, <1>5, <2>2 DEF EndStart, ReaderKeeps
  <2> QED BY <1>2, <1>4, <2>1, <2>2, <2>3
<1>6. CASE escaped
  <2>1. ~is_eof /\ ReadIn(Given) = Start[Given + 1] + 1
    BY <1>1, <1>6 DEF Going, EscapeOK, ReadIn
  <2>2. IF Given < Copied THEN sent[Given + 1] = 0 ELSE Mark = 2
    BY <1>1, <1>6 DEF Going, EscapeOK
  <2>3. Given < Copied => Given + 1 \in 1..Len(sent) /\ Widths[Given + 1] = 2
    BY <1>3, <1>6, <2>2 DEF Widths
  <2>4. Mark = 2 => Copied = Len(sent)
    BY MarkSent DEF Going
  <2> DEFINE q == FlowOf(pipe, pending)
             len == Len(pipe) + Len(pending)
  <2>5. len # 0 /\ q[1] = IF Given < Copied THEN 0 ELSE 1
    <3>1. Carries(sent, Widths, Start, q, len, Start[Given + 1] + 1, Copied, Mark)
      BY <2>1 DEF Going, StreamOK
    <3>2. IsCoding(sent, Widths, Start) /\ len \in Nat
      BY <1>3, CodingOfFile
    <3> HIDE DEF q, len
    <3>3. PICK s, w, p, c, g, m, f, l :
            /\ s = sent /\ w = Widths /\ p = Start /\ c = Copied /\ g = Given /\ m = Mark
            /\ f = q /\ l = len
      OBVIOUS
    <3>4. /\ c \in 0..Len(s) /\ g \in 0..c /\ m \in {0, 2} /\ (m = 2 => c = Len(s)) /\ l \in Nat
          /\ (g < c => w[g + 1] = 2) /\ (g = c => m = 2)
          /\ IsCoding(s, w, p) /\ Carries(s, w, p, f, l, p[g + 1] + 1, c, m)
      BY ONLY <1>3, <2>2, <2>3, <2>4, <3>1, <3>2, <3>3
    <3>5. l # 0 /\ f[1] = IF g < c THEN 0 ELSE 1
      BY ONLY <3>4, SecondByte
    <3> QED BY ONLY <3>3, <3>5
  <2>6. pipe # <<>> /\ byte = Head(pipe) /\ pipe' = Tail(pipe) /\ is_eof' = is_eof
    <3>1. pipe = <<>> /\ writer = "closed" => len = 0
      BY EmptySeq DEF Going, WriterOK
    <3> QED BY <1>2, <2>1, <2>5, <3>1 DEF Data
  <2>7. /\ q[1] = byte
        /\ Carries(sent, Widths, Start, FlowOf(pipe', pending'), Len(pipe') + Len(pending'),
                   (Start[Given + 1] + 1) + 1, Copied, Mark)
    BY <1>1, <2>1, <2>6, DataTaken
  <2> HIDE DEF q, len
  <2>8. CASE Given < Copied
    <3>1. byte = 0 /\ returned' = Append(returned, 0) /\ sent[Given + 1] = 0 /\ 0 \in Char
      BY <1>2, <2>2, <2>5, <2>7, <2>8, ByteFacts
    <3>2. /\ WriterOK' /\ Start' = Start /\ Widths' = Widths /\ Copied' = Copied /\ Mark' = Mark
          /\ sent' = sent /\ escaped' = escaped
      BY <1>1, KeptByReader DEF Going, ReaderKeeps
    <3>3. ReaderOK' /\ Given' = Given + 1
      BY <1>1, <2>8, <3>1, <3>2, Got DEF Going
    <3>4. EscapeOK'
      BY <1>1, <2>1, <2>6 DEF EscapeOK
    <3>5. StreamOK'
      <4>1. Start[(Given + 1) + 1] = Start[Given + 1] + 2
        BY <2>3, <2>8, CodingOfFile, CodingFacts
      <4>2. ReadIn(Given)' = (Start[Given + 1] + 1) + 1
        <5>1. ReadIn(Given)' = Start[(Given + 1) + 1]
          BY <1>1, <3>2, <3>3 DEF ReadIn
        <5>2. PICK a \in Nat : a = Start[Given + 1]
          BY <1>3
        <5>3. a + 2 = (a + 1) + 1
          OBVIOUS
        <5> QED BY ONLY <4>1, <5>1, <5>2, <5>3
      <4> QED BY <2>7, <3>2, <4>2 DEF StreamOK
    <3> QED BY <3>2, <3>3, <3>4, <3>5 DEF Going
  <2>9. CASE ~(Given < Copied)
    <3>1. byte = 1 /\ returned' = Append(returned, EOF)
      BY <1>2, <2>5, <2>7, <2>9
    <3>2. Given = Copied /\ Given = Len(sent) /\ Mark = 2
      BY <1>3, <2>2, <2>4, <2>9
    <3>3. Len(pipe') \in Nat /\ Len(pending') \in Nat
      BY LenProperties DEF UTypeOK
    <3>4. Len(pipe') = 0 /\ Len(pending') = 0
      <4>1. Len(pipe') + Len(pending') = Start[Given + 1] + 2 - ((Start[Given + 1] + 1) + 1)
        BY <2>7, <3>2 DEF Carries
      <4>2. PICK a \in Nat : a = Start[Given + 1]
        BY <1>3
      <4>3. Len(pipe') + Len(pending') = a + 2 - ((a + 1) + 1)
        BY ONLY <4>1, <4>2
      <4> QED BY ONLY <3>3, <4>3, a \in Nat
    <3>5. pipe' = <<>> /\ pending' = <<>>
      BY <3>4, EmptySeq DEF UTypeOK
    <3>6. writer # "copies"
      BY <3>2 DEF Mark
    <3>7. EndStart'
      BY <1>1, <1>6, <2>1, <2>6, <3>5, <3>6 DEF EndStart, ReaderKeeps
    <3> QED BY <1>4, <3>1, <3>2, <3>7
  <2> QED BY <2>8, <2>9
<1> QED BY <1>3, <1>5, <1>6

(* A character goes between the program and the buffer of ungetchar.       *)
BufferKeeps ==
  UNCHANGED <<sent, escaped, file, writer, pending, pipe, is_eof, at>>

(* The steps on buffered data keep the invariant of a transfer that goes on. *)
LEMMA GoingBuffered ==
  ASSUME UTypeOK, Going, BufferKeeps, at = "idle", ReaderOK', Given' = Given
  PROVE  Going'
<1>1. /\ WriterOK' /\ Start' = Start /\ Widths' = Widths /\ Copied' = Copied /\ Mark' = Mark
  BY KeptByReader DEF Going, ReaderKeeps, BufferKeeps
<1>2. EscapeOK'
  BY DEF Going, EscapeOK, BufferKeeps
<1>3. StreamOK'
  <2>1. ReadIn(Given)' = ReadIn(Given)
    BY <1>1 DEF ReadIn, BufferKeeps
  <2> QED BY <1>1, <2>1 DEF Going, StreamOK, BufferKeeps
<1> QED BY <1>1, <1>2, <1>3 DEF Going

(* getchar takes the character that was given back last.                   *)
LEMMA GoingGetBuffered ==
  ASSUME UTypeOK, Going, GetBuffered
  PROVE  Going'
<1>1. /\ buffer # <<>> /\ returned' = Append(returned, SignedChar(Last(buffer)))
      /\ buffer' = Front(buffer) /\ BufferKeeps /\ at = "idle"
  BY DEF GetBuffered, BufferKeeps, line
<1>2. /\ Len(buffer) \in Nat \ {0} /\ Len(buffer') = Len(buffer) - 1
      /\ \A k \in 1..Len(buffer) - 1 : buffer'[k] = buffer[k]
      /\ Last(buffer) = buffer[Len(buffer)] /\ Last(buffer) \in Char
  BY <1>1, FrontFacts DEF UTypeOK
<1>3. Len(returned) \in Nat /\ Copied \in Nat
  BY Numbers
<1>4. \A k \in 1..Len(buffer) : buffer[k] = sent[Given + 1 - k] /\ buffer[k] \in 0..127
  BY DEF Going, ReaderOK
<1>5. SignedChar(Last(buffer)) = sent[Len(returned) + 1]
  <2>1. Len(buffer) \in 1..Len(buffer) /\ Given + 1 - Len(buffer) = Len(returned) + 1
    BY <1>2, <1>3 DEF Given
  <2>2. Last(buffer) = sent[Len(returned) + 1] /\ Last(buffer) \in 0..127
    BY <1>2, <1>4, <2>1
  <2>3. SignedChar(Last(buffer)) = Last(buffer)
    BY <2>2, ByteFacts, Zenon
  <2> QED BY ONLY <2>2, <2>3
<1>6. /\ Len(returned') = Len(returned) + 1
      /\ \A k \in 1..Len(returned) : returned'[k] = returned[k]
      /\ returned'[Len(returned) + 1] = sent[Len(returned) + 1]
  <2>1. SignedChar(Last(buffer)) \in Char
    BY <1>2, ByteFacts
  <2> QED BY <1>1, <1>5, <2>1, AppendFacts DEF UTypeOK
<1>7. Given' = Given
  BY <1>2, <1>3, <1>6 DEF Given
<1>8. ReaderOK'
  <2>1. ASSUME NEW k \in 1..Len(returned') PROVE returned'[k] = sent'[k]
    <3>1. k \in 1..Len(returned) \/ k = Len(returned) + 1
      BY <1>3, <1>6
    <3> QED BY <1>1, <1>6, <3>1 DEF Going, ReaderOK, BufferKeeps
  <2>2. ASSUME NEW k \in 1..Len(buffer')
        PROVE  buffer'[k] = sent'[Given' + 1 - k] /\ buffer'[k] \in 0..127
    <3>1. k \in 1..Len(buffer) - 1 /\ k \in 1..Len(buffer)
      BY <1>2
    <3> QED BY <1>1, <1>2, <1>4, <1>7, <3>1 DEF BufferKeeps
  <2>3. Given' <= Copied'
    BY <1>1, <1>7 DEF Going, ReaderOK, Copied, BufferKeeps
  <2> QED BY <2>1, <2>2, <2>3 DEF ReaderOK
<1> QED BY <1>1, <1>7, <1>8, GoingBuffered

(* ungetchar keeps the last character, or refuses it.                      *)
LEMMA GoingUngetChar ==
  ASSUME UTypeOK, Going, UngetChar
  PROVE  Going'
<1>1. BufferKeeps /\ at = "idle" /\ returned # <<>> /\ Last(returned) \in GivenBack
  BY DEF UngetChar, BufferKeeps, line
<1>2. CASE UNCHANGED <<buffer, returned>>
  <2>1. ReaderOK' /\ Given' = Given
    BY <1>1, <1>2 DEF Going, ReaderOK, Given, Copied, BufferKeeps
  <2> QED BY <1>1, <2>1, GoingBuffered
<1>3. CASE buffer' = Append(buffer, Last(returned)) /\ returned' = Front(returned)
  <2>1. /\ Len(returned) \in Nat \ {0} /\ Len(returned') = Len(returned) - 1
        /\ \A k \in 1..Len(returned) - 1 : returned'[k] = returned[k]
        /\ Last(returned) = returned[Len(returned)] /\ Last(returned) \in Char
    BY <1>1, <1>3, FrontFacts DEF UTypeOK
  <2>2. /\ Len(buffer') = Len(buffer) + 1
        /\ \A k \in 1..Len(buffer) : buffer'[k] = buffer[k]
        /\ buffer'[Len(buffer) + 1] = returned[Len(returned)]
    BY <1>3, <2>1, AppendFacts DEF UTypeOK
  <2>3. Len(buffer) \in Nat
    BY Numbers
  <2>4. Given' = Given
    BY <2>1, <2>2, <2>3 DEF Given
  <2>5. ReaderOK'
    <3>1. ASSUME NEW k \in 1..Len(returned') PROVE returned'[k] = sent'[k]
      <4>1. k \in 1..Len(returned) - 1 /\ k \in 1..Len(returned)
        BY <2>1
      <4> QED BY <1>1, <2>1, <4>1 DEF Going, ReaderOK, BufferKeeps
    <3>2. ASSUME NEW k \in 1..Len(buffer')
          PROVE  buffer'[k] = sent'[Given' + 1 - k] /\ buffer'[k] \in 0..127
      <4>1. CASE k \in 1..Len(buffer)
        BY <1>1, <2>2, <2>4, <4>1 DEF Going, ReaderOK, BufferKeeps
      <4>2. CASE k = Len(buffer) + 1
        <5>1. Given + 1 - k = Len(returned) /\ Len(returned) \in 1..Len(returned)
          BY <2>1, <2>3, <4>2 DEF Given
        <5>2. returned[Len(returned)] = sent[Len(returned)]
          BY <5>1 DEF Going, ReaderOK
        <5>3. returned[Len(returned)] \in 0..127
          BY <1>1, <2>1, GivenBackAssumption
        <5>4. Given' = Given /\ sent' = sent /\ buffer'[k] = returned[Len(returned)]
          BY <1>1, <2>2, <2>4, <4>2 DEF BufferKeeps
        <5> QED BY ONLY <5>1, <5>2, <5>3, <5>4
      <4>3. k \in 1..Len(buffer) \/ k = Len(buffer) + 1
        BY ONLY <2>2, <2>3, k \in 1..Len(buffer')
      <4> QED BY ONLY <4>1, <4>2, <4>3
    <3>3. Given' <= Copied'
      BY <1>1, <2>4 DEF Going, ReaderOK, Copied, BufferKeeps
    <3> QED BY <3>1, <3>2, <3>3 DEF ReaderOK
  <2> QED BY <1>1, <2>4, <2>5, GoingBuffered
<1> QED BY <1>2, <1>3 DEF UngetChar

(* Every step keeps the line in order, or tells the program of the end.    *)
LEMMA GoingNext ==
  ASSUME UTypeOK, UTypeOK', Going, UNext
  PROVE  Going' \/ (returned = sent /\ returned' = Append(returned, EOF) /\ EndStart')
<1>1. CASE ReadFile
  BY <1>1, GoingReadByte, GoingReadEnd
<1>2. CASE WritePipe
  BY <1>2, GoingWrite
<1>3. CASE ClosePipe
  BY <1>3, GoingClose
<1>4. CASE GetBuffered
  BY <1>4, GoingGetBuffered
<1>5. CASE GetFirst
  BY <1>5, GoingGetFirst
<1>6. CASE GetSecond
  BY <1>6, GoingGetSecond
<1>7. CASE UngetChar
  BY <1>7, GoingUngetChar
<1> QED
  BY <1>1, <1>2, <1>3, <1>4, <1>5, <1>6, <1>7 DEF UNext, Write, GetChar

(***************************************************************************)
(* The end, and what the program has until then                            *)
(***************************************************************************)
LEMMA GoingNotEnded ==
  UTypeOK /\ Going => ~Ended /\ Received = returned /\ Len(returned) <= Len(sent)
<1> SUFFICES ASSUME UTypeOK, Going
             PROVE  ~Ended /\ Received = returned /\ Len(returned) <= Len(sent)
  OBVIOUS
<1>1. Len(returned) <= Len(sent)
  <2>1. Len(returned) + Len(buffer) <= Copied
    BY DEF Going, ReaderOK, Given
  <2> QED BY <2>1, Numbers
<1>2. ASSUME NEW k \in DOMAIN returned PROVE returned[k] # EOF
  <2>1. k \in 1..Len(returned) /\ k \in 1..Len(sent)
    BY <1>1, Numbers, LenProperties DEF UTypeOK
  <2>2. returned[k] = sent[k] /\ sent[k] \in Byte
    BY <2>1, ElementOfSeq DEF Going, ReaderOK, UTypeOK
  <2>3. EOF \notin Byte
    BY DEF Byte, EOF
  <2> QED BY <2>2, <2>3
<1>3. ~Ended
  BY <1>2 DEF Ended, Ends
<1> QED BY <1>1, <1>3 DEF Received

(* The least element of a set is the one chosen.                           *)
LEMMA LeastChosen ==
  ASSUME NEW T \in SUBSET Nat, NEW f \in T, \A m \in T : f <= m
  PROVE  f = CHOOSE k \in T : \A m \in T : k <= m
<1>1. PICK g : g = CHOOSE k \in T : \A m \in T : k <= m
  OBVIOUS
<1>2. g \in T /\ \A m \in T : g <= m
  BY <1>1, Zenon
<1>3. g <= f /\ f <= g
  BY <1>2
<1>4. g = f
  BY ONLY <1>2, <1>3, f \in T, T \in SUBSET Nat
<1> QED BY <1>1, <1>4

(* Where the first EOF is, if there is one.                                *)
LEMMA EndFacts ==
  ASSUME UTypeOK
  PROVE  /\ Ends = {k \in 1..Len(returned) : returned[k] = EOF} /\ Ends \in SUBSET Nat
         /\ Ended => FirstEnd \in Ends /\ \A m \in Ends : FirstEnd <= m
<1>1. Len(returned) \in Nat /\ DOMAIN returned = 1..Len(returned)
  BY LenProperties DEF UTypeOK
<1>2. Ends = {k \in 1..Len(returned) : returned[k] = EOF} /\ Ends \in SUBSET Nat
  BY <1>1 DEF Ends
<1>3. ASSUME Ended PROVE FirstEnd \in Ends /\ \A m \in Ends : FirstEnd <= m
  <2>1. \E k \in Ends : \A m \in Ends : k <= m
    BY <1>2, <1>3, LeastNatural DEF Ended
  <2> QED BY <2>1, Zenon DEF FirstEnd
<1> QED BY <1>2, <1>3

(* What is in front of an appended element stays.                          *)
LEMMA BeforeAppended ==
  ASSUME NEW S, NEW q \in Seq(S), NEW x \in S, NEW f \in 1..Len(q) + 1
  PROVE  SubSeq(Append(q, x), 1, f - 1) = SubSeq(q, 1, f - 1)
<1>1. Len(q) \in Nat /\ f - 1 \in 0..Len(q)
  BY LenProperties
<1>2. \A k \in 1..f - 1 : k \in 1..Len(q) /\ Append(q, x)[k] = q[k]
  BY <1>1, AppendFacts
<1> QED BY <1>1, <1>2

(* All of a sequence.                                                      *)
LEMMA WholeSeq ==
  ASSUME NEW S, NEW q \in Seq(S)
  PROVE  SubSeq(q, 1, Len(q)) = q
OBVIOUS

(* One more character, and it is the end. *)
LEMMA EndComes ==
  ASSUME UTypeOK, UTypeOK', ~Ended, returned' = Append(returned, EOF)
  PROVE  Ended' /\ FirstEnd' = Len(returned') /\ Received' = returned
<1> DEFINE n == Len(returned)
<1>1. /\ n \in Nat /\ Len(returned') = n + 1 /\ returned'[n + 1] = EOF
      /\ \A k \in 1..n : returned'[k] = returned[k]
  BY Numbers, ByteFacts, AppendFacts DEF UTypeOK
<1>2. /\ Ends = {k \in 1..n : returned[k] = EOF}
      /\ Ends' = {k \in 1..Len(returned') : returned'[k] = EOF} /\ Ends' \in SUBSET Nat
  <2>1. DOMAIN returned' = 1..Len(returned') /\ Len(returned') \in Nat
    BY LenProperties DEF UTypeOK
  <2>2. Ends' = {k \in 1..Len(returned') : returned'[k] = EOF} /\ Ends' \in SUBSET Nat
    BY <2>1 DEF Ends
  <2> QED BY <2>2, EndFacts
<1>3. Ends = {}
  BY DEF Ended
<1>4. Ends' = {n + 1}
  BY <1>1, <1>2, <1>3
<1>5. Ended' /\ FirstEnd' = n + 1
  BY <1>1, <1>4 DEF Ended, FirstEnd
<1>6. SubSeq(returned', 1, (n + 1) - 1) = SubSeq(returned, 1, (n + 1) - 1)
  <2>1. EOF \in Char /\ n + 1 \in 1..Len(returned) + 1 /\ returned \in Seq(Char)
    BY <1>1, ByteFacts DEF UTypeOK
  <2> QED BY <2>1, BeforeAppended
<1>7. SubSeq(returned, 1, (n + 1) - 1) = returned
  <2>1. (n + 1) - 1 = n /\ returned \in Seq(Char)
    BY <1>1 DEF UTypeOK
  <2> QED BY <2>1, WholeSeq
<1> QED BY <1>1, <1>5, <1>6, <1>7 DEF Received

(* Characters after the end change nothing. *)
LEMMA EndStays ==
  ASSUME UTypeOK, UTypeOK', Ended, NEW x \in Char, returned' = Append(returned, x)
  PROVE  Ended' /\ FirstEnd' = FirstEnd /\ Received' = Received
<1> DEFINE n == Len(returned)
<1>1. /\ n \in Nat /\ Len(returned') = n + 1
      /\ \A k \in 1..n : returned'[k] = returned[k]
  BY Numbers, AppendFacts DEF UTypeOK
<1>2. /\ Ends = {k \in 1..n : returned[k] = EOF} /\ Ends \in SUBSET Nat
      /\ FirstEnd \in Ends /\ \A m \in Ends : FirstEnd <= m
  BY EndFacts
<1>3. Ends' = {k \in 1..Len(returned') : returned'[k] = EOF} /\ Ends' \in SUBSET Nat
  <2>1. DOMAIN returned' = 1..Len(returned') /\ Len(returned') \in Nat
    BY LenProperties DEF UTypeOK
  <2> QED BY <2>1 DEF Ends
<1>4. PICK f \in 1..n : f = FirstEnd
  BY <1>2
<1>5. f \in Ends' /\ \A m \in Ends' : f <= m
  <2>1. ASSUME NEW m \in Ends' PROVE m \in Ends \/ m = n + 1
    BY <1>1, <1>2, <1>3, <2>1
  <2>2. f \in Ends'
    BY <1>1, <1>2, <1>3, <1>4
  <2>3. f <= n + 1
    BY <1>1
  <2> QED BY <1>2, <1>4, <2>1, <2>2, <2>3
<1>6. Ended' /\ FirstEnd' = f
  <2>1. f = CHOOSE k \in Ends' : \A m \in Ends' : k <= m
    BY <1>3, <1>5, LeastChosen
  <2> QED BY <1>5, <2>1 DEF Ended, FirstEnd
<1>7. SubSeq(returned', 1, f - 1) = SubSeq(returned, 1, f - 1)
  <2>1. returned \in Seq(Char) /\ f \in 1..Len(returned) + 1
    BY <1>1 DEF UTypeOK
  <2> QED BY <2>1, BeforeAppended
<1> QED BY <1>4, <1>6, <1>7 DEF Received

(* From the end on, the line is used up, and what is left is the           *)
(* simulator's own escape sequence.                                        *)
EndOK ==
  /\ buffer = <<>>
  /\ escaped => pipe = <<>> /\ pending = <<>> /\ writer # "copies"
  /\ escaped /\ Len(returned) = FirstEnd => (is_eof <=> at = "escape")
  /\ Len(returned) > FirstEnd \/ ~escaped => is_eof /\ at = "idle"
  /\ AfterTheEnd

(* The program is told of the end.                                         *)
LEMMA EndOKComes ==
  ASSUME UTypeOK, UTypeOK', ~Ended, returned' = Append(returned, EOF), EndStart'
  PROVE  EndOK'
<1>1. Ended' /\ FirstEnd' = Len(returned') /\ Len(returned') \in Nat
  BY EndComes, LenProperties DEF UTypeOK
<1>2. DOMAIN returned' = 1..Len(returned')
  BY LenProperties DEF UTypeOK
<1>3. AfterTheEnd'
  BY <1>1, <1>2 DEF AfterTheEnd
<1> QED BY <1>1, <1>3 DEF EndOK, EndStart

(* getchar after the end returns one more character. *)
LEMMA EndOKAppend ==
  ASSUME UTypeOK, UTypeOK', Ended, EndOK, NEW x \in Char, returned' = Append(returned, x),
         escaped' = escaped, x = IF escaped /\ Len(returned) = FirstEnd THEN EOF ELSE 1
  PROVE  AfterTheEnd' /\ FirstEnd' = FirstEnd /\ Len(returned') > FirstEnd'
<1>1. FirstEnd' = FirstEnd
  BY EndStays
<1>2. /\ Len(returned) \in Nat /\ Len(returned') = Len(returned) + 1
      /\ returned'[Len(returned) + 1] = x
      /\ \A k \in 1..Len(returned) : returned'[k] = returned[k]
      /\ DOMAIN returned = 1..Len(returned) /\ DOMAIN returned' = 1..Len(returned')
  BY Numbers, AppendFacts, LenProperties, SMTT(30) DEF UTypeOK
<1>3. FirstEnd \in 1..Len(returned)
  BY EndFacts
<1>4. ASSUME NEW k \in DOMAIN returned', k > FirstEnd
      PROVE  returned'[k] = IF escaped /\ k = FirstEnd + 1 THEN EOF ELSE 1
  <2>1. CASE k \in 1..Len(returned)
    <3>1. returned[k] = IF escaped /\ k = FirstEnd + 1 THEN EOF ELSE 1
      <4>1. k \in DOMAIN returned
        BY <1>2, <2>1
      <4> QED BY <1>4, <4>1 DEF EndOK, AfterTheEnd
    <3> QED BY <1>2, <2>1, <3>1
  <2>2. CASE k = Len(returned) + 1
    <3>1. k = FirstEnd + 1 <=> Len(returned) = FirstEnd
      <4>1. PICK f \in Nat, n \in Nat : f = FirstEnd /\ n = Len(returned)
        <5>1. Len(returned) \in Nat /\ FirstEnd \in 1..Len(returned)
          BY ONLY <1>2, <1>3
        <5> QED BY ONLY <5>1
      <4>2. n + 1 = f + 1 <=> n = f
        OBVIOUS
      <4> QED BY ONLY <2>2, <4>1, <4>2
    <3>2. returned'[k] = x
      BY <1>2, <2>2
    <3> QED BY <3>1, <3>2
  <2>3. k \in 1..Len(returned) \/ k = Len(returned) + 1
    BY <1>2
  <2> QED BY ONLY <2>1, <2>2, <2>3
<1>5. AfterTheEnd'
  BY <1>1, <1>4 DEF AfterTheEnd
<1>6. Len(returned') > FirstEnd
  <2>1. Len(returned) \in Nat /\ Len(returned') = Len(returned) + 1
    BY <1>2
  <2> QED BY ONLY <1>3, <2>1
<1> QED BY ONLY <1>1, <1>5, <1>6

(* Every step after the end.                                               *)
LEMMA EndOKNext ==
  ASSUME UTypeOK, UTypeOK', Ended, EndOK, UNext
  PROVE  EndOK'
<1>1. FirstEnd \in 1..Len(returned) /\ Len(returned) \in Nat
  BY EndFacts, Numbers
<1>2. ASSUME returned' = returned, escaped' = escaped
      PROVE  FirstEnd' = FirstEnd /\ AfterTheEnd'
  <2>1. Ends' = Ends
    BY <1>2 DEF Ends
  <2>2. FirstEnd' = FirstEnd
    BY <2>1 DEF FirstEnd
  <2> QED BY <1>2, <2>1, <2>2 DEF EndOK, AfterTheEnd, Ended
<1>3. CASE Write
  <2>1. /\ UNCHANGED <<escaped, is_eof, at, buffer, returned>>
        /\ escaped => pipe' = <<>> /\ pending' = <<>> /\ writer' # "copies"
    BY <1>3 DEF Write, ReadFile, WritePipe, ClosePipe, program, EndOK
  <2>2. FirstEnd' = FirstEnd /\ AfterTheEnd'
    BY <1>2, <2>1
  <2> QED BY <2>1, <2>2 DEF EndOK
<1>4. CASE GetFirst
  <2>1. at = "idle" /\ buffer' = buffer /\ UNCHANGED <<escaped, pending, writer>>
    BY <1>4 DEF GetFirst, line
  <2>2. PICK byte \in Byte :
          /\ Data(byte)
          /\ IF byte = 0
             THEN at' = "escape" /\ returned' = returned
             ELSE returned' = Append(returned, byte) /\ at' = at
    BY <1>4 DEF GetFirst, ESCAPE_BYTE
  <2>3. CASE is_eof
    <3>1. byte = 1 /\ pipe' = pipe /\ is_eof'
      BY <2>2, <2>3 DEF Data
    <3>2. returned' = Append(returned, 1) /\ at' = "idle" /\ 1 \in Char
      <4>1. 1 \in Byte /\ Byte \subseteq Char
        BY ByteFacts
      <4> QED BY <2>1, <2>2, <3>1, <4>1
    <3>3. ~(escaped /\ Len(returned) = FirstEnd)
      BY <2>1, <2>3 DEF EndOK
    <3>4. AfterTheEnd' /\ FirstEnd' = FirstEnd /\ Len(returned') > FirstEnd'
      BY <2>1, <3>2, <3>3, EndOKAppend
    <3>5. Len(returned') # FirstEnd'
      <4>1. Len(returned') \in Nat /\ FirstEnd' \in Nat
        BY <1>1, <3>4, LenProperties DEF UTypeOK
      <4> QED BY ONLY <3>4, <4>1
    <3> QED BY <2>1, <3>1, <3>2, <3>4, <3>5 DEF EndOK
  <2>4. CASE ~is_eof
    <3>1. escaped /\ Len(returned) = FirstEnd /\ pipe = <<>>
      BY <1>1, <2>4 DEF EndOK
    <3>2. byte = 0 /\ is_eof' = TRUE /\ pipe' = pipe
      BY <2>2, <2>4, <3>1 DEF Data
    <3>3. FirstEnd' = FirstEnd /\ AfterTheEnd' /\ returned' = returned /\ at' = "escape"
      BY <1>2, <2>1, <2>2, <3>2
    <3> QED BY <1>1, <2>1, <3>1, <3>2, <3>3 DEF EndOK
  <2> QED BY <2>3, <2>4
<1>5. CASE GetSecond
  <2>1. /\ at = "escape" /\ at' = "idle" /\ buffer' = buffer
        /\ UNCHANGED <<escaped, pending, writer>>
    BY <1>5 DEF GetSecond, line
  <2>2. escaped /\ Len(returned) = FirstEnd /\ is_eof
    BY <1>1, <2>1 DEF EndOK
  <2>3. returned' = Append(returned, EOF) /\ pipe' = pipe /\ is_eof' = is_eof
    BY <1>5, <2>2 DEF GetSecond, Data
  <2>4. AfterTheEnd' /\ FirstEnd' = FirstEnd /\ Len(returned') > FirstEnd'
    BY <2>1, <2>2, <2>3, ByteFacts, EndOKAppend
  <2>5. Len(returned') # FirstEnd'
    <3>1. Len(returned') \in Nat /\ FirstEnd' \in Nat
      BY <1>1, <2>4, LenProperties DEF UTypeOK
    <3> QED BY ONLY <2>4, <3>1
  <2> QED BY <2>1, <2>2, <2>3, <2>4, <2>5 DEF EndOK
<1>6. ~GetBuffered /\ ~UngetChar
  BY DEF GetBuffered, UngetChar, EndOK
<1> QED BY <1>3, <1>4, <1>5, <1>6 DEF UNext, GetChar

(***************************************************************************)
(* The refinement                                                          *)
(***************************************************************************)
IInv == UTypeOK /\ (Ended \/ Going) /\ (Ended => EndOK)

(* What one step does to what the program has been given. *)
LEMMA ReturnedSteps ==
  ASSUME UTypeOK, UNext
  PROVE  /\ sent' = sent
         /\ \/ returned' = returned
            \/ \E x \in Char : returned' = Append(returned, x)
            \/ ~Ended /\ returned # <<>> /\ returned' = Front(returned)
<1>1. CASE Write
  BY <1>1 DEF Write, ReadFile, WritePipe, ClosePipe, program
<1>2. CASE GetBuffered
  <2>1. /\ sent' = sent /\ buffer # <<>>
        /\ returned' = Append(returned, SignedChar(Last(buffer)))
    BY <1>2 DEF GetBuffered, line
  <2>2. SignedChar(Last(buffer)) \in Char
    BY <2>1, FrontFacts, ByteFacts DEF UTypeOK
  <2> QED BY <2>1, <2>2
<1>3. CASE GetFirst
  BY <1>3, ByteFacts DEF GetFirst, line
<1>4. CASE GetSecond
  BY <1>4, ByteFacts DEF GetSecond, line
<1>5. CASE UngetChar
  BY <1>5 DEF UngetChar, line
<1> QED BY <1>1, <1>2, <1>3, <1>4, <1>5 DEF UNext, GetChar

(* Every step of the line is a step of the channel, or none.               *)
LEMMA StepImplements ==
  ASSUME IInv, UTypeOK', [UNext]_uvars
  PROVE  IInv' /\ [Line!CNext]_(Line!cvars)
<1>1. CASE UNCHANGED uvars
  <2>1. Ended' = Ended /\ Received' = Received
    BY <1>1 DEF Ended, Ends, Received, FirstEnd, uvars, program
  <2>2. Going' = Going
    BY <1>1 DEF Going, WriterOK, ReaderOK, EscapeOK, StreamOK, Copied, Given, Mark, ReadIn,
                Start, Widths, uvars, line, program
  <2>3. EndOK' = EndOK
    BY <1>1 DEF EndOK, AfterTheEnd, Ended, Ends, FirstEnd, uvars, line, program
  <2> QED BY <1>1, <2>1, <2>2, <2>3 DEF IInv, Line!cvars, uvars, line
<1>2. CASE UNext /\ Ended
  <2>1. sent' = sent /\ EndOK'
    BY <1>2, ReturnedSteps, EndOKNext DEF IInv
  <2>2. CASE returned' = returned
    <3>1. Ended' = Ended /\ Received' = Received
      BY <2>2 DEF Ended, Ends, Received, FirstEnd
    <3> QED BY <1>2, <2>1, <3>1 DEF IInv, Line!cvars
  <2>3. CASE \E x \in Char : returned' = Append(returned, x)
    <3>1. Ended' /\ Received' = Received
      BY <1>2, <2>3, EndStays DEF IInv
    <3>2. Ended' = Ended
      BY <1>2, <3>1 DEF Ended
    <3> QED BY <2>1, <3>1, <3>2 DEF IInv, Line!cvars
  <2> QED BY <1>2, <2>2, <2>3, ReturnedSteps DEF IInv
<1>3. CASE UNext /\ Going
  <2>1. ~Ended /\ Received = returned /\ sent' = sent
    BY <1>3, GoingNotEnded, ReturnedSteps DEF IInv
  <2>2. CASE Going'
    <3>1. ~Ended' /\ Received' = returned' /\ Len(returned') <= Len(sent)
      <4>1. (UTypeOK /\ Going => ~Ended /\ Received = returned /\ Len(returned) <= Len(sent))'
        BY GoingNotEnded, PTL
      <4> QED BY <2>1, <2>2, <4>1
    <3>2. Ended' = Ended
      BY <2>1, <3>1 DEF Ended
    <3>3. CASE returned' = returned
      BY <2>1, <2>2, <3>1, <3>2, <3>3 DEF IInv, Line!cvars
    <3>4. CASE \E x \in Char : returned' = Append(returned, x)
      <4>1. PICK x \in Char : returned' = Append(returned, x)
        BY <3>4
      <4>2. Len(returned) \in Nat /\ Len(returned') = Len(returned) + 1
            /\ returned'[Len(returned) + 1] = x
        BY <4>1, Numbers, AppendFacts DEF IInv, UTypeOK
      <4>3. Len(returned) + 1 \in 1..Len(returned') /\ Len(returned) < Len(sent)
        BY <3>1, <4>2, Numbers DEF IInv
      <4>4. x = sent[Len(returned) + 1]
        BY <2>1, <2>2, <4>2, <4>3 DEF Going, ReaderOK
      <4>5. Line!Take
        BY <2>1, <3>1, <3>2, <4>1, <4>3, <4>4 DEF Line!Take
      <4> QED BY <2>2, <3>1, <4>5 DEF IInv, Line!CNext
    <3>5. CASE returned # <<>> /\ returned' = Front(returned)
      <4>1. Line!Return
        BY <2>1, <3>1, <3>2, <3>5 DEF Line!Return, Front
      <4> QED BY <2>2, <3>1, <4>1 DEF IInv, Line!CNext
    <3> QED BY <1>3, <3>3, <3>4, <3>5, ReturnedSteps DEF IInv
  <2>3. CASE returned = sent /\ returned' = Append(returned, EOF) /\ EndStart'
    <3>1. Ended' /\ Received' = returned /\ EndOK'
      BY <2>1, <2>3, EndComes, EndOKComes DEF IInv
    <3>2. Ended' = TRUE
      BY <3>1 DEF Ended
    <3>3. Line!End
      BY <2>1, <2>3, <3>1, <3>2 DEF Line!End
    <3> QED BY <3>1, <3>3 DEF IInv, Line!CNext
  <2> QED BY <1>3, <2>2, <2>3, GoingNext DEF IInv
<1> QED BY <1>1, <1>2, <1>3 DEF IInv

(* For every file, every size of the pipe and of the buffer, and every     *)
(* order of the steps: getchar of stdio.c gives the program the bytes of   *)
(* the file that uart_escape or cat sends, one after the other and each of *)
(* them again when it was given back, and EOF after the last one, never    *)
(* before.                                                                 *)
THEOREM UartImplementsChannel == USpec => ImplementsChannel
<1>1. UInit => IInv /\ Line!CInit
  <2> SUFFICES ASSUME UInit PROVE IInv /\ Line!CInit
    OBVIOUS
  <2>1. UTypeOK /\ Going
    BY TypesInit, GoingInit
  <2>2. returned = <<>> /\ ~Ended /\ Received = returned
    BY <2>1, GoingNotEnded DEF UInit
  <2>3. Ended = FALSE
    BY <2>2 DEF Ended
  <2> QED BY <2>1, <2>2, <2>3 DEF IInv, Line!CInit
<1>2. IInv /\ [UNext]_uvars => IInv' /\ [Line!CNext]_(Line!cvars)
  <2>1. IInv /\ [UNext]_uvars => UTypeOK'
    BY TypesNext DEF IInv
  <2> QED BY <2>1, StepImplements
<1> QED BY <1>1, <1>2, PTL DEF USpec, ImplementsChannel, Line!CSpec

(* And whatever a program reads after the end is what AfterTheEnd says,    *)
(* however often it reads.                                                 *)
THEOREM UartAfterTheEnd == USpec => []AfterTheEnd
<1>1. UInit => IInv
  <2> SUFFICES ASSUME UInit PROVE IInv
    OBVIOUS
  <2>1. UTypeOK /\ Going
    BY TypesInit, GoingInit
  <2> QED BY <2>1, GoingNotEnded DEF IInv
<1>2. IInv /\ [UNext]_uvars => IInv'
  <2>1. IInv /\ [UNext]_uvars => UTypeOK'
    BY TypesNext DEF IInv
  <2> QED BY <2>1, StepImplements
<1>3. IInv => AfterTheEnd
  BY DEF IInv, EndOK, AfterTheEnd
<1> QED BY <1>1, <1>2, <1>3, PTL DEF USpec
=============================================================================
