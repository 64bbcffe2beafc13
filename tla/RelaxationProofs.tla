-------------------------- MODULE RelaxationProofs -------------------------
(***************************************************************************)
(* The relaxation is correct for every program and every reach of the      *)
(* short formats: what is shortened stays in reach, and the result does    *)
(* not depend on the order in which branches are shortened.                *)
(***************************************************************************)
EXTENDS Relaxation, LayoutProofs

(* The sizes of the instructions are a sequence as long as the program.    *)
LEMMA SizesType ==
  ASSUME NEW sh \in Seq(ShapeInstr), NEW S
  PROVE  /\ Sizes(sh, S) \in Seq(Nat)
         /\ Len(Sizes(sh, S)) = Len(sh)
         /\ \A k \in 1..Len(sh) :
              Sizes(sh, S)[k] = IF sh[k].kind = "two" \/ k \in S THEN 2 ELSE 4
<1>1. Len(sh) \in Nat /\ DOMAIN sh = 1..Len(sh)
  OBVIOUS
<1>2. Sizes(sh, S) \in [1..Len(sh) -> Nat]
  BY <1>1 DEF Sizes
<1>3. Sizes(sh, S) \in Seq(Nat)
  BY <1>1, <1>2
<1>4. Len(Sizes(sh, S)) = Len(sh)
  BY <1>1, <1>2, <1>3
<1> QED
  BY <1>1, <1>3, <1>4 DEF Sizes

(* A target that is in reach stays in reach when more branches are short.  *)
LEMMA FittingMonotone ==
  ASSUME NEW sh, IsShape(sh), NEW S, NEW T, S \subseteq T
  PROVE  Fitting(sh, S) \subseteq Fitting(sh, T)
<1> SUFFICES ASSUME NEW k \in Fitting(sh, S) PROVE k \in Fitting(sh, T)
  OBVIOUS
<1> DEFINE s == Sizes(sh, S)
           t == Sizes(sh, T)
           a == Addresses(s)
           b == Addresses(t)
           n == Len(sh)
           g == sh[k].target
           r == sh[k].kind
<1>1. /\ sh \in Seq(ShapeInstr) /\ n \in Nat /\ DOMAIN sh = 1..n
      /\ k \in 1..n /\ r \in {"J16", "I16"} /\ g \in 1..n
  <2>1. sh \in Seq(ShapeInstr) /\ k \in DOMAIN sh /\ r \in {"J16", "I16"}
    BY DEF IsShape, Fitting, Branches
  <2>2. g \in DOMAIN sh
    BY <2>1 DEF IsShape
  <2> QED
    BY <2>1, <2>2
<1>2. /\ s \in Seq(Nat) /\ t \in Seq(Nat) /\ Len(s) = n /\ Len(t) = n
      /\ \A j \in 1..n : t[j] <= s[j]
  <2>1. /\ s \in Seq(Nat) /\ Len(s) = n /\ t \in Seq(Nat) /\ Len(t) = n
        /\ \A j \in 1..n : s[j] = IF sh[j].kind = "two" \/ j \in S THEN 2 ELSE 4
        /\ \A j \in 1..n : t[j] = IF sh[j].kind = "two" \/ j \in T THEN 2 ELSE 4
    BY <1>1, SizesType
  <2>2. ASSUME NEW j \in 1..n PROVE t[j] <= s[j]
    <3>1. j \in S => j \in T
      OBVIOUS
    <3>2. /\ s[j] = IF sh[j].kind = "two" \/ j \in S THEN 2 ELSE 4
          /\ t[j] = IF sh[j].kind = "two" \/ j \in T THEN 2 ELSE 4
      BY <2>1
    <3> HIDE DEF s, t
    <3> QED
      BY <3>1, <3>2
  <2> QED
    BY <2>1, <2>2
<1>3. a \in [1..n + 1 -> Nat] /\ b \in [1..n + 1 -> Nat]
  BY <1>2, AddressesSteps
<1>4. a[g] - a[k + 1] \in Reach(r)
  BY DEF Fitting, Offset
<1> HIDE DEF a, b, n
<1>5. b[g] - b[k + 1] \in Reach(r)
  <2>1. g \in 1..n + 1 /\ k + 1 \in 1..n + 1
    BY <1>1
  <2>2. a[g] \in Nat /\ a[k + 1] \in Nat /\ b[g] \in Nat /\ b[k + 1] \in Nat
    BY <1>3, <2>1
  <2>3. \/ 0 <= b[g] - b[k + 1] /\ b[g] - b[k + 1] <= a[g] - a[k + 1]
        \/ 0 <= b[k + 1] - b[g] /\ b[k + 1] - b[g] <= a[k + 1] - a[g]
    <3>1. CASE k + 1 <= g
      <4>1. g \in (k + 1)..n + 1
        BY <1>1, <3>1
      <4> QED
        BY <1>2, <2>1, <4>1, AddressesShrink DEF a, b, n
    <3>2. CASE g < k + 1
      <4>1. k + 1 \in g..n + 1
        BY <1>1, <3>2
      <4> QED
        BY <1>2, <2>1, <4>1, AddressesShrink DEF a, b, n
    <3> QED
      BY <1>1, <3>1, <3>2
  <2>4. PICK m \in Nat : m >= 2 /\ Reach(r) = -m..m - 2
    BY ReachAssumption DEF Reach
  <2>5. b[g] - b[k + 1] \in -m..m - 2
    BY <1>4, <2>2, <2>3, <2>4, StillInReach
  <2> QED
    BY <2>4, <2>5
<1> QED
  BY <1>1, <1>5 DEF Fitting, Offset, Branches, a, b

(* The variables keep their types.                                         *)
THEOREM RelaxationTypes == RSpec => []RTypeOK
<1>1. RInit => RTypeOK
  BY DEF RInit, RTypeOK, Branches
<1>2. RTypeOK /\ [RNext]_rvars => RTypeOK'
  <2> SUFFICES ASSUME RTypeOK, [RNext]_rvars PROVE RTypeOK'
    OBVIOUS
  <2>1. CASE Load
    BY <2>1 DEF Load, RTypeOK, Branches
  <2>2. CASE Shorten
    <3>1. Fitting(shape, short) \subseteq Branches(shape)
      BY DEF Fitting
    <3> QED
      BY <2>2, <3>1 DEF Shorten, RTypeOK, Branches
  <2>3. CASE Finish
    BY <2>3 DEF Finish, RTypeOK, Branches
  <2>4. CASE UNCHANGED rvars
    BY <2>4 DEF rvars, RTypeOK, Branches
  <2> QED
    BY <2>1, <2>2, <2>3, <2>4 DEF RNext
<1> QED
  BY <1>1, <1>2, PTL DEF RSpec

(* A branch that has been shortened is in reach for ever.                  *)
THEOREM ShortenedFits == RSpec => []ShortFits
<1>1. RInit => ShortFits
  BY DEF RInit, ShortFits
<1>2. RTypeOK /\ ShortFits /\ [RNext]_rvars => ShortFits'
  <2> SUFFICES ASSUME RTypeOK, ShortFits, [RNext]_rvars PROVE ShortFits'
    OBVIOUS
  <2>1. CASE Load
    BY <2>1 DEF Load, RTypeOK, ShortFits, Branches
  <2>2. CASE Shorten
    <3>1. PICK S \in SUBSET (Fitting(shape, short) \ short) : short' = short \cup S
      BY <2>2 DEF Shorten
    <3>2. shape' = shape /\ IsShape(shape)
      BY <2>2, ShapesAssumption DEF Shorten, RTypeOK
    <3>3. Fitting(shape, short) \subseteq Fitting(shape, short')
      BY <3>1, <3>2, FittingMonotone
    <3>4. short' \subseteq Fitting(shape, short)
      BY <3>1 DEF ShortFits
    <3> QED
      BY <3>2, <3>3, <3>4 DEF ShortFits
  <2>3. CASE Finish
    BY <2>3 DEF Finish, ShortFits
  <2>4. CASE UNCHANGED rvars
    BY <2>4 DEF rvars, ShortFits
  <2> QED
    BY <2>1, <2>2, <2>3, <2>4 DEF RNext
<1> QED
  BY <1>1, <1>2, RelaxationTypes, PTL DEF RSpec

(* What is short is in every set that contains all that fits under it.     *)
BelowClosed ==
  \A T \in SUBSET Branches(shape) : Fitting(shape, T) \subseteq T => short \subseteq T

(* The result is the least such set: it is the same in whatever order the  *)
(* branches are shortened.                                                 *)
THEOREM OrderIrrelevant == RSpec => []LeastClosed
<1>1. RInit => BelowClosed
  BY DEF RInit, BelowClosed
<1>2. RTypeOK /\ BelowClosed /\ [RNext]_rvars => BelowClosed'
  <2> SUFFICES ASSUME RTypeOK, BelowClosed, [RNext]_rvars PROVE BelowClosed'
    OBVIOUS
  <2>1. CASE Load
    BY <2>1 DEF Load, RTypeOK, BelowClosed, Branches
  <2>2. CASE Shorten
    <3>1. PICK S \in SUBSET (Fitting(shape, short) \ short) : short' = short \cup S
      BY <2>2 DEF Shorten
    <3>2. shape' = shape /\ IsShape(shape)
      BY <2>2, ShapesAssumption DEF Shorten, RTypeOK
    <3>3. ASSUME NEW T \in SUBSET Branches(shape), Fitting(shape, T) \subseteq T
          PROVE  short' \subseteq T
      <4>1. short \subseteq T
        BY <3>3 DEF BelowClosed
      <4>2. Fitting(shape, short) \subseteq Fitting(shape, T)
        BY <3>2, <4>1, FittingMonotone
      <4> QED
        BY <3>1, <3>3, <4>1, <4>2
    <3> QED
      BY <3>2, <3>3 DEF BelowClosed
  <2>3. CASE Finish
    BY <2>3 DEF Finish, BelowClosed
  <2>4. CASE UNCHANGED rvars
    BY <2>4 DEF rvars, BelowClosed
  <2> QED
    BY <2>1, <2>2, <2>3, <2>4 DEF RNext
<1>3. BelowClosed => LeastClosed
  BY DEF BelowClosed, LeastClosed
<1> QED
  BY <1>1, <1>2, <1>3, RelaxationTypes, PTL DEF RSpec
=============================================================================
