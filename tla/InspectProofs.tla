---------------------------- MODULE InspectProofs ---------------------------
(***************************************************************************)
(* The analyzer and the converter on the same program, whatever it is: the *)
(* table of immediates that the analyzer prints is complete and in order,  *)
(* and its estimate of the compressed size bounds what the converter       *)
(* writes. The disassembler prints what the analyzer counts, and prints of *)
(* the output what it prints of the input; the analyzer counts in the      *)
(* output what was written and, where the encoding does not matter, what   *)
(* it counted in the input.                                                *)
(*                                                                         *)
(* The table is a merge of two sorted lists. Its invariant is that what    *)
(* was taken of the lists is in the table and less than what is left. The  *)
(* estimate is a sum over the operations, which the prover has to be shown *)
(* to exist and to grow with every instruction; that it bounds the output  *)
(* follows from the converter's invariant: what is in reach in a program   *)
(* of long instructions is in reach when some of them are short. What a    *)
(* loop has read of a file is described by the places that it has been at; *)
(* those of the output are the addresses of the layout, and what is        *)
(* decoded there means what the converter wrote.                           *)
(***************************************************************************)
EXTENDS Inspect, ConverterProofs, FiniteSetTheorems, SequenceTheorems

(***************************************************************************)
(* Finite sets of numbers in their order                                   *)
(***************************************************************************)

(* The order of the members of a set of numbers. *)
LEMMA NumberOrder ==
  ASSUME NEW S \in SUBSET Int
  PROVE  /\ \A x \in S : ~(x < x)
         /\ \A x, y \in S : (x < y \/ x = y \/ y < x) /\ (x <= y <=> ~(y < x))
         /\ \A x, y, z \in S : x < y /\ y < z => x < z
<1>1. \A x \in S : x \in Int
  OBVIOUS
<1>2. /\ \A x \in Int : ~(x < x)
      /\ \A x, y \in Int : (x < y \/ x = y \/ y < x) /\ (x <= y <=> ~(y < x))
      /\ \A x, y, z \in Int : x < y /\ y < z => x < z
  OBVIOUS
<1> QED
  BY <1>1, <1>2, Zenon

(* A finite set of numbers that is not empty has a least member. *)
LEMMA LeastInteger ==
  ASSUME NEW S \in SUBSET Int, IsFiniteSet(S), S # {}
  PROVE  \E m \in S : \A x \in S : m <= x
<1> DEFINE Below(x) == {y \in S : y < x}
           N == {Cardinality(Below(x)) : x \in S}
<1>1. \A x \in S : IsFiniteSet(Below(x)) /\ Cardinality(Below(x)) \in Nat
  BY FS_Subset, FS_CardinalityType
<1>2. PICK n \in N : \A l \in N : n <= l
  <2>1. N \in SUBSET Nat /\ N # {}
    BY <1>1
  <2> HIDE DEF N
  <2> QED BY <2>1, LeastNatural
<1>3. PICK m \in S : n = Cardinality(Below(m))
  BY <1>2
<1>4. ASSUME NEW x \in S, x < m PROVE FALSE
  <2>1. Below(x) \in SUBSET Below(m) /\ x \in Below(m) /\ x \notin Below(x)
    BY <1>4, NumberOrder, Zenon
  <2>2. /\ Cardinality(Below(x)) <= Cardinality(Below(m))
        /\ Cardinality(Below(m)) # Cardinality(Below(x))
    <3> HIDE DEF Below
    <3> QED BY <1>1, <2>1, FS_Subset
  <2>3. Cardinality(Below(m)) <= Cardinality(Below(x))
    BY <1>2, <1>3
  <2> QED BY <1>1, <2>2, <2>3
<1> QED
  BY <1>4

(* How many members of a set are less than x. *)
Rank(S, x) == Cardinality({y \in S : y < x})

(* The rank grows with the member. *)
LEMMA RankGrows ==
  ASSUME NEW S \in SUBSET Int, IsFiniteSet(S), NEW x \in S, NEW y \in S
  PROVE  /\ Rank(S, x) \in Nat /\ Rank(S, x) < Cardinality(S) /\ Cardinality(S) \in Nat
         /\ x < y => Rank(S, x) < Rank(S, y)
<1> DEFINE Below(z) == {v \in S : v < z}
<1>1. /\ Below(x) \in SUBSET S /\ x \notin Below(x)
      /\ x < y => Below(x) \in SUBSET Below(y) /\ x \in Below(y)
  BY NumberOrder, Zenon
<1>2. IsFiniteSet(Below(x)) /\ IsFiniteSet(Below(y))
  BY FS_Subset
<1>3. Rank(S, x) = Cardinality(Below(x)) /\ Rank(S, y) = Cardinality(Below(y))
  BY DEF Rank
<1> HIDE DEF Below
<1>4. Cardinality(S) \in Nat /\ Cardinality(Below(x)) \in Nat /\ Cardinality(Below(y)) \in Nat
  BY <1>2, FS_CardinalityType
<1>5. Cardinality(Below(x)) <= Cardinality(S) /\ Cardinality(Below(x)) # Cardinality(S)
  BY <1>1, FS_Subset
<1>6. x < y => /\ Cardinality(Below(x)) <= Cardinality(Below(y))
               /\ Cardinality(Below(x)) # Cardinality(Below(y))
  BY <1>1, <1>2, FS_Subset
<1> QED
  BY <1>3, <1>4, <1>5, <1>6

(* There is one member of every rank. *)
LEMMA RankTaken ==
  ASSUME NEW S \in SUBSET Int, IsFiniteSet(S), NEW n \in Nat, n < Cardinality(S)
  PROVE  \E x \in S : Rank(S, x) = n
<1> DEFINE T == {k \in Nat : k < Cardinality(S) /\ ~\E x \in S : Rank(S, x) = k}
<1>1. SUFFICES ASSUME T # {} PROVE FALSE
  OBVIOUS
<1>2. PICK k \in T : \A l \in T : k <= l
  <2>1. T \in SUBSET Nat
    OBVIOUS
  <2> HIDE DEF T
  <2> QED BY <1>1, <2>1, LeastNatural
<1>3. k \in Nat /\ k < Cardinality(S) /\ Cardinality(S) \in Nat /\ S # {}
  BY FS_CardinalityType, FS_EmptySet
<1>4. CASE k = 0
  <2>1. PICK m \in S : \A x \in S : m <= x
    BY <1>3, LeastInteger
  <2>2. {y \in S : y < m} = {}
    BY <2>1, NumberOrder, Zenon
  <2> QED
    BY <1>2, <1>4, <2>2, FS_EmptySet DEF Rank
<1>5. CASE k # 0
  <2>1. k - 1 \in Nat /\ k - 1 < Cardinality(S) /\ ~(k <= k - 1)
    BY <1>3, <1>5
  <2>2. PICK v \in S : Rank(S, v) = k - 1
    BY <1>2, <2>1
  <2>9. v \in Int /\ ~(v < v)
    BY NumberOrder
  <2> DEFINE L == {y \in S : y < v}
             G == {y \in S : v < y}
  <2>3. /\ IsFiniteSet(L) /\ IsFiniteSet(L \cup {v}) /\ Cardinality(L) = k - 1
        /\ Cardinality(L \cup {v}) = k
    <3>1. L \in SUBSET S /\ Cardinality(L) = k - 1 /\ v \notin L
      BY <2>2, <2>9 DEF Rank
    <3> HIDE DEF L
    <3>2. IsFiniteSet(L)
      BY <3>1, FS_Subset
    <3>3. IsFiniteSet(L \cup {v}) /\ Cardinality(L \cup {v}) = Cardinality(L) + 1
      BY <3>1, <3>2, FS_AddElement
    <3>4. k - 1 + 1 = k
      BY <1>3
    <3> QED BY <3>1, <3>2, <3>3, <3>4
  <2>4. G # {} /\ G \in SUBSET Int /\ IsFiniteSet(G)
    <3>1. /\ L \cup {v} \subseteq S
          /\ \A y \in S : y \in G \/ y \in L \cup {v}
      BY NumberOrder, Zenon
    <3>2. S # L \cup {v}
      BY <1>3, <2>3
    <3>3. G \in SUBSET S
      OBVIOUS
    <3> HIDE DEF G, L
    <3> QED
      BY <3>1, <3>2, <3>3, FS_Subset
  <2>5. PICK m \in G : \A x \in G : m <= x
    <3> HIDE DEF G
    <3> QED BY <2>4, LeastInteger
  <2>6. {y \in S : y < m} = L \cup {v} /\ m \in S
    <3>1. m \in S /\ v < m
      OBVIOUS
    <3>2. \A y \in S : y \in G \/ y \in L \cup {v}
      BY NumberOrder, Zenon
    <3>3. \A y \in S : y < m => y \notin G
      BY <2>5, <3>1, NumberOrder, Zenon
    <3>4. \A y \in L \cup {v} : y \in S /\ y < m
      BY <3>1, NumberOrder, Zenon
    <3> QED
      BY <3>1, <3>2, <3>3, <3>4, Zenon
  <2> QED
    BY <1>2, <2>3, <2>6 DEF Rank
<1> QED
  BY <1>4, <1>5

(* The members of a set that come first: those with a lower rank than n. *)
Before(S, n) == {x \in S : Rank(S, x) < n}

(* None come before the first, and all of them when n is their number. *)
LEMMA BeforeEnds ==
  ASSUME NEW S \in SUBSET Int, IsFiniteSet(S), NEW n \in Nat
  PROVE  /\ Before(S, 0) = {}
         /\ ~(n < Cardinality(S)) => Before(S, n) = S
<1>1. \A x \in S : Rank(S, x) \in Nat /\ Rank(S, x) < Cardinality(S) /\ Cardinality(S) \in Nat
  BY RankGrows
<1>2. \A x \in S : ~(Rank(S, x) < 0)
  BY <1>1
<1>3. ASSUME ~(n < Cardinality(S)) PROVE \A x \in S : Rank(S, x) < n
  BY <1>1, <1>3
<1> QED
  BY <1>2, <1>3, Zenon DEF Before

(* The member of rank n comes next, and is the least of those left. *)
LEMMA NextTaken ==
  ASSUME NEW S \in SUBSET Int, IsFiniteSet(S), NEW n \in Nat, NEW m \in S, Rank(S, m) = n
  PROVE  /\ m \notin Before(S, n)
         /\ Before(S, n + 1) = Before(S, n) \cup {m}
         /\ \A y \in S \ Before(S, n) : m <= y
<1>1. \A x \in S : Rank(S, x) \in Nat
  BY RankGrows
<1>2. \A x \in S : (x < m => Rank(S, x) < n) /\ (m < x => n < Rank(S, x))
  BY RankGrows
<1>3. \A x \in S : x < m \/ x = m \/ m < x
  BY NumberOrder, Zenon
<1>4. \A x \in S : Rank(S, x) < n + 1 <=> Rank(S, x) < n \/ x = m
  BY <1>1, <1>2, <1>3
<1>5. m \notin Before(S, n)
  BY DEF Before
<1>6. Before(S, n + 1) = Before(S, n) \cup {m}
  BY <1>4 DEF Before
<1>7. ASSUME NEW y \in S, y \notin Before(S, n) PROVE ~(y < m)
  BY <1>2, <1>7 DEF Before
<1> QED
  BY <1>5, <1>6, <1>7, NumberOrder, Zenon

(***************************************************************************)
(* Two sorted lists merged: what has been taken of both, and what is left. *)
(***************************************************************************)
TakenOf(S, n, T, m) == Before(S, n) \cup Before(T, m)
LeftOf(S, n, T, m)  == (S \ Before(S, n)) \cup (T \ Before(T, m))
TakenFirst(S, n, T, m) == \A x \in TakenOf(S, n, T, m), y \in LeftOf(S, n, T, m) : x < y

(* The next number of one list is taken when it is less than what is left  *)
(* of the other: that list never had it.                                   *)
LEMMA TakeOne ==
  ASSUME NEW S \in SUBSET Int, IsFiniteSet(S), NEW n \in Nat, NEW x \in S, Rank(S, x) = n,
         NEW T \in SUBSET Int, NEW m \in Nat, \A y \in T \ Before(T, m) : x < y,
         TakenFirst(S, n, T, m)
  PROVE  /\ TakenOf(S, n + 1, T, m) = TakenOf(S, n, T, m) \cup {x}
         /\ LeftOf(S, n + 1, T, m) = LeftOf(S, n, T, m) \ {x}
         /\ x \in LeftOf(S, n, T, m) /\ x \notin T
         /\ \A y \in LeftOf(S, n, T, m) : x <= y
<1>1. /\ x \notin Before(S, n) /\ Before(S, n + 1) = Before(S, n) \cup {x}
      /\ \A y \in S \ Before(S, n) : x <= y
  BY NextTaken
<1>2. x \in Int /\ ~(x < x)
  BY NumberOrder
<1>3. x \in LeftOf(S, n, T, m)
  BY <1>1 DEF LeftOf
<1>4. x \notin T
  BY <1>2, <1>3 DEF TakenFirst, TakenOf
<1>5. TakenOf(S, n + 1, T, m) = TakenOf(S, n, T, m) \cup {x}
  BY <1>1, Zenon DEF TakenOf
<1>6. LeftOf(S, n + 1, T, m) = LeftOf(S, n, T, m) \ {x}
  BY <1>1, <1>4, Zenon DEF LeftOf
<1>7. \A y \in T \ Before(T, m) : x <= y
  <2>1. \A y \in T : y \in Int
    OBVIOUS
  <2> QED BY <1>2, <2>1
<1> QED
  BY <1>1, <1>3, <1>4, <1>5, <1>6, <1>7, Zenon DEF LeftOf

(* A number that is the next of both lists is taken from both. *)
LEMMA TakeBoth ==
  ASSUME NEW S \in SUBSET Int, IsFiniteSet(S), NEW n \in Nat, NEW x \in S, Rank(S, x) = n,
         NEW T \in SUBSET Int, IsFiniteSet(T), NEW m \in Nat, x \in T, Rank(T, x) = m
  PROVE  /\ TakenOf(S, n + 1, T, m + 1) = TakenOf(S, n, T, m) \cup {x}
         /\ LeftOf(S, n + 1, T, m + 1) = LeftOf(S, n, T, m) \ {x}
         /\ x \in LeftOf(S, n, T, m)
         /\ \A y \in LeftOf(S, n, T, m) : x <= y
<1>1. /\ x \notin Before(S, n) /\ Before(S, n + 1) = Before(S, n) \cup {x}
      /\ \A y \in S \ Before(S, n) : x <= y
  BY NextTaken
<1>2. /\ x \notin Before(T, m) /\ Before(T, m + 1) = Before(T, m) \cup {x}
      /\ \A y \in T \ Before(T, m) : x <= y
  BY NextTaken
<1>3. TakenOf(S, n + 1, T, m + 1) = TakenOf(S, n, T, m) \cup {x}
  BY <1>1, <1>2, Zenon DEF TakenOf
<1>4. LeftOf(S, n + 1, T, m + 1) = LeftOf(S, n, T, m) \ {x}
  BY <1>1, <1>2, Zenon DEF LeftOf
<1> QED
  BY <1>1, <1>2, <1>3, <1>4, Zenon DEF LeftOf

(***************************************************************************)
(* The table                                                               *)
(***************************************************************************)
TableRow == [value : Int, unsigned : Nat, signed : Nat]
ValuesOf(rs) == {rs[k].value : k \in DOMAIN rs}
Ascending(rs) == \A k \in 1..Len(rs) - 1 : rs[k].value < rs[k + 1].value
CountedIn(rs, ulist, slist) ==
  \A k \in DOMAIN rs : /\ rs[k].unsigned = Times(rs[k].value, ulist)
                       /\ rs[k].signed = Times(rs[k].value, slist)

(* A row of a greater value, with its counts, can be put at the end. *)
LEMMA RowAdded ==
  ASSUME NEW rs \in Seq(TableRow), NEW r \in TableRow, NEW ulist, NEW slist,
         Ascending(rs), CountedIn(rs, ulist, slist), \A x \in ValuesOf(rs) : x < r.value,
         r.unsigned = Times(r.value, ulist), r.signed = Times(r.value, slist)
  PROVE  /\ Append(rs, r) \in Seq(TableRow) /\ Ascending(Append(rs, r))
         /\ CountedIn(Append(rs, r), ulist, slist)
         /\ ValuesOf(Append(rs, r)) = ValuesOf(rs) \cup {r.value}
<1> DEFINE q == Append(rs, r)
           n == Len(rs)
<1>1. /\ q \in Seq(TableRow) /\ Len(q) = n + 1 /\ n \in Nat /\ q[n + 1] = r
      /\ \A k \in 1..n : q[k] = rs[k]
      /\ DOMAIN q = 1..n + 1 /\ DOMAIN rs = 1..n
  OBVIOUS
<1> HIDE DEF q, n
<1>2. ASSUME NEW k \in 1..Len(q) - 1 PROVE q[k].value < q[k + 1].value
  <2>1. CASE k = n
    <3>1. k \in DOMAIN rs /\ q[k] = rs[k] /\ q[k + 1] = r
      BY <1>1, <2>1
    <3> QED
      BY <3>1 DEF ValuesOf
  <2>2. CASE k # n
    <3>1. k \in 1..n - 1 /\ k \in 1..n /\ k + 1 \in 1..n
      BY <1>1, <2>2
    <3>2. q[k] = rs[k] /\ q[k + 1] = rs[k + 1]
      BY <1>1, <3>1
    <3> QED
      BY <3>1, <3>2 DEF Ascending, n
  <2> QED
    BY <2>1, <2>2
<1>3. ASSUME NEW k \in DOMAIN q
      PROVE  /\ q[k].unsigned = Times(q[k].value, ulist)
             /\ q[k].signed = Times(q[k].value, slist)
  <2>1. CASE k = n + 1
    BY <1>1, <2>1
  <2>2. CASE k # n + 1
    <3>1. k \in DOMAIN rs /\ q[k] = rs[k]
      BY <1>1, <2>2
    <3> QED
      BY <3>1 DEF CountedIn
  <2> QED
    BY <2>1, <2>2
<1>4. ValuesOf(q) = ValuesOf(rs) \cup {r.value}
  <2>1. ASSUME NEW k \in DOMAIN q PROVE q[k].value \in ValuesOf(rs) \cup {r.value}
    <3>1. k = n + 1 \/ (k \in DOMAIN rs /\ q[k] = rs[k])
      BY <1>1
    <3> QED
      BY <1>1, <3>1 DEF ValuesOf
  <2>2. ASSUME NEW k \in DOMAIN rs PROVE rs[k].value \in ValuesOf(q)
    <3>1. k \in DOMAIN q /\ q[k] = rs[k]
      BY <1>1
    <3> QED
      BY <3>1 DEF ValuesOf
  <2>3. r.value \in ValuesOf(q)
    <3>1. n + 1 \in DOMAIN q
      BY <1>1
    <3> QED
      BY <1>1, <3>1 DEF ValuesOf
  <2>4. ValuesOf(q) \subseteq ValuesOf(rs) \cup {r.value}
    BY <2>1 DEF ValuesOf
  <2>5. ValuesOf(rs) \subseteq ValuesOf(q)
    BY <2>2 DEF ValuesOf
  <2> QED
    BY <2>3, <2>4, <2>5
<1> QED
  BY <1>1, <1>2, <1>3, <1>4 DEF q, Ascending, CountedIn

(***************************************************************************)
(* The statistics                                                          *)
(***************************************************************************)
(* A list has finitely many values, each with how often it was counted.    *)
IsList(l) == IsFiniteSet(DOMAIN l) /\ l \in [DOMAIN l -> Nat]

(* Counting a value one more time. *)
LEMMA CountedOnce ==
  ASSUME NEW l, IsList(l), NEW v
  PROVE  /\ DOMAIN (l (+) SetToBag({v})) = DOMAIN l \cup {v}
         /\ IsList(l (+) SetToBag({v}))
         /\ \A x : Times(x, l (+) SetToBag({v})) = Times(x, l) + IF x = v THEN 1 ELSE 0
<1> DEFINE b == SetToBag({v})
           q == l (+) b
<1>1. b = [e \in {v} |-> 1]
  BY DEF SetToBag
<1>2. q = [e \in DOMAIN l \cup DOMAIN b |-> (IF e \in DOMAIN l THEN l[e] ELSE 0)
                                           + (IF e \in DOMAIN b THEN b[e] ELSE 0)]
  BY DEF (+)
<1> HIDE DEF b, q
<1>3. DOMAIN q = DOMAIN l \cup {v}
  BY <1>1, <1>2
<1>4. \A x \in DOMAIN l : l[x] \in Nat
  BY DEF IsList
<1>5. \A x \in DOMAIN q : q[x] = Times(x, l) + IF x = v THEN 1 ELSE 0
  BY <1>1, <1>2, <1>3 DEF Times
<1>6. \A x : Times(x, l) \in Nat
  BY <1>4 DEF Times
<1>7. q \in [DOMAIN q -> Nat]
  <2>1. \A x \in DOMAIN q : q[x] \in Nat
    BY <1>5, <1>6
  <2>2. q = [x \in DOMAIN q |-> q[x]]
    BY <1>2
  <2> QED
    BY <2>1, <2>2
<1>8. IsFiniteSet(DOMAIN q)
  <2>1. IsFiniteSet(DOMAIN l)
    BY DEF IsList
  <2>2. IsFiniteSet(DOMAIN l \cup {v})
    BY <2>1, FS_AddElement
  <2> QED
    BY <1>3, <2>2
<1>9. \A x : Times(x, q) = Times(x, l) + IF x = v THEN 1 ELSE 0
  BY <1>3, <1>5 DEF Times
<1> QED
  BY <1>3, <1>7, <1>8, <1>9 DEF b, q, IsList

(* Counting nothing. *)
LEMMA CountedNot ==
  ASSUME NEW l, IsList(l)
  PROVE  l (+) EmptyBag = l
<1>1. DOMAIN EmptyBag = {}
  BY DEF EmptyBag, SetToBag
<1>2. l (+) EmptyBag = [e \in DOMAIN l |-> l[e] + 0]
  BY <1>1 DEF (+)
<1>3. l = [e \in DOMAIN l |-> l[e]] /\ \A e \in DOMAIN l : l[e] + 0 = l[e]
  BY DEF IsList
<1> QED
  BY <1>2, <1>3

StatFields == DOMAIN NoStat

(* The fields of the statistics: each is there under its own name only. *)
LEMMA NamesOfFields ==
  StatFields = {"total_instr", "freq", "freq_comp", "branch_list", "uimm_list", "simm_list",
                "mem_stat", "prev", "nops", "rs_count", "rd_count"}
BY DEF StatFields, NoStat

(* What update_* leave of four of the fields. *)
LEMMA UpdatedFields ==
  ASSUME NEW s, DOMAIN s = StatFields, NEW i
  PROVE  LET t == Updated(s, i)
             When(p, b) == IF p THEN SetToBag({b}) ELSE EmptyBag
         IN /\ DOMAIN t = StatFields
            /\ t.total_instr = s.total_instr
            /\ t.freq_comp = s.freq_comp (+) When(is_compressible(i), i.op)
            /\ t.uimm_list = s.uimm_list (+) When(contains_imm(i.op), i.imm)
            /\ t.simm_list = s.simm_list (+) When(contains_simm(i.op), Int16(i.simm))
<1> DEFINE r == NopStat(s, i)
           When(p, b) == IF p THEN SetToBag({b}) ELSE EmptyBag
<1>1. /\ DOMAIN r = StatFields /\ r.total_instr = s.total_instr /\ r.freq_comp = s.freq_comp
      /\ r.uimm_list = s.uimm_list /\ r.simm_list = s.simm_list
  BY NamesOfFields DEF NopStat
<1>2. Updated(s, i) =
        [r EXCEPT
          !.freq        = @ (+) SetToBag({i.op}),
          !.freq_comp   = @ (+) When(is_compressible(i), i.op),
          !.branch_list = @ (+) SetToBag(BranchDistances(i)),
          !.mem_stat    = @ (+) SetToBag(StackAccesses(i)),
          !.uimm_list   = @ (+) When(contains_imm(i.op), i.imm),
          !.simm_list   = @ (+) When(contains_simm(i.op), Int16(i.simm)),
          !.rs_count    = @ (+) Sources(i),
          !.rd_count    = @ (+) SetToBag(Destinations(i))]
  BY Zenon DEF Updated
<1> HIDE DEF r, When
<1>3. /\ DOMAIN Updated(s, i) = DOMAIN r
      /\ Updated(s, i).total_instr = r.total_instr
  BY <1>1, <1>2, NamesOfFields
<1>4. Updated(s, i).freq_comp = r.freq_comp (+) When(is_compressible(i), i.op)
  BY <1>1, <1>2, NamesOfFields
<1>5. /\ Updated(s, i).uimm_list = r.uimm_list (+) When(contains_imm(i.op), i.imm)
      /\ Updated(s, i).simm_list = r.simm_list (+) When(contains_simm(i.op), Int16(i.simm))
  BY <1>1, <1>2, NamesOfFields
<1> QED
  BY <1>1, <1>3, <1>4, <1>5 DEF When

(***************************************************************************)
(* The analyzer                                                            *)
(***************************************************************************)

(* What the analyzer decodes of a file is an instruction.                  *)
LEMMA AnalyzedType ==
  ASSUME contents \in Seq(Half), at \in Nat, More,
         NEW i, i = Analyzed(Decoded(contents, at + 1, options.v2).instr)
  PROVE  i \in StructInstr
<1> DEFINE k == at + 1
<1>1. /\ k \in Nat /\ k \in 1..Len(contents) /\ Len(contents) \in Nat
      /\ ~options.v2 => k + 1 \in 1..Len(contents)
  <2>1. Len(contents) \in Nat
    OBVIOUS
  <2> QED
    BY <2>1 DEF More, HasInstr
<1> HIDE DEF k
<1>2. contents[k] \in Half
  BY <1>1
<1>3. CASE options.v2
  <2>1. V2Code(contents, k) \in Word
    <3>1. k < Len(contents) => k + 1 \in 1..Len(contents)
      BY <1>1
    <3>2. 0 \in Half
      BY HalfFits
    <3>3. contents[IF k < Len(contents) THEN k + 1 ELSE k] \in Half
      BY <1>1, <1>2, <3>1
    <3> QED
      BY <1>2, <3>2, <3>3, WordParts DEF V2Code
  <2>2. Decoded(contents, k, options.v2).instr \in StructInstr
    BY <1>3, <2>1, ParseV2Type DEF Decoded
  <2> QED
    BY <2>2, PseudoType DEF Analyzed, Rewritten, k
<1>4. CASE ~options.v2
  <2>1. <<contents[k], contents[k + 1]>> \in Word
    BY <1>1, <1>2, <1>4, WordParts
  <2>2. Decoded(contents, k, options.v2).instr \in StructInstr
    BY <1>4, <2>1, ParseType DEF Decoded
  <2> QED
    BY <2>2, PseudoType DEF Analyzed, Rewritten, k
<1> QED
  BY <1>3, <1>4

(* The statistics are lists of numbers. *)
StatOK(s) ==
  /\ DOMAIN s = StatFields
  /\ s.total_instr \in Nat
  /\ IsList(s.freq_comp) /\ DOMAIN s.freq_comp \subseteq Operation
  /\ IsList(s.uimm_list) /\ DOMAIN s.uimm_list \subseteq Int
  /\ IsList(s.simm_list) /\ DOMAIN s.simm_list \subseteq Int

(* The analyzer starts with empty lists. *)
LEMMA NoStatOK == StatOK(NoStat)
<1>1. DOMAIN EmptyBag = {} /\ EmptyBag \in [{} -> Nat]
  BY DEF EmptyBag, SetToBag
<1>2. IsList(EmptyBag)
  BY <1>1, FS_EmptySet DEF IsList
<1>3. /\ NoStat.total_instr = 0 /\ NoStat.freq_comp = EmptyBag
      /\ NoStat.uimm_list = EmptyBag /\ NoStat.simm_list = EmptyBag
  BY DEF NoStat
<1> QED
  BY <1>1, <1>2, <1>3 DEF StatOK, StatFields

(* An entry of an immediate or of an operation keeps them so. *)
LEMMA UpdatedOK ==
  ASSUME NEW s, StatOK(s), NEW i \in StructInstr
  PROVE  StatOK(Updated(s, i))
<1> DEFINE When(p, b) == IF p THEN SetToBag({b}) ELSE EmptyBag
<1>1. /\ DOMAIN Updated(s, i) = StatFields
      /\ Updated(s, i).total_instr = s.total_instr
      /\ Updated(s, i).freq_comp = s.freq_comp (+) When(is_compressible(i), i.op)
      /\ Updated(s, i).uimm_list = s.uimm_list (+) When(contains_imm(i.op), i.imm)
      /\ Updated(s, i).simm_list = s.simm_list (+) When(contains_simm(i.op), Int16(i.simm))
  BY UpdatedFields DEF StatOK
<1>2. i.op \in Operation /\ i.imm \in Int /\ Int16(i.simm) \in Int
  <2>1. i.op \in Operation /\ i.imm \in Half /\ i.simm \in Int
    BY DEF StructInstr
  <2> QED
    BY <2>1, HalfBounds DEF Int16
<1>3. ASSUME NEW l, IsList(l), NEW S, DOMAIN l \subseteq S, NEW p \in BOOLEAN, NEW b \in S
      PROVE  IsList(l (+) When(p, b)) /\ DOMAIN (l (+) When(p, b)) \subseteq S
  <2>1. CASE p
    <3>1. When(p, b) = SetToBag({b})
      BY <2>1
    <3> HIDE DEF When
    <3>2. IsList(l (+) SetToBag({b})) /\ DOMAIN (l (+) SetToBag({b})) = DOMAIN l \cup {b}
      BY <1>3, CountedOnce
    <3> QED
      BY <1>3, <3>1, <3>2
  <2>2. CASE ~p
    BY <1>3, <2>2, CountedNot
  <2> QED
    BY <2>1, <2>2
<1> HIDE DEF When
<1>7. /\ is_compressible(i) \in BOOLEAN /\ contains_imm(i.op) \in BOOLEAN
      /\ contains_simm(i.op) \in BOOLEAN
  BY DEF is_compressible, is_compressible_simple, contains_imm, contains_simm
<1>4. IsList(s.freq_comp (+) When(is_compressible(i), i.op))
      /\ DOMAIN (s.freq_comp (+) When(is_compressible(i), i.op)) \subseteq Operation
  BY <1>2, <1>3, <1>7 DEF StatOK
<1>5. IsList(s.uimm_list (+) When(contains_imm(i.op), i.imm))
      /\ DOMAIN (s.uimm_list (+) When(contains_imm(i.op), i.imm)) \subseteq Int
  BY <1>2, <1>3, <1>7 DEF StatOK
<1>6. IsList(s.simm_list (+) When(contains_simm(i.op), Int16(i.simm)))
      /\ DOMAIN (s.simm_list (+) When(contains_simm(i.op), Int16(i.simm))) \subseteq Int
  BY <1>2, <1>3, <1>7 DEF StatOK
<1> QED
  BY <1>1, <1>4, <1>5, <1>6 DEF StatOK

UValues == DOMAIN stat.uimm_list
SValues == DOMAIN stat.simm_list
Taken   == TakenOf(UValues, u_iter, SValues, s_iter)
Left    == LeftOf(UValues, u_iter, SValues, s_iter)

(* While the table is printed, it has in ascending order what was taken of *)
(* the lists, and all of that is less than what is left of them.           *)
MergeOK ==
  stage \in {"merge", "done"} =>
    /\ u_iter \in Nat /\ s_iter \in Nat
    /\ rows \in Seq(TableRow)
    /\ Ascending(rows)
    /\ CountedIn(rows, stat.uimm_list, stat.simm_list)
    /\ ValuesOf(rows) = Taken
    /\ \A x \in Taken, y \in Left : x < y
    /\ stage = "done" => ~ULeft /\ ~SLeft

AnalyzerOK ==
  /\ contents \in Seq(Half)
  /\ at \in Nat
  /\ options.imm_stat = TRUE
  /\ StatOK(stat)
  /\ MergeOK

(* A call of the analyzer starts in it. *)
LEMMA StartedOK ==
  ASSUME NEW file \in Seq(Half), NEW compressed, StartAnalyzer(file, Command(compressed))
  PROVE  AnalyzerOK'
<1>1. /\ contents' = file /\ at' = 0 /\ options'.imm_stat = TRUE /\ stat' = NoStat
      /\ stage' = "read"
  BY DEF StartAnalyzer, Started, Command
<1> QED
  BY <1>1, NoStatOK DEF AnalyzerOK, MergeOK

(* The facts about the two lists. *)
LEMMA ListFacts ==
  ASSUME StatOK(stat)
  PROVE  /\ IsFiniteSet(UValues) /\ UValues \in SUBSET Int
         /\ IsFiniteSet(SValues) /\ SValues \in SUBSET Int
         /\ \A x : Times(x, stat.uimm_list) \in Nat /\ Times(x, stat.simm_list) \in Nat
         /\ \A x : x \notin UValues => Times(x, stat.uimm_list) = 0
         /\ \A x : x \notin SValues => Times(x, stat.simm_list) = 0
<1>1. /\ \A x \in DOMAIN stat.uimm_list : stat.uimm_list[x] \in Nat
      /\ \A x \in DOMAIN stat.simm_list : stat.simm_list[x] \in Nat
  BY DEF StatOK, IsList
<1> QED
  BY <1>1 DEF StatOK, IsList, UValues, SValues, Times

(* An entry of a list has the rank that it is at. *)
LEMMA EntryRank ==
  ASSUME NEW l, IsFiniteSet(DOMAIN l), DOMAIN l \in SUBSET Int, NEW n \in Nat,
         n < Cardinality(DOMAIN l)
  PROVE  Entry(l, n) \in DOMAIN l /\ Rank(DOMAIN l, Entry(l, n)) = n
<1>1. \E x \in DOMAIN l : Cardinality({y \in DOMAIN l : y < x}) = n
  BY RankTaken DEF Rank
<1>2. Entry(l, n) = CHOOSE x \in DOMAIN l : Cardinality({y \in DOMAIN l : y < x}) = n
  BY DEF Entry, BagToSet
<1> QED
  BY <1>1, <1>2, Zenon DEF Rank

(* So the current values of the lists are the next ones of them. *)
LEMMA CurrentValues ==
  ASSUME AnalyzerOK, stage = "merge"
  PROVE  /\ ULeft => uimm \in UValues /\ Rank(UValues, uimm) = u_iter
         /\ SLeft => simm \in SValues /\ Rank(SValues, simm) = s_iter
         /\ ~ULeft => Before(UValues, u_iter) = UValues
         /\ ~SLeft => Before(SValues, s_iter) = SValues
<1>1. u_iter \in Nat /\ s_iter \in Nat
  BY DEF AnalyzerOK, MergeOK
<1>2. /\ IsFiniteSet(UValues) /\ UValues \in SUBSET Int
      /\ IsFiniteSet(SValues) /\ SValues \in SUBSET Int
  BY ListFacts DEF AnalyzerOK
<1>3. /\ ULeft <=> u_iter < Cardinality(UValues)
      /\ SLeft <=> s_iter < Cardinality(SValues)
  BY DEF ULeft, SLeft, MoreU, MoreS, BagToSet, UValues, SValues
<1>4. ULeft => uimm \in UValues /\ Rank(UValues, uimm) = u_iter
  BY <1>1, <1>2, <1>3, EntryRank DEF uimm, UValues
<1>5. SLeft => simm \in SValues /\ Rank(SValues, simm) = s_iter
  BY <1>1, <1>2, <1>3, EntryRank DEF simm, SValues
<1> QED
  BY <1>1, <1>2, <1>3, <1>4, <1>5, BeforeEnds

(* A row of the least value that is left keeps the invariant. *)
LEMMA RowKeeps ==
  ASSUME AnalyzerOK, NEW u \in {0, 1}, NEW s \in {0, 1}, NEW x, NEW n, NEW m,
         RowOf(u, s, Row(x, n, m)),
         n = Times(x, stat.uimm_list), m = Times(x, stat.simm_list),
         TakenOf(UValues, u_iter + u, SValues, s_iter + s) = Taken \cup {x},
         LeftOf(UValues, u_iter + u, SValues, s_iter + s) = Left \ {x},
         x \in Left, \A y \in Left : x <= y
  PROVE  AnalyzerOK'
<1> DEFINE r == Row(x, n, m)
<1>1. /\ stage = "merge" /\ rows' = Append(rows, r)
      /\ u_iter' = u_iter + u /\ s_iter' = s_iter + s
      /\ stage' = IF MoreU(u_iter + u) \/ MoreS(s_iter + s) THEN "merge" ELSE "done"
      /\ UNCHANGED <<options, contents, at, stat>>
  BY DEF RowOf
<1>2. /\ rows \in Seq(TableRow) /\ Ascending(rows)
      /\ CountedIn(rows, stat.uimm_list, stat.simm_list)
      /\ ValuesOf(rows) = Taken /\ u_iter \in Nat /\ s_iter \in Nat
      /\ \A a \in Taken, b \in Left : a < b
  BY <1>1 DEF AnalyzerOK, MergeOK
<1>3. /\ UValues \in SUBSET Int /\ SValues \in SUBSET Int
      /\ n \in Nat /\ m \in Nat
  BY ListFacts DEF AnalyzerOK
<1>4. Taken \in SUBSET Int /\ Left \in SUBSET Int /\ x \in Int
  BY <1>3 DEF Taken, Left, TakenOf, LeftOf, Before
<1>5. r \in TableRow /\ r.value = x /\ r.unsigned = n /\ r.signed = m
  BY <1>3, <1>4 DEF Row, TableRow
<1>6. \A a \in ValuesOf(rows) : a < r.value
  BY <1>2, <1>5
<1> HIDE DEF r
<1>7. /\ rows' \in Seq(TableRow) /\ Ascending(rows')
      /\ CountedIn(rows', stat.uimm_list, stat.simm_list)
      /\ ValuesOf(rows') = Taken \cup {x}
  BY <1>1, <1>2, <1>5, <1>6, RowAdded
<1>8. /\ Taken' = Taken \cup {x} /\ Left' = Left \ {x}
  BY <1>1 DEF Taken, Left, UValues, SValues
<1>9. \A a \in Taken \cup {x}, b \in Left \ {x} : a < b
  <2>1. \A b \in Left \ {x} : b \in Int /\ x <= b /\ b # x
    BY <1>4
  <2>2. \A b \in Left \ {x} : x < b
    BY <1>4, <2>1
  <2> QED
    BY <1>2, <2>2
<1>10. stage' = "done" => ~ULeft' /\ ~SLeft'
  BY <1>1 DEF ULeft, SLeft, MoreU, MoreS
<1>11. u_iter' \in Nat /\ s_iter' \in Nat
  BY <1>1, <1>2
<1>12. MergeOK'
  BY <1>1, <1>7, <1>8, <1>9, <1>10, <1>11 DEF MergeOK
<1> QED
  BY <1>1, <1>12 DEF AnalyzerOK

(* A value that the unsigned list only has. *)
LEMMA UnsignedRowKeeps ==
  ASSUME AnalyzerOK, UnsignedRow
  PROVE  AnalyzerOK'
<1>1. /\ ULeft /\ (SLeft => uimm < simm) /\ RowOf(1, 0, Row(uimm, UTimes, 0)) /\ stage = "merge"
  BY DEF UnsignedRow, RowOf
<1>2. /\ uimm \in UValues /\ Rank(UValues, uimm) = u_iter
      /\ SLeft => simm \in SValues /\ Rank(SValues, simm) = s_iter
      /\ ~SLeft => Before(SValues, s_iter) = SValues
  BY <1>1, CurrentValues
<1>3. /\ IsFiniteSet(UValues) /\ UValues \in SUBSET Int
      /\ IsFiniteSet(SValues) /\ SValues \in SUBSET Int
  BY ListFacts DEF AnalyzerOK
<1>4. u_iter \in Nat /\ s_iter \in Nat /\ TakenFirst(UValues, u_iter, SValues, s_iter)
  BY <1>1 DEF AnalyzerOK, MergeOK, Taken, Left, TakenFirst
<1>5. \A y \in SValues \ Before(SValues, s_iter) : uimm < y
  <2>1. CASE ~SLeft
    BY <1>2, <2>1
  <2>2. CASE SLeft
    <3>1. \A y \in SValues \ Before(SValues, s_iter) : simm <= y
      BY <1>2, <1>3, <1>4, <2>2, NextTaken
    <3>2. uimm \in Int /\ simm \in Int /\ uimm < simm /\ \A y \in SValues : y \in Int
      BY <1>1, <1>2, <1>3, <2>2
    <3> QED
      BY <3>1, <3>2
  <2> QED
    BY <2>1, <2>2
<1>6. /\ TakenOf(UValues, u_iter + 1, SValues, s_iter) = Taken \cup {uimm}
      /\ LeftOf(UValues, u_iter + 1, SValues, s_iter) = Left \ {uimm}
      /\ uimm \in Left /\ uimm \notin SValues
      /\ \A y \in Left : uimm <= y
  BY <1>2, <1>3, <1>4, <1>5, TakeOne DEF Taken, Left
<1>7. 0 = Times(uimm, stat.simm_list)
  BY <1>6, ListFacts DEF AnalyzerOK
<1>8. s_iter + 0 = s_iter
  BY <1>4
<1> QED
  BY <1>1, <1>6, <1>7, <1>8, RowKeeps DEF UTimes

(* A value that the signed list only has. *)
LEMMA SignedRowKeeps ==
  ASSUME AnalyzerOK, SignedRow
  PROVE  AnalyzerOK'
<1>1. /\ SLeft /\ (ULeft => simm < uimm) /\ RowOf(0, 1, Row(simm, 0, STimes)) /\ stage = "merge"
  BY DEF SignedRow, RowOf
<1>2. /\ simm \in SValues /\ Rank(SValues, simm) = s_iter
      /\ ULeft => uimm \in UValues /\ Rank(UValues, uimm) = u_iter
      /\ ~ULeft => Before(UValues, u_iter) = UValues
  BY <1>1, CurrentValues
<1>3. /\ IsFiniteSet(UValues) /\ UValues \in SUBSET Int
      /\ IsFiniteSet(SValues) /\ SValues \in SUBSET Int
  BY ListFacts DEF AnalyzerOK
<1>4. \A n \in Nat : /\ TakenOf(SValues, n, UValues, u_iter) = TakenOf(UValues, u_iter, SValues, n)
                     /\ LeftOf(SValues, n, UValues, u_iter) = LeftOf(UValues, u_iter, SValues, n)
  BY Zenon DEF TakenOf, LeftOf
<1>5. /\ u_iter \in Nat /\ s_iter \in Nat /\ s_iter + 1 \in Nat
      /\ TakenFirst(SValues, s_iter, UValues, u_iter)
  BY <1>1, <1>4 DEF AnalyzerOK, MergeOK, Taken, Left, TakenFirst
<1>6. \A y \in UValues \ Before(UValues, u_iter) : simm < y
  <2>1. CASE ~ULeft
    BY <1>2, <2>1
  <2>2. CASE ULeft
    <3>1. \A y \in UValues \ Before(UValues, u_iter) : uimm <= y
      BY <1>2, <1>3, <1>5, <2>2, NextTaken
    <3>2. uimm \in Int /\ simm \in Int /\ simm < uimm /\ \A y \in UValues : y \in Int
      BY <1>1, <1>2, <1>3, <2>2
    <3> QED
      BY <3>1, <3>2
  <2> QED
    BY <2>1, <2>2
<1>7. /\ TakenOf(SValues, s_iter + 1, UValues, u_iter)
           = TakenOf(SValues, s_iter, UValues, u_iter) \cup {simm}
      /\ LeftOf(SValues, s_iter + 1, UValues, u_iter)
           = LeftOf(SValues, s_iter, UValues, u_iter) \ {simm}
      /\ simm \in LeftOf(SValues, s_iter, UValues, u_iter) /\ simm \notin UValues
      /\ \A y \in LeftOf(SValues, s_iter, UValues, u_iter) : simm <= y
  BY <1>2, <1>3, <1>5, <1>6, TakeOne
<1>8. /\ TakenOf(UValues, u_iter, SValues, s_iter + 1) = Taken \cup {simm}
      /\ LeftOf(UValues, u_iter, SValues, s_iter + 1) = Left \ {simm}
      /\ simm \in Left /\ \A y \in Left : simm <= y
  BY <1>4, <1>5, <1>7, Zenon DEF Taken, Left
<1>9. 0 = Times(simm, stat.uimm_list)
  BY <1>7, ListFacts DEF AnalyzerOK
<1>10. u_iter + 0 = u_iter
  BY <1>5
<1> QED
  BY <1>1, <1>8, <1>9, <1>10, RowKeeps DEF STimes

(* A value of both lists. *)
LEMMA BothRowKeeps ==
  ASSUME AnalyzerOK, BothRow
  PROVE  AnalyzerOK'
<1>1. /\ ULeft /\ SLeft /\ uimm = simm /\ RowOf(1, 1, Row(simm, UTimes, STimes))
      /\ stage = "merge"
  BY DEF BothRow, RowOf
<1>2. /\ uimm \in UValues /\ Rank(UValues, uimm) = u_iter
      /\ simm \in SValues /\ Rank(SValues, simm) = s_iter
  BY <1>1, CurrentValues
<1>3. /\ IsFiniteSet(UValues) /\ UValues \in SUBSET Int
      /\ IsFiniteSet(SValues) /\ SValues \in SUBSET Int
  BY ListFacts DEF AnalyzerOK
<1>4. u_iter \in Nat /\ s_iter \in Nat
  BY <1>1 DEF AnalyzerOK, MergeOK
<1>5. /\ TakenOf(UValues, u_iter + 1, SValues, s_iter + 1) = Taken \cup {simm}
      /\ LeftOf(UValues, u_iter + 1, SValues, s_iter + 1) = Left \ {simm}
      /\ simm \in Left /\ \A y \in Left : simm <= y
  BY <1>1, <1>2, <1>3, <1>4, TakeBoth DEF Taken, Left
<1> QED
  BY <1>1, <1>5, RowKeeps DEF UTimes, STimes

(* Every step of the analyzer keeps its invariant. *)
LEMMA AnalyzerKeeps ==
  ASSUME AnalyzerOK, ANext
  PROVE  AnalyzerOK'
<1>1. CASE ReadInstr
  <2> DEFINE d == Decoded(contents, at + 1, options.v2)
             i == Analyzed(d.instr)
             s == [stat EXCEPT !.total_instr = @ + 1]
  <2>1. /\ stage = "read" /\ More /\ UNCHANGED <<options, contents>>
        /\ \/ stage' = "abort" /\ UNCHANGED <<at, stat>>
           \/ /\ at' = at + IF options.v2 THEN V2Halves(contents, at + 1) ELSE 2
              /\ stat' = IF i.op = "INVALID_OP" THEN s ELSE Updated(s, i)
              /\ UNCHANGED stage
    BY <1>1 DEF ReadInstr
  <2>2. i \in StructInstr
    BY <2>1, AnalyzedType DEF AnalyzerOK
  <2>3. StatOK(s)
    <3>1. /\ DOMAIN s = StatFields /\ s.total_instr = stat.total_instr + 1
          /\ s.freq_comp = stat.freq_comp
          /\ s.uimm_list = stat.uimm_list /\ s.simm_list = stat.simm_list
      BY NamesOfFields DEF AnalyzerOK, StatOK
    <3> QED
      BY <3>1 DEF AnalyzerOK, StatOK
  <2>4. at \in Nat /\ V2Halves(contents, at + 1) \in {1, 2}
    BY DEF AnalyzerOK, V2Halves
  <2> HIDE DEF d, i, s
  <2>5. StatOK(stat') /\ at' \in Nat /\ stage' \in {"read", "abort"}
    BY <2>1, <2>2, <2>3, <2>4, UpdatedOK DEF AnalyzerOK
  <2> QED
    BY <2>1, <2>5 DEF AnalyzerOK, MergeOK
<1>2. CASE PrintStat
  <2>1. /\ stage' = "merge" /\ u_iter' = 0 /\ s_iter' = 0 /\ rows' = <<>>
        /\ UNCHANGED <<options, contents, at, stat>>
    BY <1>2 DEF PrintStat, AnalyzerOK
  <2>2. /\ IsFiniteSet(UValues) /\ UValues \in SUBSET Int
        /\ IsFiniteSet(SValues) /\ SValues \in SUBSET Int
    BY ListFacts DEF AnalyzerOK
  <2>3. Taken' = {}
    BY <2>1, <2>2, BeforeEnds DEF Taken, TakenOf, UValues, SValues
  <2>4. /\ rows' \in Seq(TableRow) /\ Ascending(rows') /\ ValuesOf(rows') = {}
        /\ CountedIn(rows', stat.uimm_list, stat.simm_list)
    BY <2>1 DEF Ascending, ValuesOf, CountedIn
  <2>5. MergeOK'
    BY <2>1, <2>3, <2>4 DEF MergeOK
  <2> QED
    BY <2>1, <2>5 DEF AnalyzerOK
<1>3. CASE EmptyRow
  <2>1. stage' = "crash" /\ UNCHANGED <<options, contents, at, stat>>
    BY <1>3 DEF EmptyRow
  <2> QED
    BY <2>1 DEF AnalyzerOK, MergeOK
<1> QED
  BY <1>1, <1>2, <1>3, UnsignedRowKeeps, SignedRowKeeps, BothRowKeeps DEF ANext

(* At the end nothing is left, so the table is complete. *)
LEMMA AllMerged ==
  ASSUME AnalyzerOK
  PROVE  MergedOnce
<1> SUFFICES ASSUME stage = "done" PROVE MergedOnce
  BY DEF MergedOnce
<1>1. /\ u_iter \in Nat /\ s_iter \in Nat /\ ValuesOf(rows) = Taken /\ ~ULeft /\ ~SLeft
      /\ Ascending(rows) /\ CountedIn(rows, stat.uimm_list, stat.simm_list)
  BY DEF AnalyzerOK, MergeOK
<1>2. /\ IsFiniteSet(UValues) /\ UValues \in SUBSET Int
      /\ IsFiniteSet(SValues) /\ SValues \in SUBSET Int
  BY ListFacts DEF AnalyzerOK
<1>3. /\ ~(u_iter < Cardinality(UValues)) /\ ~(s_iter < Cardinality(SValues))
  BY <1>1 DEF ULeft, SLeft, MoreU, MoreS, BagToSet, UValues, SValues
<1>4. Taken = UValues \cup SValues
  BY <1>1, <1>2, <1>3, BeforeEnds DEF Taken, TakenOf
<1> QED
  BY <1>1, <1>4 DEF MergedOnce, Ascending, CountedIn, ValuesOf, UValues, SValues

(***************************************************************************)
(* The tools in a row                                                      *)
(***************************************************************************)

(* What was converted is in the converter's invariant; what was not is a   *)
(* file of halves that no tool converts.                                   *)
OriginOK ==
  \/ IInv /\ Faithful
  \/ tool \notin {"count", "convert"} /\ input = <<>> /\ out \in Seq(Half)

InspectOK == OriginOK /\ AnalyzerOK

(* The native file has two halves for every word. *)
LEMMA NativeFileType ==
  ASSUME input \in Seq(Word)
  PROVE  /\ NativeFile \in Seq(Half) /\ Len(NativeFile) = 2 * Len(input)
         /\ \A k \in 1..Len(input) :
              NativeFile[2 * k - 1] = input[k][1] /\ NativeFile[2 * k] = input[k][2]
<1> DEFINE n == Len(input)
           half(k) == input[(k + 1) \div 2][2 - (k % 2)]
<1>1. n \in Nat /\ \A k \in 1..n : input[k] \in Word
  OBVIOUS
<1>2. NativeFile = [k \in 1..2 * n |-> half(k)]
  BY DEF NativeFile
<1>3. ASSUME NEW k \in 1..2 * n PROVE half(k) \in Half
  <2>1. (k + 1) \div 2 \in 1..n /\ 2 - (k % 2) \in {1, 2}
    BY <1>1
  <2> QED
    BY <1>1, <2>1, WordParts
<1>4. \A k \in 1..n : /\ 2 * k - 1 \in 1..2 * n /\ ((2 * k - 1) + 1) \div 2 = k
                      /\ 2 - ((2 * k - 1) % 2) = 1
                      /\ 2 * k \in 1..2 * n /\ (2 * k + 1) \div 2 = k /\ 2 - ((2 * k) % 2) = 2
  BY <1>1
<1>5. \A k \in 1..n : half(2 * k - 1) = input[k][1] /\ half(2 * k) = input[k][2]
  BY <1>4
<1> HIDE DEF half, n
<1>6. 2 * n \in Nat
  BY <1>1 DEF n
<1>7. NativeFile \in Seq(Half) /\ Len(NativeFile) = 2 * n
  BY <1>2, <1>3, <1>6
<1> QED
  BY <1>2, <1>4, <1>5, <1>7 DEF n

(* The invariants of all the tools hold before any of them has run. *)
LEMMA InspectInit ==
  ASSUME IInit
  PROVE  InspectOK
<1>1. /\ at = 0 /\ stat = NoStat /\ stage = "read"
  BY DEF IInit
<1>2. CASE /\ tool = "count" /\ pc = "parse" /\ input \in Programs /\ out = <<>>
           /\ options = Command(FALSE) /\ contents = NativeFile
  <2>1. Init
    BY <1>2 DEF IInit, Init
  <2>2. IInv /\ Faithful
    BY <2>1, InitInvariant DEF Init, Faithful, FromWords, KnownWords, TargetsRead, TargetsSet
  <2>3. contents \in Seq(Half) /\ options.imm_stat = TRUE
    BY <1>2, <2>2, NativeFileType DEF IInv, TypeOK, Command
  <2> QED
    BY <1>1, <2>2, <2>3, NoStatOK DEF InspectOK, OriginOK, AnalyzerOK, MergeOK
<1>3. CASE /\ tool = "count -c" /\ pc = "done" /\ input = <<>> /\ out \in CompressedFiles
           /\ options = Command(TRUE) /\ contents = out
  <2>1. contents \in Seq(Half) /\ options.imm_stat = TRUE
    BY <1>3, CompressedAssumption DEF Command
  <2> QED
    BY <1>1, <1>3, <2>1, NoStatOK DEF InspectOK, OriginOK, AnalyzerOK, MergeOK
<1> QED
  BY <1>2, <1>3 DEF IInit

(* What the converter has of a program is of no concern to the others. *)
LEMMA ConverterStays ==
  ASSUME IInv, Faithful, UNCHANGED vars
  PROVE  IInv' /\ Faithful'
<1>1. IInv'
  BY StutterKeeps
<1>2. Faithful'
  BY DEF vars, Faithful, FromWords, KnownWords, TargetsRead, TargetsSet
<1> QED
  BY <1>1, <1>2

(* Every step of the converter keeps what is known of it. *)
LEMMA ConverterMoves ==
  ASSUME IInv, Faithful, Next
  PROVE  IInv' /\ Faithful'
<1>1. IInv'
  BY ParseKeeps, CorrectOffsetsKeeps, ConvertJumpsKeeps, CompressKeeps, CorrectTargetsKeeps,
     WriteKeeps, ReturnKeeps DEF Next
<1>2. Faithful'
  BY ParseFaithful, LaterFaithful
<1> QED
  BY <1>1, <1>2

(* The files that a tool is given have halves. *)
LEMMA FilesTyped ==
  ASSUME OriginOK
  PROVE  input \in Seq(Word) /\ out \in Seq(Half)
<1>1. input = <<>> => input \in Seq(Word)
  OBVIOUS
<1>2. IInv => input \in Seq(Word) /\ out \in Seq(Half)
  BY DEF IInv, TypeOK
<1> QED
  BY <1>1, <1>2, Zenon DEF OriginOK

(* So does what the analyzer knows when other tools run. *)
LEMMA AnalyzerStays ==
  ASSUME AnalyzerOK, UNCHANGED avars
  PROVE  AnalyzerOK'
<1>1. /\ options' = options /\ contents' = contents /\ at' = at /\ stat' = stat
      /\ stage' = stage /\ u_iter' = u_iter /\ s_iter' = s_iter /\ rows' = rows
  BY DEF avars
<1> QED
  BY <1>1 DEF AnalyzerOK, MergeOK, Taken, Left, UValues, SValues, ULeft, SLeft, MoreU, MoreS

(* Whichever tool runs keeps the invariants of all of them. *)
LEMMA InspectKeeps ==
  ASSUME InspectOK, [INext]_<<vars, avars, dvars, ivars>>
  PROVE  InspectOK'
<1>1. CASE Analyze
  <2>1. UNCHANGED <<vars, ivars>> /\ ANext
    BY <1>1 DEF Analyze
  <2>2. OriginOK'
    BY <2>1, ConverterStays DEF InspectOK, OriginOK, vars, ivars
  <2> QED
    BY <2>1, <2>2, AnalyzerKeeps DEF InspectOK
<1>2. CASE ConvertStep
  <2>1. tool = "convert" /\ Next /\ UNCHANGED <<avars, ivars>>
    BY <1>2 DEF ConvertStep
  <2>2. OriginOK'
    BY <2>1, ConverterMoves DEF InspectOK, OriginOK
  <2> QED
    BY <2>1, <2>2, AnalyzerStays DEF InspectOK
<1>3. CASE CountCompressed
  <2>1. UNCHANGED vars /\ tool' = "count -c" /\ StartAnalyzer(out, Command(TRUE))
    BY <1>3 DEF CountCompressed
  <2>2. OriginOK'
    BY <2>1, ConverterStays DEF InspectOK, OriginOK, vars
  <2>3. AnalyzerOK'
    BY <2>1, FilesTyped, StartedOK DEF InspectOK
  <2> QED
    BY <2>2, <2>3 DEF InspectOK
<1>4. CASE CountedNative \/ ListNative \/ List \/ ListCompressed \/ Over
           \/ UNCHANGED <<vars, avars, dvars, ivars>>
  <2>1. /\ UNCHANGED vars /\ UNCHANGED avars
        /\ tool' = tool \/ tool = "count" \/ tool' \notin {"count", "convert"}
    BY <1>4 DEF CountedNative, ListNative, List, ListCompressed, Over, ivars
  <2>2. OriginOK'
    BY <2>1, ConverterStays DEF InspectOK, OriginOK, vars
  <2> QED
    BY <2>1, <2>2, AnalyzerStays DEF InspectOK
<1> QED
  BY <1>1, <1>2, <1>3, <1>4 DEF INext

(* The analyzer's table of immediates has every value of the two lists     *)
(* once, in ascending order and with both its counts, whatever file it was *)
(* made of.                                                                *)
THEOREM TableComplete == ISpec => []MergedOnce
<1>1. IInit => InspectOK
  BY InspectInit
<1>2. InspectOK /\ [INext]_<<vars, avars, dvars, ivars>> => InspectOK'
  BY InspectKeeps
<1>3. InspectOK => MergedOnce
  BY AllMerged DEF InspectOK
<1> QED
  BY <1>1, <1>2, <1>3, PTL DEF ISpec

(***************************************************************************)
(* The sum over all operations                                             *)
(***************************************************************************)

(* A set of at most four members is finite, and so is a union of two.      *)
LEMMA FewAreFinite ==
  /\ \A a, b, c, d : IsFiniteSet({a, b, c, d})
  /\ \A S, T : IsFiniteSet(S) /\ IsFiniteSet(T) => IsFiniteSet(S \cup T)
<1>1. ASSUME NEW a, NEW b, NEW c, NEW d PROVE IsFiniteSet({a, b, c, d})
  <2>1. IsFiniteSet({a}) /\ IsFiniteSet({a} \cup {b})
    BY FS_Singleton, FS_AddElement
  <2>2. IsFiniteSet(({a} \cup {b}) \cup {c})
    BY <2>1, FS_AddElement
  <2>3. IsFiniteSet((({a} \cup {b}) \cup {c}) \cup {d})
    BY <2>2, FS_AddElement
  <2>4. {a, b, c, d} = (({a} \cup {b}) \cup {c}) \cup {d}
    OBVIOUS
  <2> QED
    BY <2>3, <2>4
<1> QED
  BY <1>1, FS_Union

(* There are finitely many operations. *)
LEMMA OperationsFinite == IsFiniteSet(Operation)
<1>1. IsFiniteSet(Shifts) /\ IsFiniteSet(ShiftVs) /\ IsFiniteSet(Stores) /\ IsFiniteSet(Compare)
  <2>1. /\ Shifts = {"SLL", "SRL", "SRA", "SRA"} /\ ShiftVs = {"SLLV", "SRLV", "SRAV", "SRAV"}
        /\ Stores = {"SB", "SH", "SW", "SW"}
    BY DEF Shifts, ShiftVs, Stores
  <2> QED
    BY <2>1, FewAreFinite DEF Compare
<1>2. IsFiniteSet(Alu)
  <2>1. Alu = {"ADD", "ADDU", "SUB", "SUBU"} \cup {"AND", "OR", "XOR", "NOR"}
    BY DEF Alu
  <2> QED
    BY <2>1, FewAreFinite
<1>3. IsFiniteSet(AluImm)
  <2>1. AluImm = {"ADDI", "ADDIU", "ANDI", "ORI"} \cup {"XORI", "LUI", "LUI", "LUI"}
    BY DEF AluImm
  <2> QED
    BY <2>1, FewAreFinite
<1>4. IsFiniteSet(MulDiv)
  <2>1. MulDiv = {"MULT", "MULTU", "DIV", "DIVU"} \cup {"MTHI", "MTLO", "MFHI", "MFLO"}
    BY DEF MulDiv
  <2> QED
    BY <2>1, FewAreFinite
<1>5. IsFiniteSet(Loads)
  <2>1. Loads = {"LB", "LH", "LW", "LBU"} \cup {"LHU", "LHU", "LHU", "LHU"}
    BY DEF Loads
  <2> QED
    BY <2>1, FewAreFinite
<1>6. IsFiniteSet(NativeBranch)
  <2>1. NativeBranch = {"BLTZ", "BGEZ", "BLTZAL", "BGEZAL"} \cup {"BEQ", "BNE", "BLEZ", "BGTZ"}
    BY DEF NativeBranch
  <2> QED
    BY <2>1, FewAreFinite
<1>7. IsFiniteSet(Jumps) /\ IsFiniteSet(Cop0) /\ IsFiniteSet(Stops)
  <2>1. /\ Cop0 = {"MFC0", "MTC0", "MTC0", "MTC0"}
        /\ Stops = {"BREAK", "SYSCALL", "SYSCALL", "SYSCALL"}
    BY DEF Cop0, Stops
  <2> QED
    BY <2>1, FewAreFinite DEF Jumps
<1>8. IsFiniteSet(Pseudo)
  <2>1. Pseudo = ({"NOP", "MOV", "CLEAR", "NOT"} \cup {"NEG", "SEQZ", "SNEZ", "SLTZ"})
                    \cup ({"LSI", "LSI", "LSI", "LSI"} \cup {"B", "BAL", "BEQZ", "BNEZ"})
    BY DEF Pseudo, PseudoBranch
  <2> QED
    BY <2>1, FewAreFinite
<1>9. IsFiniteSet(Native)
  <2>1. IsFiniteSet(Shifts \cup ShiftVs \cup Alu \cup AluImm \cup MulDiv \cup Loads)
    BY <1>1, <1>2, <1>3, <1>4, <1>5, FewAreFinite
  <2>2. IsFiniteSet(Stores \cup Compare \cup NativeBranch \cup Jumps \cup Cop0 \cup Stops)
    BY <1>1, <1>6, <1>7, FewAreFinite
  <2>3. Native = (Shifts \cup ShiftVs \cup Alu \cup AluImm \cup MulDiv \cup Loads)
                   \cup (Stores \cup Compare \cup NativeBranch \cup Jumps \cup Cop0 \cup Stops)
    BY Zenon DEF Native
  <2> QED
    BY <2>1, <2>2, <2>3, FewAreFinite
<1>10. IsFiniteSet({"INVALID_OP"})
  BY FS_Singleton
<1> QED
  BY <1>8, <1>9, <1>10, FewAreFinite DEF Operation

(* The equation of the function that num_comp adds up with. *)
OneOf(ops) == CHOOSE op \in ops : TRUE
IsSum(f, c) ==
  f = [ops \in SUBSET Operation |->
         IF ops = {} THEN 0 ELSE Times(OneOf(ops), c) + f[ops \ {OneOf(ops)}]]

(* A set without one of its members has one member less. *)
LEMMA OneRemoved ==
  ASSUME NEW S \in SUBSET Operation
  PROVE  /\ IsFiniteSet(S) /\ Cardinality(S) \in 0..Cardinality(Operation)
         /\ Cardinality(Operation) \in Nat
         /\ S = {} <=> Cardinality(S) = 0
         /\ S # {} => /\ OneOf(S) \in S /\ S \ {OneOf(S)} \in SUBSET Operation
                      /\ Cardinality(S \ {OneOf(S)}) = Cardinality(S) - 1
<1>1. /\ IsFiniteSet(S) /\ Cardinality(S) \in Nat /\ Cardinality(Operation) \in Nat
      /\ Cardinality(S) <= Cardinality(Operation)
  BY OperationsFinite, FS_Subset, FS_CardinalityType
<1>2. S = {} <=> Cardinality(S) = 0
  BY <1>1, FS_EmptySet
<1>3. S # {} => OneOf(S) \in S
  BY DEF OneOf
<1>4. S # {} => Cardinality(S \ {OneOf(S)}) = Cardinality(S) - 1
  BY <1>1, <1>3, FS_RemoveElement
<1> QED
  BY <1>1, <1>2, <1>3, <1>4

(* Some function satisfies the equation. *)
LEMMA SumExists ==
  ASSUME NEW c, \A op : Times(op, c) \in Nat
  PROVE  \E f : IsSum(f, c)
<1> DEFINE N == Cardinality(Operation)
           V == [SUBSET Operation -> Nat]
           base == [ops \in SUBSET Operation |-> 0]
           Next1(v) == [ops \in SUBSET Operation |->
                          IF ops = {} THEN 0 ELSE Times(OneOf(ops), c) + v[ops \ {OneOf(ops)}]]
           step == [x \in (1..N) \X V |-> Next1(x[2])]
<1>1. N \in Nat
  BY OperationsFinite, FS_CardinalityType
<1>2. base \in V
  OBVIOUS
<1>3. ASSUME NEW v \in V PROVE Next1(v) \in V
  <2>1. \A ops \in SUBSET Operation : ops # {} => v[ops \ {OneOf(ops)}] \in Nat
    BY OneRemoved
  <2> QED
    BY <2>1
<1>4. ASSUME NEW n \in 1..N, NEW v \in V PROVE step[<<n, v>>] = Next1(v)
  OBVIOUS
<1> HIDE DEF N, V, base, Next1, step
<1>5. PICK h : IsRec(h, N, base, step)
  BY <1>1, RecExists
<1>6. h \in [0..N -> V]
  <2>1. \A n \in 1..N : \A v \in V : step[<<n, v>>] \in V
    BY <1>3, <1>4
  <2> QED
    BY <1>1, <1>2, <1>5, <2>1, RecType
<1>7. \A n \in 1..N : h[n] = Next1(h[n - 1])
  <2> TAKE n \in 1..N
  <2>1. h[n] = step[<<n, h[n - 1]>>] /\ n - 1 \in 0..N
    BY <1>1, <1>5 DEF IsRec
  <2> QED
    BY <1>4, <1>6, <2>1
<1> DEFINE f == [ops \in SUBSET Operation |-> h[Cardinality(ops)][ops]]
<1>8. ASSUME NEW ops \in SUBSET Operation
      PROVE  f[ops] = IF ops = {} THEN 0 ELSE Times(OneOf(ops), c) + f[ops \ {OneOf(ops)}]
  <2>1. CASE ops = {}
    <3>1. Cardinality(ops) = 0 /\ h[0] = base
      BY <1>1, <1>5, <2>1, FS_EmptySet DEF IsRec
    <3> QED
      BY <2>1, <3>1 DEF base
  <2>2. CASE ops # {}
    <3> DEFINE less == ops \ {OneOf(ops)}
    <3>1. /\ less \in SUBSET Operation /\ Cardinality(ops) \in 1..N
          /\ Cardinality(less) = Cardinality(ops) - 1
      BY <2>2, OneRemoved DEF N
    <3>2. h[Cardinality(ops)] = Next1(h[Cardinality(less)])
      BY <1>7, <3>1
    <3>3. h[Cardinality(ops)][ops] = Times(OneOf(ops), c) + h[Cardinality(less)][less]
      BY <2>2, <3>2 DEF Next1
    <3> QED
      BY <2>2, <3>1, <3>3
  <2> QED
    BY <2>1, <2>2
<1>9. f = [ops \in SUBSET Operation |->
             IF ops = {} THEN 0 ELSE Times(OneOf(ops), c) + f[ops \ {OneOf(ops)}]]
  <2>1. f = [ops \in SUBSET Operation |-> f[ops]]
    OBVIOUS
  <2> HIDE DEF f
  <2> QED
    BY <1>8, <2>1
<1> QED
  BY <1>9 DEF IsSum

(* When an operation is counted one more time, the sum grows by one.       *)
LEMMA SumGrows ==
  ASSUME NEW c, NEW d, NEW f, NEW g, IsSum(f, c), IsSum(g, d), NEW o \in Operation,
         \A op : Times(op, c) \in Nat /\ Times(op, d) = Times(op, c) + IF op = o THEN 1 ELSE 0
  PROVE  f[Operation] \in Nat /\ g[Operation] = f[Operation] + 1
<1> DEFINE Grown(S) == f[S] \in Nat /\ g[S] = f[S] + IF o \in S THEN 1 ELSE 0
           T == {n \in Nat : \E S \in SUBSET Operation : Cardinality(S) = n /\ ~Grown(S)}
<1>1. T = {}
  <2>1. SUFFICES ASSUME T # {} PROVE FALSE
    OBVIOUS
  <2>2. PICK n \in T : \A m \in T : n <= m
    <3>1. T \in SUBSET Nat
      OBVIOUS
    <3> HIDE DEF T
    <3> QED
      BY <2>1, <3>1, LeastNatural
  <2>3. PICK S \in SUBSET Operation : Cardinality(S) = n /\ ~Grown(S)
    BY <2>2
  <2>4. CASE S = {}
    <3>1. f[S] = 0 /\ g[S] = 0
      BY <2>4 DEF IsSum
    <3> QED
      BY <2>3, <2>4, <3>1
  <2>5. CASE S # {}
    <3> DEFINE x == OneOf(S)
               less == S \ {x}
    <3>1. /\ x \in S /\ less \in SUBSET Operation /\ Cardinality(less) = n - 1
          /\ n - 1 \in Nat /\ ~(n <= n - 1)
      BY <2>3, <2>5, OneRemoved
    <3>2. Grown(less)
      BY <2>2, <3>1
    <3>3. f[S] = Times(x, c) + f[less] /\ g[S] = Times(x, d) + g[less]
      BY <2>5 DEF IsSum
    <3>4. (o \in S <=> o = x \/ o \in less) /\ ~(o = x /\ o \in less)
      BY <3>1
    <3> HIDE DEF x, less
    <3>5. Grown(S)
      BY <3>2, <3>3, <3>4
    <3> QED
      BY <2>3, <3>5
  <2> QED
    BY <2>4, <2>5
<1>2. Grown(Operation)
  <2>1. Cardinality(Operation) \in Nat
    BY OneRemoved
  <2> HIDE DEF Grown
  <2> QED
    BY <1>1, <2>1
<1> QED
  BY <1>2

(* So num_comp counts the instructions that have a short form. *)
LEMMA NumComp ==
  ASSUME NEW s, IsList(s.freq_comp)
  PROVE  \E f : IsSum(f, s.freq_comp) /\ num_comp(s) = f[Operation]
<1>1. \A op : Times(op, s.freq_comp) \in Nat
  BY DEF Times, IsList
<1>2. PICK f : IsSum(f, s.freq_comp)
  BY <1>1, SumExists
<1> DEFINE g == CHOOSE h : IsSum(h, s.freq_comp)
<1>3. IsSum(g, s.freq_comp)
  BY <1>2
<1>4. num_comp(s) = g[Operation]
  BY DEF num_comp, IsSum, OneOf
<1> QED
  BY <1>3, <1>4

(***************************************************************************)
(* The estimate                                                            *)
(***************************************************************************)

(* The size that the analyzer assumes of a word, and those of the program. *)
EstSize(w) == IF Parsed(w).op # "INVALID_OP" /\ is_compressible(Parsed(w)) THEN 2 ELSE 4
EstSizes == [k \in 1..Len(input) |-> EstSize(input[k])]

(* The sum of those sizes, instruction by instruction. *)
LEMMA EstSizesType ==
  ASSUME input \in Seq(Word)
  PROVE  /\ EstSizes \in Seq(Nat) /\ Len(EstSizes) = Len(input) /\ Len(input) \in Nat
         /\ \A k \in 1..Len(input) : EstSizes[k] = EstSize(input[k])
         /\ Addresses(EstSizes)[1] = 0
         /\ \A k \in 1..Len(input) + 1 : Addresses(EstSizes)[k] \in Nat
         /\ \A k \in 1..Len(input) :
              Addresses(EstSizes)[k + 1] = Addresses(EstSizes)[k] + EstSize(input[k])
<1>1. Len(input) \in Nat
  OBVIOUS
<1>2. EstSizes \in [1..Len(input) -> Nat]
  BY DEF EstSizes, EstSize
<1>3. EstSizes \in Seq(Nat) /\ Len(EstSizes) = Len(input)
  BY <1>1, <1>2
<1>4. \A k \in 1..Len(input) : EstSizes[k] = EstSize(input[k])
  BY DEF EstSizes
<1> QED
  BY <1>1, <1>3, <1>4, AddressesSteps

(* An instruction behind another one is at most four bytes further for     *)
(* each in between.                                                        *)
LEMMA NewAddrDistance ==
  ASSUME NEW p \in Seq(StructInstr), NEW i \in 1..Len(p) + 1, NEW j \in i..Len(p) + 1
  PROVE  /\ 0 <= NewAddr(p)[j] - NewAddr(p)[i]
         /\ NewAddr(p)[j] - NewAddr(p)[i] <= 4 * (j - i)
<1> DEFINE n == Len(p)
           a == NewAddr(p)
           T == {k \in i..n + 1 : ~(0 <= a[k] - a[i] /\ a[k] - a[i] <= 4 * (k - i))}
<1>1. n \in Nat /\ \A k \in 1..n : Size(p[k]) \in {2, 4}
  BY InstrFields
<1>2. a \in [1..n + 1 -> Nat] /\ \A k \in 1..n : a[k + 1] = a[k] + Size(p[k])
  BY NewAddrSteps
<1>3. i \in 1..n + 1 /\ j \in i..n + 1 /\ i \in Nat
  OBVIOUS
<1> HIDE DEF a, n
<1>4. T = {}
  <2>1. SUFFICES ASSUME T # {} PROVE FALSE
    OBVIOUS
  <2>2. PICK k \in T : \A l \in T : k <= l
    <3>1. T \in SUBSET Nat
      BY <1>1, <1>3
    <3> HIDE DEF T
    <3> QED
      BY <2>1, <3>1, LeastNatural
  <2>3. k # i
    BY <1>1, <1>2, <1>3, <2>2
  <2>4. k - 1 \in 1..n /\ k - 1 \in i..n + 1 /\ k - 1 \notin T /\ (k - 1) + 1 = k
    BY <1>1, <1>3, <2>2, <2>3
  <2> DEFINE x == a[k - 1]
             y == a[i]
             z == Size(p[k - 1])
  <2>5. /\ x \in Nat /\ y \in Nat /\ z \in {2, 4} /\ k \in Int /\ i \in Int
        /\ 0 <= x - y /\ x - y <= 4 * (k - 1 - i) /\ a[k] = x + z
    BY <1>1, <1>2, <1>3, <2>4
  <2> HIDE DEF x, z
  <2>6. 0 <= (x + z) - y /\ (x + z) - y <= 4 * (k - i)
    <3> HIDE DEF y
    <3> QED
      BY ONLY <2>5
  <2> QED
    BY <2>2, <2>5, <2>6
<1> QED
  BY <1>3, <1>4 DEF a, n

(* What is in reach in bytes of four is in reach in a program that is no   *)
(* longer.                                                                 *)
LEMMA NearerInReach ==
  ASSUME NEW x \in Int, NEW d \in Int, NEW z \in Int, NEW m \in Nat, NEW r \in Nat,
         2 <= m, m <= r, x \in -m..m - 2, d = CDiv(x, 4),
         \/ 0 <= z /\ z <= 4 * d
         \/ z <= 0 /\ 4 * d <= z
  PROVE  z \in -r..r - 2
<1>1. x \in Int /\ x >= -m /\ x <= m - 2
  OBVIOUS
<1>2. \/ 0 <= d /\ 4 * d <= x
      \/ 4 * d <= 0 /\ x <= 4 * d
  BY DEF CDiv
<1> QED
  BY <1>1, <1>2

(* The reach that the analyzer assumes of a short branch. *)
EstReach(op) == IF op \in {"B", "BAL"} THEN 1024 ELSE 32

(* What the analyzer takes to be short but the parser does not is a branch *)
(* with a near target. *)
LEMMA EstimatedBranch ==
  ASSUME NEW x \in StructInstr, is_compressible(x), ~is_compressible_simple(x)
  PROVE  /\ x.op \in PseudoBranch /\ x.simm \in -EstReach(x.op)..EstReach(x.op) - 2
         /\ EstReach(x.op) \in Nat /\ 2 <= EstReach(x.op)
<1>1. \/ x.op \in {"B", "BAL"} /\ x.simm \in -1024..1022
      \/ x.op \in {"BEQZ", "BNEZ"} /\ x.simm \in -32..30
  BY DEF is_compressible
<1>2. CASE x.op \in {"B", "BAL"}
  <2>1. x.simm \in -1024..1022
    BY <1>1, <1>2
  <2>2. EstReach(x.op) = 1024 /\ x.op \in PseudoBranch
    BY <1>2 DEF PseudoBranch, EstReach
  <2> QED
    BY <2>1, <2>2
<1>3. CASE x.op \in {"BEQZ", "BNEZ"}
  BY <1>1, <1>3 DEF PseudoBranch, EstReach
<1> QED
  BY <1>1, <1>2, <1>3

(* What the analyzer takes to be short is short in the end.                *)
LEMMA EstimatedIsShort ==
  ASSUME IInv, Faithful, pc = "done", JReach >= 1024, ZReach >= 32, NEW k \in 1..Len(prog),
         EstSize(input[k]) = 2
  PROVE  prog[k].compressed
<1> DEFINE w == input[k]
           x == Parsed(w)
           i == prog[k]
<1>1. TypeOK /\ Laid /\ Laying /\ Corrected
  BY DEF IInv, Laid, Laying, Corrected
<1>2. w \in Word /\ i \in StructInstr /\ Len(prog) \in Nat /\ prog \in Seq(StructInstr)
  <2>1. k \in 1..Len(input)
    BY <1>1, TypeFacts DEF TypeOK
  <2> QED
    BY <1>1, <2>1, TypeFacts
<1>3. x \in StructInstr /\ x.op # "INVALID_OP" /\ is_compressible(x)
  BY <1>2, ParsedType DEF EstSize
<1>4. ReadOf(w).op = x.op /\ ReadOf(w).compressed = is_compressible_simple(x)
  BY <1>2, ReadOfType
<1>5. Alike(ReadOf(w), i)
  BY DEF Faithful, FromWords
<1>6. CASE is_compressible_simple(x)
  <2>1. x.op \notin PseudoBranch /\ x.op \notin {"J", "JAL"}
    <3>1. x.op \notin PseudoBranch
      BY <1>6, BranchesNotSimple
    <3>2. x.op \notin {"J", "JAL"}
      BY <1>6 DEF is_compressible_simple, Shifts
    <3> QED
      BY <3>1, <3>2
  <2>2. i.op = x.op
    BY <1>4, <1>5, <2>1 DEF Alike
  <2> QED
    BY <1>4, <1>5, <1>6, <2>1, <2>2 DEF Alike
<1>7. CASE ~is_compressible_simple(x)
  <2> DEFINE m == EstReach(x.op)
             t == attr[k].target_index + 1
             a == NewAddr(prog)
             d == CDiv(x.simm, 4)
  <2>1. x.op \in PseudoBranch /\ x.simm \in -m..m - 2 /\ m \in Nat /\ 2 <= m
    BY <1>3, <1>7, EstimatedBranch
  <2>2. i.op = x.op /\ is_branch(x.op) /\ ~IsJump(x.op)
    <3>1. x.op \notin {"J", "JAL"}
      BY <2>1 DEF PseudoBranch
    <3> QED
      BY <1>4, <1>5, <2>1, <3>1, Transferring DEF Alike, IsJump
  <2>3. ReachOf(i.op) \in Nat /\ m <= ReachOf(i.op)
    BY <2>1, <2>2, ReachAssumption DEF ReachOf, EstReach
  <2>4. HasOffset(attr, k) /\ i.simm = OffsetOf(attr, k)
    BY <1>1, <2>2 DEF IInv, OffsetsCorrect
  <2>5. t \in 1..Len(prog) /\ k + 1 \in 1..Len(prog) /\ i.simm = a[t] - a[k + 1]
    <3>1. Arrays(prog, attr) /\ Placed(prog, attr)
      BY <1>1, TypeFacts DEF IInv
    <3> QED
      BY <2>4, <3>1, OffsetType, OffsetValue
  <2>6. attr[k].target_index = TargetIndex(x, k)
    BY DEF Faithful, TargetsRead
  <2>7. d \in Int /\ x.simm \in Int
    <3>1. x.simm \in Int /\ 4 \in Nat /\ 4 > 0
      BY <1>3, InstrFields
    <3> HIDE DEF x
    <3> QED
      BY <3>1, CDivType
  <2>8. t - (k + 1) = d
    <3>1. TargetIndex(x, k) = k + d
      BY <2>2 DEF TargetIndex
    <3> HIDE DEF d
    <3> QED
      BY <2>6, <2>7, <3>1
  <2>9. a[t] \in Nat /\ a[k + 1] \in Nat
    <3>1. t \in 1..Len(prog) + 1 /\ k + 1 \in 1..Len(prog) + 1
      BY <1>2, <2>5
    <3>2. a \in [1..Len(prog) + 1 -> Nat]
      BY <1>2, NewAddrSteps
    <3> HIDE DEF a, t
    <3> QED
      BY <3>1, <3>2
  <2> DEFINE z == i.simm
  <2>10. z \in Int /\ ((0 <= z /\ z <= 4 * d) \/ (z <= 0 /\ 4 * d <= z))
    <3> HIDE DEF t, a, d
    <3>1. t \in k + 1..Len(prog) + 1 \/ k + 1 \in t..Len(prog) + 1
      BY <1>2, <2>5
    <3>2. CASE t \in k + 1..Len(prog) + 1
      <4>1. k + 1 \in 1..Len(prog) + 1
        BY <1>2, <2>5
      <4>2. 0 <= a[t] - a[k + 1] /\ a[t] - a[k + 1] <= 4 * (t - (k + 1))
        BY <1>2, <3>2, <4>1, NewAddrDistance DEF a
      <4> HIDE DEF z
      <4>3. z = a[t] - a[k + 1]
        BY <2>5 DEF z
      <4> QED
        BY <2>7, <2>8, <2>9, <4>2, <4>3
    <3>3. CASE k + 1 \in t..Len(prog) + 1
      <4>3. t \in 1..Len(prog) + 1
        BY <1>2, <2>5
      <4>1. 0 <= a[k + 1] - a[t] /\ a[k + 1] - a[t] <= 4 * ((k + 1) - t)
        BY <1>2, <3>3, <4>3, NewAddrDistance DEF a
      <4>2. (k + 1) - t = -d /\ 4 * ((k + 1) - t) = -(4 * d)
        BY <2>5, <2>7, <2>8
      <4> HIDE DEF z
      <4>4. z = a[t] - a[k + 1]
        BY <2>5 DEF z
      <4>5. z \in Int /\ z <= 0 /\ 0 - z <= 4 * ((k + 1) - t)
        BY <2>9, <4>1, <4>4, SMTT(30)
      <4> QED
        BY <2>7, <4>2, <4>5
    <3> QED
      BY <3>1, <3>2, <3>3
  <2>11. z \in -ReachOf(i.op)..ReachOf(i.op) - 2
    <3> DEFINE r == ReachOf(i.op)
               y == x.simm
    <3>1. /\ m \in Nat /\ 2 <= m /\ r \in Nat /\ m <= r /\ y \in -m..m - 2 /\ y \in Int
          /\ d \in Int /\ d = CDiv(y, 4)
      BY <2>1, <2>3, <2>7
    <3> HIDE DEF m, z, r, d, y
    <3>2. z \in -r..r - 2
      BY <2>10, <3>1, NearerInReach, ZenonT(60)
    <3> QED
      BY <3>2 DEF r
  <2>12. Compressible(i)
    BY <1>2, <2>1, <2>2, <2>11, CompressibleMeans
  <2> QED
    BY <1>1, <2>1, <2>2, <2>12 DEF IInv, LongDoNot
<1> QED
  BY <1>6, <1>7

(* So what is written is no longer than what was estimated. *)
LEMMA NoLongerThanEstimated ==
  ASSUME IInv, Faithful, pc = "done", JReach >= 1024, ZReach >= 32
  PROVE  2 * Len(out) <= Addresses(EstSizes)[Len(input) + 1]
<1>1. TypeOK /\ Len(prog) = Len(input)
  BY DEF IInv, WholeInput, Corrected, Laying, Laid
<1>2. /\ input \in Seq(Word) /\ prog \in Seq(StructInstr) /\ written \in 0..Len(prog)
      /\ Len(prog) \in Nat
  BY <1>1 DEF TypeOK
<1> DEFINE e == Addresses(EstSizes)
           s == SizesOf(prog)
           n == Len(input)
<1>3. 2 * Len(out) = NewAddr(prog)[written + 1] /\ NewAddr(prog) = Addresses(s)
  BY <1>2, SizesOfType DEF IInv, OutputPlaced
<1>4. \A k \in 1..n : s[k] <= EstSizes[k]
  <2> TAKE k \in 1..n
  <2>1. s[k] = Size(prog[k]) /\ EstSizes[k] = EstSize(input[k])
    BY <1>1, <1>2, SizesOfType, EstSizesType
  <2>2. EstSize(input[k]) \in {2, 4} /\ Size(prog[k]) \in {2, 4}
    BY DEF EstSize, Size
  <2>3. EstSize(input[k]) = 2 => Size(prog[k]) = 2
    BY <1>1, EstimatedIsShort DEF Size
  <2> QED
    BY <2>1, <2>2, <2>3
<1>5. /\ s \in Seq(Nat) /\ Len(s) = n /\ EstSizes \in Seq(Nat) /\ Len(EstSizes) = n /\ n \in Nat
      /\ written + 1 \in 1..n + 1
  BY <1>1, <1>2, SizesOfType, EstSizesType
<1>6. Addresses(s)[1] = 0 /\ e[1] = 0 /\ \A k \in 1..n + 1 : e[k] \in Nat /\ Addresses(s)[k] \in Nat
  BY <1>2, <1>5, EstSizesType, AddressesSteps
<1> HIDE DEF s, n
<1>7. 1 \in 1..n + 1 /\ written + 1 \in 1..n + 1 /\ n + 1 \in written + 1..n + 1
  BY <1>5
<1>8. Addresses(s)[written + 1] - Addresses(s)[1] <= e[written + 1] - e[1]
  BY <1>4, <1>5, <1>7, AddressesShrink
<1>9. 0 <= e[n + 1] - e[written + 1]
  <2>1. \A k \in 1..n : EstSizes[k] <= EstSizes[k]
    BY <1>2, EstSizesType DEF n
  <2> QED
    BY <1>5, <1>7, <2>1, AddressesShrink
<1>10. e[written + 1] \in Nat /\ e[n + 1] \in Nat /\ Addresses(s)[written + 1] \in Nat
  BY <1>6, <1>7
<1> HIDE DEF e
<1> QED
  BY <1>3, <1>6, <1>8, <1>9, <1>10 DEF e, n

(* The sum of nothing. *)
LEMMA SumZero ==
  ASSUME NEW c, NEW f, IsSum(f, c), \A op : Times(op, c) = 0
  PROVE  f[Operation] = 0
<1> DEFINE T == {n \in Nat : \E S \in SUBSET Operation : Cardinality(S) = n /\ f[S] # 0}
<1>1. T = {}
  <2>1. SUFFICES ASSUME T # {} PROVE FALSE
    OBVIOUS
  <2>2. PICK n \in T : \A m \in T : n <= m
    <3>1. T \in SUBSET Nat
      OBVIOUS
    <3> HIDE DEF T
    <3> QED
      BY <2>1, <3>1, LeastNatural
  <2>3. PICK S \in SUBSET Operation : Cardinality(S) = n /\ f[S] # 0
    BY <2>2
  <2>4. S # {}
    BY <2>3 DEF IsSum
  <2> DEFINE less == S \ {OneOf(S)}
  <2>5. /\ less \in SUBSET Operation /\ Cardinality(less) = n - 1 /\ n - 1 \in Nat
        /\ ~(n <= n - 1)
    <3>1. n # 0
      BY <2>3, <2>4, OneRemoved
    <3>2. n \in Nat
      BY <2>2
    <3>3. less \in SUBSET Operation /\ Cardinality(less) = n - 1
      BY <2>3, <2>4, OneRemoved
    <3> HIDE DEF less, T
    <3> QED
      BY <3>1, <3>2, <3>3
  <2>6. f[less] = 0
    BY <2>2, <2>5
  <2>7. f[S] = Times(OneOf(S), c) + f[less]
    BY <2>4 DEF IsSum
  <2> QED
    BY <2>3, <2>6, <2>7
<1>2. Cardinality(Operation) \in Nat
  BY OneRemoved
<1> QED
  BY <1>1, <1>2

(* Before anything is read the estimate is 0. *)
LEMMA NothingEstimated == comp_size(NoStat) = 0
<1>1. NoStat.freq_comp = EmptyBag /\ NoStat.total_instr = 0 /\ IsList(NoStat.freq_comp)
  BY NoStatOK DEF NoStat, StatOK
<1>2. \A op : Times(op, NoStat.freq_comp) = 0
  BY <1>1 DEF Times, EmptyBag, SetToBag
<1>3. num_comp(NoStat) = 0
  BY <1>1, <1>2, NumComp, SumZero
<1> QED
  BY <1>1, <1>3 DEF comp_size

(* The estimate depends on nothing but the list of short instructions. *)
LEMMA NumCompSame ==
  ASSUME NEW s, NEW t, s.freq_comp = t.freq_comp
  PROVE  num_comp(s) = num_comp(t)
<1> DEFINE Sum(c) == CHOOSE f : IsSum(f, c)
<1>1. num_comp(s) = Sum(s.freq_comp)[Operation]
  BY DEF num_comp, IsSum, OneOf
<1>2. num_comp(t) = Sum(t.freq_comp)[Operation]
  BY DEF num_comp, IsSum, OneOf
<1> HIDE DEF Sum
<1> QED
  BY <1>1, <1>2

(* An instruction adds two bytes to the estimate, or four. *)
LEMMA EstimateGrows ==
  ASSUME NEW s, StatOK(s), NEW i \in StructInstr
  PROVE  LET s1 == [s EXCEPT !.total_instr = @ + 1]
             t  == IF i.op = "INVALID_OP" THEN s1 ELSE Updated(s1, i)
         IN /\ StatOK(t) /\ t.total_instr = s.total_instr + 1
            /\ comp_size(s) \in Int
            /\ comp_size(t) = comp_size(s)
                 + IF i.op # "INVALID_OP" /\ is_compressible(i) THEN 2 ELSE 4
<1> DEFINE s1 == [s EXCEPT !.total_instr = @ + 1]
           t  == IF i.op = "INVALID_OP" THEN s1 ELSE Updated(s1, i)
           short == i.op # "INVALID_OP" /\ is_compressible(i)
           n == s.total_instr
           c == num_comp(s)
           d == num_comp(t)
<1>1. /\ DOMAIN s1 = StatFields /\ s1.total_instr = n + 1 /\ s1.freq_comp = s.freq_comp
      /\ s1.uimm_list = s.uimm_list /\ s1.simm_list = s.simm_list /\ n \in Nat
  BY NamesOfFields DEF StatOK
<1>2. StatOK(s1)
  BY <1>1 DEF StatOK
<1> HIDE DEF s1
<1>3. StatOK(t)
  BY <1>2, UpdatedOK
<1>4. t.total_instr = n + 1
  BY <1>1, UpdatedFields
<1>5. /\ short => t.freq_comp = s.freq_comp (+) SetToBag({i.op})
      /\ ~short => t.freq_comp = s.freq_comp
  <2>1. CASE i.op = "INVALID_OP"
    BY <1>1, <2>1
  <2>2. CASE i.op # "INVALID_OP"
    <3>1. t.freq_comp = s.freq_comp (+) IF is_compressible(i) THEN SetToBag({i.op}) ELSE EmptyBag
      BY <1>1, <2>2, UpdatedFields
    <3>2. s.freq_comp (+) EmptyBag = s.freq_comp
      BY CountedNot DEF StatOK
    <3> QED
      BY <2>2, <3>1, <3>2
  <2> QED
    BY <2>1, <2>2
<1>6. i.op \in Operation
  BY InstrFields
<1> HIDE DEF t, short
<1>7. IsList(s.freq_comp) /\ IsList(t.freq_comp)
  BY <1>3 DEF StatOK
<1>8. \A op : Times(op, s.freq_comp) \in Nat
  BY <1>7 DEF Times, IsList
<1>9. PICK f : IsSum(f, s.freq_comp) /\ c = f[Operation]
  BY <1>7, NumComp
<1>10. PICK g : IsSum(g, t.freq_comp) /\ d = g[Operation]
  BY <1>7, NumComp
<1>11. \A op : Times(op, s.freq_comp (+) SetToBag({i.op}))
                 = Times(op, s.freq_comp) + IF op = i.op THEN 1 ELSE 0
  BY <1>7, CountedOnce
<1>12. c \in Nat
  <2>1. PICK h : IsSum(h, s.freq_comp (+) SetToBag({i.op}))
    <3>1. \A op : Times(op, s.freq_comp (+) SetToBag({i.op})) \in Nat
      BY <1>8, <1>11, SMTT(30)
    <3> QED
      BY <3>1, SumExists
  <2> QED
    BY <1>6, <1>8, <1>9, <1>11, <2>1, SumGrows
<1>13. short => d = c + 1
  BY <1>5, <1>6, <1>8, <1>9, <1>10, <1>11, SumGrows, SMTT(30)
<1>14. ~short => d = c
  <2>1. ~short => t.freq_comp = s.freq_comp
    BY <1>5
  <2> QED
    BY <2>1, NumCompSame DEF c, d
<1>15. comp_size(s) = c * 2 + (n - c) * 4 /\ comp_size(t) = d * 2 + ((n + 1) - d) * 4
  BY <1>4 DEF comp_size
<1> HIDE DEF c, d, n
<1>16. /\ comp_size(s) \in Int
       /\ comp_size(t) = comp_size(s) + IF short THEN 2 ELSE 4
  BY <1>1, <1>12, <1>13, <1>14, <1>15
<1> QED
  BY <1>3, <1>4, <1>16 DEF t, s1, short, n

(* While the analyzer reads a native program, its estimate is the sum of   *)
(* the sizes of what it has read; afterwards that of the whole program.    *)
EstimatedUpTo(s, n) ==
  n \in 0..Len(input) /\ s.total_instr = n /\ comp_size(s) = Addresses(EstSizes)[n + 1]

Counting ==
  /\ pc = "parse"
  /\ options.v2 = FALSE /\ options.psd = TRUE
  /\ contents = NativeFile
  /\ EstimatedUpTo(stat, stat.total_instr) /\ at = 2 * stat.total_instr
  /\ stage \in {"read", "merge", "done", "crash"}
  /\ stage # "read" => stat.total_instr = Len(input)

CountOK ==
  input # <<>> /\ conv =>
    IF tool = "count" THEN Counting ELSE EstimatedUpTo(counted, Len(input))

(* At the start nothing is read. *)
LEMMA CountInit ==
  ASSUME IInit
  PROVE  CountOK
<1> SUFFICES ASSUME input # <<>>, conv PROVE CountOK
  BY DEF CountOK
<1>1. /\ tool = "count" /\ pc = "parse" /\ input \in Programs
      /\ options = Command(FALSE) /\ contents = NativeFile
      /\ at = 0 /\ stat = NoStat /\ stage = "read"
  BY DEF IInit
<1>2. input \in Seq(Word)
  BY <1>1, ProgramsAssumption
<1>3. options.v2 = FALSE /\ options.psd = TRUE
  BY <1>1 DEF Command
<1>4. stat.total_instr = 0 /\ comp_size(stat) = 0
  BY <1>1, NothingEstimated DEF NoStat
<1>5. Addresses(EstSizes)[0 + 1] = 0 /\ 0 \in 0..Len(input) /\ 2 * 0 = 0
  BY <1>2, EstSizesType
<1> QED
  BY <1>1, <1>3, <1>4, <1>5 DEF CountOK, Counting, EstimatedUpTo

(* The next instruction of a native file is the next word of the program.  *)
LEMMA NextWord ==
  ASSUME input \in Seq(Word), contents = NativeFile, options.v2 = FALSE, options.psd = TRUE,
         NEW n \in 0..Len(input), at = 2 * n
  PROVE  /\ More <=> n # Len(input)
         /\ More => /\ n + 1 \in 1..Len(input)
                    /\ Decoded(contents, at + 1, options.v2).rc = 4
                    /\ Analyzed(Decoded(contents, at + 1, options.v2).instr)
                         = Parsed(input[n + 1])
<1>1. /\ Len(NativeFile) = 2 * Len(input) /\ Len(input) \in Nat /\ n \in Nat
      /\ \A k \in 1..Len(input) :
           NativeFile[2 * k - 1] = input[k][1] /\ NativeFile[2 * k] = input[k][2]
  BY NativeFileType
<1>2. More <=> n # Len(input)
  <2>1. More <=> 2 * Len(input) - 2 * n >= 2
    BY <1>1 DEF More, HasInstr
  <2> QED
    BY <1>1, <2>1
<1>3. ASSUME More
      PROVE  /\ n + 1 \in 1..Len(input)
             /\ <<contents[at + 1], contents[at + 2]>> = input[n + 1]
  <2>1. n + 1 \in 1..Len(input) /\ at + 1 = 2 * (n + 1) - 1 /\ at + 2 = 2 * (n + 1)
    BY <1>1, <1>2, <1>3
  <2>2. input[n + 1] \in Word
    BY <2>1
  <2>3. contents[at + 1] = input[n + 1][1] /\ contents[at + 2] = input[n + 1][2]
    BY <1>1, <2>1
  <2> QED
    BY <2>1, <2>2, <2>3, WordParts
<1>4. (at + 1) + 1 = at + 2
  BY <1>1
<1>5. ASSUME More
      PROVE  Decoded(contents, at + 1, options.v2)
               = [rc |-> 4, instr |-> parse_instr(input[n + 1])]
  BY <1>3, <1>4, <1>5 DEF Decoded
<1>6. \A x : Analyzed(x) = conv_to_pseudo(x)
  BY DEF Analyzed
<1>7. ASSUME More
      PROVE  /\ Decoded(contents, at + 1, options.v2).rc = 4
             /\ Decoded(contents, at + 1, options.v2).instr = parse_instr(input[n + 1])
  BY <1>5, <1>7
<1> QED
  BY <1>2, <1>3, <1>6, <1>7 DEF Parsed

(* A step of the analyzer keeps count. *)
LEMMA CountingKeeps ==
  ASSUME input \in Seq(Word), AnalyzerOK, Counting, ANext, UNCHANGED vars
  PROVE  Counting'
<1> DEFINE n == stat.total_instr
           e == Addresses(EstSizes)
<1>1. /\ n \in 0..Len(input) /\ comp_size(stat) = e[n + 1] /\ at = 2 * n
      /\ options.v2 = FALSE /\ options.psd = TRUE /\ contents = NativeFile
      /\ StatOK(stat) /\ n \in Nat
  BY DEF Counting, EstimatedUpTo, AnalyzerOK
<1>2. /\ pc' = pc /\ input' = input /\ NativeFile' = NativeFile
      /\ Addresses(EstSizes)' = Addresses(EstSizes)
  <2>1. pc' = pc /\ input' = input
    BY DEF vars
  <2>2. NativeFile' = NativeFile
    BY <2>1 DEF NativeFile
  <2>3. EstSizes' = EstSizes
    BY <2>1 DEF EstSizes
  <2> QED
    BY <2>1, <2>2, <2>3
<1>3. CASE ReadInstr
  <2> DEFINE d == Decoded(contents, at + 1, options.v2)
             w == Parsed(input[n + 1])
             s == [stat EXCEPT !.total_instr = @ + 1]
             t == IF w.op = "INVALID_OP" THEN s ELSE Updated(s, w)
  <2>1. More /\ stage = "read" /\ UNCHANGED <<options, contents>>
    BY <1>3 DEF ReadInstr
  <2>2. n + 1 \in 1..Len(input) /\ d.rc = 4 /\ Analyzed(d.instr) = w
    BY <1>1, <2>1, NextWord
  <2>3. at' = at + 2 /\ stat' = t /\ stage' = stage
    <3>1. 4 # -1
      OBVIOUS
    <3> QED
      BY <1>1, <1>3, <2>2, <3>1 DEF ReadInstr
  <2>4. w \in StructInstr
    BY <2>2, ParsedType
  <2>5. StatOK(t) /\ t.total_instr = n + 1 /\ comp_size(t) = comp_size(stat) + EstSize(input[n + 1])
    BY <1>1, <2>4, EstimateGrows DEF EstSize
  <2> HIDE DEF t
  <2>6. e[(n + 1) + 1] = e[n + 1] + EstSize(input[n + 1])
    BY <2>2, EstSizesType
  <2>7. n + 1 \in 0..Len(input) /\ at' = 2 * (n + 1)
    <3>1. n \in Nat /\ at = 2 * n /\ at' = at + 2 /\ n + 1 \in 1..Len(input)
      BY <1>1, <2>2, <2>3
    <3> HIDE DEF n
    <3> QED
      BY <3>1
  <2>8. stat'.total_instr = n + 1 /\ comp_size(stat') = e[(n + 1) + 1]
    BY <1>1, <2>3, <2>5, <2>6
  <2>9. EstimatedUpTo(stat, stat.total_instr)' /\ at' = 2 * stat'.total_instr
    <3> HIDE DEF n, e
    <3>1. /\ stat'.total_instr \in 0..Len(input') /\ at' = 2 * stat'.total_instr
          /\ comp_size(stat') = e[stat'.total_instr + 1]
      BY <1>2, <2>7, <2>8
    <3> QED
      BY <1>2, <3>1 DEF EstimatedUpTo, e, comp_size, num_comp
  <2> QED
    BY <1>1, <1>2, <2>1, <2>3, <2>9 DEF Counting
<1>4. CASE ~ReadInstr
  <2>1. /\ UNCHANGED <<options, contents, at, stat>>
        /\ stage' \in {"merge", "done", "crash"}
        /\ stage # "read" \/ ~More
    BY <1>4 DEF ANext, PrintStat, UnsignedRow, SignedRow, BothRow, RowOf, EmptyRow
  <2>2. n = Len(input)
    BY <1>1, <2>1, NextWord DEF Counting
  <2>3. EstimatedUpTo(stat, stat.total_instr)'
    BY <1>1, <1>2, <2>1 DEF EstimatedUpTo, comp_size, num_comp
  <2> QED
    BY <1>1, <1>2, <2>1, <2>2, <2>3 DEF Counting
<1> QED
  BY <1>3, <1>4

(* The input and the option -p stay what they were. *)
LEMMA InspectStays ==
  ASSUME [INext]_<<vars, avars, dvars, ivars>>
  PROVE  input' = input /\ conv' = conv
<1>1. Next => input' = input
  BY DEF Next, ParseInstr, CorrectOffsets, ConvertJumps, CompressBranch, CorrectTargets,
         WriteInstr, Return
<1>2. DNext => conv' = conv
  BY DEF DNext, PrintLine, EndListing
<1>3. \A file, c : StartDisas(file, c) => conv' = conv
  BY DEF StartDisas
<1> QED
  BY <1>1, <1>2, <1>3
     DEF INext, Analyze, CountedNative, ConvertStep, CountCompressed, ListNative, List,
         ListCompressed, Over, vars, dvars

(* Every step of the tools keeps the estimate. *)
LEMMA CountKeeps ==
  ASSUME InspectOK, CountOK, [INext]_<<vars, avars, dvars, ivars>>
  PROVE  CountOK'
<1>1. input' = input /\ conv' = conv
  BY InspectStays
<1> SUFFICES ASSUME input # <<>>, conv PROVE CountOK'
  BY <1>1 DEF CountOK
<1>2. input \in Seq(Word)
  BY FilesTyped DEF InspectOK
<1>3. EstSizes' = EstSizes /\ NativeFile' = NativeFile
  BY <1>1 DEF EstSizes, NativeFile
<1>4. ASSUME EstimatedUpTo(counted, Len(input)), counted' = counted, tool' # "count"
      PROVE  CountOK'
  BY <1>1, <1>3, <1>4 DEF CountOK, EstimatedUpTo, comp_size, num_comp
<1>5. CASE Analyze /\ tool = "count"
  <2>1. ANext /\ UNCHANGED vars /\ tool' = "count"
    BY <1>5 DEF Analyze, ivars
  <2>2. Counting
    BY <1>5 DEF CountOK
  <2>3. Counting'
    BY <1>2, <2>1, <2>2, CountingKeeps DEF InspectOK
  <2> QED
    BY <2>1, <2>3 DEF CountOK
<1>6. CASE CountedNative
  <2>1. tool = "count" /\ AnalyzerEnded /\ tool' = "convert" /\ counted' = stat
    BY <1>6 DEF CountedNative
  <2>2. EstimatedUpTo(stat, Len(input))
    BY <2>1 DEF CountOK, Counting, EstimatedUpTo, AnalyzerEnded
  <2> QED
    BY <1>1, <1>3, <2>1, <2>2 DEF CountOK, EstimatedUpTo, comp_size, num_comp
<1>7. CASE UNCHANGED <<vars, avars, dvars, ivars>> /\ tool = "count"
  BY <1>1, <1>3, <1>7
     DEF CountOK, Counting, EstimatedUpTo, comp_size, num_comp, vars, avars, ivars
<1>8. CASE tool # "count"
  <2>1. counted' = counted /\ tool' # "count"
    BY <1>8 DEF INext, Analyze, CountedNative, ConvertStep, CountCompressed, ListNative, List,
                ListCompressed, Over, ivars
  <2> QED
    BY <1>4, <1>8, <2>1 DEF CountOK
<1>9. CASE tool = "count" /\ INext
  BY <1>5, <1>6, <1>9 DEF INext, ConvertStep, CountCompressed, ListNative, List,
                          ListCompressed, Over, Analyze
<1> QED
  BY <1>7, <1>8, <1>9

(* What the analyzer takes the compressed program to need is enough for    *)
(* what the converter makes of it, for every program, when short jumps and *)
(* branches reach at least as far as the analyzer assumes.                 *)
THEOREM EstimateHolds ==
  ASSUME JReach >= 1024, ZReach >= 32
  PROVE  ISpec => []EstimateBounds
<1>1. IInit => InspectOK /\ CountOK
  BY InspectInit, CountInit
<1>2. InspectOK /\ CountOK /\ [INext]_<<vars, avars, dvars, ivars>> => InspectOK' /\ CountOK'
  BY InspectKeeps, CountKeeps
<1>3. InspectOK /\ CountOK => EstimateBounds
  <2> SUFFICES ASSUME InspectOK, CountOK, input # <<>>, pc = "done", conv
               PROVE  comp_size(counted) >= 2 * Len(out)
    BY DEF EstimateBounds, Converting
  <2>1. IInv /\ Faithful
    BY DEF InspectOK, OriginOK
  <2>2. tool # "count" /\ comp_size(counted) = Addresses(EstSizes)[Len(input) + 1]
    BY DEF CountOK, Counting, EstimatedUpTo
  <2>3. 2 * Len(out) <= comp_size(counted)
    BY <2>1, <2>2, NoLongerThanEstimated
  <2>4. Len(out) \in Nat /\ Addresses(EstSizes)[Len(input) + 1] \in Nat
    <3>1. input \in Seq(Word) /\ out \in Seq(Half)
      BY <2>1 DEF IInv, TypeOK
    <3>2. Len(input) + 1 \in 1..Len(input) + 1 /\ Len(out) \in Nat
      BY <3>1
    <3> QED
      BY <3>1, <3>2, EstSizesType
  <2> QED
    BY <2>2, <2>3, <2>4
<1> QED
  BY <1>1, <1>2, <1>3, PTL DEF ISpec
(***************************************************************************)
(* What the two tools that read a file have read of it                     *)
(***************************************************************************)

(* at is the place behind the first j instructions of a file, j <= m.      *)
Width(file, v, h) == IF v THEN V2Halves(file, h) ELSE 2

Places(P, m, file, v) ==
  /\ m \in Nat
  /\ P[0] = 0
  /\ \A j \in 0..m - 1 : /\ HasInstr(file, P[j], v)
                         /\ P[j + 1] = P[j] + Width(file, v, P[j] + 1)

Seen(file, v, psd, h) ==
  LET i == Decoded(file, h + 1, v).instr IN IF psd THEN conv_to_pseudo(i) ELSE i

(* One iteration of the loop of analyze2. *)
Added(s, i) ==
  LET t == [s EXCEPT !.total_instr = @ + 1]
  IN IF i.op = "INVALID_OP" THEN t ELSE Updated(t, i)

(* S has the statistics as they were after each instruction. *)
Statistics(S, P, m, file, v, psd) ==
  /\ S[0] = NoStat
  /\ \A j \in 0..m - 1 : /\ Decoded(file, P[j] + 1, v).rc # -1
                         /\ S[j + 1] = Added(S[j], Seen(file, v, psd, P[j]))

(* That a is how far the analyzer has come in a file, and s what it has    *)
(* counted; and why it stopped there, if it did.                           *)
CountedFrom(file, v, psd, a, s, where) ==
  \E m, P, S :
    /\ Places(P, m, file, v) /\ Statistics(S, P, m, file, v, psd)
    /\ P[m] = a /\ S[m] = s
    /\ where \in {"merge", "done", "crash"} => ~HasInstr(file, a, v)
    /\ where = "abort" => HasInstr(file, a, v) /\ Decoded(file, a + 1, v).rc = -1

(* The line that the disassembler prints for the instruction at h. *)
Line(file, v, psd, h, address) ==
  LET i == Seen(file, v, psd, h)
  IN [at |-> address, c |-> v /\ ~IsLong(file, h + 1), name |-> Name(i),
      operands |-> Operands(i)]

Lines(l, P, m, file, v, psd) ==
  /\ Len(l) = m
  /\ \A j \in 0..m - 1 :
       /\ Decoded(file, P[j] + 1, v).rc # -1
       /\ Decoded(file, P[j] + 1, v).instr.op # "INVALID_OP"
       /\ l[j + 1] = Line(file, v, psd, P[j], l[j + 1].at)

(* The address of each line is the one behind the line before it. *)
After(l, n) == IF n = 0 THEN 0 ELSE l[n].at + IF l[n].c THEN 2 ELSE 4

(* A sequence. *)
IsSequence(l) == Len(l) \in Nat /\ l = [n \in 1..Len(l) |-> l[n]]

ListedFrom(file, v, psd, h, l, address, end) ==
  /\ IsSequence(l) /\ end \in {"none", "done", "exit", "abort"}
  /\ \E m, P :
       /\ Places(P, m, file, v) /\ Lines(l, P, m, file, v, psd)
       /\ P[m] = h
       /\ \A n \in 1..m : l[n].at = After(l, n - 1)
       /\ address = After(l, m)
       /\ end = "done" => ~HasInstr(file, h, v)
       /\ end \in {"exit", "abort"} =>
            /\ HasInstr(file, h, v)
            /\ \/ Decoded(file, h + 1, v).rc = -1
               \/ Decoded(file, h + 1, v).instr.op = "INVALID_OP"

(* One more instruction has been read. *)
LEMMA MorePlaces ==
  ASSUME NEW P, NEW m, NEW file, NEW v, Places(P, m, file, v), HasInstr(file, P[m], v)
  PROVE  \E Q : /\ Places(Q, m + 1, file, v) /\ Q[m + 1] = P[m] + Width(file, v, P[m] + 1)
               /\ \A j \in 0..m : Q[j] = P[j]
<1> DEFINE n == m + 1
           x == P[m] + Width(file, v, P[m] + 1)
           Q == [j \in 0..n |-> IF j = n THEN x ELSE P[j]]
<1>1. m \in Nat /\ P[0] = 0
  BY DEF Places
<1>2. n \in Nat /\ n # 0 /\ n \in 0..n /\ \A j \in 0..m : j \in 0..n /\ j # n
  BY <1>1
<1>3. Q[n] = x /\ \A j \in 0..m : Q[j] = P[j]
  <2> HIDE DEF x, n
  <2> QED BY <1>2
<1> HIDE DEF Q, x
<1>4. ASSUME NEW j \in 0..n - 1
      PROVE  HasInstr(file, Q[j], v) /\ Q[j + 1] = Q[j] + Width(file, v, Q[j] + 1)
  <2>1. CASE j = m
    BY <1>1, <1>3, <2>1 DEF x
  <2>2. CASE j # m
    <3>1. j \in 0..m - 1 /\ j \in 0..m /\ j + 1 \in 0..m
      BY <1>1, <2>2
    <3> QED
      BY <1>3, <3>1 DEF Places
  <2> QED
    BY <2>1, <2>2
<1>5. 0 \in 0..m
  BY <1>1
<1>6. Places(Q, n, file, v)
  BY <1>1, <1>2, <1>3, <1>4, <1>5 DEF Places
<1> QED
  BY <1>3, <1>6 DEF x

(* The analyzer starts with nothing counted. *)
LEMMA CountStart ==
  ASSUME NEW file, NEW v, NEW psd
  PROVE  CountedFrom(file, v, psd, 0, NoStat, "read")
<1> DEFINE P == [j \in {0} |-> 0]
           S == [j \in {0} |-> NoStat]
<1>1. \A j \in 0..0 - 1 : FALSE
  OBVIOUS
<1>2. 0 \in Nat /\ P[0] = 0 /\ S[0] = NoStat
  OBVIOUS
<1> HIDE DEF P, S
<1>3. Places(P, 0, file, v) /\ Statistics(S, P, 0, file, v, psd)
  BY <1>1, <1>2 DEF Places, Statistics
<1> QED
  BY <1>2, <1>3, Zenon DEF CountedFrom

(* A step of the analyzer is an iteration of its loop, or it has stopped.  *)
LEMMA CountStep ==
  ASSUME CountedFrom(contents, options.v2, options.psd, at, stat, stage), ANext
  PROVE  CountedFrom(contents, options.v2, options.psd, at, stat, stage)'
<1> DEFINE v == options.v2
           psd == options.psd
<1>1. PICK m, P, S :
        /\ Places(P, m, contents, v) /\ Statistics(S, P, m, contents, v, psd)
        /\ P[m] = at /\ S[m] = stat
        /\ stage \in {"merge", "done", "crash"} => ~HasInstr(contents, at, v)
        /\ stage = "abort" => /\ HasInstr(contents, at, v)
                              /\ Decoded(contents, at + 1, v).rc = -1
  BY DEF CountedFrom
<1>2. contents' = contents /\ options' = options
  BY DEF ANext, ReadInstr, PrintStat, UnsignedRow, SignedRow, BothRow, RowOf, EmptyRow
<1>3. CASE ReadInstr /\ Decoded(contents, at + 1, v).rc = -1
  <2>1. stage' = "abort" /\ at' = at /\ stat' = stat /\ HasInstr(contents, at, v)
    BY <1>3 DEF ReadInstr, More
  <2>2. CountedFrom(contents, v, psd, at, stat, "abort")
    BY <1>1, <1>3, <2>1 DEF CountedFrom
  <2> QED
    BY <1>2, <2>1, <2>2
<1>4. CASE ReadInstr /\ Decoded(contents, at + 1, v).rc # -1
  <2> DEFINE i == Seen(contents, v, psd, at)
             n == m + 1
             T == [j \in 0..n |-> IF j = n THEN Added(S[m], i) ELSE S[j]]
  <2>1. /\ HasInstr(contents, at, v) /\ stage = "read" /\ stage' = stage
        /\ at' = at + Width(contents, v, at + 1)
    BY <1>4 DEF ReadInstr, More, Width
  <2>2. stat' = Added(stat, i)
    BY <1>4, Zenon DEF ReadInstr, Added, Seen, Analyzed
  <2>3. PICK Q : /\ Places(Q, n, contents, v) /\ Q[n] = at'
                 /\ \A j \in 0..m : Q[j] = P[j]
    BY <1>1, <2>1, MorePlaces
  <2>4. m \in Nat /\ n \in 0..n /\ \A j \in 0..m : j \in 0..n /\ j # n
    BY <1>1 DEF Places
  <2>5. T[n] = stat' /\ \A j \in 0..m : T[j] = S[j]
    <3>1. T[n] = Added(S[m], i)
      <4> HIDE DEF n, i
      <4> QED BY <2>4
    <3>2. \A j \in 0..m : T[j] = S[j]
      <4> HIDE DEF n, i
      <4> QED BY <2>4
    <3> QED
      BY <1>1, <2>2, <3>1, <3>2
  <2> HIDE DEF T
  <2>6. ASSUME NEW j \in 0..n - 1
        PROVE  /\ Decoded(contents, Q[j] + 1, v).rc # -1
               /\ T[j + 1] = Added(T[j], Seen(contents, v, psd, Q[j]))
    <3>1. CASE j = m
      <4>1. j \in 0..m
        BY <2>4, <3>1
      <4>2. T[j + 1] = stat' /\ T[j] = stat /\ Q[j] = at
        BY <1>1, <2>5, <2>3, <3>1, <4>1
      <4> QED
        BY <1>4, <2>2, <4>2
    <3>2. CASE j # m
      <4>1. j \in 0..m - 1 /\ j \in 0..m /\ j + 1 \in 0..m
        BY <2>4, <3>2
      <4> QED
        BY <1>1, <2>3, <2>5, <4>1 DEF Statistics
    <3> QED
      BY <3>1, <3>2
  <2>7. T[0] = NoStat
    <3>1. 0 \in 0..m
      BY <2>4
    <3> QED
      BY <1>1, <2>5, <3>1 DEF Statistics
  <2>8. Statistics(T, Q, n, contents, v, psd)
    BY <2>6, <2>7 DEF Statistics
  <2>9. CountedFrom(contents, v, psd, at', stat', stage')
    BY <2>1, <2>3, <2>5, <2>8 DEF CountedFrom
  <2> QED
    BY <1>2, <2>9
<1>5. CASE ~ReadInstr
  <2>1. /\ at' = at /\ stat' = stat /\ stage' \in {"merge", "done", "crash"}
        /\ stage \in {"merge", "done", "crash"} \/ ~HasInstr(contents, at, v)
    BY <1>5 DEF ANext, PrintStat, UnsignedRow, SignedRow, BothRow, RowOf, EmptyRow, More
  <2>2. CountedFrom(contents, v, psd, at, stat, stage')
    BY <1>1, <2>1 DEF CountedFrom
  <2> QED
    BY <1>2, <2>1, <2>2
<1> QED
  BY <1>3, <1>4, <1>5

(* A line more: the ones before it stay what they are. *)
LEMMA LineAdded ==
  ASSUME NEW l, IsSequence(l), NEW x
  PROVE  LET q == Append(l, x)
         IN /\ IsSequence(q) /\ Len(q) = Len(l) + 1 /\ q[Len(l) + 1] = x
            /\ \A n \in 1..Len(l) : q[n] = l[n]
<1> DEFINE S == {l[n] : n \in 1..Len(l)} \cup {x}
           q == Append(l, x)
<1>1. Len(l) \in Nat /\ l = [n \in 1..Len(l) |-> l[n]]
  BY DEF IsSequence
<1>2. l \in Seq(S) /\ x \in S
  <2>1. \A n \in 1..Len(l) : l[n] \in S
    OBVIOUS
  <2>2. l \in [1..Len(l) -> S]
    <3> HIDE DEF S
    <3> QED BY <1>1, <2>1, Zenon
  <2> HIDE DEF S
  <2>3. [1..Len(l) -> S] \subseteq Seq(S)
    BY <1>1
  <2> QED
    BY <2>2, <2>3 DEF S
<1> HIDE DEF S
<1>3. /\ q \in Seq(S) /\ Len(q) = Len(l) + 1 /\ q[Len(l) + 1] = x
      /\ \A n \in 1..Len(l) : q[n] = l[n]
  BY <1>2
<1> HIDE DEF q
<1>4. Len(q) \in Nat /\ q = [n \in 1..Len(q) |-> q[n]]
  BY <1>3
<1> QED
  BY <1>3, <1>4 DEF IsSequence, q

(* The disassembler starts with an empty listing. *)
LEMMA ListStart ==
  ASSUME NEW file, NEW v, NEW psd
  PROVE  ListedFrom(file, v, psd, 0, <<>>, 0, "none")
<1> DEFINE P == [j \in {0} |-> 0]
<1>1. (\A j \in 0..0 - 1 : FALSE) /\ (\A n \in 1..0 : FALSE)
  OBVIOUS
<1>2. 0 \in Nat /\ P[0] = 0 /\ Len(<<>>) = 0 /\ <<>> = [n \in 1..0 |-> <<>>[n]]
  <2>1. \A f, g : f = [n \in 1..0 |-> f[n]] /\ g = [n \in 1..0 |-> g[n]] => f = g
    BY <1>1
  <2>2. <<>> = [n \in 1..Len(<<>>) |-> <<>>[n]] /\ Len(<<>>) = 0
    OBVIOUS
  <2> QED
    BY <2>2
<1> HIDE DEF P
<1>3. Places(P, 0, file, v)
  BY <1>1, <1>2 DEF Places
<1>4. Lines(<<>>, P, 0, file, v, psd)
  BY <1>1, <1>2 DEF Lines
<1>5. IsSequence(<<>>) /\ After(<<>>, 0) = 0
  BY <1>2 DEF IsSequence, After
<1>6. "none" # "done" /\ "none" \notin {"exit", "abort"}
  OBVIOUS
<1> QED
  BY <1>1, <1>2, <1>3, <1>4, <1>5, <1>6 DEF ListedFrom

(* A step of the disassembler prints the next instruction, or ends. *)
LEMMA ListStep ==
  ASSUME ListedFrom(bytes, v2, conv, taken, listing, addr, ending), DNext
  PROVE  ListedFrom(bytes, v2, conv, taken, listing, addr, ending)'
<1> DEFINE d == Decoded(bytes, taken + 1, v2)
           stops == d.rc = -1 \/ d.instr.op = "INVALID_OP"
<1>1. PICK m, P :
        /\ Places(P, m, bytes, v2) /\ Lines(listing, P, m, bytes, v2, conv)
        /\ P[m] = taken
        /\ \A n \in 1..m : listing[n].at = After(listing, n - 1)
        /\ addr = After(listing, m)
  BY DEF ListedFrom
<1>2. bytes' = bytes /\ v2' = v2 /\ conv' = conv /\ IsSequence(listing) /\ m \in Nat
  BY <1>1 DEF DNext, PrintLine, EndListing, ListedFrom, Places
<1>3. CASE EndListing
  <2>1. /\ taken' = taken /\ listing' = listing /\ addr' = addr /\ ending' = "done"
        /\ ~HasInstr(bytes, taken, v2)
    BY <1>3 DEF EndListing
  <2>2. ListedFrom(bytes, v2, conv, taken, listing, addr, "done")
    BY <1>1, <1>2, <2>1 DEF ListedFrom
  <2> QED
    BY <1>2, <2>1, <2>2
<1>4. CASE PrintLine /\ stops
  <2>1. /\ taken' = taken /\ listing' = listing /\ addr' = addr
        /\ ending' \in {"abort", "exit"} /\ HasInstr(bytes, taken, v2)
    BY <1>4 DEF PrintLine
  <2>2. ListedFrom(bytes, v2, conv, taken, listing, addr, ending')
    BY <1>1, <1>2, <1>4, <2>1 DEF ListedFrom
  <2> QED
    BY <1>2, <2>1, <2>2
<1>5. CASE PrintLine /\ ~stops
  <2> DEFINE small == v2 /\ ~IsLong(bytes, taken + 1)
             new == Line(bytes, v2, conv, taken, addr)
             n == m + 1
  <2>1. /\ HasInstr(bytes, taken, v2) /\ ending = "none" /\ ending' = ending
        /\ taken' = taken + Width(bytes, v2, taken + 1)
        /\ addr' = addr + IF small THEN 2 ELSE 4
    BY <1>5 DEF PrintLine, Width
  <2>2. listing' = Append(listing, new)
    BY <1>5, Zenon DEF PrintLine, Line, Text, Seen
  <2>3. PICK Q : /\ Places(Q, n, bytes, v2) /\ Q[n] = taken'
                 /\ \A j \in 0..m : Q[j] = P[j]
    BY <1>1, <2>1, MorePlaces
  <2>4. new.at = addr /\ new.c = small
    BY DEF Line
  <2>5. /\ IsSequence(listing') /\ Len(listing') = n /\ listing'[n] = new
        /\ \A k \in 1..m : listing'[k] = listing[k]
    <3>1. Len(listing) = m
      BY <1>1 DEF Lines
    <3> QED
      BY <1>2, <2>2, <3>1, LineAdded
  <2> HIDE DEF new, small
  <2>6. ASSUME NEW j \in 0..n - 1
        PROVE  /\ Decoded(bytes, Q[j] + 1, v2).rc # -1
               /\ Decoded(bytes, Q[j] + 1, v2).instr.op # "INVALID_OP"
               /\ listing'[j + 1] = Line(bytes, v2, conv, Q[j], listing'[j + 1].at)
    <3>1. CASE j = m
      <4>1. j \in 0..m
        BY <1>2, <3>1
      <4>2. listing'[j + 1] = new /\ Q[j] = taken
        BY <1>1, <2>3, <2>5, <3>1, <4>1
      <4> QED
        BY <1>5, <2>4, <4>2 DEF new
    <3>2. CASE j # m
      <4>1. j \in 0..m - 1 /\ j \in 0..m /\ j + 1 \in 1..m
        BY <1>2, <3>2
      <4>2. listing'[j + 1] = listing[j + 1] /\ Q[j] = P[j]
        BY <2>3, <2>5, <4>1
      <4> QED
        BY <1>1, <4>1, <4>2 DEF Lines
    <3> QED
      BY <3>1, <3>2
  <2>7. Lines(listing', Q, n, bytes, v2, conv)
    BY <2>5, <2>6 DEF Lines
  <2>8. ASSUME NEW k \in 0..m PROVE After(listing', k) = After(listing, k)
    <3>1. k = 0 \/ k \in 1..m
      BY <1>2
    <3> QED
      BY <2>5, <3>1 DEF After
  <2>9. ASSUME NEW k \in 1..n PROVE listing'[k].at = After(listing', k - 1)
    <3>1. CASE k = n
      <4>1. k - 1 = m /\ m \in 0..m
        BY <1>2, <3>1
      <4> QED
        BY <1>1, <2>4, <2>5, <2>8, <3>1, <4>1
    <3>2. CASE k # n
      <4>1. k \in 1..m /\ k - 1 \in 0..m
        BY <1>2, <3>2
      <4> QED
        BY <1>1, <2>5, <2>8, <4>1
    <3> QED
      BY <3>1, <3>2
  <2>10. addr' = After(listing', n)
    <3>1. n # 0
      BY <1>2
    <3> QED
      BY <2>1, <2>4, <2>5, <3>1 DEF After
  <2>11. ending' = "none" /\ "none" # "done" /\ "none" \notin {"exit", "abort"}
    BY <2>1
  <2>12. ListedFrom(bytes, v2, conv, taken', listing', addr', ending')
    BY <2>3, <2>5, <2>7, <2>9, <2>10, <2>11 DEF ListedFrom
  <2> QED
    BY <1>2, <2>12
<1> QED
  BY <1>3, <1>4, <1>5 DEF DNext

(***************************************************************************)
(* What each tool has read when                                            *)
(***************************************************************************)
NativeCounted(s) == \E a : CountedFrom(NativeFile, FALSE, conv, a, s, "done")

OutCounted == CountedFrom(out, TRUE, conv, at, stat, stage)

ReadOK ==
  CASE tool = "count" ->
         /\ options = Command(FALSE) /\ contents = NativeFile
         /\ CountedFrom(NativeFile, FALSE, conv, at, stat, stage)
    [] tool = "convert" -> NativeCounted(counted)
    [] tool = "count -c" ->
         /\ NativeCounted(counted)
         /\ options = Command(TRUE) /\ contents = out /\ OutCounted
    [] tool = "list" ->
         /\ NativeCounted(counted) /\ OutCounted /\ AnalyzerEnded
         /\ bytes = NativeFile /\ v2 = FALSE
         /\ ListedFrom(NativeFile, FALSE, conv, taken, listing, addr, ending)
    [] tool \in {"list -c", "over"} ->
         /\ NativeCounted(counted) /\ OutCounted /\ AnalyzerEnded
         /\ bytes = out /\ v2 = TRUE
         /\ ListedFrom(out, TRUE, conv, taken, listing, addr, ending)
         /\ \E h, a, e : /\ e \in {"done", "exit", "abort"}
                         /\ ListedFrom(NativeFile, FALSE, conv, h, listed, a, e)

Tools == {"count", "convert", "count -c", "list", "list -c", "over"}

(* Before anything is read. *)
LEMMA ReadInit ==
  ASSUME IInit
  PROVE  ReadOK /\ tool \in Tools
<1>1. /\ at = 0 /\ stat = NoStat /\ stage = "read" /\ counted = NoStat
      /\ conv \in BOOLEAN
  BY DEF IInit
<1>2. CASE tool = "count"
  <2>1. options = Command(FALSE) /\ contents = NativeFile
    BY <1>2 DEF IInit
  <2>2. CountedFrom(NativeFile, FALSE, conv, at, stat, stage)
    BY <1>1, CountStart
  <2> QED
    BY <1>2, <2>1, <2>2 DEF ReadOK, Tools
<1>3. CASE tool = "count -c"
  <2>1. options = Command(TRUE) /\ contents = out /\ input = <<>>
    BY <1>3 DEF IInit
  <2>2. OutCounted
    BY <1>1, CountStart DEF OutCounted
  <2>3. NativeCounted(counted)
    <3>1. Len(NativeFile) = 0
      <4>1. Len(input) = 0 /\ input \in Seq(Word)
        BY <2>1
      <4> QED
        BY <4>1, NativeFileType
    <3>2. ~HasInstr(NativeFile, 0, FALSE)
      BY <3>1 DEF HasInstr
    <3>3. CountedFrom(NativeFile, FALSE, conv, 0, NoStat, "read")
      BY CountStart
    <3>4. CountedFrom(NativeFile, FALSE, conv, 0, NoStat, "done")
      BY <3>2, <3>3 DEF CountedFrom
    <3> QED
      BY <1>1, <3>4 DEF NativeCounted
  <2> QED
    BY <1>3, <2>1, <2>2, <2>3 DEF ReadOK, Tools
<1> QED
  BY <1>2, <1>3 DEF IInit

(* A file of words is read to its end. *)
LEMMA NativeRead ==
  ASSUME NEW a, NEW s, NEW psd, NEW where, where \in {"done", "crash", "abort"},
         CountedFrom(NativeFile, FALSE, psd, a, s, where)
  PROVE  CountedFrom(NativeFile, FALSE, psd, a, s, "done")
<1>1. Decoded(NativeFile, a + 1, FALSE).rc = 4
  BY DEF Decoded
<1>2. 4 # -1
  OBVIOUS
<1> QED
  BY <1>1, <1>2 DEF CountedFrom

(* Every step of a tool keeps what has been read. *)
LEMMA ReadKeeps ==
  ASSUME ReadOK, tool \in Tools, [INext]_<<vars, avars, dvars, ivars>>
  PROVE  ReadOK' /\ (tool \in Tools)'
<1>1. input' = input /\ conv' = conv
  BY InspectStays
<1>2. NativeFile' = NativeFile /\ \A s : NativeCounted(s) => NativeCounted(s)'
  <2>1. NativeFile' = NativeFile
    BY <1>1 DEF NativeFile
  <2> QED
    BY <1>1, <2>1 DEF NativeCounted
<1>3. CASE Analyze
  <2>1. ANext /\ UNCHANGED <<vars, dvars, ivars>> /\ tool \in {"count", "count -c"}
    BY <1>3 DEF Analyze
  <2>2. tool' = tool /\ out' = out /\ counted' = counted
    BY <2>1 DEF vars, ivars
  <2>3. contents' = contents /\ options' = options
    BY <2>1 DEF ANext, ReadInstr, PrintStat, UnsignedRow, SignedRow, BothRow, RowOf, EmptyRow
  <2>4. \A c : Command(c).v2 = c /\ Command(c).psd = conv
    BY DEF Command
  <2>5. \A c : Command(c)' = Command(c)
    BY <1>1 DEF Command
  <2>6. CASE tool = "count"
    <3>1. /\ options = Command(FALSE) /\ contents = NativeFile
          /\ CountedFrom(NativeFile, FALSE, conv, at, stat, stage)
      BY <2>6 DEF ReadOK
    <3>2. CountedFrom(contents, options.v2, options.psd, at, stat, stage)
      BY <2>4, <3>1
    <3>3. CountedFrom(contents, options.v2, options.psd, at, stat, stage)'
      BY <2>1, <3>2, CountStep
    <3>4. CountedFrom(NativeFile, FALSE, conv, at, stat, stage)'
      BY <1>1, <1>2, <2>3, <2>4, <3>1, <3>3
    <3> QED
      BY <1>2, <2>2, <2>3, <2>5, <2>6, <3>1, <3>4 DEF ReadOK, Tools
  <2>7. CASE tool = "count -c"
    <3>1. /\ options = Command(TRUE) /\ contents = out /\ NativeCounted(counted)
          /\ CountedFrom(out, TRUE, conv, at, stat, stage)
      BY <2>7 DEF ReadOK, OutCounted
    <3>2. CountedFrom(contents, options.v2, options.psd, at, stat, stage)
      BY <2>4, <3>1
    <3>3. CountedFrom(contents, options.v2, options.psd, at, stat, stage)'
      BY <2>1, <3>2, CountStep
    <3>4. CountedFrom(out, TRUE, conv, at, stat, stage)'
      BY <1>1, <2>2, <2>3, <2>4, <3>1, <3>3
    <3> QED
      BY <1>2, <2>2, <2>3, <2>5, <2>7, <3>1, <3>4 DEF ReadOK, Tools, OutCounted
  <2> QED
    BY <2>1, <2>6, <2>7
<1>4. CASE CountedNative
  <2>1. /\ tool = "count" /\ tool' = "convert" /\ counted' = stat
        /\ stage \in {"done", "crash", "abort"}
    BY <1>4 DEF CountedNative, AnalyzerEnded
  <2>2. CountedFrom(NativeFile, FALSE, conv, at, stat, stage)
    BY <2>1 DEF ReadOK
  <2>3. NativeCounted(stat)
    BY <2>1, <2>2, NativeRead DEF NativeCounted
  <2>4. NativeCounted(counted)'
    BY <1>2, <2>1, <2>3
  <2> QED
    BY <2>1, <2>4 DEF ReadOK, Tools
<1>5. CASE ConvertStep
  <2>1. tool = "convert" /\ tool' = tool /\ counted' = counted
    BY <1>5 DEF ConvertStep, ivars
  <2> QED
    BY <1>2, <2>1 DEF ReadOK, Tools
<1>6. CASE CountCompressed
  <2>1. /\ tool = "convert" /\ tool' = "count -c" /\ counted' = counted /\ out' = out
        /\ StartAnalyzer(out, Command(TRUE))
    BY <1>6 DEF CountCompressed, vars
  <2>2. /\ options' = Command(TRUE) /\ contents' = out /\ at' = 0 /\ stat' = NoStat
        /\ stage' = "read"
    BY <2>1 DEF StartAnalyzer, Started
  <2>3. Command(TRUE)' = Command(TRUE)
    BY <1>1 DEF Command
  <2>4. CountedFrom(out', TRUE, conv', at', stat', stage')
    BY <2>2, CountStart
  <2>5. OutCounted'
    BY <2>4 DEF OutCounted
  <2>6. NativeCounted(counted)'
    BY <1>2, <2>1 DEF ReadOK
  <2> QED
    BY <2>1, <2>2, <2>3, <2>5, <2>6 DEF ReadOK, Tools
<1>7. CASE ListNative
  <2>1. /\ tool = "count -c" /\ AnalyzerEnded /\ tool' = "list" /\ counted' = counted
        /\ UNCHANGED <<vars, avars>> /\ StartDisas(NativeFile, FALSE)
    BY <1>7 DEF ListNative
  <2>2. /\ v2' = FALSE /\ bytes' = NativeFile /\ taken' = 0 /\ addr' = 0
        /\ listing' = <<>> /\ ending' = "none"
    BY <2>1 DEF StartDisas
  <2>3. NativeCounted(counted) /\ OutCounted
    BY <2>1 DEF ReadOK
  <2>4. OutCounted' /\ AnalyzerEnded'
    BY <1>1, <2>1, <2>3 DEF OutCounted, AnalyzerEnded, vars, avars
  <2>5. ListedFrom(NativeFile', FALSE, conv', taken', listing', addr', ending')
    BY <2>2, ListStart
  <2> QED
    BY <1>2, <2>1, <2>2, <2>3, <2>4, <2>5 DEF ReadOK, Tools
<1>8. CASE List
  <2>1. DNext /\ UNCHANGED <<vars, avars, ivars>> /\ tool \in {"list", "list -c"}
    BY <1>8 DEF List
  <2>2. /\ tool' = tool /\ counted' = counted /\ listed' = listed /\ out' = out
        /\ bytes' = bytes /\ v2' = v2
    BY <2>1 DEF ivars, vars, DNext, PrintLine, EndListing
  <2>3. NativeCounted(counted) /\ OutCounted /\ AnalyzerEnded
    BY <2>1 DEF ReadOK
  <2>4. OutCounted' /\ AnalyzerEnded' /\ NativeCounted(counted)'
    BY <1>1, <1>2, <2>1, <2>2, <2>3 DEF OutCounted, AnalyzerEnded, vars, avars
  <2>5. CASE tool = "list"
    <3>1. /\ bytes = NativeFile /\ v2 = FALSE
          /\ ListedFrom(bytes, v2, conv, taken, listing, addr, ending)
      BY <2>5 DEF ReadOK
    <3>2. ListedFrom(bytes, v2, conv, taken, listing, addr, ending)'
      BY <2>1, <3>1, ListStep
    <3> QED
      BY <1>2, <2>2, <2>4, <2>5, <3>1, <3>2 DEF ReadOK, Tools
  <2>6. CASE tool = "list -c"
    <3>1. /\ bytes = out /\ v2 = TRUE
          /\ ListedFrom(bytes, v2, conv, taken, listing, addr, ending)
          /\ \E h, a, e : /\ e \in {"done", "exit", "abort"}
                          /\ ListedFrom(NativeFile, FALSE, conv, h, listed, a, e)
      BY <2>6 DEF ReadOK
    <3>2. ListedFrom(bytes, v2, conv, taken, listing, addr, ending)'
      BY <2>1, <3>1, ListStep
    <3>3. (\E h, a, e : /\ e \in {"done", "exit", "abort"}
                        /\ ListedFrom(NativeFile, FALSE, conv, h, listed, a, e))'
      BY <1>1, <1>2, <2>2, <3>1
    <3> QED
      BY <2>2, <2>4, <2>6, <3>1, <3>2, <3>3 DEF ReadOK, Tools
  <2> QED
    BY <2>1, <2>5, <2>6
<1>9. CASE ListCompressed
  <2>1. /\ tool = "list" /\ ending # "none" /\ tool' = "list -c" /\ counted' = counted
        /\ listed' = listing
        /\ UNCHANGED <<vars, avars>> /\ StartDisas(out, TRUE)
    BY <1>9 DEF ListCompressed
  <2>2. /\ v2' = TRUE /\ bytes' = out /\ taken' = 0 /\ addr' = 0
        /\ listing' = <<>> /\ ending' = "none" /\ out' = out
    BY <2>1 DEF StartDisas, vars
  <2>3. /\ NativeCounted(counted) /\ OutCounted /\ AnalyzerEnded
        /\ ListedFrom(NativeFile, FALSE, conv, taken, listing, addr, ending)
    BY <2>1 DEF ReadOK
  <2>4. OutCounted' /\ AnalyzerEnded' /\ NativeCounted(counted)'
    BY <1>1, <1>2, <2>1, <2>3 DEF OutCounted, AnalyzerEnded, vars, avars
  <2>5. ListedFrom(out', TRUE, conv', taken', listing', addr', ending')
    BY <2>2, ListStart
  <2>6. \E e : /\ e \in {"done", "exit", "abort"}
               /\ ListedFrom(NativeFile', FALSE, conv', taken, listed', addr, e)
    <3>1. ListedFrom(NativeFile', FALSE, conv', taken, listed', addr, ending)
      BY <1>1, <1>2, <2>1, <2>3
    <3>2. CASE ending \in {"done", "exit", "abort"}
      BY <3>1, <3>2
    <3>3. ending \in {"none", "done", "exit", "abort"}
      BY <2>3 DEF ListedFrom
    <3> QED
      BY <2>1, <3>2, <3>3
  <2> QED
    BY <2>1, <2>2, <2>4, <2>5, <2>6 DEF ReadOK, Tools
<1>10. CASE Over
  <2>1. /\ tool = "list -c" /\ tool' = "over" /\ UNCHANGED <<vars, avars, dvars, counted, listed>>
    BY <1>10 DEF Over
  <2>2. /\ NativeCounted(counted)' /\ OutCounted' /\ AnalyzerEnded'
    BY <1>1, <1>2, <2>1 DEF ReadOK, OutCounted, AnalyzerEnded, vars, avars
  <2>3. /\ (bytes = out)' /\ (v2 = TRUE)'
        /\ ListedFrom(out, TRUE, conv, taken, listing, addr, ending)'
        /\ (\E h, a, e : /\ e \in {"done", "exit", "abort"}
                         /\ ListedFrom(NativeFile, FALSE, conv, h, listed, a, e))'
    BY <1>1, <1>2, <2>1 DEF ReadOK, vars, dvars
  <2> QED
    BY <2>1, <2>2, <2>3 DEF ReadOK, Tools
<1>11. CASE UNCHANGED <<vars, avars, dvars, ivars>>
  <2>1. /\ UNCHANGED <<tool, counted, listed, out, options, contents, at, stat, stage>>
        /\ UNCHANGED <<bytes, v2, taken, listing, addr, ending>>
    BY <1>11 DEF vars, avars, dvars, ivars
  <2>2. \A c : Command(c)' = Command(c)
    BY <1>1 DEF Command
  <2>3. OutCounted' = OutCounted /\ AnalyzerEnded' = AnalyzerEnded
    BY <1>1, <2>1 DEF OutCounted, AnalyzerEnded
  <2> QED
    BY <1>1, <1>2, <2>1, <2>2, <2>3 DEF ReadOK, Tools, NativeCounted
<1> QED
  BY <1>3, <1>4, <1>5, <1>6, <1>7, <1>8, <1>9, <1>10, <1>11 DEF INext

(***************************************************************************)
(* Bags of the values of a function                                        *)
(***************************************************************************)

(* How often a value is in the bag of the values of a function. *)
LEMMA BagOfTimes ==
  ASSUME NEW f, IsFiniteSet(DOMAIN f)
  PROVE  /\ DOMAIN BagOf(f) = {f[k] : k \in DOMAIN f}
         /\ \A v : Times(v, BagOf(f)) = Cardinality({k \in DOMAIN f : f[k] = v})
         /\ IsList(BagOf(f))
<1> DEFINE Of(v) == {k \in DOMAIN f : f[k] = v}
           V == {f[k] : k \in DOMAIN f}
<1>1. BagOf(f) = [v \in V |-> Cardinality(Of(v))]
  BY DEF BagOf
<1>2. \A v : Of(v) \in SUBSET DOMAIN f /\ (v \notin V => Of(v) = {})
  OBVIOUS
<1>3. IsFiniteSet(V)
  <2> DEFINE g == [k \in DOMAIN f |-> f[k]]
  <2>1. g \in Surjection(DOMAIN f, V)
    BY DEF Surjection
  <2> HIDE DEF g, V
  <2> QED
    BY <2>1, FS_Surjection
<1> HIDE DEF Of, V
<1>4. \A v : Cardinality(Of(v)) \in Nat /\ (v \notin V => Cardinality(Of(v)) = 0)
  BY <1>2, FS_Subset, FS_CardinalityType, FS_EmptySet
<1>5. \A v : Times(v, BagOf(f)) = Cardinality(Of(v))
  BY <1>1, <1>4 DEF Times
<1>6. IsList(BagOf(f))
  <2>1. DOMAIN BagOf(f) = V
    BY <1>1
  <2>2. BagOf(f) \in [V -> Nat]
    BY <1>1, <1>4
  <2> QED
    BY <1>3, <2>1, <2>2 DEF IsList
<1> QED
  BY <1>1, <1>5, <1>6 DEF Of, V

(* A function with one more argument has one more value. *)
LEMMA BagGrows ==
  ASSUME NEW f, NEW g, NEW d, IsFiniteSet(DOMAIN f), d \notin DOMAIN f,
         DOMAIN g = DOMAIN f \cup {d}, \A k \in DOMAIN f : g[k] = f[k]
  PROVE  /\ BagOf(g) = BagOf(f) (+) SetToBag({g[d]})
         /\ IsFiniteSet(DOMAIN g) /\ IsList(BagOf(f))
<1> DEFINE x == g[d]
           b == BagOf(f) (+) SetToBag({x})
           c == BagOf(g)
<1>1. IsFiniteSet(DOMAIN g)
  BY FS_AddElement
<1>2. /\ DOMAIN BagOf(f) = {f[k] : k \in DOMAIN f}
      /\ \A v : Times(v, BagOf(f)) = Cardinality({k \in DOMAIN f : f[k] = v})
      /\ IsList(BagOf(f))
  BY BagOfTimes
<1>3. /\ DOMAIN c = {g[k] : k \in DOMAIN g}
      /\ \A v : Times(v, c) = Cardinality({k \in DOMAIN g : g[k] = v})
      /\ IsList(c)
  BY <1>1, BagOfTimes
<1>4. /\ DOMAIN b = DOMAIN BagOf(f) \cup {x} /\ IsList(b)
      /\ \A v : Times(v, b) = Times(v, BagOf(f)) + IF v = x THEN 1 ELSE 0
  BY <1>2, CountedOnce
<1>5. DOMAIN b = DOMAIN c
  <2>1. {g[k] : k \in DOMAIN g} = {f[k] : k \in DOMAIN f} \cup {x}
    OBVIOUS
  <2> QED
    BY <1>2, <1>3, <1>4, <2>1
<1>6. ASSUME NEW v PROVE Times(v, b) = Times(v, c)
  <2> DEFINE F == {k \in DOMAIN f : f[k] = v}
             G == {k \in DOMAIN g : g[k] = v}
  <2>1. F \in SUBSET DOMAIN f
    OBVIOUS
  <2>2. IsFiniteSet(F) /\ Cardinality(F) \in Nat
    BY <2>1, FS_Subset, FS_CardinalityType
  <2>3. CASE v = x
    <3>1. G = F \cup {d} /\ d \notin F
      BY <2>3
    <3>2. Cardinality(G) = Cardinality(F) + 1
      BY <2>2, <3>1, FS_AddElement
    <3> QED
      BY <1>2, <1>3, <1>4, <2>3, <3>2, SMTT(30)
  <2>4. CASE v # x
    <3>1. G = F
      BY <2>4
    <3>2. Times(v, b) = Cardinality(F) + 0 /\ Times(v, c) = Cardinality(F)
      BY <1>2, <1>3, <1>4, <2>4, <3>1
    <3> QED
      BY <2>2, <3>2
  <2> QED
    BY <2>3, <2>4
<1> HIDE DEF b, c
<1>7. \A v \in DOMAIN b : b[v] = c[v]
  BY <1>5, <1>6 DEF Times
<1>8. b = [v \in DOMAIN b |-> b[v]] /\ c = [v \in DOMAIN c |-> c[v]]
  BY <1>3, <1>4 DEF IsList
<1>9. b = c
  BY <1>5, <1>7, <1>8
<1> QED
  BY <1>1, <1>2, <1>9 DEF b, c

(* No arguments, no values. *)
LEMMA BagOfNone ==
  ASSUME NEW f, DOMAIN f = {}
  PROVE  BagOf(f) = EmptyBag
<1>1. EmptyBag = [e \in {} |-> 1]
  BY DEF EmptyBag, SetToBag
<1>2. BagOf(f) = [e \in {} |-> Cardinality({k \in DOMAIN f : f[k] = e})]
  BY DEF BagOf
<1> QED
  BY <1>1, <1>2

(* The first numbers are finitely many. *)
LEMMA FewFirst ==
  ASSUME NEW n \in Nat, NEW S, S \subseteq 1..n
  PROVE  IsFiniteSet(S) /\ n + 1 \notin S /\ 1..n + 1 = 1..n \cup {n + 1}
<1>1. IsFiniteSet(1..n)
  BY FS_Interval
<1>2. n + 1 \notin 1..n /\ 1..n + 1 = 1..n \cup {n + 1}
  OBVIOUS
<1> QED
  BY <1>1, <1>2, FS_Subset

(***************************************************************************)
(* What an instruction adds                                                *)
(***************************************************************************)
Entries(p, b) == IF p THEN SetToBag({b}) ELSE EmptyBag

(* What update_* make of every table. *)
LEMMA AddedFields ==
  ASSUME NEW s, DOMAIN s = StatFields, NEW i
  PROVE  LET t == Added(s, i)
         IN /\ DOMAIN t = StatFields
            /\ i.op = "INVALID_OP" =>
                 \A x \in StatFields \ {"total_instr"} : t[x] = s[x]
            /\ i.op # "INVALID_OP" =>
                 /\ t.freq = s.freq (+) SetToBag({i.op})
                 /\ t.freq_comp = s.freq_comp (+) Entries(is_compressible(i), i.op)
                 /\ t.branch_list = s.branch_list (+) SetToBag(BranchDistances(i))
                 /\ t.mem_stat = s.mem_stat (+) SetToBag(StackAccesses(i))
                 /\ t.uimm_list = s.uimm_list (+) Entries(contains_imm(i.op), i.imm)
                 /\ t.simm_list = s.simm_list (+) Entries(contains_simm(i.op), Int16(i.simm))
                 /\ t.rs_count = s.rs_count (+) Sources(i)
                 /\ t.rd_count = s.rd_count (+) SetToBag(Destinations(i))
                 /\ t.prev = SlotKind(i)
                 /\ t.nops = s.nops (+) (IF conv_to_pseudo(i).op = "NOP" THEN SetToBag(s.prev)
                                         ELSE EmptyBag)
<1> DEFINE u == [s EXCEPT !.total_instr = @ + 1]
           r == NopStat(u, i)
<1>1. /\ DOMAIN u = StatFields /\ \A x \in StatFields \ {"total_instr"} : u[x] = s[x]
  BY NamesOfFields
<1>2. CASE i.op = "INVALID_OP"
  BY <1>1, <1>2 DEF Added
<1>3. CASE i.op # "INVALID_OP"
  <2> DEFINE t == Updated(u, i)
  <2>1. Added(s, i) = t
    BY <1>3 DEF Added
  <2> HIDE DEF u
  <2>2. r = [u EXCEPT
               !.nops = @ (+) (IF conv_to_pseudo(i).op = "NOP" THEN SetToBag(u.prev) ELSE EmptyBag),
               !.prev = SlotKind(i)]
    BY Zenon DEF NopStat
  <2>3. t = [r EXCEPT
          !.freq        = @ (+) SetToBag({i.op}),
          !.freq_comp   = @ (+) Entries(is_compressible(i), i.op),
          !.branch_list = @ (+) SetToBag(BranchDistances(i)),
          !.mem_stat    = @ (+) SetToBag(StackAccesses(i)),
          !.uimm_list   = @ (+) Entries(contains_imm(i.op), i.imm),
          !.simm_list   = @ (+) Entries(contains_simm(i.op), Int16(i.simm)),
          !.rs_count    = @ (+) Sources(i),
          !.rd_count    = @ (+) SetToBag(Destinations(i))]
    BY Zenon DEF Updated, Entries
  <2> DEFINE nops == u.nops (+) (IF conv_to_pseudo(i).op = "NOP" THEN SetToBag(u.prev)
                                 ELSE EmptyBag)
  <2>4. /\ DOMAIN r = StatFields /\ r.prev = SlotKind(i) /\ r.nops = nops
        /\ \A x \in StatFields \ {"prev", "nops"} : r[x] = u[x]
    <3> HIDE DEF r
    <3>1. r = [u EXCEPT !.nops = nops, !.prev = SlotKind(i)]
      BY <2>2
    <3> HIDE DEF nops
    <3> QED
      BY <1>1, <3>1, NamesOfFields
  <2> HIDE DEF r, t, nops
  <2> DEFINE a == r.freq (+) SetToBag({i.op})
             b == r.freq_comp (+) Entries(is_compressible(i), i.op)
             c == r.branch_list (+) SetToBag(BranchDistances(i))
             e == r.mem_stat (+) SetToBag(StackAccesses(i))
             f == r.uimm_list (+) Entries(contains_imm(i.op), i.imm)
             g == r.simm_list (+) Entries(contains_simm(i.op), Int16(i.simm))
             h == r.rs_count (+) Sources(i)
             k == r.rd_count (+) SetToBag(Destinations(i))
  <2>5. t = [r EXCEPT !.freq = a, !.freq_comp = b, !.branch_list = c, !.mem_stat = e,
                      !.uimm_list = f, !.simm_list = g, !.rs_count = h, !.rd_count = k]
    BY <2>3, Zenon
  <2> HIDE DEF a, b, c, e, f, g, h, k
  <2>6. /\ DOMAIN t = StatFields /\ t.freq = a /\ t.freq_comp = b /\ t.branch_list = c
        /\ t.mem_stat = e
    BY <2>4, <2>5, NamesOfFields
  <2>7. /\ t.uimm_list = f /\ t.simm_list = g /\ t.rs_count = h /\ t.rd_count = k
        /\ t.prev = r.prev /\ t.nops = r.nops
    BY <2>4, <2>5, NamesOfFields
  <2>8. \A x \in StatFields \ {"prev", "nops", "total_instr"} : r[x] = s[x]
    BY <1>1, <2>4
  <2>9. nops = s.nops (+) (IF conv_to_pseudo(i).op = "NOP" THEN SetToBag(s.prev)
                           ELSE EmptyBag)
    BY <1>1, NamesOfFields DEF nops
  <2>10. /\ a = s.freq (+) SetToBag({i.op})
         /\ b = s.freq_comp (+) Entries(is_compressible(i), i.op)
         /\ c = s.branch_list (+) SetToBag(BranchDistances(i))
         /\ e = s.mem_stat (+) SetToBag(StackAccesses(i))
         /\ f = s.uimm_list (+) Entries(contains_imm(i.op), i.imm)
         /\ g = s.simm_list (+) Entries(contains_simm(i.op), Int16(i.simm))
         /\ h = s.rs_count (+) Sources(i)
         /\ k = s.rd_count (+) SetToBag(Destinations(i))
    BY <2>8, NamesOfFields, Zenon DEF a, b, c, e, f, g, h, k
  <2> QED
    BY <1>3, <2>1, <2>4, <2>6, <2>7, <2>9, <2>10
<1> QED
  BY <1>2, <1>3

(* Both tools find the instructions of a file at the same places. *)
LEMMA SamePlaces ==
  ASSUME NEW P, NEW m, NEW Q, NEW n, NEW file, NEW v, Places(P, m, file, v), Places(Q, n, file, v)
  PROVE  \A j \in 0..m : j <= n => P[j] = Q[j]
<1> DEFINE T == {j \in Nat : j <= m /\ j <= n /\ P[j] # Q[j]}
<1>1. m \in Nat /\ n \in Nat /\ P[0] = 0 /\ Q[0] = 0
  BY DEF Places
<1>2. SUFFICES ASSUME T # {} PROVE FALSE
  BY <1>1
<1>3. PICK j \in T : \A l \in T : j <= l
  <2>1. T \in SUBSET Nat
    OBVIOUS
  <2> HIDE DEF T
  <2> QED BY <1>2, <2>1, LeastNatural
<1>4. /\ j # 0 /\ j \in Nat /\ j - 1 \in 0..m - 1 /\ j - 1 \in 0..n - 1 /\ j - 1 \in Nat
      /\ ~(j <= j - 1) /\ (j - 1) + 1 = j /\ P[j] # Q[j] /\ j - 1 <= m /\ j - 1 <= n
  BY <1>1, <1>3
<1>5. P[j - 1] = Q[j - 1]
  BY <1>3, <1>4
<1>6. /\ P[j] = P[j - 1] + Width(file, v, P[j - 1] + 1)
      /\ Q[j] = Q[j - 1] + Width(file, v, Q[j - 1] + 1)
  BY <1>4 DEF Places
<1> QED
  BY <1>4, <1>5, <1>6

(* The places are in the file. *)
LEMMA PlacesType ==
  ASSUME NEW P, NEW m, NEW file, NEW v, Places(P, m, file, v)
  PROVE  \A j \in 0..m : P[j] \in Nat
<1> DEFINE T == {j \in Nat : j <= m /\ P[j] \notin Nat}
<1>1. m \in Nat /\ P[0] = 0
  BY DEF Places
<1>2. SUFFICES ASSUME T # {} PROVE FALSE
  BY <1>1
<1>3. PICK j \in T : \A l \in T : j <= l
  <2>1. T \in SUBSET Nat
    OBVIOUS
  <2> HIDE DEF T
  <2> QED BY <1>2, <2>1, LeastNatural
<1>4. /\ j # 0 /\ j \in Nat /\ j - 1 \in 0..m - 1 /\ j - 1 \in Nat
      /\ ~(j <= j - 1) /\ (j - 1) + 1 = j /\ P[j] \notin Nat /\ j - 1 <= m
  BY <1>1, <1>3
<1>5. P[j - 1] \in Nat
  BY <1>3, <1>4
<1>6. P[j] = P[j - 1] + Width(file, v, P[j - 1] + 1)
  BY <1>4 DEF Places
<1>7. Width(file, v, P[j - 1] + 1) \in {1, 2}
  BY DEF Width, V2Halves
<1> QED
  BY <1>4, <1>5, <1>6, <1>7

(* What is decoded at a place of a file is an instruction. *)
LEMMA SeenType ==
  ASSUME NEW file \in Seq(Half), NEW v, NEW psd, NEW h \in Nat, HasInstr(file, h, v)
  PROVE  LET i == Decoded(file, h + 1, v).instr
         IN /\ i \in StructInstr /\ Seen(file, v, psd, h) \in StructInstr
            /\ Seen(file, v, psd, h) = IF psd THEN conv_to_pseudo(i) ELSE i
            /\ i.op # "INVALID_OP" => Seen(file, v, psd, h).op # "INVALID_OP"
<1> DEFINE k == h + 1
           i == Decoded(file, k, v).instr
<1>1. /\ k \in Nat /\ k \in 1..Len(file) /\ Len(file) \in Nat
      /\ ~v => k + 1 \in 1..Len(file)
  <2>1. Len(file) \in Nat
    OBVIOUS
  <2> QED
    BY <2>1 DEF HasInstr
<1> HIDE DEF k
<1>2. file[k] \in Half
  BY <1>1
<1>3. i \in StructInstr
  <2>1. CASE v
    <3>1. V2Code(file, k) \in Word
      <4>1. k < Len(file) => k + 1 \in 1..Len(file)
        BY <1>1
      <4>2. 0 \in Half
        BY HalfFits
      <4>3. file[IF k < Len(file) THEN k + 1 ELSE k] \in Half
        BY <1>1, <1>2, <4>1
      <4> QED
        BY <1>2, <4>2, <4>3, WordParts DEF V2Code
    <3> QED
      BY <2>1, <3>1, ParseV2Type DEF Decoded
  <2>2. CASE ~v
    <3>1. <<file[k], file[k + 1]>> \in Word
      BY <1>1, <1>2, <2>2, WordParts
    <3> QED
      BY <2>2, <3>1, ParseType DEF Decoded
  <2> QED
    BY <2>1, <2>2
<1>4. Seen(file, v, psd, h) = IF psd THEN conv_to_pseudo(i) ELSE i
  BY DEF Seen, k
<1> HIDE DEF i
<1>5. /\ conv_to_pseudo(i) \in StructInstr
      /\ conv_to_pseudo(i).op \in {i.op, "JR"} \cup Pseudo
  BY <1>3, PseudoType DEF Rewritten
<1>6. "INVALID_OP" \notin {"JR"} \cup Pseudo
  BY DEF Pseudo, PseudoBranch
<1> QED
  BY <1>3, <1>4, <1>5, <1>6 DEF i, k

(***************************************************************************)
(* The listing and the statistics of a file                                *)
(***************************************************************************)

(* The names of the first lines. *)
NamesTo(l, n) == BagOf([k \in {j \in 1..n : l[j].name # "unknown"} |-> l[k].name])

(* A line more has one name more, or none when it is unknown. *)
LEMMA NamesGrow ==
  ASSUME NEW l, NEW n \in Nat
  PROVE  /\ IsList(NamesTo(l, n))
         /\ NamesTo(l, n + 1) = NamesTo(l, n) (+) Entries(l[n + 1].name # "unknown", l[n + 1].name)
         /\ NamesTo(l, 0) = EmptyBag
<1> DEFINE K(j) == {k \in 1..j : l[k].name # "unknown"}
           F(j) == [k \in K(j) |-> l[k].name]
<1>1. \A j : NamesTo(l, j) = BagOf(F(j)) /\ DOMAIN F(j) = K(j)
  BY DEF NamesTo
<1>2. IsFiniteSet(K(n)) /\ n + 1 \notin K(n) /\ 1..n + 1 = 1..n \cup {n + 1}
  BY FewFirst
<1>3. K(0) = {}
  OBVIOUS
<1>4. K(n + 1) = IF l[n + 1].name # "unknown" THEN K(n) \cup {n + 1} ELSE K(n)
  <2>1. K(n + 1) = {k \in 1..n \cup {n + 1} : l[k].name # "unknown"}
    BY <1>2
  <2> QED
    BY <2>1
<1>5. \A j : \A k \in K(j) : F(j)[k] = l[k].name
  OBVIOUS
<1>6. IsList(BagOf(F(n)))
  BY <1>1, <1>2, BagOfTimes
<1>7. CASE l[n + 1].name # "unknown"
  <2>1. K(n + 1) = K(n) \cup {n + 1}
    BY <1>4, <1>7
  <2>2. F(n + 1)[n + 1] = l[n + 1].name /\ \A k \in K(n) : F(n + 1)[k] = F(n)[k]
    BY <2>1
  <2> HIDE DEF K, F
  <2>3. BagOf(F(n + 1)) = BagOf(F(n)) (+) SetToBag({l[n + 1].name})
    BY <1>1, <1>2, <2>1, <2>2, BagGrows
  <2> QED
    BY <1>1, <1>3, <1>6, <1>7, <2>3, BagOfNone DEF Entries
<1>8. CASE l[n + 1].name = "unknown"
  <2>1. F(n + 1) = F(n)
    BY <1>4, <1>8
  <2> HIDE DEF K, F
  <2> QED
    BY <1>1, <1>3, <1>6, <1>8, <2>1, BagOfNone, CountedNot DEF Entries
<1> QED
  BY <1>7, <1>8

(* Leaving out the coprocessor instructions of a table. *)
LEMMA KnownGrows ==
  ASSUME NEW l, IsList(l), NEW op
  PROVE  Known(l (+) SetToBag({op})) = Known(l) (+) Entries(op \notin Cop0, op)
<1> DEFINE q == l (+) SetToBag({op})
           r == Known(l) (+) Entries(op \notin Cop0, op)
<1>1. /\ DOMAIN q = DOMAIN l \cup {op} /\ IsList(q)
      /\ \A x : Times(x, q) = Times(x, l) + IF x = op THEN 1 ELSE 0
  BY CountedOnce
<1>2. /\ DOMAIN Known(l) = DOMAIN l \ Cop0 /\ IsList(Known(l))
      /\ \A x \in DOMAIN l \ Cop0 : Known(l)[x] = l[x]
  <2>1. DOMAIN l \ Cop0 \in SUBSET DOMAIN l
    OBVIOUS
  <2>2. IsFiniteSet(DOMAIN l \ Cop0)
    BY <2>1, FS_Subset DEF IsList
  <2> QED
    BY <2>1, <2>2 DEF Known, IsList
<1>3. \A x : x \notin Cop0 => Times(x, Known(l)) = Times(x, l)
  BY <1>2 DEF Times
<1>4. \A x : Times(x, l) \in Nat
  BY DEF Times, IsList
<1> HIDE DEF q
<1>5. /\ DOMAIN r = DOMAIN q \ Cop0 /\ IsList(r)
      /\ \A x \in DOMAIN q \ Cop0 : Times(x, r) = Times(x, q)
  <2>1. CASE op \notin Cop0
    <3>1. r = Known(l) (+) SetToBag({op})
      BY <2>1 DEF Entries
    <3> HIDE DEF r
    <3>2. /\ DOMAIN r = DOMAIN Known(l) \cup {op} /\ IsList(r)
          /\ \A x : Times(x, r) = Times(x, Known(l)) + IF x = op THEN 1 ELSE 0
      BY <1>2, <3>1, CountedOnce
    <3> QED
      BY <1>1, <1>2, <1>3, <2>1, <3>2
  <2>2. CASE op \in Cop0
    <3>1. r = Known(l)
      BY <1>2, <2>2, CountedNot DEF Entries
    <3> HIDE DEF r
    <3>2. \A x \in DOMAIN q \ Cop0 : Times(x, r) = Times(x, q)
      BY <1>1, <1>3, <1>4, <2>2, <3>1
    <3> QED
      BY <1>1, <1>2, <2>2, <3>1, <3>2
  <2> QED
    BY <2>1, <2>2
<1> HIDE DEF r
<1>6. \A x \in DOMAIN q \ Cop0 : r[x] = q[x]
  BY <1>5 DEF Times
<1>7. r = [x \in DOMAIN q \ Cop0 |-> r[x]]
  BY <1>5 DEF IsList
<1>8. Known(q) = [x \in DOMAIN q \ Cop0 |-> q[x]]
  BY DEF Known
<1> QED
  BY <1>6, <1>7, <1>8 DEF q, r

(* The operations that are counted up to an instruction are those printed. *)
LEMMA ListedSoFar ==
  ASSUME NEW file \in Seq(Half), NEW v, NEW psd, NEW P, NEW m, NEW l, NEW S,
         Places(P, m, file, v), Lines(l, P, m, file, v, psd), Statistics(S, P, m, file, v, psd)
  PROVE  NamesTo(l, m) = Known(S[m].freq)
<1> DEFINE Good(j) == /\ DOMAIN S[j] = StatFields /\ IsList(S[j].freq)
                      /\ NamesTo(l, j) = Known(S[j].freq)
           T == {j \in Nat : j <= m /\ ~Good(j)}
<1>1. m \in Nat
  BY DEF Places
<1>2. Good(0)
  <2>1. S[0] = NoStat
    BY DEF Statistics
  <2>2. NoStat.freq = EmptyBag /\ DOMAIN NoStat = StatFields
    BY DEF NoStat, StatFields
  <2>3. EmptyBag = [e \in {} |-> 1] /\ IsList(EmptyBag)
    <3>1. EmptyBag = [e \in {} |-> 1]
      BY DEF EmptyBag, SetToBag
    <3> QED
      BY <3>1, FS_EmptySet DEF IsList
  <2>4. Known(EmptyBag) = EmptyBag
    BY <2>3 DEF Known
  <2>5. NamesTo(l, 0) = EmptyBag
    BY NamesGrow
  <2> QED
    BY <2>1, <2>2, <2>3, <2>4, <2>5
<1>3. ASSUME NEW j \in 0..m - 1, Good(j) PROVE Good(j + 1)
  <2> DEFINE i == Seen(file, v, psd, P[j])
             k == j + 1
  <2>1. j \in Nat /\ j \in 0..m
    BY <1>1
  <2>2. HasInstr(file, P[j], v) /\ P[j] \in Nat
    BY <2>1, PlacesType DEF Places
  <2>3. /\ Decoded(file, P[j] + 1, v).instr.op # "INVALID_OP"
        /\ l[k] = Line(file, v, psd, P[j], l[k].at)
    BY DEF Lines
  <2>4. i.op # "INVALID_OP" /\ i \in StructInstr
    BY <2>2, <2>3, SeenType
  <2>5. S[k] = Added(S[j], i)
    BY DEF Statistics
  <2>6. l[k].name = Name(i)
    <3>1. \A a : Line(file, v, psd, P[j], a).name = Name(i)
      BY DEF Line
    <3> QED
      BY <2>3, <3>1
  <2> HIDE DEF i, k
  <2>7. DOMAIN S[k] = StatFields /\ S[k].freq = S[j].freq (+) SetToBag({i.op})
    <3>1. DOMAIN S[j] = StatFields
      BY <1>3
    <3>2. /\ DOMAIN Added(S[j], i) = StatFields
          /\ Added(S[j], i).freq = S[j].freq (+) SetToBag({i.op})
      BY <2>4, <3>1, AddedFields, ZenonT(60)
    <3> QED
      BY <2>5, <3>2
  <2>8. IsList(S[k].freq) /\ Known(S[k].freq) = Known(S[j].freq) (+) Entries(i.op \notin Cop0, i.op)
    <3>1. IsList(S[j].freq)
      BY <1>3
    <3> HIDE DEF Good
    <3>2. /\ IsList(S[j].freq (+) SetToBag({i.op}))
          /\ Known(S[j].freq (+) SetToBag({i.op}))
               = Known(S[j].freq) (+) Entries(i.op \notin Cop0, i.op)
      BY <3>1, CountedOnce, KnownGrows
    <3> QED
      BY <2>7, <3>2
  <2>9. /\ Name(i) # "unknown" <=> i.op \notin Cop0
        /\ i.op \notin Cop0 => Name(i) = i.op
    <3>1. "unknown" \notin Operation
      BY DEF Operation, Native, Pseudo, Shifts, ShiftVs, Alu, AluImm, MulDiv, Loads, Stores,
             Compare, NativeBranch, Jumps, Cop0, Stops, PseudoBranch
    <3>2. i.op \in Operation
      BY <2>4, InstrFields
    <3> QED
      BY <3>1, <3>2 DEF Name
  <2>10. NamesTo(l, k) = NamesTo(l, j) (+) Entries(l[k].name # "unknown", l[k].name)
    BY <2>1, NamesGrow DEF k
  <2>11. Entries(l[k].name # "unknown", l[k].name) = Entries(i.op \notin Cop0, i.op)
    BY <2>6, <2>9 DEF Entries
  <2> QED
    BY <1>3, <2>7, <2>8, <2>10, <2>11 DEF k
<1> HIDE DEF Good
<1>4. SUFFICES ASSUME T # {} PROVE FALSE
  <2>1. Good(m) => NamesTo(l, m) = Known(S[m].freq)
    BY DEF Good
  <2> QED
    BY <1>1, <2>1
<1>5. PICK j \in T : \A k \in T : j <= k
  <2>1. T \in SUBSET Nat
    OBVIOUS
  <2> HIDE DEF T
  <2> QED BY <1>4, <2>1, LeastNatural
<1>6. /\ j # 0 /\ j \in Nat /\ j - 1 \in 0..m - 1 /\ j - 1 \in Nat
      /\ ~(j <= j - 1) /\ (j - 1) + 1 = j /\ ~Good(j) /\ j - 1 <= m
  BY <1>1, <1>2, <1>5
<1>7. Good(j - 1)
  BY <1>5, <1>6
<1> QED
  BY <1>3, <1>6, <1>7

(* When the disassembler has read a file to its end, and the analyzer has  *)
(* stopped in it, both have read the same.                                 *)
LEMMA BothReadAll ==
  ASSUME NEW file \in Seq(Half), NEW v, NEW psd, NEW a, NEW s, NEW where, NEW h, NEW l, NEW b,
         CountedFrom(file, v, psd, a, s, where), where \in {"done", "crash", "abort"},
         ListedFrom(file, v, psd, h, l, b, "done")
  PROVE  Names(l) = Known(s.freq)
<1>1. PICK n, Q, S :
        /\ Places(Q, n, file, v) /\ Statistics(S, Q, n, file, v, psd)
        /\ Q[n] = a /\ S[n] = s
        /\ where \in {"merge", "done", "crash"} => ~HasInstr(file, a, v)
        /\ where = "abort" => HasInstr(file, a, v) /\ Decoded(file, a + 1, v).rc = -1
  BY DEF CountedFrom
<1>2. PICK m, P :
        /\ Places(P, m, file, v) /\ Lines(l, P, m, file, v, psd)
        /\ P[m] = h /\ ~HasInstr(file, h, v)
  BY DEF ListedFrom
<1>3. m \in Nat /\ n \in Nat
  BY <1>1, <1>2 DEF Places
<1>4. \A j \in 0..m : j <= n => P[j] = Q[j]
  BY <1>1, <1>2, SamePlaces
<1>5. CASE n < m
  <2>1. n \in 0..m - 1 /\ n \in 0..m /\ n <= n
    BY <1>3, <1>5
  <2>2. P[n] = a /\ HasInstr(file, a, v) /\ Decoded(file, a + 1, v).rc # -1
    BY <1>1, <1>2, <1>4, <2>1 DEF Places, Lines
  <2> QED
    BY <1>1, <2>2
<1>6. CASE m < n
  <2>1. m \in 0..n - 1 /\ m \in 0..m /\ m <= n
    BY <1>3, <1>6
  <2>2. Q[m] = h /\ HasInstr(file, Q[m], v)
    BY <1>1, <1>2, <1>4, <2>1 DEF Places
  <2> QED
    BY <1>2, <2>2
<1>7. CASE m = n
  <2>1. \A j \in 0..m : P[j] = Q[j]
    BY <1>3, <1>4, <1>7
  <2>2. Statistics(S, P, m, file, v, psd)
    <3>1. \A j \in 0..m - 1 : P[j] = Q[j]
      BY <1>3, <2>1
    <3> QED
      BY <1>1, <1>7, <3>1 DEF Statistics
  <2>3. NamesTo(l, m) = Known(s.freq)
    BY <1>1, <1>2, <1>7, <2>2, ListedSoFar
  <2>4. DOMAIN l = 1..m
    BY <1>2 DEF ListedFrom, IsSequence, Lines
  <2> QED
    BY <2>3, <2>4 DEF NamesTo, Names
<1> QED
  BY <1>3, <1>5, <1>6, <1>7

(* The disassembler prints what the analyzer counts.                       *)
LEMMA ReadAlike ==
  ASSUME InspectOK, ReadOK, tool \in Tools
  PROVE  ListedAsCounted
<1> SUFFICES ASSUME ending = "done"
             PROVE  /\ tool = "list" => Names(listing) = Known(counted.freq)
                    /\ tool = "list -c" => Names(listing) = Known(stat.freq)
  BY DEF ListedAsCounted
<1>1. input \in Seq(Word) /\ out \in Seq(Half)
  BY FilesTyped DEF InspectOK
<1>2. CASE tool = "list"
  <2>1. PICK a : CountedFrom(NativeFile, FALSE, conv, a, counted, "done")
    BY <1>2 DEF ReadOK, NativeCounted
  <2>2. ListedFrom(NativeFile, FALSE, conv, taken, listing, addr, "done")
    BY <1>2 DEF ReadOK
  <2>3. NativeFile \in Seq(Half)
    BY <1>1, NativeFileType
  <2> QED
    BY <1>2, <2>1, <2>2, <2>3, BothReadAll
<1>3. CASE tool = "list -c"
  <2>1. CountedFrom(out, TRUE, conv, at, stat, stage) /\ stage \in {"done", "crash", "abort"}
    BY <1>3 DEF ReadOK, OutCounted, AnalyzerEnded
  <2>2. ListedFrom(out, TRUE, conv, taken, listing, addr, "done")
    BY <1>3 DEF ReadOK
  <2> QED
    BY <1>1, <1>3, <2>1, <2>2, BothReadAll
<1> QED
  BY <1>2, <1>3

(* The invariant of all the tools. *)
LEMMA ToolsInvariant ==
  ISpec => [](InspectOK /\ ReadOK /\ tool \in Tools)
<1>1. IInit => InspectOK /\ ReadOK /\ tool \in Tools
  BY InspectInit, ReadInit
<1>2. InspectOK /\ ReadOK /\ tool \in Tools /\ [INext]_<<vars, avars, dvars, ivars>>
        => (InspectOK /\ ReadOK /\ tool \in Tools)'
  BY InspectKeeps, ReadKeeps
<1> QED
  BY <1>1, <1>2, PTL DEF ISpec

(* Every instruction that the disassembler prints is one that the analyzer *)
(* counts and the other way round, for every program and every file of the *)
(* compressed set that the disassembler reads to its end.                  *)
THEOREM ListedIsCounted == ISpec => []ListedAsCounted
BY ToolsInvariant, ReadAlike, PTL

(* An instruction is to a NOP behind it what its word is, with and without *)
(* option -p; and a NOP is one with and without it.                        *)
LEMMA SlotKept ==
  ASSUME NEW w \in Word, NEW x \in {parse_instr(w), Parsed(w)}
  PROVE  /\ SlotKind(x) = IF SlotOf(w) = "other" THEN {} ELSE {SlotOf(w)}
         /\ conv_to_pseudo(x).op = Parsed(w).op
         /\ x.op # "INVALID_OP" <=> parse_instr(w).op # "INVALID_OP"
<1> DEFINE i == parse_instr(w)
<1>1. i \in StructInstr /\ i.op \in Native \cup {"INVALID_OP"}
  BY ParseType
<1>2. conv_to_pseudo(x) = Parsed(w)
  BY <1>1, PseudoTwice DEF Parsed
<1>3. /\ is_branch(x.op) <=> is_branch(i.op)
      /\ i.op = "INVALID_OP" => x.op = "INVALID_OP"
  BY KindsKept DEF Parsed
<1>4. x = i \/ (i.op = "JALR" /\ x.op = "JR") \/ (x.op \in Pseudo /\ i.op \notin Jumps \cup Loads)
  BY <1>1, PseudoShape DEF Parsed
<1>5. /\ x.op \in Jumps <=> i.op \in Jumps
      /\ x.op \in Loads <=> i.op \in Loads
      /\ x.op = "INVALID_OP" => i.op = "INVALID_OP"
  BY <1>4 DEF Pseudo, PseudoBranch, Jumps, Loads
<1>6. SlotOf(w) = CASE is_branch(i.op) -> "branch" [] i.op \in Jumps -> "jump"
                    [] i.op \in Loads -> "load" [] OTHER -> "other"
  BY DEF SlotOf
<1> HIDE DEF i
<1>7. \A op : is_branch(op) => op \notin Jumps \cup Loads
  BY DEF is_branch, NativeBranch, PseudoBranch, Jumps, Loads
<1>8. \A op \in Jumps : op \notin Loads
  BY DEF Jumps, Loads
<1>9. SlotKind(x) = CASE is_branch(i.op) -> {"branch"} [] i.op \in Jumps -> {"jump"}
                      [] i.op \in Loads -> {"load"} [] OTHER -> {}
  BY <1>3, <1>5 DEF SlotKind
<1>10. SlotKind(x) = IF SlotOf(w) = "other" THEN {} ELSE {SlotOf(w)}
  BY <1>6, <1>7, <1>8, <1>9
<1> QED
  BY <1>2, <1>3, <1>5, <1>10 DEF i

(* The instructions of a native file are the words of the program.         *)
LEMMA NativePlaces ==
  ASSUME input \in Seq(Word), NEW P, NEW m, Places(P, m, NativeFile, FALSE)
  PROVE  /\ \A j \in 0..m : P[j] = 2 * j /\ j <= Len(input)
         /\ \A j \in 0..m - 1 : Decoded(NativeFile, P[j] + 1, FALSE).instr
                                  = parse_instr(input[j + 1])
         /\ ~HasInstr(NativeFile, P[m], FALSE) => m = Len(input)
<1> DEFINE n == Len(input)
           T == {j \in Nat : j <= m /\ ~(P[j] = 2 * j /\ j <= n)}
<1>1. m \in Nat /\ P[0] = 0 /\ n \in Nat
  BY DEF Places
<1>2. /\ Len(NativeFile) = 2 * n
      /\ \A k \in 1..n : NativeFile[2 * k - 1] = input[k][1] /\ NativeFile[2 * k] = input[k][2]
  BY NativeFileType
<1> HIDE DEF n
<1>3. T = {}
  <2> SUFFICES ASSUME T # {} PROVE FALSE
    OBVIOUS
  <2>1. PICK j \in T : \A l \in T : j <= l
    <3>1. T \in SUBSET Nat
      OBVIOUS
    <3> HIDE DEF T
    <3> QED BY <3>1, LeastNatural
  <2>2. /\ j # 0 /\ j \in Nat /\ j - 1 \in 0..m - 1 /\ j - 1 \in Nat
        /\ ~(j <= j - 1) /\ (j - 1) + 1 = j /\ j - 1 <= m
    BY <1>1, <2>1
  <2>3. P[j - 1] = 2 * (j - 1) /\ j - 1 <= n
    BY <2>1, <2>2
  <2>4. HasInstr(NativeFile, P[j - 1], FALSE) /\ P[j] = P[j - 1] + 2
    BY <2>2 DEF Places, Width
  <2>5. 2 * n - 2 * (j - 1) >= 2
    BY <1>2, <2>3, <2>4 DEF HasInstr
  <2>6. P[j] = 2 * j /\ j <= n
    BY <1>1, <2>2, <2>3, <2>4, <2>5
  <2> QED
    BY <2>1, <2>6
<1>4. \A j \in 0..m : P[j] = 2 * j /\ j <= n
  <2>1. \A j \in 0..m : j \in Nat /\ j <= m
    BY <1>1
  <2> QED
    BY <1>3, <2>1
<1> HIDE DEF T
<1>5. ASSUME NEW j \in 0..m - 1
      PROVE  Decoded(NativeFile, P[j] + 1, FALSE).instr = parse_instr(input[j + 1])
  <2>1. j \in 0..m /\ j + 1 \in 0..m /\ j \in Nat
    BY <1>1
  <2>2. P[j] = 2 * j /\ j + 1 \in 1..n
    BY <1>1, <1>4, <2>1
  <2>3. P[j] + 1 = 2 * (j + 1) - 1 /\ (P[j] + 1) + 1 = 2 * (j + 1)
    BY <2>1, <2>2
  <2>4. input[j + 1] \in Word
    BY <2>2 DEF n
  <2>5. <<NativeFile[P[j] + 1], NativeFile[(P[j] + 1) + 1]>> = input[j + 1]
    BY <1>2, <2>2, <2>3, <2>4, WordParts
  <2> QED
    BY <2>5 DEF Decoded
<1>6. ~HasInstr(NativeFile, P[m], FALSE) => m = n
  <2>1. m \in 0..m
    BY <1>1
  <2>2. P[m] = 2 * m /\ m <= n
    BY <1>4, <2>1
  <2> QED
    BY <1>1, <1>2, <2>2 DEF HasInstr
<1> QED
  BY <1>4, <1>5, <1>6 DEF n

(***************************************************************************)
(* The NOPs behind the first words of a program                            *)
(***************************************************************************)
LastKnown(n, k) == k \in KnownAmong(n) /\ \A l \in KnownAmong(n) : l <= k

(* A word more: an instruction is behind the last one before it.           *)
LEMMA BeforeNopGrows ==
  ASSUME NEW n \in Nat
  PROVE  LET w == input[n + 1]
         IN /\ KnownAmong(n) \subseteq 1..n /\ BeforeNop(n) \subseteq KnownAmong(n)
            /\ parse_instr(w).op = "INVALID_OP" =>
                 KnownAmong(n + 1) = KnownAmong(n) /\ BeforeNop(n + 1) = BeforeNop(n)
            /\ parse_instr(w).op # "INVALID_OP" =>
                 /\ KnownAmong(n + 1) = KnownAmong(n) \cup {n + 1}
                 /\ BeforeNop(n + 1) = BeforeNop(n) \cup
                      {k \in KnownAmong(n) : /\ LastKnown(n, k) /\ SlotOf(input[k]) # "other"
                                             /\ Parsed(w).op = "NOP"}
<1> DEFINE w == input[n + 1]
           K == KnownAmong(n)
           J == KnownAmong(n + 1)
           Nop(k) == Parsed(input[k]).op = "NOP"
           Slot(j) == SlotOf(input[j]) # "other"
           Next1(L, j, k) == k \in L /\ j < k /\ (\A l \in L : l <= j \/ k <= l) /\ Nop(k)
           new == {k \in K : LastKnown(n, k) /\ Slot(k) /\ Nop(n + 1)}
<1>1. 1..n + 1 = 1..n \cup {n + 1} /\ \A k \in 1..n : k \in Nat /\ k < n + 1
  OBVIOUS
<1>2. /\ K = {k \in 1..n : parse_instr(input[k]).op # "INVALID_OP"}
      /\ J = {k \in 1..n + 1 : parse_instr(input[k]).op # "INVALID_OP"}
  BY DEF KnownAmong
<1>3. /\ BeforeNop(n) = {j \in K : Slot(j) /\ \E k : Next1(K, j, k)}
      /\ BeforeNop(n + 1) = {j \in J : Slot(j) /\ \E k : Next1(J, j, k)}
  <2>1. \A L, j : (\E k : Next1(L, j, k))
                   <=> \E k \in L : /\ j < k /\ \A l \in L : l <= j \/ k <= l
                                    /\ Parsed(input[k]).op = "NOP"
    OBVIOUS
  <2> HIDE DEF Next1
  <2> QED
    BY <2>1 DEF BeforeNop
<1>4. K \subseteq 1..n /\ BeforeNop(n) \subseteq K
  <2> HIDE DEF Next1, Slot
  <2> QED
    BY <1>2, <1>3
<1>5. ASSUME parse_instr(w).op = "INVALID_OP"
      PROVE  J = K /\ BeforeNop(n + 1) = BeforeNop(n)
  <2>1. J = K
    BY <1>1, <1>2, <1>5
  <2> HIDE DEF K, J, Next1, Slot
  <2> QED
    BY <1>3, <2>1
<1>6. ASSUME parse_instr(w).op # "INVALID_OP"
      PROVE  J = K \cup {n + 1} /\ BeforeNop(n + 1) = BeforeNop(n) \cup new
  <2>1. J = K \cup {n + 1}
    BY <1>1, <1>2, <1>6
  <2> HIDE DEF K, J, Nop
  <2>4. /\ n + 1 \in Nat /\ ~(n + 1 < n + 1)
        /\ \A k \in K : /\ k \in Nat /\ k < n + 1 /\ k <= n + 1 /\ k # n + 1
                        /\ ~(n + 1 < k) /\ ~(n + 1 <= k)
    BY <1>4
  <2>2. ASSUME NEW j \in K
        PROVE  (\E k : Next1(J, j, k)) <=> (\E k : Next1(K, j, k)) \/ (LastKnown(n, j) /\ Nop(n + 1))
    <3>1. \A k : k # n + 1 => (Next1(J, j, k) <=> Next1(K, j, k))
      BY <2>1, <2>4
    <3>2. ~Next1(K, j, n + 1)
      BY <2>4
    <3>3. Next1(J, j, n + 1) <=> LastKnown(n, j) /\ Nop(n + 1)
      BY <2>1, <2>4 DEF LastKnown, K
    <3> HIDE DEF Next1
    <3> QED
      BY <3>1, <3>2, <3>3
  <2>3. ASSUME NEW k PROVE ~Next1(J, n + 1, k)
    BY <2>1, <2>4
  <2> HIDE DEF Next1, Slot
  <2> QED
    BY <1>3, <2>1, <2>2, <2>3
<1> QED
  BY <1>4, <1>5, <1>6

(* The bag of what the words before a NOP are. *)
NopsAmong(n) == BagOf([k \in BeforeNop(n) |-> SlotOf(input[k])])

(* What the flags of the analyzer say of the last instruction. *)
Flags(n, prev) ==
  \/ KnownAmong(n) = {} /\ prev = {}
  \/ \E k : /\ LastKnown(n, k)
            /\ prev = IF SlotOf(input[k]) = "other" THEN {} ELSE {SlotOf(input[k])}

(* An instruction adds to the pairs what is before it, if it is a NOP.     *)
LEMMA NopsGrow ==
  ASSUME NEW n \in Nat, NEW prev, Flags(n, prev), parse_instr(input[n + 1]).op # "INVALID_OP"
  PROVE  /\ NopsAmong(n + 1) = NopsAmong(n) (+) (IF Parsed(input[n + 1]).op = "NOP"
                                                 THEN SetToBag(prev) ELSE EmptyBag)
         /\ LastKnown(n + 1, n + 1)
<1> DEFINE w == input[n + 1]
           K == KnownAmong(n)
           B(i) == BeforeNop(i)
           F(i) == [k \in B(i) |-> SlotOf(input[k])]
           new == {k \in K : /\ LastKnown(n, k) /\ SlotOf(input[k]) # "other"
                             /\ Parsed(w).op = "NOP"}
<1>1. /\ K \subseteq 1..n /\ B(n) \subseteq K
      /\ KnownAmong(n + 1) = K \cup {n + 1} /\ B(n + 1) = B(n) \cup new
  BY BeforeNopGrows
<1>2. LastKnown(n + 1, n + 1)
  BY <1>1 DEF LastKnown
<1>3. IsFiniteSet(B(n))
  <2>1. B(n) \subseteq 1..n
    BY <1>1
  <2> QED
    BY <2>1, FewFirst
<1>4. \A i : NopsAmong(i) = BagOf(F(i)) /\ DOMAIN F(i) = B(i)
  BY DEF NopsAmong
<1>5. IsList(NopsAmong(n))
  BY <1>3, <1>4, BagOfTimes
<1>6. SetToBag({}) = EmptyBag
  BY DEF EmptyBag, SetToBag
<1>7. ASSUME new = {} PROVE NopsAmong(n + 1) = NopsAmong(n) (+) EmptyBag
  <2>1. B(n + 1) = B(n)
    BY <1>1, <1>7
  <2>2. NopsAmong(n + 1) = NopsAmong(n)
    BY <2>1 DEF NopsAmong
  <2> QED
    BY <1>5, <2>2, CountedNot
<1>8. CASE Parsed(w).op # "NOP"
  BY <1>2, <1>7, <1>8
<1>9. CASE Parsed(w).op = "NOP" /\ K = {} /\ prev = {}
  BY <1>2, <1>6, <1>7, <1>9
<1>10. CASE /\ Parsed(w).op = "NOP"
            /\ \E k : /\ LastKnown(n, k)
                      /\ prev = IF SlotOf(input[k]) = "other" THEN {} ELSE {SlotOf(input[k])}
  <2>1. PICK k : /\ LastKnown(n, k)
                 /\ prev = IF SlotOf(input[k]) = "other" THEN {} ELSE {SlotOf(input[k])}
    BY <1>10
  <2>2. k \in K /\ \A l \in K : LastKnown(n, l) => l = k
    <3>1. k \in K /\ \A l \in K : l \in Nat /\ k \in Nat
      BY <1>1, <2>1 DEF LastKnown
    <3> QED
      BY <2>1, <3>1 DEF LastKnown
  <2>3. CASE SlotOf(input[k]) = "other"
    <3>1. new = {} /\ prev = {}
      BY <2>1, <2>2, <2>3
    <3> QED
      BY <1>2, <1>6, <1>7, <1>10, <3>1
  <2>4. CASE SlotOf(input[k]) # "other"
    <3>1. new = {k} /\ prev = {SlotOf(input[k])}
      BY <1>10, <2>1, <2>2, <2>4
    <3>2. k \notin B(n)
      <4>1. ASSUME k \in B(n) PROVE \E l \in K : k < l
        BY <4>1 DEF BeforeNop
      <4>2. \A l \in K : l <= k /\ l \in Nat /\ k \in Nat
        BY <1>1, <2>1, <2>2 DEF LastKnown
      <4> QED
        BY <4>1, <4>2
    <3>3. F(n + 1)[k] = SlotOf(input[k]) /\ \A j \in B(n) : F(n + 1)[j] = F(n)[j]
      BY <1>1, <3>1
    <3>4. DOMAIN F(n + 1) = DOMAIN F(n) \cup {k}
      BY <1>1, <3>1
    <3>5. DOMAIN F(n) = B(n)
      OBVIOUS
    <3> HIDE DEF F, B
    <3>6. BagOf(F(n + 1)) = BagOf(F(n)) (+) SetToBag({SlotOf(input[k])})
      BY <1>3, <3>2, <3>3, <3>4, <3>5, BagGrows
    <3>7. NopsAmong(n + 1) = BagOf(F(n + 1)) /\ NopsAmong(n) = BagOf(F(n))
      BY <1>4
    <3> QED
      BY <1>2, <1>10, <3>1, <3>6, <3>7
  <2> QED
    BY <2>3, <2>4
<1> QED
  BY <1>8, <1>9, <1>10 DEF Flags

(* The pairs counted so far are those among the words read so far.         *)
LEMMA NopsSoFar ==
  ASSUME input \in Seq(Word), NEW psd, NEW P, NEW m, NEW S,
         Places(P, m, NativeFile, FALSE), Statistics(S, P, m, NativeFile, FALSE, psd)
  PROVE  S[m].nops = NopsAmong(m)
<1> DEFINE Good(j) == /\ DOMAIN S[j] = StatFields
                      /\ S[j].nops = NopsAmong(j) /\ Flags(j, S[j].prev)
           T == {j \in Nat : j <= m /\ ~Good(j)}
<1>1. m \in Nat
  BY DEF Places
<1>2. Good(0)
  <2>1. S[0] = NoStat
    BY DEF Statistics
  <2>2. NoStat.nops = EmptyBag /\ NoStat.prev = {} /\ DOMAIN NoStat = StatFields
    BY DEF NoStat, StatFields
  <2>3. KnownAmong(0) = {} /\ BeforeNop(0) = {}
    BY DEF KnownAmong, BeforeNop
  <2>4. NopsAmong(0) = EmptyBag
    <3>1. DOMAIN [k \in BeforeNop(0) |-> SlotOf(input[k])] = {}
      BY <2>3
    <3> QED
      BY <3>1, BagOfNone DEF NopsAmong
  <2>5. Flags(0, {})
    BY <2>3 DEF Flags
  <2> QED
    BY <2>1, <2>2, <2>4, <2>5
<1>3. ASSUME NEW j \in 0..m - 1, Good(j) PROVE Good(j + 1)
  <2> DEFINE w == input[j + 1]
             x == Seen(NativeFile, FALSE, psd, P[j])
             s == S[j]
             t == Added(s, x)
             known == parse_instr(w).op # "INVALID_OP"
  <2>1. j \in Nat /\ j + 1 \in 0..m
    BY <1>1
  <2>2. /\ Decoded(NativeFile, P[j] + 1, FALSE).instr = parse_instr(w)
        /\ j + 1 <= Len(input)
    BY <2>1, NativePlaces
  <2>3. w \in Word
    <3>1. j + 1 \in 1..Len(input)
      BY <2>1, <2>2
    <3> QED
      BY <3>1
  <2>4. x \in {parse_instr(w), Parsed(w)}
    BY <2>2 DEF Seen, Parsed
  <2> HIDE DEF x
  <2>5. /\ SlotKind(x) = IF SlotOf(w) = "other" THEN {} ELSE {SlotOf(w)}
        /\ conv_to_pseudo(x).op = Parsed(w).op
        /\ x.op # "INVALID_OP" <=> known
    BY <2>3, <2>4, SlotKept
  <2>6. S[j + 1] = t
    BY DEF Statistics, x
  <2>7. DOMAIN s = StatFields /\ s.nops = NopsAmong(j) /\ Flags(j, s.prev)
    BY <1>3
  <2> HIDE DEF Good, s
  <2>8. /\ DOMAIN t = StatFields
        /\ x.op = "INVALID_OP" => t.prev = s.prev /\ t.nops = s.nops
        /\ x.op # "INVALID_OP" =>
             /\ t.prev = SlotKind(x)
             /\ t.nops = s.nops (+) (IF conv_to_pseudo(x).op = "NOP" THEN SetToBag(s.prev)
                                     ELSE EmptyBag)
    <3>1. DOMAIN Added(s, x) = StatFields
      BY <2>7, AddedFields
    <3>3. x.op = "INVALID_OP" =>
            Added(s, x).prev = s.prev /\ Added(s, x).nops = s.nops
      BY <2>7, NamesOfFields DEF Added
    <3>2. x.op # "INVALID_OP" =>
            /\ Added(s, x).prev = SlotKind(x)
            /\ Added(s, x).nops
                 = s.nops (+) (IF conv_to_pseudo(x).op = "NOP" THEN SetToBag(s.prev)
                               ELSE EmptyBag)
      BY <2>7, AddedFields
    <3> QED
      BY <3>1, <3>2, <3>3, Zenon
  <2> HIDE DEF t, w, known
  <2>9. CASE known
    <3>1. /\ NopsAmong(j + 1) = NopsAmong(j) (+) (IF Parsed(w).op = "NOP"
                                                  THEN SetToBag(s.prev) ELSE EmptyBag)
          /\ LastKnown(j + 1, j + 1)
      BY <2>1, <2>7, <2>9, NopsGrow DEF w, known
    <3>2. t.nops = NopsAmong(j + 1)
      BY <2>5, <2>7, <2>8, <2>9, <3>1
    <3>3. Flags(j + 1, t.prev)
      BY <2>5, <2>8, <2>9, <3>1 DEF Flags, w
    <3> QED
      BY <2>6, <2>8, <3>2, <3>3 DEF Good
  <2>10. CASE ~known
    <3>1. KnownAmong(j + 1) = KnownAmong(j) /\ BeforeNop(j + 1) = BeforeNop(j)
      BY <2>1, <2>10, BeforeNopGrows DEF known, w
    <3>2. t.nops = s.nops /\ t.prev = s.prev
      BY <2>5, <2>8, <2>10
    <3>3. NopsAmong(j + 1) = NopsAmong(j)
      BY <3>1 DEF NopsAmong
    <3>4. Flags(j + 1, s.prev)
      BY <2>7, <3>1 DEF Flags, LastKnown
    <3> QED
      BY <2>6, <2>7, <2>8, <3>2, <3>3, <3>4 DEF Good
  <2> QED
    BY <2>9, <2>10
<1>4. SUFFICES ASSUME T # {} PROVE FALSE
  BY <1>1
<1> HIDE DEF Good
<1>5. PICK j \in T : \A k \in T : j <= k
  <2>1. T \in SUBSET Nat
    OBVIOUS
  <2> HIDE DEF T
  <2> QED BY <1>4, <2>1, LeastNatural
<1>6. /\ j # 0 /\ j \in Nat /\ j - 1 \in 0..m - 1 /\ j - 1 \in Nat
      /\ ~(j <= j - 1) /\ (j - 1) + 1 = j /\ ~Good(j) /\ j - 1 <= m
  BY <1>1, <1>2, <1>5
<1>7. Good(j - 1)
  BY <1>5, <1>6
<1> QED
  BY <1>3, <1>6, <1>7

(* At the end of the file, every word has been read. *)
LEMMA AllNopsCounted ==
  ASSUME InspectOK, ReadOK, tool \in Tools
  PROVE  NopPairs
<1> SUFFICES ASSUME AnalyzerEnded, tool = "count"
             PROVE  stat.nops = NopsAmong(Len(input))
  BY DEF NopPairs, NopsAmong
<1>1. input \in Seq(Word)
  BY FilesTyped DEF InspectOK
<1>2. CountedFrom(NativeFile, FALSE, conv, at, stat, stage)
  BY DEF ReadOK
<1>3. CountedFrom(NativeFile, FALSE, conv, at, stat, "done")
  <2>1. stage \in {"done", "crash", "abort"}
    BY DEF AnalyzerEnded
  <2> QED
    BY <1>2, <2>1, NativeRead
<1>4. PICK m, P, S :
        /\ Places(P, m, NativeFile, FALSE) /\ Statistics(S, P, m, NativeFile, FALSE, conv)
        /\ P[m] = at /\ S[m] = stat /\ ~HasInstr(NativeFile, at, FALSE)
  BY <1>3 DEF CountedFrom
<1>5. m = Len(input)
  BY <1>1, <1>4, NativePlaces
<1> QED
  BY <1>1, <1>4, <1>5, NopsSoFar

(* The analyzer counts a NOP as the filling of a delay slot exactly when   *)
(* the instruction before it, words without a meaning left out, is a       *)
(* branch, a jump or a load: update_nop_stat takes back its flags with     *)
(* every instruction, and with no other word.                              *)
THEOREM NopsCounted == ISpec => []NopPairs
BY ToolsInvariant, AllNopsCounted, PTL

(***************************************************************************)
(* The program read back from the output                                   *)
(***************************************************************************)

(* No word is parsed as a short instruction. *)
LEMMA ParsedLong ==
  ASSUME NEW w \in Word, parse_instr(w).op \in Native
  PROVE  Parsed(w).compressed = FALSE
<1> DEFINE i == parse_instr(w)
<1>1. i \in StructInstr /\ i.op \in Native /\ i.compressed = FALSE
  BY ParseType DEF parse_instr
<1> HIDE DEF i
<1> QED
  BY <1>1, PseudoKeeps DEF Parsed, i

(* What the converter keeps of the instruction of a word. *)
LEMMA MeansRead ==
  ASSUME NEW w \in Word, NEW i, Alike(ReadOf(w), i)
  PROVE  LET x == Parsed(w)
         IN /\ i.rs = x.rs /\ i.rt = x.rt /\ i.rd = x.rd /\ i.shamt = x.shamt /\ i.imm = x.imm
            /\ i.op = x.op \/ (x.op = "J" /\ i.op = "B") \/ (x.op = "JAL" /\ i.op = "BAL")
            /\ ~is_branch(i.op) => i.simm = x.simm
            /\ i.op \notin PseudoBranch => i.compressed = is_compressible_simple(x)
            /\ i.op = x.op => Means(x, i)
<1> DEFINE x == Parsed(w)
           y == ReadOf(w)
<1>1. /\ y.op = x.op /\ y.rs = x.rs /\ y.rt = x.rt /\ y.rd = x.rd /\ y.imm = x.imm
      /\ y.simm = x.simm /\ y.compressed = is_compressible_simple(x)
  BY ReadOfType
<1>2. y.shamt = x.shamt
  <2>1. x \in StructInstr
    BY ParsedType
  <2> HIDE DEF x
  <2> QED
    BY <2>1 DEF ReadOf, StructInstr, x
<1>3. Alike(y, i)
  OBVIOUS
<1> HIDE DEF x, y
<1>4. /\ i.rs = x.rs /\ i.rt = x.rt /\ i.rd = x.rd /\ i.shamt = x.shamt /\ i.imm = x.imm
      /\ i.op = x.op \/ (x.op = "J" /\ i.op = "B") \/ (x.op = "JAL" /\ i.op = "BAL")
      /\ ~is_branch(i.op) => i.simm = x.simm
      /\ i.op \notin PseudoBranch => i.compressed = is_compressible_simple(x)
  BY <1>1, <1>2, <1>3 DEF Alike
<1>5. \A op \in WithSimm : ~is_branch(op)
  BY DEF WithSimm, is_branch, NativeBranch, PseudoBranch, Loads, Stores
<1>6. i.op = x.op => Means(x, i)
  BY <1>4, <1>5 DEF Means
<1> QED
  BY <1>4, <1>6 DEF x

(* The instruction of a word has the fields that its operation needs, and  *)
(* the converter leaves them.                                              *)
LEMMA NormalKept ==
  ASSUME NEW w \in Word, parse_instr(w).op \in Native, NEW i \in StructInstr,
         Alike(ReadOf(w), i), Parsed(w).op = "JAL" /\ i.op = "BAL" => i.compressed
  PROVE  Normal(i)
<1> DEFINE x == Parsed(w)
<1>1. /\ i.rs = x.rs /\ i.rt = x.rt /\ i.rd = x.rd /\ i.shamt = x.shamt /\ i.imm = x.imm
      /\ i.op = x.op \/ (x.op = "J" /\ i.op = "B") \/ (x.op = "JAL" /\ i.op = "BAL")
      /\ ~is_branch(i.op) => i.simm = x.simm
      /\ i.op = x.op => Means(x, i)
  BY MeansRead
<1>2. Normal(x) /\ x.compressed = FALSE
  BY NormalWord, ParsedLong DEF Parsed
<1>3. Parsed(w).op = "JAL" /\ i.op = "BAL" => i.compressed
  OBVIOUS
<1> HIDE DEF x
<1>4. "B" \notin Native /\ "BAL" \notin Native /\ is_branch("B") /\ is_branch("BAL")
      /\ ~is_branch("LSI")
  <2>1. "B" \notin Native /\ "BAL" \notin Native
    BY DEF Native, NativeBranch, Shifts, ShiftVs, Alu, AluImm, MulDiv, Compare, Loads, Stores,
           Jumps, Stops, Cop0
  <2>2. is_branch("B") /\ is_branch("BAL") /\ ~is_branch("LSI")
    BY DEF is_branch, NativeBranch, PseudoBranch
  <2> QED
    BY <2>1, <2>2
<1>5. i.op \in Native => Settled(i)
  BY <1>1, <1>2, <1>4, SettledAlike DEF Normal
<1>6. PseudoFields(i)
  <2>1. CASE i.op = x.op
    BY <1>1, <1>2, <1>4, <2>1 DEF Normal, PseudoFields
  <2>2. CASE i.op # x.op
    BY <1>1, <1>3, <2>2 DEF PseudoFields, x
  <2> QED
    BY <2>1, <2>2
<1>7. ~is_branch(i.op) => OneImmediate(i)
  BY <1>1, <1>2, <1>4 DEF Normal, OneImmediate
<1> QED
  BY <1>5, <1>6, <1>7 DEF Normal

(* What is decoded where the layout has an instruction is what a processor *)
(* fetches there, of the size that the instruction has.                    *)
LEMMA OutputAt ==
  ASSUME IInv, OutputCoded, pc = "done", NEW k \in 1..Len(prog)
  PROVE  LET h == NewAddr(prog)[k] \div 2
         IN /\ h \in Nat /\ 2 * h = NewAddr(prog)[k]
            /\ NewAddr(prog)[k + 1] \div 2 = h + V2Halves(out, h + 1)
            /\ HasInstr(out, h, TRUE)
            /\ IsLong(out, h + 1) <=> ~prog[k].compressed
            /\ Decoded(out, h + 1, TRUE) = Fetched(k)
<1> DEFINE i == prog[k]
           h == NewAddr(prog)[k] \div 2
           n == Len(out)
           first == out[h + 1]
           x == IF h + 1 < n THEN out[h + 1 + 1] ELSE 0
           y == IF ~(first < 32768) THEN 0 ELSE out[IF h + 1 < n THEN h + 1 + 1 ELSE h + 1]
<1>1. /\ NewAddr(prog)[k] \in Nat /\ NewAddr(prog)[k] % 2 = 0
      /\ NewAddr(prog)[k + 1] = NewAddr(prog)[k] + Size(i)
  BY PlacedBounds
<1>2. Size(i) = IF i.compressed THEN 2 ELSE 4
  BY DEF Size
<1>3. h \in Nat /\ 2 * h = NewAddr(prog)[k]
  BY <1>1
<1>4. /\ Len(write_instr_v2(i)) = (IF i.compressed THEN 1 ELSE 2)
      /\ h + Len(write_instr_v2(i)) <= n /\ n \in Nat
  <2>1. h + Len(write_instr_v2(i)) <= n /\ write_instr_v2(i) # NoCode /\ i \in StructInstr
    BY TypeFacts DEF OutputCoded, CodedAt, IInv
  <2>2. Coded(write_instr_v2(i), IF i.compressed THEN 1 ELSE 2)
    BY <2>1, CodeSize
  <2>3. n \in Nat
    BY DEF IInv, TypeOK
  <2> HIDE DEF i, h, n
  <2> QED
    BY <2>1, <2>2, <2>3 DEF Coded
<1>5. Fetched(k).rc = Size(i) /\ Fetched(k) = parse_instr_v2(<<first, x>>, Blank)
  BY FetchedCode DEF ReadAs, Fetched
<1> HIDE DEF i, h, n, first, x
<1>6. \A a, b : /\ a < 32768 => parse_instr_v2(<<a, b>>, Blank).rc \in {4, -1}
                /\ ~(a < 32768) =>
                     /\ parse_instr_v2(<<a, b>>, Blank).rc \in {2, 0}
                     /\ \A c : parse_instr_v2(<<a, b>>, Blank) = parse_instr_v2(<<a, c>>, Blank)
  <2> HIDE DEF Blank
  <2>1. ASSUME NEW v, v[1] < 32768
        PROVE  parse_instr_v2(v, Blank).rc \in {4, -1}
    BY <2>1 DEF parse_instr_v2
  <2>2. ASSUME NEW v, ~(v[1] < 32768)
        PROVE  /\ parse_instr_v2(v, Blank).rc \in {2, 0}
               /\ \A u : u[1] = v[1] => parse_instr_v2(u, Blank) = parse_instr_v2(v, Blank)
    BY <2>2 DEF parse_instr_v2
  <2>3. \A a, b : <<a, b>>[1] = a
    OBVIOUS
  <2> QED
    BY <2>1, <2>2, <2>3
<1>7. first < 32768 <=> ~i.compressed
  BY <1>2, <1>5, <1>6
<1>8. first < 32768 => y = x
  BY <1>3, <1>4, <1>7 DEF x
<1> HIDE DEF y
<1>9. parse_instr_v2(<<first, y>>, Blank) = parse_instr_v2(<<first, x>>, Blank)
  BY <1>6, <1>8
<1>10. Decoded(out, h + 1, TRUE) = parse_instr_v2(<<first, y>>, Blank)
  BY DEF Decoded, V2Code, IsLong, y, first, n
<1>11. IsLong(out, h + 1) <=> ~i.compressed
  BY <1>7 DEF IsLong, first
<1>12. V2Halves(out, h + 1) = IF i.compressed THEN 1 ELSE 2
  BY <1>3, <1>4, <1>11 DEF V2Halves, n
<1>13. NewAddr(prog)[k + 1] \div 2 = h + V2Halves(out, h + 1)
  BY <1>1, <1>2, <1>3, <1>12
<1>14. HasInstr(out, h, TRUE)
  BY <1>3, <1>4 DEF HasInstr, n
<1> QED
  BY <1>3, <1>5, <1>9, <1>10, <1>11, <1>13, <1>14 DEF i, h

(* Every instruction of the program is what conv_to_pseudo makes of what   *)
(* is fetched where the layout has it.                                     *)
LEMMA CodedMeans ==
  ASSUME IInv, Faithful, OutputCoded, Reduced, pc = "done", NEW k \in 1..Len(prog)
  PROVE  Means(prog[k], conv_to_pseudo(Fetched(k).instr))
<1> DEFINE i == prog[k]
           w == input[k]
           x == Parsed(w)
           c == write_instr_v2(i)
           h == NewAddr(prog)[k] \div 2
           n == Len(out)
           first == out[h + 1]
           next == IF h + 1 < n THEN out[h + 1 + 1] ELSE 0
<1>1. /\ i \in StructInstr /\ w \in Word /\ Alike(ReadOf(w), i)
      /\ parse_instr(w).op \in Native
  <2>1. /\ i \in StructInstr /\ w \in Word
    BY TypeFacts DEF IInv, TypeOK
  <2>2. Alike(ReadOf(w), i) /\ Parsed(w).op # "INVALID_OP"
    BY DEF Faithful, FromWords, KnownWords
  <2> HIDE DEF w
  <2>3. parse_instr(w).op \in Native \cup {"INVALID_OP"}
    BY <2>1, ParseType
  <2>4. parse_instr(w).op # "INVALID_OP"
    BY <2>1, <2>2, KindsKept DEF Parsed
  <2> QED
    BY <2>1, <2>2, <2>3, <2>4
<1>2. x.op = "JAL" /\ i.op = "BAL" => i.compressed
  <2>1. NearJumpsShort /\ Laid /\ k \in DOMAIN prog
    BY TypeFacts DEF IInv, NearJumpsShort, LongDoNot, FromInput, Laid
  <2> QED
    BY <2>1 DEF NearJumpsShort, IsJump
<1>3. Normal(i)
  <2> HIDE DEF i, w
  <2> QED
    BY <1>1, <1>2, NormalKept
<1>4. /\ i.op = x.op \/ i.op \in {"B", "BAL"}
      /\ i.op \notin PseudoBranch => i.compressed = is_compressible_simple(x)
      /\ i.op = x.op => Means(x, i)
  <2> HIDE DEF i, w
  <2> QED
    BY <1>1, MeansRead
<1>5. /\ i.op = "MOV" => i.rt # 0
      /\ i.op = "CLEAR" => i.rd # 0
      /\ ~i.compressed => /\ i.op \in {"BEQZ", "BNEZ"} => i.rt = 0
                          /\ i.op = "B" => i.rs = 0
  BY TypeFacts DEF Reduced, IInv
<1>6. /\ c # NoCode /\ h + Len(c) <= n /\ \A j \in 1..Len(c) : out[h + j] = c[j]
      /\ h \in Nat /\ n \in Nat
  <2>1. h \in Nat
    BY OutputAt
  <2> QED
    BY <2>1 DEF OutputCoded, CodedAt, IInv, TypeOK
<1>7. Fetched(k) = parse_instr_v2(<<first, next>>, Blank)
  BY DEF Fetched
<1>8. next \in Half
  <2>1. out \in Seq(Half)
    BY DEF IInv, TypeOK
  <2>3. 0 \in Half
    BY DEF Half, HalfMax
  <2>2. h + 1 < n => h + 1 + 1 \in 1..n
    BY <1>6
  <2> HIDE DEF h
  <2> QED
    BY <2>1, <2>2, <2>3
<1>9. CASE i.compressed
  <2>1. c = write_compressed(i)
    BY <1>9 DEF write_instr_v2
  <2> HIDE DEF c, next, h, i, n
  <2>2. c = <<c[1]>>
    BY <1>1, <1>6, <2>1, SmallReadBack
  <2>3. first = c[1]
    <3>1. Len(c) = 1
      BY <2>2
    <3> QED
      BY <1>6, <3>1
  <2>4. Fetched(k).instr = Found(write_compressed(i), next)
    BY <1>7, <2>1, <2>3 DEF Found
  <2>5. ASSUME i.op \in Pseudo PROVE Means(i, conv_to_pseudo(Fetched(k).instr))
    BY <1>1, <1>3, <1>5, <1>6, <1>8, <2>1, <2>4, <2>5, SmallPseudo
  <2>6. ASSUME i.op \notin Pseudo PROVE Means(i, conv_to_pseudo(Fetched(k).instr))
    <3>1. /\ i.op \notin PseudoBranch /\ i.op \notin {"B", "BAL"}
          /\ \A op \in PseudoBranch : op \in Pseudo
      BY <2>6 DEF Pseudo, PseudoBranch
    <3>2. x.op # "INVALID_OP"
      BY DEF Faithful, KnownWords
    <3> HIDE DEF x, w
    <3>3. Short(i)
      BY <1>1, <1>9, <3>1, <3>2, SimpleIsShort DEF x
    <3> QED
      BY <1>1, <1>3, <1>5, <1>8, <2>4, <3>3, SmallMeans
  <2> QED
    BY <2>5, <2>6 DEF i
<1>10. CASE ~i.compressed
  <2>1. c = write_long(i)
    BY <1>10 DEF write_instr_v2
  <2> HIDE DEF c, h, i, n, x
  <2>2. c = <<c[1], c[2]>>
    BY <1>1, <1>6, <2>1, LongReadBack
  <2>3. first = c[1] /\ next = c[2]
    <3>1. Len(c) = 2
      BY <2>2
    <3>2. h + 1 < n /\ h + 1 + 1 = h + 2
      BY <1>6, <3>1
    <3> QED
      BY <1>6, <3>1, <3>2
  <2> HIDE DEF first, next
  <2>4. Fetched(k) = parse_instr_v2(write_long(i), Blank)
    BY <1>7, <2>1, <2>2, <2>3
  <2>5. i.op \notin AlwaysShort
    <3>1. \A op \in AlwaysShort : op \notin PseudoBranch \cup {"B", "BAL"}
      BY DEF AlwaysShort, PseudoBranch
    <3>2. x.op \in AlwaysShort => is_compressible_simple(x)
      BY DEF AlwaysShort, is_compressible_simple
    <3> QED
      BY <1>4, <1>10, <3>1, <3>2
  <2>6. LongZero(i)
    <3>1. i.op = "BAL" => i.rs = 0
      BY <1>3, <1>10 DEF Normal, PseudoFields
    <3> QED
      BY <1>5, <1>10, <3>1 DEF LongZero
  <2>7. Means(i, conv_to_pseudo(parse_instr_v2(write_long(i), Blank).instr))
    BY <1>1, <1>3, <1>6, <2>1, <2>5, <2>6, LongMeans
  <2> QED
    BY <2>4, <2>7 DEF i
<1> QED
  BY <1>9, <1>10

(* Every instruction of a complete output, of whichever operation and in   *)
(* either format, is read back as one with the same operation, registers   *)
(* and immediate, once conv_to_pseudo has made a pseudo instruction of it. *)
THEOREM WrittenReadsBack ==
  Spec => [](pc = "done" /\ Reduced =>
               \A k \in 1..Len(prog) : Means(prog[k], conv_to_pseudo(Fetched(k).instr)))
<1>1. IInv /\ Faithful /\ OutputCoded =>
        (pc = "done" /\ Reduced =>
           \A k \in 1..Len(prog) : Means(prog[k], conv_to_pseudo(Fetched(k).instr)))
  BY CodedMeans
<1> QED
  BY <1>1, Invariant, StaysFaithful, StaysOutputCoded, PTL

(* The operands that are printed of each group of operations. *)
LEMMA OperandsBy ==
  ASSUME NEW i
  PROVE  /\ i.op \in Shifts => Operands(i) = <<i.rd, i.rt, i.shamt>>
         /\ i.op \in ShiftVs => Operands(i) = <<i.rd, i.rt, i.rs>>
         /\ i.op \in Alu \cup Comparisons => Operands(i) = <<i.rd, i.rs, i.rt>>
         /\ i.op \in {"ADDI", "ADDIU", "SLTI", "BEQ", "BNE"} => Operands(i) = <<i.rt, i.rs, i.simm>>
         /\ i.op \in {"ANDI", "ORI", "XORI", "SLTIU"} => Operands(i) = <<i.rt, i.rs, i.imm>>
         /\ i.op = "LUI" => Operands(i) = <<i.rt, i.imm>>
         /\ i.op \in Loads \cup Stores => Operands(i) = <<i.rt, i.simm, i.rs>>
         /\ i.op \in (NativeBranch \ {"BEQ", "BNE"}) \cup {"BEQZ", "BNEZ"} => Operands(i) = <<i.rs, i.simm>>
         /\ i.op \in {"B", "BAL"} => Operands(i) = <<i.simm>>
         /\ i.op \in {"J", "JAL"} => Operands(i) = <<i.addr>>
         /\ i.op \in {"JR", "MTHI", "MTLO"} => Operands(i) = <<i.rs>>
         /\ i.op \in {"JALR", "SLTZ"} => Operands(i) = <<i.rd, i.rs>>
         /\ i.op \in {"MULT", "MULTU", "DIV", "DIVU"} => Operands(i) = <<i.rs, i.rt>>
         /\ i.op \in {"MFHI", "MFLO", "CLEAR"} => Operands(i) = <<i.rd>>
         /\ i.op \in {"MOV", "NOT", "NEG", "SEQZ", "SNEZ"} => Operands(i) = <<i.rd, i.rt>>
         /\ i.op = "LSI" => Operands(i) = <<i.rd, i.simm>>
         /\ i.op \in {"NOP"} \cup Stops => Operands(i) = <<>>
<1>1. ASSUME i.op \in Shifts PROVE Operands(i) = <<i.rd, i.rt, i.shamt>>
  BY <1>1 DEF Operands, Shifts, ShiftVs, Alu, Comparisons, Loads, Stores, NativeBranch,
               Stops, Cop0
<1>2. ASSUME i.op \in ShiftVs PROVE Operands(i) = <<i.rd, i.rt, i.rs>>
  BY <1>2 DEF Operands, Shifts, ShiftVs, Alu, Comparisons, Loads, Stores, NativeBranch,
               Stops, Cop0
<1>3. ASSUME i.op \in Alu \cup Comparisons PROVE Operands(i) = <<i.rd, i.rs, i.rt>>
  BY <1>3 DEF Operands, Shifts, ShiftVs, Alu, Comparisons, Loads, Stores, NativeBranch,
               Stops, Cop0
<1>4. ASSUME i.op \in {"ADDI", "ADDIU", "SLTI", "BEQ", "BNE"} PROVE Operands(i) = <<i.rt, i.rs, i.simm>>
  BY <1>4 DEF Operands, Shifts, ShiftVs, Alu, Comparisons, Loads, Stores, NativeBranch,
               Stops, Cop0
<1>5. ASSUME i.op \in {"ANDI", "ORI", "XORI", "SLTIU"} PROVE Operands(i) = <<i.rt, i.rs, i.imm>>
  BY <1>5 DEF Operands, Shifts, ShiftVs, Alu, Comparisons, Loads, Stores, NativeBranch,
               Stops, Cop0
<1>6. ASSUME i.op = "LUI" PROVE Operands(i) = <<i.rt, i.imm>>
  BY <1>6 DEF Operands, Shifts, ShiftVs, Alu, Comparisons, Loads, Stores, NativeBranch,
               Stops, Cop0
<1>7. ASSUME i.op \in Loads \cup Stores PROVE Operands(i) = <<i.rt, i.simm, i.rs>>
  BY <1>7 DEF Operands, Shifts, ShiftVs, Alu, Comparisons, Loads, Stores, NativeBranch,
               Stops, Cop0
<1>8. ASSUME i.op \in (NativeBranch \ {"BEQ", "BNE"}) \cup {"BEQZ", "BNEZ"} PROVE Operands(i) = <<i.rs, i.simm>>
  BY <1>8 DEF Operands, Shifts, ShiftVs, Alu, Comparisons, Loads, Stores, NativeBranch,
               Stops, Cop0
<1>9. ASSUME i.op \in {"B", "BAL"} PROVE Operands(i) = <<i.simm>>
  BY <1>9 DEF Operands, Shifts, ShiftVs, Alu, Comparisons, Loads, Stores, NativeBranch,
               Stops, Cop0
<1>10. ASSUME i.op \in {"J", "JAL"} PROVE Operands(i) = <<i.addr>>
  BY <1>10 DEF Operands, Shifts, ShiftVs, Alu, Comparisons, Loads, Stores, NativeBranch,
               Stops, Cop0
<1>11. ASSUME i.op \in {"JR", "MTHI", "MTLO"} PROVE Operands(i) = <<i.rs>>
  BY <1>11 DEF Operands, Shifts, ShiftVs, Alu, Comparisons, Loads, Stores, NativeBranch,
               Stops, Cop0
<1>12. ASSUME i.op \in {"JALR", "SLTZ"} PROVE Operands(i) = <<i.rd, i.rs>>
  BY <1>12 DEF Operands, Shifts, ShiftVs, Alu, Comparisons, Loads, Stores, NativeBranch,
               Stops, Cop0
<1>13. ASSUME i.op \in {"MULT", "MULTU", "DIV", "DIVU"} PROVE Operands(i) = <<i.rs, i.rt>>
  BY <1>13 DEF Operands, Shifts, ShiftVs, Alu, Comparisons, Loads, Stores, NativeBranch,
               Stops, Cop0
<1>14. ASSUME i.op \in {"MFHI", "MFLO", "CLEAR"} PROVE Operands(i) = <<i.rd>>
  BY <1>14 DEF Operands, Shifts, ShiftVs, Alu, Comparisons, Loads, Stores, NativeBranch,
               Stops, Cop0
<1>15. ASSUME i.op \in {"MOV", "NOT", "NEG", "SEQZ", "SNEZ"} PROVE Operands(i) = <<i.rd, i.rt>>
  BY <1>15 DEF Operands, Shifts, ShiftVs, Alu, Comparisons, Loads, Stores, NativeBranch,
               Stops, Cop0
<1>16. ASSUME i.op = "LSI" PROVE Operands(i) = <<i.rd, i.simm>>
  BY <1>16 DEF Operands, Shifts, ShiftVs, Alu, Comparisons, Loads, Stores, NativeBranch,
               Stops, Cop0
<1>17. ASSUME i.op \in {"NOP"} \cup Stops PROVE Operands(i) = <<>>
  BY <1>17 DEF Operands, Shifts, ShiftVs, Alu, Comparisons, Loads, Stores, NativeBranch,
               Stops, Cop0
<1> QED
  BY <1>1, <1>2, <1>3, <1>4, <1>5, <1>6, <1>7, <1>8, <1>9, <1>10, <1>11, <1>12, <1>13, <1>14, <1>15, <1>16, <1>17

(* Instructions that mean the same are printed with the same operands,     *)
(* when these have neither a target nor an order that may change.          *)
LEMMA SameOperands ==
  ASSUME NEW x, NEW y, Means(x, y), x.op \in Operation \ (Cop0 \cup {"INVALID_OP"}),
         ~is_branch(x.op), ~IsJump(x.op), x.op \notin Commutes
  PROVE  Operands(y) = Operands(x)
<1> DEFINE op == x.op
<1>1. /\ y.op = op
      /\ op \in WithRs => y.rs = x.rs
      /\ op \in WithRt => y.rt = x.rt
      /\ op \in WithRd => y.rd = x.rd
      /\ op \in Shifts => y.shamt = x.shamt
      /\ op \in WithImm => y.imm = x.imm
      /\ op \in WithSimm => y.simm = x.simm
  BY DEF Means
<1>2. CASE op \in Shifts
  <2>1. op \in WithRd /\ op \in WithRt
    BY <1>2 DEF Shifts, ShiftVs, Alu, AluImm, Compare, Comparisons, Loads, Stores,
           Commutes, NativeBranch, WithRd, WithRt
  <2> QED
    BY <1>1, <1>2, <2>1, OperandsBy
<1>3. CASE op \in ShiftVs
  <2>1. op \in WithRd /\ op \in WithRt /\ op \in WithRs
    BY <1>3 DEF Shifts, ShiftVs, Alu, AluImm, Compare, Comparisons, Loads, Stores,
           Commutes, NativeBranch, WithRd, WithRt, WithRs
  <2> QED
    BY <1>1, <1>3, <2>1, OperandsBy
<1>4. CASE op \in (Alu \ Commutes) \cup Comparisons
  <2>1. op \in WithRd /\ op \in WithRs /\ op \in WithRt
    BY <1>4 DEF Shifts, ShiftVs, Alu, AluImm, Compare, Comparisons, Loads, Stores,
           Commutes, NativeBranch, WithRd, WithRs, WithRt
  <2> QED
    BY <1>1, <1>4, <2>1, OperandsBy
<1>5. CASE op \in {"ADDI", "ADDIU", "SLTI"}
  <2>1. op \in WithRt /\ op \in WithRs /\ op \in WithSimm
    BY <1>5 DEF Shifts, ShiftVs, Alu, AluImm, Compare, Comparisons, Loads, Stores,
           Commutes, NativeBranch, WithRt, WithRs, WithSimm
  <2> QED
    BY <1>1, <1>5, <2>1, OperandsBy
<1>6. CASE op \in {"ANDI", "ORI", "XORI", "SLTIU"}
  <2>1. op \in WithRt /\ op \in WithRs /\ op \in WithImm
    BY <1>6 DEF Shifts, ShiftVs, Alu, AluImm, Compare, Comparisons, Loads, Stores,
           Commutes, NativeBranch, WithRt, WithRs, WithImm
  <2> QED
    BY <1>1, <1>6, <2>1, OperandsBy
<1>7. CASE op = "LUI"
  <2>1. op \in WithRt /\ op \in WithImm
    BY <1>7 DEF Shifts, ShiftVs, Alu, AluImm, Compare, Comparisons, Loads, Stores,
           Commutes, NativeBranch, WithRt, WithImm
  <2> QED
    BY <1>1, <1>7, <2>1, OperandsBy
<1>8. CASE op \in Loads \cup Stores
  <2>1. op \in WithRt /\ op \in WithSimm /\ op \in WithRs
    BY <1>8 DEF Shifts, ShiftVs, Alu, AluImm, Compare, Comparisons, Loads, Stores,
           Commutes, NativeBranch, WithRt, WithSimm, WithRs
  <2> QED
    BY <1>1, <1>8, <2>1, OperandsBy
<1>9. CASE op \in {"JR", "MTHI", "MTLO"}
  <2>1. op \in WithRs
    BY <1>9 DEF Shifts, ShiftVs, Alu, AluImm, Compare, Comparisons, Loads, Stores,
           Commutes, NativeBranch, WithRs
  <2> QED
    BY <1>1, <1>9, <2>1, OperandsBy
<1>10. CASE op \in {"JALR", "SLTZ"}
  <2>1. op \in WithRd /\ op \in WithRs
    BY <1>10 DEF Shifts, ShiftVs, Alu, AluImm, Compare, Comparisons, Loads, Stores,
           Commutes, NativeBranch, WithRd, WithRs
  <2> QED
    BY <1>1, <1>10, <2>1, OperandsBy
<1>11. CASE op \in {"MULT", "MULTU", "DIV", "DIVU"}
  <2>1. op \in WithRs /\ op \in WithRt
    BY <1>11 DEF Shifts, ShiftVs, Alu, AluImm, Compare, Comparisons, Loads, Stores,
           Commutes, NativeBranch, WithRs, WithRt
  <2> QED
    BY <1>1, <1>11, <2>1, OperandsBy
<1>12. CASE op \in {"MFHI", "MFLO", "CLEAR"}
  <2>1. op \in WithRd
    BY <1>12 DEF Shifts, ShiftVs, Alu, AluImm, Compare, Comparisons, Loads, Stores,
           Commutes, NativeBranch, WithRd
  <2> QED
    BY <1>1, <1>12, <2>1, OperandsBy
<1>13. CASE op \in {"MOV", "NOT", "NEG", "SEQZ", "SNEZ"}
  <2>1. op \in WithRd /\ op \in WithRt
    BY <1>13 DEF Shifts, ShiftVs, Alu, AluImm, Compare, Comparisons, Loads, Stores,
           Commutes, NativeBranch, WithRd, WithRt
  <2> QED
    BY <1>1, <1>13, <2>1, OperandsBy
<1>14. CASE op = "LSI"
  <2>1. op \in WithRd /\ op \in WithSimm
    BY <1>14 DEF Shifts, ShiftVs, Alu, AluImm, Compare, Comparisons, Loads, Stores,
           Commutes, NativeBranch, WithRd, WithSimm
  <2> QED
    BY <1>1, <1>14, <2>1, OperandsBy
<1>15. CASE op \in {"NOP"} \cup Stops
  BY <1>1, <1>15, OperandsBy
<1> QED
  BY <1>2, <1>3, <1>4, <1>5, <1>6, <1>7, <1>8, <1>9, <1>10, <1>11, <1>12, <1>13, <1>14, <1>15 DEF Operation, Native, Pseudo,
     Shifts, ShiftVs, Alu, AluImm, MulDiv, Compare, Comparisons, Loads, Stores, Jumps, Stops,
     is_branch, NativeBranch, PseudoBranch, IsJump

(* The last operand, and those before it. *)
LEMMA LastOperand ==
  \A a, b, c : /\ Front(<<a>>) = <<>> /\ Last(<<a>>) = a
               /\ Front(<<a, b>>) = <<a>> /\ Last(<<a, b>>) = b
               /\ Front(<<a, b, c>>) = <<a, b>> /\ Last(<<a, b, c>>) = c
<1> TAKE a, b, c
<1> DEFINE S == {a, b, c}
<1>1. Front(<<a>>) = <<>> /\ Last(<<a>>) = a
  BY DEF Front, Last
<1>2. ASSUME NEW s \in Seq(S), Len(s) > 0
      PROVE  /\ Front(s) \in Seq(S) /\ Len(Front(s)) = Len(s) - 1
             /\ \A k \in 1..Len(s) - 1 : Front(s)[k] = s[k]
  <2> DEFINE n == Len(s) - 1
  <2>1. n \in Int /\ n >= 0 /\ \A k \in 1..n : s[k] \in S
    BY <1>2
  <2> HIDE DEF n, S
  <2>2. /\ SubSeq(s, 1, n) \in Seq(S)
        /\ Len(SubSeq(s, 1, n)) = IF 1 <= n THEN n - 1 + 1 ELSE 0
        /\ \A k \in 1..n - 1 + 1 : SubSeq(s, 1, n)[k] = s[1 + k - 1]
    BY <2>1, SubSeqProperties
  <2>3. Front(s) = SubSeq(s, 1, n)
    BY DEF Front, n
  <2> DEFINE g == SubSeq(s, 1, n)
  <2> HIDE DEF g
  <2>4. g \in Seq(S) /\ Len(g) = n /\ \A k \in 1..n : g[k] = s[k]
    BY <2>1, <2>2 DEF g
  <2> QED
    BY <2>3, <2>4 DEF g, n
<1>3. /\ <<a, b>> \in Seq(S) /\ Len(<<a, b>>) = 2 /\ <<a, b>>[1] = a /\ <<a, b>>[2] = b
      /\ <<a, b, c>> \in Seq(S) /\ Len(<<a, b, c>>) = 3 /\ <<a, b, c>>[1] = a
      /\ <<a, b, c>>[2] = b /\ <<a, b, c>>[3] = c
  OBVIOUS
<1>4. /\ \A s \in Seq(S) : Len(s) = 1 => s = <<s[1]>>
      /\ \A s \in Seq(S) : Len(s) = 2 => s = <<s[1], s[2]>>
  <2> HIDE DEF S
  <2> QED
    OBVIOUS
<1> HIDE DEF S
<1>5. \A s \in Seq(S) : Len(s) = 2 => Front(s) = <<s[1]>> /\ Last(s) = s[2]
  <2> SUFFICES ASSUME NEW s \in Seq(S), Len(s) = 2
               PROVE  Front(s) = <<s[1]>> /\ Last(s) = s[2]
    OBVIOUS
  <2>1. 1 \in 1..Len(s) - 1 /\ Len(s) > 0 /\ Len(s) - 1 = 1
    OBVIOUS
  <2>2. Front(s) \in Seq(S) /\ Len(Front(s)) = 1 /\ Front(s)[1] = s[1]
    BY <1>2, <2>1, Zenon
  <2> QED
    BY <1>4, <2>2 DEF Last
<1>6. \A s \in Seq(S) : Len(s) = 3 => Front(s) = <<s[1], s[2]>> /\ Last(s) = s[3]
  <2> SUFFICES ASSUME NEW s \in Seq(S), Len(s) = 3
               PROVE  Front(s) = <<s[1], s[2]>> /\ Last(s) = s[3]
    OBVIOUS
  <2>1. 1 \in 1..Len(s) - 1 /\ 2 \in 1..Len(s) - 1 /\ Len(s) > 0 /\ Len(s) - 1 = 2
    OBVIOUS
  <2>2. Front(s) \in Seq(S) /\ Len(Front(s)) = 2 /\ Front(s)[1] = s[1] /\ Front(s)[2] = s[2]
    BY <1>2, <2>1, Zenon
  <2> QED
    BY <1>4, <2>2 DEF Last
<1>7. Front(<<a, b>>) = <<a>> /\ Last(<<a, b>>) = b
  BY <1>3, <1>5, Zenon
<1>8. Front(<<a, b, c>>) = <<a, b>> /\ Last(<<a, b, c>>) = c
  BY <1>3, <1>6, Zenon
<1> QED
  BY <1>1, <1>7, <1>8

(* A branch is printed with its offset last, a jump with its target alone. *)
LEMMA TransferOperands ==
  ASSUME NEW x
  PROVE  /\ is_branch(x.op) => Last(Operands(x)) = x.simm
         /\ IsJump(x.op) => Operands(x) = <<x.addr>>
         /\ x.op \in {"BEQ", "BNE"} => Front(Operands(x)) = <<x.rt, x.rs>>
         /\ is_branch(x.op) /\ x.op \notin {"BEQ", "BNE", "B", "BAL"} =>
              Front(Operands(x)) = <<x.rs>>
         /\ x.op \in {"B", "BAL", "J", "JAL"} => Front(Operands(x)) = <<>>
<1>1. /\ x.op \in {"BEQ", "BNE"} => Operands(x) = <<x.rt, x.rs, x.simm>>
      /\ x.op \in (NativeBranch \ {"BEQ", "BNE"}) \cup {"BEQZ", "BNEZ"} =>
           Operands(x) = <<x.rs, x.simm>>
      /\ x.op \in {"B", "BAL"} => Operands(x) = <<x.simm>>
      /\ x.op \in {"J", "JAL"} => Operands(x) = <<x.addr>>
  BY OperandsBy
<1>2. is_branch(x.op) =>
        \/ x.op \in {"BEQ", "BNE"}
        \/ x.op \in (NativeBranch \ {"BEQ", "BNE"}) \cup {"BEQZ", "BNEZ"}
        \/ x.op \in {"B", "BAL"}
  BY DEF is_branch, PseudoBranch
<1>3. CASE x.op \in {"BEQ", "BNE"}
  BY <1>1, <1>3, LastOperand DEF IsJump
<1>4. CASE x.op \in (NativeBranch \ {"BEQ", "BNE"}) \cup {"BEQZ", "BNEZ"}
  BY <1>1, <1>4, LastOperand DEF IsJump, NativeBranch
<1>5. CASE x.op \in {"B", "BAL"}
  BY <1>1, <1>5, LastOperand DEF IsJump
<1>6. CASE ~is_branch(x.op)
  <2>1. ~is_branch(x.op) => x.op \notin {"BEQ", "BNE", "B", "BAL"}
    BY DEF is_branch, NativeBranch, PseudoBranch
  <2> QED
    BY <1>1, <1>6, <2>1, LastOperand DEF IsJump
<1> QED
  BY <1>2, <1>3, <1>4, <1>5, <1>6

(* The line of an instruction. *)
Shows(l, i) == l.name = i.op /\ l.operands = Operands(i)

(* Lines of instructions that mean the same differ in a target at most.    *)
LEMMA SameText ==
  ASSUME NEW x, NEW y, Means(x, y), x.op \in Operation \ (Cop0 \cup {"INVALID_OP"}),
         NEW l, NEW m, Shows(l, x), Shows(m, y)
  PROVE  Without(m) = Without(l)
<1>1. /\ y.op = x.op /\ l.name = x.op /\ m.name = x.op
      /\ l.operands = Operands(x) /\ m.operands = Operands(y)
  BY DEF Means, Shows
<1>2. CASE is_branch(x.op) \/ IsJump(x.op)
  <2>1. Front(Operands(y)) = Front(Operands(x))
    <3>1. CASE x.op \in {"B", "BAL", "J", "JAL"}
      BY <1>1, <3>1, TransferOperands
    <3>2. CASE x.op \in {"BEQ", "BNE"}
      <4>1. x.op \in WithRs \cap WithRt /\ x.op \notin Commutes
        BY <3>2 DEF WithRs, WithRt, NativeBranch, Commutes
      <4> QED
        BY <1>1, <3>2, <4>1, TransferOperands DEF Means
    <3>3. CASE is_branch(x.op) /\ x.op \notin {"BEQ", "BNE", "B", "BAL"}
      <4>1. x.op \in WithRs /\ x.op \notin Commutes
        BY <3>3 DEF WithRs, is_branch, NativeBranch, PseudoBranch, Commutes
      <4> QED
        BY <1>1, <3>3, <4>1, TransferOperands DEF Means
    <3> QED
      BY <1>2, <3>1, <3>2, <3>3 DEF IsJump
  <2>2. x.op \notin Commutes
    BY <1>2 DEF Commutes, is_branch, NativeBranch, PseudoBranch, IsJump
  <2> QED
    BY <1>1, <1>2, <2>1, <2>2, Zenon DEF Without, Commutes
<1>3. CASE x.op \in Commutes
  <2>1. Operands(x) = <<x.rd, x.rs, x.rt>> /\ Operands(y) = <<y.rd, y.rs, y.rt>>
    BY <1>1, <1>3, OperandsBy DEF Commutes, Alu
  <2>2. y.rd = x.rd /\ {y.rs, y.rt} = {x.rs, x.rt}
    <3>1. x.op \in WithRs /\ x.op \in WithRt /\ x.op \in WithRd
      BY <1>3 DEF Commutes, WithRs, WithRt, WithRd, Alu
    <3> QED
      BY <3>1 DEF Means
  <2>3. ~is_branch(x.op) /\ ~IsJump(x.op)
    BY <1>3 DEF Commutes, is_branch, NativeBranch, PseudoBranch, IsJump
  <2>4. \A i : <<i.rd, i.rs, i.rt>>[1] = i.rd /\ <<i.rd, i.rs, i.rt>>[2] = i.rs
                /\ <<i.rd, i.rs, i.rt>>[3] = i.rt
    OBVIOUS
  <2>5. m.operands[1] = l.operands[1]
        /\ {m.operands[2], m.operands[3]} = {l.operands[2], l.operands[3]}
    BY <1>1, <2>1, <2>2, <2>4
  <2> QED
    BY <1>1, <1>3, <2>3, <2>5, Zenon DEF Without, Commutes
<1>4. CASE ~is_branch(x.op) /\ ~IsJump(x.op) /\ x.op \notin Commutes
  <2>1. Operands(y) = Operands(x)
    BY <1>4, SameOperands
  <2> QED
    BY <1>1, <1>4, <2>1, Zenon DEF Without, Commutes
<1> QED
  BY <1>2, <1>3, <1>4

(* A jump that became a branch is printed as one. *)
LEMMA BranchText ==
  ASSUME NEW x, NEW y, (x.op = "J" /\ y.op = "B") \/ (x.op = "JAL" /\ y.op = "BAL"),
         NEW l, NEW m, Shows(l, x), Shows(m, y)
  PROVE  Without(m) = Without(l)
<1>1. Front(l.operands) = <<>> /\ Front(m.operands) = <<>>
  BY TransferOperands DEF Shows
<1>2. /\ (l.name = "J" /\ m.name = "B") \/ (l.name = "JAL" /\ m.name = "BAL")
  BY DEF Shows
<1>3. is_branch("B") /\ is_branch("BAL") /\ IsJump("J") /\ IsJump("JAL")
  BY DEF is_branch, PseudoBranch, IsJump
<1>4. /\ m.name # "J" /\ m.name # "JAL" /\ m.name \notin {"ADDU", "OR", "XOR"}
      /\ l.name \notin {"ADDU", "OR", "XOR"} /\ l.name = "J" => l.name # "JAL"
  BY <1>2
<1> QED
  BY <1>1, <1>2, <1>3, <1>4, Zenon DEF Without

(***************************************************************************)
(* The two listings                                                        *)
(***************************************************************************)

(* The instructions of the output are where the layout has them.           *)
LEMMA OutputPlaces ==
  ASSUME IInv, OutputCoded, pc = "done", NEW P, NEW m, Places(P, m, out, TRUE)
  PROVE  /\ m \in Nat /\ m <= Len(prog)
         /\ \A j \in 0..m : P[j] = NewAddr(prog)[j + 1] \div 2
         /\ ~HasInstr(out, P[m], TRUE) => m = Len(prog)
<1> DEFINE n == Len(prog)
           a(k) == NewAddr(prog)[k] \div 2
           T == {j \in Nat : j <= m /\ ~(j <= n /\ P[j] = a(j + 1))}
<1>1. m \in Nat /\ P[0] = 0 /\ n \in Nat /\ a(1) = 0 /\ Len(out) = a(n + 1) /\ Len(out) \in Nat
  <2>1. m \in Nat /\ P[0] = 0
    BY DEF Places
  <2>2. n \in Nat /\ NewAddr(prog)[1] = 0 /\ Len(out) \in Nat
    BY TypeFacts, NewAddrSteps DEF IInv, TypeOK
  <2>3. 2 * Len(out) = NewAddr(prog)[n + 1]
    BY DEF IInv, OutputPlaced, OutputCoded
  <2> HIDE DEF n
  <2> QED
    BY <2>1, <2>2, <2>3
<1>2. \A k \in 1..n : /\ a(k) \in Nat /\ a(k + 1) = a(k) + V2Halves(out, a(k) + 1)
                      /\ HasInstr(out, a(k), TRUE)
  BY OutputAt
<1> HIDE DEF a, n
<1>3. ~HasInstr(out, a(n + 1), TRUE)
  BY <1>1 DEF HasInstr
<1>4. T = {}
  <2> SUFFICES ASSUME T # {} PROVE FALSE
    OBVIOUS
  <2>1. PICK j \in T : \A l \in T : j <= l
    <3>1. T \in SUBSET Nat
      OBVIOUS
    <3> HIDE DEF T
    <3> QED BY <3>1, LeastNatural
  <2>2. j # 0
    BY <1>1, <2>1
  <2>3. /\ j \in Nat /\ j - 1 \in 0..m - 1 /\ j - 1 \in Nat
        /\ ~(j <= j - 1) /\ (j - 1) + 1 = j /\ j - 1 <= m
    BY <1>1, <2>1, <2>2
  <2>4. P[j - 1] = a(j) /\ j - 1 <= n
    BY <2>1, <2>3
  <2>5. HasInstr(out, P[j - 1], TRUE) /\ P[j] = P[j - 1] + V2Halves(out, P[j - 1] + 1)
    BY <2>3 DEF Places, Width
  <2>6. j - 1 # n
    BY <1>3, <2>3, <2>4, <2>5
  <2>7. j \in 1..n
    BY <1>1, <2>2, <2>3, <2>4, <2>6
  <2>8. P[j] = a(j) + V2Halves(out, a(j) + 1)
    BY <2>4, <2>5
  <2>9. P[j] = a(j + 1)
    BY <1>2, <2>7, <2>8
  <2>10. j <= n
    BY <1>1, <2>7
  <2> QED
    BY <2>1, <2>9, <2>10
<1>5. \A j \in 0..m : P[j] = a(j + 1) /\ j <= n
  <2>1. \A j \in 0..m : j \in Nat /\ j <= m
    BY <1>1
  <2> QED
    BY <1>4, <2>1
<1> HIDE DEF T
<1>6. m \in 0..m /\ m <= n /\ P[m] = a(m + 1)
  BY <1>1, <1>5
<1>7. ~HasInstr(out, P[m], TRUE) => m = n
  <2>1. m # n => m + 1 \in 1..n
    BY <1>1, <1>6
  <2> QED
    BY <1>2, <1>6, <2>1
<1> QED
  BY <1>1, <1>5, <1>6, <1>7 DEF a, n

(* The addresses of the lines are those that their sizes give. *)
LEMMA LineAddresses ==
  ASSUME NEW l, NEW m \in Nat, NEW f, f[1] = 0, \A k \in 1..m : l[k].at = After(l, k - 1),
         \A k \in 1..m : f[k + 1] = f[k] + (IF l[k].c THEN 2 ELSE 4)
  PROVE  \A k \in 1..m : l[k].at = f[k]
<1> DEFINE T == {k \in Nat : k \in 1..m /\ l[k].at # f[k]}
<1> SUFFICES ASSUME T # {} PROVE FALSE
  OBVIOUS
<1>1. PICK k \in T : \A j \in T : k <= j
  <2>1. T \in SUBSET Nat
    OBVIOUS
  <2> HIDE DEF T
  <2> QED BY <2>1, LeastNatural
<1>2. k \in 1..m /\ l[k].at # f[k] /\ l[k].at = After(l, k - 1)
  BY <1>1
<1>3. CASE k = 1
  <2>1. After(l, 0) = 0 /\ k - 1 = 0
    BY <1>3 DEF After
  <2> QED
    BY <1>2, <1>3, <2>1
<1>4. CASE k # 1
  <2>1. k - 1 \in 1..m /\ k - 1 \in Nat /\ ~(k <= k - 1) /\ (k - 1) + 1 = k /\ k - 1 # 0
    BY <1>2, <1>4
  <2>2. l[k - 1].at = f[k - 1]
    BY <1>1, <2>1
  <2>3. f[k] = f[k - 1] + (IF l[k - 1].c THEN 2 ELSE 4)
    BY <2>1
  <2>4. After(l, k - 1) = l[k - 1].at + (IF l[k - 1].c THEN 2 ELSE 4)
    BY <2>1, Zenon DEF After
  <2> QED
    BY <1>2, <2>2, <2>3, <2>4
<1> QED
  BY <1>3, <1>4

(* An operation that is known is printed. *)
LEMMA NamedAsIs ==
  ASSUME NEW i, i.op \notin Cop0, NEW l, l.name = Name(i), l.operands = Operands(i)
  PROVE  Shows(l, i)
BY DEF Shows, Name

(* The instructions of the coprocessor have no code. *)
LEMMA CoprocessorHasNone ==
  ASSUME NEW i, i.op \in Cop0
  PROVE  write_instr_v2(i) = NoCode
<1>1. conv_to_native(i) = i
  BY Zenon DEF conv_to_native, Cop0
<1>2. write_compressed(i) = NoCode
  BY Zenon DEF write_compressed, Cop0
<1>3. i.op \notin DOMAIN MemCode /\ i.op \notin NativeBranch /\ i.op \notin {"J", "JAL"}
      /\ i.op \notin DOMAIN SpecialCode /\ i.op \notin DOMAIN ImmCode
  BY DEF Cop0, MemCode, NativeBranch, SpecialCode, ImmCode
<1>4. write_instr(i) = NoCode
  BY <1>3, Zenon DEF write_instr
<1>5. write_long(i) = NoCode
  BY <1>1, <1>3, <1>4, Zenon DEF write_long
<1> QED
  BY <1>2, <1>5 DEF write_instr_v2

(* A listing of the output has a line for every instruction, at the        *)
(* address of the layout, of the instruction that is read there.           *)
LEMMA OutputLines ==
  ASSUME IInv, Faithful, OutputCoded, Reduced, pc = "done",
         NEW h, NEW l, NEW a, ListedFrom(out, TRUE, TRUE, h, l, a, "done")
  PROVE  /\ Len(l) = Len(prog) /\ DOMAIN l = 1..Len(prog)
         /\ \A k \in 1..Len(prog) :
              /\ l[k].at = NewAddr(prog)[k] /\ l[k].c = prog[k].compressed
              /\ Shows(l[k], conv_to_pseudo(Fetched(k).instr))
<1> DEFINE n == Len(prog)
           b(k) == NewAddr(prog)[k] \div 2
           y(k) == conv_to_pseudo(Fetched(k).instr)
<1>1. PICK m, P : /\ Places(P, m, out, TRUE) /\ Lines(l, P, m, out, TRUE, TRUE)
                  /\ \A k \in 1..m : l[k].at = After(l, k - 1)
                  /\ ~HasInstr(out, P[m], TRUE)
  BY DEF ListedFrom
<1>2. m = n /\ n \in Nat /\ \A j \in 0..m : P[j] = b(j + 1)
  BY <1>1, OutputPlaces
<1>3. Len(l) = n /\ DOMAIN l = 1..n
  BY <1>1, <1>2 DEF Lines, ListedFrom, IsSequence
<1>4. \A k \in 1..n : /\ prog[k] \in StructInstr
                      /\ NewAddr(prog)[k + 1] = NewAddr(prog)[k] + Size(prog[k])
  BY PlacedBounds, TypeFacts DEF IInv
<1>5. ASSUME NEW k \in 1..n
      PROVE  l[k].c = prog[k].compressed /\ Shows(l[k], y(k))
  <2>1. k - 1 \in 0..m - 1 /\ k - 1 \in 0..m /\ (k - 1) + 1 = k
    BY <1>2
  <2>2. l[k] = Line(out, TRUE, TRUE, b(k), l[k].at)
    <3>1. P[k - 1] = b(k)
      BY <1>2, <2>1
    <3> QED
      BY <1>1, <2>1, <3>1 DEF Lines
  <2>3. /\ IsLong(out, b(k) + 1) <=> ~prog[k].compressed
        /\ Decoded(out, b(k) + 1, TRUE) = Fetched(k)
    BY OutputAt
  <2>4. y(k).op \notin Cop0
    <3>1. y(k).op = prog[k].op
      BY CodedMeans DEF Means
    <3>2. write_instr_v2(prog[k]) # NoCode
      BY DEF OutputCoded, CodedAt
    <3> HIDE DEF y
    <3> QED
      BY <3>1, <3>2, CoprocessorHasNone
  <2>5. prog[k].compressed \in BOOLEAN
    BY <1>4 DEF StructInstr
  <2> HIDE DEF b
  <2>6. Seen(out, TRUE, TRUE, b(k)) = y(k)
    BY <2>3 DEF Seen
  <2> HIDE DEF y
  <2>7. l[k].c = ~IsLong(out, b(k) + 1) /\ l[k].name = Name(y(k)) /\ l[k].operands = Operands(y(k))
    <3> DEFINE r == [at |-> l[k].at, c |-> ~IsLong(out, b(k) + 1), name |-> Name(y(k)),
                     operands |-> Operands(y(k))]
    <3>1. l[k] = r
      BY <2>2, <2>6 DEF Line
    <3>2. /\ r.c = ~IsLong(out, b(k) + 1) /\ r.name = Name(y(k)) /\ r.operands = Operands(y(k))
      OBVIOUS
    <3> HIDE DEF r
    <3> QED
      BY <3>1, <3>2
  <2> QED
    BY <2>3, <2>4, <2>5, <2>7, NamedAsIs
<1>6. \A k \in 1..n : l[k].at = NewAddr(prog)[k]
  <2>1. NewAddr(prog)[1] = 0
    BY TypeFacts, NewAddrSteps DEF IInv
  <2>2. \A k \in 1..n : NewAddr(prog)[k + 1] = NewAddr(prog)[k] + (IF l[k].c THEN 2 ELSE 4)
    BY <1>4, <1>5 DEF Size
  <2> HIDE DEF n, b, y
  <2> QED
    BY <1>1, <1>2, <2>1, <2>2, LineAddresses
<1> QED
  BY <1>3, <1>5, <1>6

(* A listing of the input has a line for every word, four bytes further    *)
(* each: every word is an instruction.                                     *)
LEMMA InputLines ==
  ASSUME IInv, Faithful, pc = "done", NEW h, NEW l, NEW a, NEW e \in {"done", "exit", "abort"},
         ListedFrom(NativeFile, FALSE, TRUE, h, l, a, e)
  PROVE  /\ Len(l) = Len(prog)
         /\ \A k \in 1..Len(prog) :
              /\ l[k].at = 4 * (k - 1) /\ l[k].c = FALSE
              /\ Parsed(input[k]).op \notin Cop0 => Shows(l[k], Parsed(input[k]))
<1> DEFINE n == Len(prog)
<1>1. PICK m, P : /\ Places(P, m, NativeFile, FALSE) /\ Lines(l, P, m, NativeFile, FALSE, TRUE)
                  /\ \A k \in 1..m : l[k].at = After(l, k - 1)
                  /\ \/ ~HasInstr(NativeFile, P[m], FALSE)
                     \/ /\ HasInstr(NativeFile, P[m], FALSE)
                        /\ \/ Decoded(NativeFile, P[m] + 1, FALSE).rc = -1
                           \/ Decoded(NativeFile, P[m] + 1, FALSE).instr.op = "INVALID_OP"
  <2>1. e = "done" \/ e \in {"exit", "abort"}
    OBVIOUS
  <2> QED
    BY <2>1 DEF ListedFrom
<1>2. /\ input \in Seq(Word) /\ Len(input) = n /\ n \in Nat /\ m \in Nat
      /\ \A k \in 1..n : input[k] \in Word /\ parse_instr(input[k]).op # "INVALID_OP"
  <2>1. input \in Seq(Word) /\ Len(input) = n /\ n \in Nat /\ m \in Nat
    BY <1>1, TypeFacts DEF IInv, TypeOK, WholeInput, Corrected, Laying, Laid, Places
  <2>2. \A k \in 1..n : Parsed(input[k]).op # "INVALID_OP"
    BY DEF Faithful, KnownWords
  <2>3. \A k \in 1..n : input[k] \in Word
    BY <2>1
  <2> QED
    BY <2>1, <2>2, <2>3, KindsKept DEF Parsed
<1>3. \A j \in 0..m - 1 : Decoded(NativeFile, P[j] + 1, FALSE).instr = parse_instr(input[j + 1])
  BY <1>1, <1>2, NativePlaces
<1>4. ~HasInstr(NativeFile, P[m], FALSE)
  <2> SUFFICES ASSUME HasInstr(NativeFile, P[m], FALSE) PROVE FALSE
    OBVIOUS
  <2>0. Places(P, m, NativeFile, FALSE)
    BY <1>1
  <2> HIDE DEF n
  <2>1. PICK Q : /\ Places(Q, m + 1, NativeFile, FALSE)
                 /\ Q[m + 1] = P[m] + Width(NativeFile, FALSE, P[m] + 1)
                 /\ \A j \in 0..m : Q[j] = P[j]
    <3>1. ASSUME NEW v, v = FALSE
          PROVE  \E Q : /\ Places(Q, m + 1, NativeFile, v)
                        /\ Q[m + 1] = P[m] + Width(NativeFile, v, P[m] + 1)
                        /\ \A j \in 0..m : Q[j] = P[j]
      <4>1. Places(P, m, NativeFile, v) /\ HasInstr(NativeFile, P[m], v)
        BY <2>0, <3>1
      <4> QED
        BY <4>1, MorePlaces
    <3> QED
      BY <3>1
  <2>2. m \in 0..m /\ m \in 0..(m + 1) - 1 /\ m + 1 \in 0..m + 1
    BY <1>2
  <2>3. Decoded(NativeFile, Q[m] + 1, FALSE).instr = parse_instr(input[m + 1]) /\ m + 1 <= n
    BY <1>2, <2>1, <2>2, NativePlaces
  <2>4. Q[m] = P[m]
    BY <2>1, <2>2
  <2>5. m + 1 \in 1..n
    BY <1>2, <2>3
  <2>6. Decoded(NativeFile, P[m] + 1, FALSE).rc = 4
    BY DEF Decoded
  <2>7. Decoded(NativeFile, P[m] + 1, FALSE).instr.op = "INVALID_OP"
    <3>1. 4 # -1
      OBVIOUS
    <3> QED
      BY <1>1, <2>6, <3>1
  <2> QED
    BY <1>2, <2>3, <2>4, <2>5, <2>7
<1>5. m = n
  BY <1>1, <1>2, <1>4, NativePlaces
<1>6. ASSUME NEW k \in 1..n
      PROVE  /\ l[k].c = FALSE
             /\ Parsed(input[k]).op \notin Cop0 => Shows(l[k], Parsed(input[k]))
  <2> DEFINE x == Parsed(input[k])
  <2>1. k - 1 \in 0..m - 1 /\ (k - 1) + 1 = k
    BY <1>2, <1>5
  <2>2. l[k] = Line(NativeFile, FALSE, TRUE, P[k - 1], l[k].at)
    BY <1>1, <2>1 DEF Lines
  <2>3. Seen(NativeFile, FALSE, TRUE, P[k - 1]) = x
    BY <1>3, <2>1 DEF Seen, Parsed
  <2> HIDE DEF x
  <2>4. l[k].c = FALSE /\ l[k].name = Name(x) /\ l[k].operands = Operands(x)
    <3> DEFINE r == [at |-> l[k].at, c |-> FALSE, name |-> Name(x), operands |-> Operands(x)]
    <3>1. l[k] = r
      BY <2>2, <2>3 DEF Line
    <3>2. r.c = FALSE /\ r.name = Name(x) /\ r.operands = Operands(x)
      OBVIOUS
    <3> HIDE DEF r
    <3> QED
      BY <3>1, <3>2
  <2> QED
    BY <2>4, NamedAsIs DEF x
<1>7. \A k \in 1..n : l[k].at = 4 * (k - 1)
  <2> DEFINE f == [k \in 1..n + 1 |-> 4 * (k - 1)]
  <2>1. 1 \in 1..n + 1 /\ \A k \in 1..n : k \in 1..n + 1 /\ k + 1 \in 1..n + 1
    BY <1>2
  <2>2. f[1] = 0 /\ \A k \in 1..n : f[k] = 4 * (k - 1) /\ f[k + 1] = 4 * ((k + 1) - 1)
    BY <2>1
  <2> HIDE DEF f
  <2> HIDE DEF n
  <2>3. ASSUME NEW k \in 1..n
        PROVE  f[k + 1] = f[k] + (IF l[k].c THEN 2 ELSE 4)
    <3>1. f[k] = 4 * (k - 1) /\ f[k + 1] = 4 * ((k + 1) - 1)
      BY <2>2
    <3>2. f[k + 1] = f[k] + 4
      <4>1. k \in Int
        BY <1>2
      <4> QED
        BY <3>1, <4>1
    <3>3. ~l[k].c
      BY <1>6
    <3> QED
      BY <3>2, <3>3
  <2>4. \A k \in 1..n : l[k].at = f[k]
    <3>1. f[1] = 0 /\ \A k \in 1..n : l[k].at = After(l, k - 1)
      BY <1>1, <1>5, <2>2
    <3>2. \A k \in 1..n : f[k + 1] = f[k] + (IF l[k].c THEN 2 ELSE 4)
      BY <2>3
    <3>3. n \in Nat
      BY <1>2
    <3> QED
      BY <3>1, <3>2, <3>3, LineAddresses, SMTT(30)
  <2> QED
    BY <2>2, <2>4
<1> QED
  BY <1>1, <1>5, <1>6, <1>7 DEF Lines

(* conv_to_pseudo leaves the offset of a branch and the target of a jump.  *)
LEMMA TransferKept ==
  ASSUME NEW i \in StructInstr, Transfers(i.op)
  PROVE  conv_to_pseudo(i).simm = i.simm /\ conv_to_pseudo(i).addr = i.addr
<1>1. CASE i.op \in NativeBranch \cup {"J", "JAL"}
  <2>1. i.op \in Native
    BY <1>1 DEF Native, Jumps
  <2> QED
    BY <2>1, PseudoKeeps
<1>2. CASE i.op \in PseudoBranch
  <2>1. conv_to_pseudo(i) = i
    BY <1>2, Zenon DEF conv_to_pseudo, PseudoBranch, Shifts, ShiftVs, Alu, AluImm, Compare, NativeBranch
  <2> QED
    BY <2>1
<1> QED
  BY <1>1, <1>2 DEF Transfers, IsJump, is_branch

(* A line of the second listing is that of the first but for a target.     *)
LEMMA LinesAgree ==
  ASSUME IInv, Faithful, OutputCoded, Reduced, pc = "done", NEW k \in 1..Len(prog),
         NEW l, NEW m, Shows(m, conv_to_pseudo(Fetched(k).instr)),
         Parsed(input[k]).op \notin Cop0 => Shows(l, Parsed(input[k]))
  PROVE  /\ Shows(l, Parsed(input[k]))
         /\ Without(m) = Without(l)
<1> DEFINE i == prog[k]
           w == input[k]
           x == Parsed(w)
           y == conv_to_pseudo(Fetched(k).instr)
           z == [name |-> i.op, operands |-> Operands(i)]
<1>1. Means(i, y) /\ Shows(m, y) /\ (x.op \notin Cop0 => Shows(l, x))
  BY CodedMeans
<1>2. w \in Word /\ i \in StructInstr /\ Alike(ReadOf(w), i) /\ x.op # "INVALID_OP"
  BY TypeFacts DEF IInv, TypeOK, Faithful, FromWords, KnownWords
<1>3. i.op \notin Cop0
  <2>1. write_instr_v2(i) # NoCode
    BY DEF OutputCoded, CodedAt
  <2> HIDE DEF i
  <2> QED
    BY <2>1, CoprocessorHasNone
<1>4. x \in StructInstr
  BY <1>2, ParsedType
<1>5. Shows(z, i)
  BY DEF Shows
<1> HIDE DEF i, w, y, z
<1>6. /\ i.op = x.op \/ (x.op = "J" /\ i.op = "B") \/ (x.op = "JAL" /\ i.op = "BAL")
      /\ i.op = x.op => Means(x, i)
  BY <1>2, MeansRead
<1> HIDE DEF x
<1>7. x.op \notin Cop0 /\ i.op # "INVALID_OP"
  BY <1>2, <1>3, <1>6 DEF Cop0
<1>8. x.op \in Operation \ (Cop0 \cup {"INVALID_OP"}) /\ i.op \in Operation \ (Cop0 \cup {"INVALID_OP"})
  BY <1>2, <1>3, <1>4, <1>7 DEF StructInstr
<1>9. Without(m) = Without(z)
  BY <1>1, <1>5, <1>8, SameText
<1>10. Without(z) = Without(l)
  <2>1. CASE i.op = x.op
    BY <1>1, <1>5, <1>6, <1>7, <1>8, <2>1, SameText
  <2>2. CASE i.op # x.op
    BY <1>1, <1>5, <1>6, <1>7, <2>2, BranchText
  <2> QED
    BY <2>1, <2>2
<1> QED
  BY <1>1, <1>7, <1>9, <1>10 DEF x, w

(* The target of a line is that of its instruction. *)
LEMMA ShownTarget ==
  ASSUME NEW i, Transfers(i.op), NEW lines, NEW k, Shows(lines[k], i)
  PROVE  TargetShown(lines, k) =
           IF IsJump(i.op) THEN i.addr
           ELSE lines[k].at + (IF lines[k].c THEN 2 ELSE 4) + i.simm
<1> DEFINE l == lines[k]
<1>1. l.name = i.op /\ l.operands = Operands(i)
  BY DEF Shows
<1> HIDE DEF l
<1>2. /\ is_branch(i.op) => Last(l.operands) = i.simm
      /\ IsJump(i.op) => l.operands = <<i.addr>>
  BY <1>1, TransferOperands
<1>3. IsJump(i.op) => l.operands[1] = i.addr
  BY <1>2
<1> QED
  BY <1>1, <1>2, <1>3 DEF TargetShown, Transfers, IsJump, l

(* A number of words ahead, in bytes of the native program. *)
LEMMA WordsAhead ==
  ASSUME NEW n \in Int, NEW s \in Int
  PROVE  (4 * (n - 1) + 4 + s) \div 4 + 1 = n + 1 + (s \div 4)
<1> DEFINE d == s \div 4
           b == s % 4
<1>1. d \in Int /\ b \in Int /\ 0 <= b /\ b < 4 /\ s = 4 * d + b
  BY SMTT(30)
<1>2. \A x, y \in Int : 0 <= y /\ y < 4 => (4 * x + y) \div 4 = x
  BY SMTT(30)
<1> HIDE DEF d, b
<1>3. 4 * (n - 1) + 4 + s = 4 * (n + d) + b /\ n + d \in Int /\ n + d + 1 = n + 1 + d
  BY <1>1
<1>4. (4 * (n - 1) + 4 + s) \div 4 = n + d
  BY <1>1, <1>2, <1>3
<1> QED
  BY <1>3, <1>4 DEF d

(* The target of a line of the second listing is the address of the line   *)
(* that is the target in the first.                                        *)
LEMMA TargetsAgree ==
  ASSUME IInv, Faithful, OutputCoded, InLongReach, Reduced, pc = "done", NEW k \in 1..Len(prog),
         NEW l, NEW m,
         Shows(l[k], Parsed(input[k])), l[k].at = 4 * (k - 1), l[k].c = FALSE,
         Shows(m[k], conv_to_pseudo(Fetched(k).instr)),
         m[k].at = NewAddr(prog)[k], m[k].c = prog[k].compressed,
         Transfers(l[k].name)
  PROVE  /\ TargetShown(l, k) \div 4 + 1 \in 1..Len(prog)
         /\ TargetShown(m, k) = NewAddr(prog)[TargetShown(l, k) \div 4 + 1]
<1> DEFINE i == prog[k]
           w == input[k]
           r == parse_instr(w)
           x == Parsed(w)
           f == Fetched(k)
           y == conv_to_pseudo(f.instr)
           t == attr[k].target_index + 1
           g == NewAddr(prog)
<1>1. x.op = l[k].name /\ Transfers(x.op)
  BY DEF Shows
<1>2. w \in Word /\ k \in Int
  BY TypeFacts DEF IInv, TypeOK
<1>3. /\ IsJump(x.op) <=> IsJump(r.op)
      /\ is_branch(x.op) <=> is_branch(r.op)
      /\ x.simm = r.simm /\ x.addr = r.addr /\ r.simm \in Int
  <2>1. x.op # "INVALID_OP"
    BY DEF Faithful, KnownWords
  <2>2. r \in StructInstr
    BY <1>2, ParseType
  <2> HIDE DEF w
  <2>3. r.simm \in Int
    <3> HIDE DEF r
    <3> QED
      BY <2>2 DEF StructInstr
  <2> QED
    BY <1>2, <2>1, <2>3, KindsKept DEF Parsed, IsJump
<1>4. /\ Transfers(r.op) <=> Transfers(i.op)
      /\ Transfers(r.op) => OldTarget(k) = t
  BY SameTransfers
<1>5. /\ is_branch(f.instr.op) <=> is_branch(i.op)
      /\ IsJump(f.instr.op) <=> IsJump(i.op)
      /\ IsJump(i.op) => f.instr.addr = g[t]
      /\ is_branch(i.op) => f.instr.simm = g[t] - g[k + 1]
      /\ Transfers(i.op) => t \in 1..Len(prog)
  BY FetchedTransfer
<1>6. /\ g[k + 1] = g[k] + (IF i.compressed THEN 2 ELSE 4) /\ g[k] \in Nat
      /\ \A j \in 1..Len(prog) : g[j] \in Nat
  BY PlacedBounds DEF Size
<1>7. y.op = i.op
  BY CodedMeans DEF Means
<1>8. f.instr \in StructInstr
  <2>1. HasInstr(out, g[k] \div 2, TRUE) /\ g[k] \div 2 \in Nat
        /\ Decoded(out, (g[k] \div 2) + 1, TRUE) = f
    BY OutputAt
  <2>2. out \in Seq(Half)
    BY DEF IInv, TypeOK
  <2> HIDE DEF f, g
  <2> QED
    BY <2>1, <2>2, SeenType
<1>9. OldTarget(k) = IF IsJump(r.op) THEN (r.addr \div 4) + 1 ELSE k + 1 + (r.simm \div 4)
  BY DEF OldTarget
<1>10. TargetShown(l, k) = IF IsJump(x.op) THEN x.addr
                           ELSE l[k].at + (IF l[k].c THEN 2 ELSE 4) + x.simm
  <2> HIDE DEF x
  <2> QED
    BY <1>1, ShownTarget DEF x
<1>11. Transfers(y.op) => TargetShown(m, k) = IF IsJump(y.op) THEN y.addr
                            ELSE m[k].at + (IF m[k].c THEN 2 ELSE 4) + y.simm
  <2>1. Shows(m[k], y)
    OBVIOUS
  <2> HIDE DEF y
  <2> QED
    BY <2>1, ShownTarget
<1>12. m[k].at = g[k] /\ m[k].c = i.compressed
  OBVIOUS
<1> HIDE DEF i, w, r, x, f, y, t, g
<1>13. Transfers(r.op) /\ Transfers(i.op) /\ Transfers(f.instr.op) /\ Transfers(y.op)
       /\ t \in 1..Len(prog) /\ OldTarget(k) = t
  BY <1>1, <1>3, <1>4, <1>5, <1>7 DEF Transfers
<1>14. y.simm = f.instr.simm /\ y.addr = f.instr.addr
  BY <1>8, <1>13, TransferKept DEF y
<1>15. TargetShown(l, k) \div 4 + 1 = t
  <2>1. CASE IsJump(x.op)
    BY <1>3, <1>9, <1>10, <1>13, <2>1
  <2>2. CASE ~IsJump(x.op)
    <3>1. TargetShown(l, k) = 4 * (k - 1) + 4 + r.simm
      BY <1>3, <1>10, <2>2
    <3>2. k \in Int /\ r.simm \in Int
      BY <1>2, <1>3, SMTT(30)
    <3> QED
      BY <1>2, <1>3, <1>9, <1>13, <2>2, <3>1, <3>2, WordsAhead
  <2> QED
    BY <2>1, <2>2
<1>16. TargetShown(m, k) = g[t]
  <2>1. CASE IsJump(i.op)
    BY <1>5, <1>7, <1>11, <1>13, <1>14, <2>1
  <2>2. CASE ~IsJump(i.op)
    <3>1. is_branch(i.op)
      BY <1>13, <2>2 DEF Transfers
    <3>2. TargetShown(m, k) = g[k] + (IF i.compressed THEN 2 ELSE 4) + (g[t] - g[k + 1])
      BY <1>5, <1>7, <1>11, <1>12, <1>13, <1>14, <2>2, <3>1
    <3>3. g[t] \in Nat
      BY <1>6, <1>13
    <3> QED
      BY <1>6, <3>2, <3>3
  <2> QED
    BY <2>1, <2>2
<1> QED
  BY <1>13, <1>15, <1>16 DEF g

(* What the tools know of a program when both listings are complete.       *)
ListingsInv ==
  /\ InspectOK /\ ReadOK /\ tool \in Tools
  /\ conv \in BOOLEAN
  /\ input # <<>> => OutputCoded /\ input \in Programs

LEMMA ListingsInvariant == ISpec => []ListingsInv
<1> DEFINE Coded2 == conv \in BOOLEAN /\ (input # <<>> => OutputCoded /\ input \in Programs)
<1>1. IInit => Coded2
  BY DEF IInit, OutputCoded
<1>2. InspectOK /\ Coded2 /\ [INext]_<<vars, avars, dvars, ivars>> => Coded2'
  <2> SUFFICES ASSUME InspectOK, Coded2, [INext]_<<vars, avars, dvars, ivars>> PROVE Coded2'
    OBVIOUS
  <2>1. input' = input /\ conv' = conv
    BY InspectStays
  <2>2. [Next]_vars
    BY DEF INext, Analyze, CountedNative, ConvertStep, CountCompressed, ListNative, List,
           ListCompressed, Over
  <2>3. input # <<>> => IInv
    BY DEF InspectOK, OriginOK
  <2> QED
    BY <2>1, <2>2, <2>3, StaysCoded
<1> QED
  BY <1>1, <1>2, ToolsInvariant, PTL DEF ISpec, ListingsInv

(* The two listings of a program, when its long branches are in reach. *)
LEMMA ListingsAgree ==
  ASSUME ListingsInv, pc = "done" => InLongReach
  PROVE  SameListing
<1> SUFFICES ASSUME Converting, tool = "list -c", ending = "done", conv, Reduced
             PROVE  /\ Len(listing) = Len(listed)
                    /\ \A k \in DOMAIN listing :
                         /\ listing[k].at = NewAddr(prog)[k] /\ listing[k].c = prog[k].compressed
                         /\ Without(listing[k]) = Without(listed[k])
                         /\ Transfers(listed[k].name) =>
                              listing[TargetShown(listed, k) \div 4 + 1].at = TargetShown(listing, k)
  BY DEF SameListing
<1>1. /\ IInv /\ Faithful /\ OutputCoded /\ InLongReach /\ Reduced /\ pc = "done" /\ conv = TRUE
  BY DEF ListingsInv, InspectOK, OriginOK, Converting
<1>2. /\ ListedFrom(out, TRUE, TRUE, taken, listing, addr, "done")
      /\ \E h, a, e : /\ e \in {"done", "exit", "abort"}
                      /\ ListedFrom(NativeFile, FALSE, TRUE, h, listed, a, e)
  BY <1>1 DEF ListingsInv, ReadOK
<1>3. /\ Len(listing) = Len(prog) /\ DOMAIN listing = 1..Len(prog)
      /\ \A k \in 1..Len(prog) :
           /\ listing[k].at = NewAddr(prog)[k] /\ listing[k].c = prog[k].compressed
           /\ Shows(listing[k], conv_to_pseudo(Fetched(k).instr))
  BY <1>1, <1>2, OutputLines
<1>4. /\ Len(listed) = Len(prog)
      /\ \A k \in 1..Len(prog) :
           /\ listed[k].at = 4 * (k - 1) /\ listed[k].c = FALSE
           /\ Parsed(input[k]).op \notin Cop0 => Shows(listed[k], Parsed(input[k]))
  BY <1>1, <1>2, InputLines
<1>5. ASSUME NEW k \in 1..Len(prog)
      PROVE  /\ Without(listing[k]) = Without(listed[k])
             /\ Transfers(listed[k].name) =>
                  listing[TargetShown(listed, k) \div 4 + 1].at = TargetShown(listing, k)
  <2>1. Shows(listed[k], Parsed(input[k])) /\ Without(listing[k]) = Without(listed[k])
    BY <1>1, <1>3, <1>4, LinesAgree
  <2>2. ASSUME Transfers(listed[k].name)
        PROVE  /\ TargetShown(listed, k) \div 4 + 1 \in 1..Len(prog)
               /\ TargetShown(listing, k) = NewAddr(prog)[TargetShown(listed, k) \div 4 + 1]
    BY <1>1, <1>3, <1>4, <2>1, <2>2, TargetsAgree
  <2> QED
    BY <1>3, <2>1, <2>2
<1> QED
  BY <1>3, <1>4, <1>5

(* The listings of a program before and after its conversion, both with    *)
(* option -p, are the same but for addresses and offsets, and every branch *)
(* or jump of the second goes to the line that it goes to in the first:    *)
(* for every program that is no longer than a long branch reaches.         *)
THEOREM ListingsSame ==
  ASSUME \A p \in Programs : 2 * Len(p) <= LongReach
  PROVE  ISpec => []SameListing
<1>1. ListingsInv => SameListing
  <2> SUFFICES ASSUME ListingsInv PROVE SameListing
    OBVIOUS
  <2>1. CASE input # <<>>
    <3>1. IInv /\ input \in Programs
      BY <2>1 DEF ListingsInv, InspectOK, OriginOK
    <3>2. pc = "done" => InLongReach
      BY <3>1, ProgramsInReach
    <3> QED
      BY <3>2, ListingsAgree
  <2>2. CASE input = <<>>
    BY <2>2 DEF SameListing, Converting
  <2> QED
    BY <2>1, <2>2
<1> QED
  BY <1>1, ListingsInvariant, PTL

(***************************************************************************)
(* The number of the pairs that end in a NOP                               *)
(***************************************************************************)
Slots == {"branch", "jump", "load"}

(* The equation of the function that BagCardinality adds up with. *)
IsTotal(f, b) ==
  f = [S \in SUBSET DOMAIN b |-> IF S = {} THEN 0 ELSE b[OneOf(S)] + f[S \ {OneOf(S)}]]

(* A bag of the three kinds of instructions before a NOP. *)
IsSlotBag(b) == IsList(b) /\ DOMAIN b \subseteq Slots

(* Its cardinality. *)
LEMMA SlotTotal ==
  ASSUME NEW b, IsSlotBag(b)
  PROVE  /\ BagCardinality(b) = Times("branch", b) + Times("jump", b) + Times("load", b)
         /\ \A s : Times(s, b) \in Nat
<1> DEFINE D == DOMAIN b
           Part(S, s) == IF s \in S THEN Times(s, b) ELSE 0
           Total(S) == Part(S, "branch") + Part(S, "jump") + Part(S, "load")
           g == CHOOSE f : IsTotal(f, b)
<1>1. /\ \A s : Times(s, b) \in Nat /\ \A S : Part(S, s) \in Nat
      /\ \A s \in D : b[s] = Times(s, b)
      /\ D \subseteq Slots
  BY DEF IsSlotBag, IsList, Times
<1>2. \A S : S # {} => OneOf(S) \in S
  BY DEF OneOf
<1>3. ASSUME NEW S, NEW e \in S
      PROVE  \A s : Part(S, s) = IF s = e THEN Times(e, b) ELSE Part(S \ {e}, s)
  OBVIOUS
<1>4. ASSUME NEW S, NEW e \in S
      PROVE  Part(S \ {e}, e) = 0
  OBVIOUS
<1>5. \A s : Part({}, s) = 0
  OBVIOUS
<1> HIDE DEF Part
<1>6. ASSUME NEW S \in SUBSET D, NEW e \in S
      PROVE  Total(S) = b[e] + Total(S \ {e})
  <2>1. e \in Slots /\ b[e] = Times(e, b)
    BY <1>1
  <2>2. \A s \in Slots \ {e} : Part(S, s) = Part(S \ {e}, s)
    BY <1>3
  <2>3. Part(S, e) = b[e] /\ Part(S \ {e}, e) = 0
    BY <1>3, <1>4, <2>1
  <2>4. /\ Part(S, "branch") \in Nat /\ Part(S, "jump") \in Nat /\ Part(S, "load") \in Nat
        /\ b[e] \in Nat
        /\ Part(S \ {e}, "branch") \in Nat /\ Part(S \ {e}, "jump") \in Nat
        /\ Part(S \ {e}, "load") \in Nat
    BY <1>1, <2>1
  <2>5. CASE e = "branch"
    <3>1. Part(S, "jump") = Part(S \ {e}, "jump") /\ Part(S, "load") = Part(S \ {e}, "load")
      BY <2>2, <2>5 DEF Slots
    <3>2. Part(S, "branch") = b[e] /\ Part(S \ {e}, "branch") = 0
      BY <2>3, <2>5
    <3> QED
      BY <2>4, <3>1, <3>2
  <2>6. CASE e = "jump"
    <3>1. Part(S, "branch") = Part(S \ {e}, "branch") /\ Part(S, "load") = Part(S \ {e}, "load")
      BY <2>2, <2>6 DEF Slots
    <3>2. Part(S, "jump") = b[e] /\ Part(S \ {e}, "jump") = 0
      BY <2>3, <2>6
    <3> QED
      BY <2>4, <3>1, <3>2
  <2>7. CASE e = "load"
    <3>1. Part(S, "branch") = Part(S \ {e}, "branch") /\ Part(S, "jump") = Part(S \ {e}, "jump")
      BY <2>2, <2>7 DEF Slots
    <3>2. Part(S, "load") = b[e] /\ Part(S \ {e}, "load") = 0
      BY <2>3, <2>7
    <3> QED
      BY <2>4, <3>1, <3>2
  <2> QED
    BY <2>1, <2>5, <2>6, <2>7 DEF Slots
<1>7. Total({}) = 0 /\ \A S : Total(S) \in Nat
  <2>1. Total({}) = 0
    <3>1. Part({}, "branch") = 0 /\ Part({}, "jump") = 0 /\ Part({}, "load") = 0
      BY <1>5
    <3> QED
      BY <3>1
  <2>2. ASSUME NEW S PROVE Total(S) \in Nat
    <3>1. Part(S, "branch") \in Nat /\ Part(S, "jump") \in Nat /\ Part(S, "load") \in Nat
      BY <1>1
    <3> QED
      BY <3>1
  <2> QED
    BY <2>1, <2>2
<1> HIDE DEF Total
<1>8. IsTotal(g, b)
  <2> DEFINE h == [S \in SUBSET D |-> Total(S)]
  <2>1. h = [S \in SUBSET D |-> IF S = {} THEN 0 ELSE b[OneOf(S)] + h[S \ {OneOf(S)}]]
    <3>1. ASSUME NEW S \in SUBSET D
          PROVE  Total(S) = IF S = {} THEN 0 ELSE b[OneOf(S)] + h[S \ {OneOf(S)}]
      <4>1. CASE S = {}
        BY <1>7, <4>1
      <4>2. CASE S # {}
        <5>1. OneOf(S) \in S /\ S \ {OneOf(S)} \in SUBSET D
          BY <1>2, <4>2
        <5>2. h[S \ {OneOf(S)}] = Total(S \ {OneOf(S)})
          BY <5>1
        <5> QED
          BY <1>6, <4>2, <5>1, <5>2
      <4> QED
        BY <4>1, <4>2
    <3> QED
      BY <3>1
  <2>2. IsTotal(h, b)
    BY <2>1 DEF IsTotal
  <2> QED
    BY <2>2
<1>9. \A S \in SUBSET D : g[S] = IF S = {} THEN 0 ELSE b[OneOf(S)] + g[S \ {OneOf(S)}]
  <2> HIDE DEF g
  <2> QED
    BY <1>8 DEF IsTotal
<1> DEFINE Right(S) == g[S] = Total(S)
<1>10. ASSUME NEW S \in SUBSET D, S # {}, \A e \in S : Right(S \ {e})
       PROVE  Right(S)
  <2>1. OneOf(S) \in S
    BY <1>2, <1>10
  <2> HIDE DEF g
  <2>2. g[S] = b[OneOf(S)] + g[S \ {OneOf(S)}]
    BY <1>9, <1>10
  <2> QED
    BY <1>6, <1>10, <2>1, <2>2
<1>11. Right({})
  BY <1>7, <1>9
<1> HIDE DEF Right
<1>12. \A x \in D : Right({x})
  <2> TAKE x \in D
  <2>1. \A e \in {x} : {x} \ {e} = {}
    OBVIOUS
  <2> QED
    BY <1>10, <1>11, <2>1
<1>13. \A x, y \in D : Right({x, y})
  <2> TAKE x, y \in D
  <2>1. \A e \in {x, y} : {x, y} \ {e} \in {{}, {x}, {y}}
    OBVIOUS
  <2>2. \A e \in {x, y} : Right({x, y} \ {e})
    BY <1>11, <1>12, <2>1
  <2>3. {x, y} \in SUBSET D /\ {x, y} # {}
    OBVIOUS
  <2> QED
    BY <1>10, <2>2, <2>3
<1>14. \A x, y, z \in D : Right({x, y, z})
  <2> TAKE x, y, z \in D
  <2>1. \A e \in {x, y, z} : {x, y, z} \ {e} \in {{}, {x}, {y}, {z}, {x, y}, {x, z}, {y, z}}
    OBVIOUS
  <2>2. \A T \in {{}, {x}, {y}, {z}, {x, y}, {x, z}, {y, z}} : Right(T)
    BY <1>11, <1>12, <1>13
  <2>3. \A e \in {x, y, z} : Right({x, y, z} \ {e})
    BY <2>1, <2>2
  <2>4. {x, y, z} \in SUBSET D /\ {x, y, z} # {}
    OBVIOUS
  <2> QED
    BY <1>10, <2>3, <2>4
<1>15. Right(D)
  <2>1. \/ D = {} \/ \E x \in D : D = {x}
        \/ \E x, y \in D : D = {x, y}
        \/ \E x, y, z \in D : D = {x, y, z}
    <3> HIDE DEF D
    <3>0. \A p, q : D \subseteq {p, q} =>
                      \/ D = {} \/ (\E x \in D : D = {x}) \/ (\E x, y \in D : D = {x, y})
      <4> TAKE p, q
      <4> HAVE D \subseteq {p, q}
      <4>1. CASE p \in D /\ q \in D
        <5>1. D = {p, q}
          BY <4>1
        <5> QED
          BY <4>1, <5>1
      <4>2. CASE p \in D /\ q \notin D
        <5>1. D = {p}
          BY <4>2
        <5> QED
          BY <4>2, <5>1
      <4>3. CASE p \notin D /\ q \in D
        <5>1. D = {q}
          BY <4>3
        <5> QED
          BY <4>3, <5>1
      <4>4. CASE p \notin D /\ q \notin D
        BY <4>4
      <4> QED
        BY <4>1, <4>2, <4>3, <4>4
    <3>1. CASE "branch" \in D /\ "jump" \in D /\ "load" \in D
      <4>1. D = {"branch", "jump", "load"}
        BY <1>1, <3>1 DEF Slots
      <4> QED
        BY <3>1, <4>1
    <3>2. CASE "branch" \notin D
      <4>1. D \subseteq {"jump", "load"}
        BY <1>1, <3>2 DEF Slots
      <4> QED
        BY <4>1, <3>0
    <3>3. CASE "jump" \notin D
      <4>1. D \subseteq {"branch", "load"}
        BY <1>1, <3>3 DEF Slots
      <4> QED
        BY <4>1, <3>0
    <3>4. CASE "load" \notin D
      <4>1. D \subseteq {"branch", "jump"}
        BY <1>1, <3>4 DEF Slots
      <4> QED
        BY <4>1, <3>0
    <3> QED
      BY <3>1, <3>2, <3>3, <3>4
  <2> HIDE DEF D
  <2> QED
    BY <1>11, <1>12, <1>13, <1>14, <2>1
<1>16. BagCardinality(b) = g[D]
  BY DEF BagCardinality, IsTotal, OneOf
<1>17. Total(D) = Times("branch", b) + Times("jump", b) + Times("load", b)
  BY DEF Total, Part, Times
<1> QED
  BY <1>1, <1>15, <1>16, <1>17 DEF Right

(* A pair more, or none. *)
LEMMA PairsGrow ==
  ASSUME NEW b, IsSlotBag(b), NEW p, p = {} \/ \E s \in Slots : p = {s}
  PROVE  LET q == b (+) SetToBag(p)
         IN /\ IsSlotBag(q) /\ BagCardinality(b) \in Nat
            /\ BagCardinality(q) = BagCardinality(b) + IF p = {} THEN 0 ELSE 1
<1>1. BagCardinality(b) \in Nat
  BY SlotTotal
<1>2. CASE p = {}
  <2>1. b (+) SetToBag(p) = b
    BY <1>2, CountedNot DEF EmptyBag, IsSlotBag
  <2> QED
    BY <1>1, <1>2, <2>1
<1>3. ASSUME NEW s \in Slots, p = {s}
      PROVE  /\ IsSlotBag(b (+) SetToBag(p))
             /\ BagCardinality(b (+) SetToBag(p)) = BagCardinality(b) + 1
  <2> DEFINE q == b (+) SetToBag({s})
  <2>1. /\ DOMAIN q = DOMAIN b \cup {s} /\ IsList(q)
        /\ \A x : Times(x, q) = Times(x, b) + IF x = s THEN 1 ELSE 0
    BY CountedOnce DEF IsSlotBag
  <2> HIDE DEF q
  <2>2. IsSlotBag(q)
    BY <2>1 DEF IsSlotBag
  <2>3. /\ BagCardinality(b) = Times("branch", b) + Times("jump", b) + Times("load", b)
        /\ \A x : Times(x, b) \in Nat
    BY SlotTotal
  <2>4. BagCardinality(q) = Times("branch", q) + Times("jump", q) + Times("load", q)
    BY <2>2, SlotTotal
  <2>5. BagCardinality(q) = BagCardinality(b) + 1
    BY <2>1, <2>3, <2>4 DEF Slots
  <2> QED
    BY <1>3, <2>2, <2>5 DEF q
<1> QED
  BY <1>1, <1>2, <1>3

(***************************************************************************)
(* A table that an entry is added to by some of the instructions           *)
(***************************************************************************)
LEMMA BagCollects ==
  ASSUME NEW n \in Nat, NEW K \in SUBSET (1..n), NEW g, NEW b, b[0] = EmptyBag,
         \A j \in 0..n - 1 : b[j + 1] = b[j] (+) Entries(j + 1 \in K, g[j + 1])
  PROVE  b[n] = BagOf([k \in K |-> g[k]])
<1> DEFINE L(j) == {k \in 1..j : k \in K}
           F(j) == [k \in L(j) |-> g[k]]
           T == {j \in Nat : j <= n /\ b[j] # BagOf(F(j))}
<1>1. \A j : DOMAIN F(j) = L(j) /\ \A k \in L(j) : F(j)[k] = g[k]
  OBVIOUS
<1>2. L(0) = {} /\ L(n) = K
  <2>1. 1..0 = {}
    OBVIOUS
  <2>2. L(0) = {}
    BY <2>1
  <2> QED
    BY <2>2
<1>3. b[0] = BagOf(F(0))
  <2>1. DOMAIN F(0) = {}
    BY <1>1, <1>2
  <2> HIDE DEF F, L
  <2> QED
    BY <2>1, BagOfNone
<1>4. ASSUME NEW j \in 0..n - 1, b[j] = BagOf(F(j)) PROVE b[j + 1] = BagOf(F(j + 1))
  <2>1. j \in Nat
    OBVIOUS
  <2>2. IsFiniteSet(L(j)) /\ j + 1 \notin L(j) /\ 1..j + 1 = 1..j \cup {j + 1}
    BY <2>1, FewFirst
  <2>3. L(j + 1) = IF j + 1 \in K THEN L(j) \cup {j + 1} ELSE L(j)
    <3>1. L(j + 1) = {k \in 1..j \cup {j + 1} : k \in K}
      BY <2>2
    <3> QED
      BY <3>1
  <2>4. IsList(BagOf(F(j)))
    <3> HIDE DEF F, L
    <3> QED
      BY <1>1, <2>2, BagOfTimes
  <2>5. CASE j + 1 \in K
    <3>1. L(j + 1) = L(j) \cup {j + 1}
      BY <2>3, <2>5
    <3>2. F(j + 1)[j + 1] = g[j + 1] /\ \A k \in L(j) : F(j + 1)[k] = F(j)[k]
      BY <1>1, <3>1
    <3> HIDE DEF F, L
    <3>3. BagOf(F(j + 1)) = BagOf(F(j)) (+) SetToBag({g[j + 1]})
      BY <1>1, <2>2, <3>1, <3>2, BagGrows
    <3> QED
      BY <1>4, <2>5, <3>3 DEF Entries
  <2>6. CASE j + 1 \notin K
    <3>1. F(j + 1) = F(j)
      BY <2>3, <2>6
    <3> HIDE DEF F, L
    <3>2. b[j + 1] = b[j] (+) EmptyBag
      BY <2>6 DEF Entries
    <3> QED
      BY <1>4, <2>4, <3>1, <3>2, CountedNot
  <2> QED
    BY <2>5, <2>6
<1>5. T = {}
  <2> SUFFICES ASSUME T # {} PROVE FALSE
    OBVIOUS
  <2>1. PICK j \in T : \A m \in T : j <= m
    <3>1. T \in SUBSET Nat
      OBVIOUS
    <3> HIDE DEF T
    <3> QED BY <3>1, LeastNatural
  <2> HIDE DEF F
  <2>2. j # 0
    BY <1>3, <2>1
  <2>3. j - 1 \in 0..n - 1 /\ (j - 1) + 1 = j /\ j - 1 \in Nat /\ ~(j <= j - 1) /\ j - 1 <= n
    BY <2>1, <2>2
  <2>4. b[j - 1] = BagOf(F(j - 1))
    BY <2>1, <2>3
  <2> QED
    BY <1>4, <2>1, <2>3, <2>4
<1>6. b[n] = BagOf(F(n))
  <2>1. n <= n
    OBVIOUS
  <2> HIDE DEF F
  <2> QED
    BY <1>5, <2>1
<1> QED
  BY <1>2, <1>6

(***************************************************************************)
(* What the tables have of an instruction                                  *)
(***************************************************************************)
(* Two instructions of which every table has the same entry, but for the   *)
(* destination of an SLTZ.                                                 *)
CountsAs(x, y) ==
  /\ contains_imm(y.op) <=> contains_imm(x.op)
  /\ contains_imm(x.op) => y.imm = x.imm
  /\ contains_simm(y.op) <=> contains_simm(x.op)
  /\ contains_simm(x.op) => y.simm = x.simm
  /\ StackAccesses(y) = StackAccesses(x)
  /\ Sources(y) = Sources(x)
  /\ SlotKind(y) = {} <=> SlotKind(x) = {}
  /\ y.op = "NOP" <=> x.op = "NOP"
  /\ y.op = "SLTZ" <=> x.op = "SLTZ"
  /\ x.op # "SLTZ" => Destinations(y) = Destinations(x)

(* Two registers are counted in either order. *)
LEMMA EitherOrder ==
  ASSUME NEW a, NEW b
  PROVE  SetToBag({a}) (+) SetToBag({b}) = SetToBag({b}) (+) SetToBag({a})
<1> DEFINE p == SetToBag({a})
           q == SetToBag({b})
           Of(r, e) == IF e \in DOMAIN r THEN r[e] ELSE 0
<1>1. p = [e \in {a} |-> 1] /\ q = [e \in {b} |-> 1]
  BY DEF SetToBag
<1>2. \A e : Of(p, e) \in Nat /\ Of(q, e) \in Nat
  <2>1. DOMAIN p = {a} /\ p[a] = 1 /\ DOMAIN q = {b} /\ q[b] = 1
    BY <1>1
  <2> HIDE DEF p, q
  <2> QED
    BY <2>1
<1>3. DOMAIN p \cup DOMAIN q = DOMAIN q \cup DOMAIN p
  OBVIOUS
<1>4. /\ p (+) q = [e \in DOMAIN p \cup DOMAIN q |-> Of(p, e) + Of(q, e)]
      /\ q (+) p = [e \in DOMAIN q \cup DOMAIN p |-> Of(q, e) + Of(p, e)]
  BY DEF (+)
<1> HIDE DEF p, q, Of
<1>5. \A e : Of(p, e) + Of(q, e) = Of(q, e) + Of(p, e)
  BY <1>2
<1>6. [e \in DOMAIN p \cup DOMAIN q |-> Of(p, e) + Of(q, e)]
        = [e \in DOMAIN q \cup DOMAIN p |-> Of(q, e) + Of(p, e)]
  BY <1>3, <1>5
<1> QED
  BY <1>4, <1>6 DEF p, q

(* The sources of an instruction, by group. *)
LEMMA SourcesBy ==
  ASSUME NEW i
  PROVE  /\ i.op \in Shifts \cup {"MOV", "NOT", "NEG", "SNEZ"} => Sources(i) = SetToBag({i.rt})
         /\ i.op \in ShiftVs \cup Alu \cup Stores \cup {"SLT", "SLTU", "BEQ", "BNE"} =>
              Sources(i) = SetToBag({i.rs}) (+) SetToBag({i.rt})
         /\ i.op \in (AluImm \ {"LUI"}) \cup Loads
              \cup {"SLTI", "SLTIU", "DIV", "DIVU", "MULT", "MULTU", "BLTZ",
                    "BGEZ", "BLEZ", "BGTZ", "BLTZAL", "BGEZAL", "JR", "JALR", "MTHI", "MTLO",
                    "BEQZ", "BNEZ", "SEQZ", "SLTZ"} => Sources(i) = SetToBag({i.rs})
         /\ i.op \notin Shifts \cup {"MOV", "NOT", "NEG", "SNEZ"}
              \cup ShiftVs \cup Alu \cup Stores \cup {"SLT", "SLTU", "BEQ", "BNE"}
              \cup (AluImm \ {"LUI"}) \cup Loads
              \cup {"SLTI", "SLTIU", "DIV", "DIVU", "MULT", "MULTU", "BLTZ",
                    "BGEZ", "BLEZ", "BGTZ", "BLTZAL", "BGEZAL", "JR", "JALR", "MTHI", "MTLO",
                    "BEQZ", "BNEZ", "SEQZ", "SLTZ"} => Sources(i) = EmptyBag
<1>1. i.op \in Shifts \cup {"MOV", "NOT", "NEG", "SNEZ"} => Sources(i) = SetToBag({i.rt})
  BY DEF Sources, Shifts, ShiftVs, Alu, Stores, AluImm, Loads
<1>2. i.op \in ShiftVs \cup Alu \cup Stores \cup {"SLT", "SLTU", "BEQ", "BNE"} =>
              Sources(i) = SetToBag({i.rs}) (+) SetToBag({i.rt})
  BY DEF Sources, Shifts, ShiftVs, Alu, Stores, AluImm, Loads
<1>3. i.op \in (AluImm \ {"LUI"}) \cup Loads
              \cup {"SLTI", "SLTIU", "DIV", "DIVU", "MULT", "MULTU", "BLTZ",
                    "BGEZ", "BLEZ", "BGTZ", "BLTZAL", "BGEZAL", "JR", "JALR", "MTHI", "MTLO",
                    "BEQZ", "BNEZ", "SEQZ", "SLTZ"} => Sources(i) = SetToBag({i.rs})
  BY DEF Sources, Shifts, ShiftVs, Alu, Stores, AluImm, Loads
<1>4. i.op \notin Shifts \cup {"MOV", "NOT", "NEG", "SNEZ"}
              \cup ShiftVs \cup Alu \cup Stores \cup {"SLT", "SLTU", "BEQ", "BNE"}
              \cup (AluImm \ {"LUI"}) \cup Loads
              \cup {"SLTI", "SLTIU", "DIV", "DIVU", "MULT", "MULTU", "BLTZ",
                    "BGEZ", "BLEZ", "BGTZ", "BLTZAL", "BGEZAL", "JR", "JALR", "MTHI", "MTLO",
                    "BEQZ", "BNEZ", "SEQZ", "SLTZ"} => Sources(i) = EmptyBag
  BY DEF Sources, Shifts, ShiftVs, Alu, Stores, AluImm, Loads
<1> QED
  BY <1>1, <1>2, <1>3, <1>4

(* The destinations of an instruction, by group. *)
LEMMA DestinationsBy ==
  ASSUME NEW i
  PROVE  /\ i.op \in Shifts \cup ShiftVs \cup Alu
              \cup {"SLT", "SLTU", "MFHI", "MFLO", "JALR", "MOV", "NOT", "NEG", "CLEAR", "SNEZ",
                    "LSI"} => Destinations(i) = {i.rd}
         /\ i.op \in AluImm \cup Loads \cup {"SLTI", "SLTIU", "SEQZ", "DIV", "DIVU", "MULT", "MULTU"}
              => Destinations(i) = {i.rt}
         /\ i.op \in {"BLTZAL", "BGEZAL", "JAL", "BAL"} => Destinations(i) = {31}
         /\ i.op \notin Shifts \cup ShiftVs \cup Alu
              \cup {"SLT", "SLTU", "MFHI", "MFLO", "JALR", "MOV", "NOT", "NEG", "CLEAR", "SNEZ",
                    "LSI"} \cup AluImm \cup Loads
              \cup {"SLTI", "SLTIU", "SEQZ", "SLTZ", "DIV", "DIVU", "MULT", "MULTU"}
              \cup {"BLTZAL", "BGEZAL", "JAL", "BAL"} => Destinations(i) = {}
BY DEF Destinations, Shifts, ShiftVs, Alu, AluImm, Loads

(* Instructions that mean the same are counted alike. *)
LEMMA MeansCounts ==
  ASSUME NEW x, NEW y, Means(x, y)
  PROVE  CountsAs(x, y)
<1>1. y.op = x.op
  BY DEF Means
<1>2. x.op \notin Commutes => (x.op \in WithRs => y.rs = x.rs) /\ (x.op \in WithRt => y.rt = x.rt)
  BY DEF Means
<1>3. (x.op \in WithRd => y.rd = x.rd) /\ (x.op \in WithImm => y.imm = x.imm)
      /\ (x.op \in WithSimm => y.simm = x.simm)
  BY DEF Means
<1>4. contains_imm(x.op) => y.imm = x.imm
  BY <1>3 DEF contains_imm, WithImm
<1>5. contains_simm(x.op) => y.simm = x.simm
  BY <1>3 DEF contains_simm, WithSimm
<1>6. StackAccesses(y) = StackAccesses(x)
  <2>1. \A op \in DOMAIN Column : op \in WithRs /\ op \in WithSimm /\ op \notin Commutes
    BY DEF Column, WithRs, WithSimm, Loads, Stores, Commutes
  <2> QED
    BY <1>1, <1>2, <1>3, <2>1 DEF StackAccesses
<1>7. Sources(y) = Sources(x)
  <2>1. CASE x.op \in Shifts \cup {"MOV", "NOT", "NEG", "SNEZ"}
    <3>1. y.rt = x.rt
      BY <1>2, <2>1 DEF WithRt, Commutes, Shifts
    <3> QED
      BY <1>1, <2>1, <3>1, SourcesBy
  <2>2. CASE x.op \in ShiftVs \cup Alu \cup Stores \cup {"SLT", "SLTU", "BEQ", "BNE"}
    <3>1. (y.rs = x.rs /\ y.rt = x.rt) \/ (y.rs = x.rt /\ y.rt = x.rs)
      <4>1. x.op \in WithRs /\ x.op \in WithRt
        BY <2>2 DEF WithRs, WithRt, ShiftVs, Alu, Stores, Compare, NativeBranch
      <4> QED
        BY <4>1 DEF Means
    <3>2. /\ Sources(x) = SetToBag({x.rs}) (+) SetToBag({x.rt})
          /\ Sources(y) = SetToBag({y.rs}) (+) SetToBag({y.rt})
      BY <1>1, <2>2, SourcesBy
    <3> QED
      BY <3>1, <3>2, EitherOrder
  <2>3. CASE x.op \in (AluImm \ {"LUI"}) \cup Loads
              \cup {"SLTI", "SLTIU", "DIV", "DIVU", "MULT", "MULTU", "BLTZ",
                    "BGEZ", "BLEZ", "BGTZ", "BLTZAL", "BGEZAL", "JR", "JALR", "MTHI", "MTLO",
                    "BEQZ", "BNEZ", "SEQZ", "SLTZ"}
    <3>1. x.op \in WithRs /\ x.op \notin Commutes
      BY <2>3 DEF WithRs, Commutes, AluImm, Loads, Compare, NativeBranch
    <3> QED
      BY <1>1, <1>2, <2>3, <3>1, SourcesBy
  <2>4. CASE x.op \notin Shifts \cup {"MOV", "NOT", "NEG", "SNEZ"}
              \cup ShiftVs \cup Alu \cup Stores \cup {"SLT", "SLTU", "BEQ", "BNE"}
              \cup (AluImm \ {"LUI"}) \cup Loads
              \cup {"SLTI", "SLTIU", "DIV", "DIVU", "MULT", "MULTU", "BLTZ",
                    "BGEZ", "BLEZ", "BGTZ", "BLTZAL", "BGEZAL", "JR", "JALR", "MTHI", "MTLO",
                    "BEQZ", "BNEZ", "SEQZ", "SLTZ"}
    BY <1>1, <2>4, SourcesBy
  <2> QED
    BY <2>1, <2>2, <2>3, <2>4
<1>8. x.op # "SLTZ" => Destinations(y) = Destinations(x)
  <2>1. CASE x.op \in Shifts \cup ShiftVs \cup Alu
              \cup {"SLT", "SLTU", "MFHI", "MFLO", "JALR", "MOV", "NOT", "NEG", "CLEAR", "SNEZ",
                    "LSI"}
    <3>1. x.op \in WithRd
      BY <2>1 DEF WithRd
    <3> QED
      BY <1>1, <1>3, <2>1, <3>1, DestinationsBy
  <2>2. CASE x.op \in AluImm \cup Loads
                 \cup {"SLTI", "SLTIU", "SEQZ", "DIV", "DIVU", "MULT", "MULTU"}
    <3>1. x.op \in WithRt /\ x.op \notin Commutes
      BY <2>2 DEF WithRt, Commutes, AluImm, Loads, Compare
    <3> QED
      BY <1>1, <1>2, <2>2, <3>1, DestinationsBy
  <2>3. CASE x.op \in {"BLTZAL", "BGEZAL", "JAL", "BAL"}
    BY <1>1, <2>3, DestinationsBy
  <2>4. CASE x.op \notin Shifts \cup ShiftVs \cup Alu
              \cup {"SLT", "SLTU", "MFHI", "MFLO", "JALR", "MOV", "NOT", "NEG", "CLEAR", "SNEZ",
                    "LSI"} \cup AluImm \cup Loads
              \cup {"SLTI", "SLTIU", "SEQZ", "SLTZ", "DIV", "DIVU", "MULT", "MULTU"}
              \cup {"BLTZAL", "BGEZAL", "JAL", "BAL"}
    BY <1>1, <2>4, DestinationsBy
  <2> QED
    BY <2>1, <2>2, <2>3, <2>4
<1>9. SlotKind(y) = SlotKind(x)
  BY <1>1 DEF SlotKind
<1> QED
  BY <1>1, <1>4, <1>5, <1>6, <1>7, <1>8, <1>9 DEF CountsAs

(* A jump that became a branch is counted like the jump. *)
LEMMA JumpCounts ==
  ASSUME NEW x, NEW y, (x.op = "J" /\ y.op = "B") \/ (x.op = "JAL" /\ y.op = "BAL")
  PROVE  CountsAs(x, y)
<1>1. /\ ~contains_imm(x.op) /\ ~contains_imm(y.op) /\ ~contains_simm(x.op) /\ ~contains_simm(y.op)
      /\ StackAccesses(x) = {} /\ StackAccesses(y) = {}
  BY DEF contains_imm, contains_simm, StackAccesses, Column
<1>2. SlotKind(x) # {} /\ SlotKind(y) # {}
  BY DEF SlotKind, is_branch, PseudoBranch, Jumps
<1>3. Sources(x) = EmptyBag /\ Sources(y) = EmptyBag
  BY SourcesBy DEF Shifts, ShiftVs, Alu, Stores, AluImm, Loads
<1>4. Destinations(x) = Destinations(y)
  BY DestinationsBy DEF Shifts, ShiftVs, Alu, AluImm, Loads
<1> QED
  BY <1>1, <1>2, <1>3, <1>4 DEF CountsAs

(* Counting alike is transitive. *)
LEMMA CountsOn ==
  ASSUME NEW x, NEW y, NEW z, CountsAs(x, y), CountsAs(y, z)
  PROVE  CountsAs(x, z)
BY DEF CountsAs

(***************************************************************************)
(* Two programs that are counted alike, and what is counted of one         *)
(***************************************************************************)
(* S has the statistics after each of the m instructions G. *)
Counts(S, G, m) == S[0] = NoStat /\ \A j \in 0..m - 1 : S[j + 1] = Added(S[j], G[j + 1])

(* An instruction more, in every table. *)
OneMore(s, i, t) ==
  /\ t.freq = s.freq (+) SetToBag({i.op})
  /\ t.freq_comp = s.freq_comp (+) Entries(is_compressible(i), i.op)
  /\ t.branch_list = s.branch_list (+) SetToBag(BranchDistances(i))
  /\ t.mem_stat = s.mem_stat (+) SetToBag(StackAccesses(i))
  /\ t.uimm_list = s.uimm_list (+) Entries(contains_imm(i.op), i.imm)
  /\ t.simm_list = s.simm_list (+) Entries(contains_simm(i.op), Int16(i.simm))
  /\ t.rs_count = s.rs_count (+) Sources(i)
  /\ t.rd_count = s.rd_count (+) SetToBag(Destinations(i))
  /\ t.prev = SlotKind(i)
  /\ t.nops = s.nops (+) (IF conv_to_pseudo(i).op = "NOP" THEN SetToBag(s.prev) ELSE EmptyBag)

(* That is what an iteration of the loop adds. *)
LEMMA AddedMore ==
  ASSUME NEW s, DOMAIN s = StatFields, NEW i, NEW t, t = Added(s, i)
  PROVE  DOMAIN t = StatFields /\ (i.op # "INVALID_OP" => OneMore(s, i, t))
<1> DEFINE u == Added(s, i)
<1>1. DOMAIN u = StatFields
  BY AddedFields
<1>2. ASSUME i.op # "INVALID_OP" PROVE OneMore(s, i, u)
  <2>1. u.freq = s.freq (+) SetToBag({i.op})
    BY <1>2, AddedFields
  <2>2. u.freq_comp = s.freq_comp (+) Entries(is_compressible(i), i.op)
    BY <1>2, AddedFields
  <2>3. u.branch_list = s.branch_list (+) SetToBag(BranchDistances(i))
    BY <1>2, AddedFields
  <2>4. u.mem_stat = s.mem_stat (+) SetToBag(StackAccesses(i))
    BY <1>2, AddedFields
  <2>5. u.uimm_list = s.uimm_list (+) Entries(contains_imm(i.op), i.imm)
    BY <1>2, AddedFields
  <2>6. u.simm_list = s.simm_list (+) Entries(contains_simm(i.op), Int16(i.simm))
    BY <1>2, AddedFields
  <2>7. u.rs_count = s.rs_count (+) Sources(i)
    BY <1>2, AddedFields
  <2>8. u.rd_count = s.rd_count (+) SetToBag(Destinations(i))
    BY <1>2, AddedFields
  <2>9. u.prev = SlotKind(i)
    BY <1>2, AddedFields
  <2>10. u.nops = s.nops (+) (IF conv_to_pseudo(i).op = "NOP" THEN SetToBag(s.prev) ELSE EmptyBag)
    BY <1>2, AddedFields
  <2> HIDE DEF u
  <2> QED
    BY <2>1, <2>2, <2>3, <2>4, <2>5, <2>6, <2>7, <2>8, <2>9, <2>10 DEF OneMore
<1> QED
  BY <1>1, <1>2

(* The statistics have their fields throughout. *)
LEMMA CountsFields ==
  ASSUME NEW m \in Nat, NEW S, NEW G, Counts(S, G, m)
  PROVE  \A j \in 0..m : DOMAIN S[j] = StatFields
<1> DEFINE T == {j \in Nat : j <= m /\ DOMAIN S[j] # StatFields}
<1>1. DOMAIN S[0] = StatFields
  BY DEF Counts, StatFields
<1>2. SUFFICES ASSUME T # {} PROVE FALSE
  OBVIOUS
<1>3. PICK j \in T : \A l \in T : j <= l
  <2>1. T \in SUBSET Nat
    OBVIOUS
  <2> HIDE DEF T
  <2> QED BY <1>2, <2>1, LeastNatural
<1>4. /\ j # 0 /\ j \in Nat /\ j - 1 \in 0..m - 1 /\ j - 1 \in Nat
      /\ ~(j <= j - 1) /\ (j - 1) + 1 = j /\ DOMAIN S[j] # StatFields /\ j - 1 <= m
  BY <1>1, <1>3
<1>5. DOMAIN S[j - 1] = StatFields
  BY <1>3, <1>4
<1>6. S[j] = Added(S[j - 1], G[j])
  BY <1>4 DEF Counts
<1> QED
  BY <1>4, <1>5, <1>6, AddedMore

(* Each step is one. *)
LEMMA CountsStep ==
  ASSUME NEW m \in Nat, NEW S, NEW G, Counts(S, G, m), NEW j \in 0..m - 1,
         G[j + 1].op # "INVALID_OP"
  PROVE  OneMore(S[j], G[j + 1], S[j + 1])
<1>1. j \in 0..m
  OBVIOUS
<1>2. DOMAIN S[j] = StatFields
  BY <1>1, CountsFields
<1>3. S[j + 1] = Added(S[j], G[j + 1])
  BY DEF Counts
<1> QED
  BY <1>2, <1>3, AddedMore

(* What an instruction is to the next one. *)
LEMMA SlotKinds ==
  ASSUME NEW i
  PROVE  SlotKind(i) = {} \/ \E s \in Slots : SlotKind(i) = {s}
BY DEF SlotKind, Slots

(* What is counted of the one and of the other program so far. *)
CountedAlike(s, t) ==
  /\ t.uimm_list = s.uimm_list /\ t.simm_list = s.simm_list
  /\ t.mem_stat = s.mem_stat /\ t.rs_count = s.rs_count

(* The pairs that end in a NOP, and whether the next one may be a pair. *)
PairsAlike(s, t) ==
  /\ IsSlotBag(s.nops) /\ IsSlotBag(t.nops)
  /\ BagCardinality(t.nops) = BagCardinality(s.nops)
  /\ s.prev = {} \/ \E k \in Slots : s.prev = {k}
  /\ t.prev = {} \/ \E k \in Slots : t.prev = {k}
  /\ t.prev = {} <=> s.prev = {}

(* A step of both. *)
LEMMA AlikeStep ==
  ASSUME NEW m \in Nat, NEW S, NEW F, Counts(S, F, m), NEW T, NEW G, Counts(T, G, m),
         NEW j \in 0..m - 1, F[j + 1].op # "INVALID_OP", G[j + 1].op # "INVALID_OP",
         CountsAs(F[j + 1], G[j + 1]),
         conv_to_pseudo(F[j + 1]).op = F[j + 1].op, conv_to_pseudo(G[j + 1]).op = G[j + 1].op
  PROVE  /\ CountedAlike(S[j], T[j]) => CountedAlike(S[j + 1], T[j + 1])
         /\ PairsAlike(S[j], T[j]) => PairsAlike(S[j + 1], T[j + 1])
         /\ F[j + 1].op # "SLTZ" /\ T[j].rd_count = S[j].rd_count =>
              T[j + 1].rd_count = S[j + 1].rd_count
<1> DEFINE x == F[j + 1]
           y == G[j + 1]
           s == S[j]
           t == T[j]
           u == S[j + 1]
           v == T[j + 1]
<1>1. OneMore(s, x, u)
  BY CountsStep
<1>2. OneMore(t, y, v)
  BY CountsStep
<1>3. CountsAs(x, y) /\ conv_to_pseudo(x).op = x.op /\ conv_to_pseudo(y).op = y.op
  OBVIOUS
<1> HIDE DEF x, y, s, t, u, v
<1>4. ASSUME CountedAlike(s, t) PROVE CountedAlike(u, v)
  <2>1. Entries(contains_imm(y.op), y.imm) = Entries(contains_imm(x.op), x.imm)
    BY <1>3 DEF CountsAs, Entries
  <2>2. Entries(contains_simm(y.op), Int16(y.simm)) = Entries(contains_simm(x.op), Int16(x.simm))
    BY <1>3 DEF CountsAs, Entries
  <2>3. StackAccesses(y) = StackAccesses(x) /\ Sources(y) = Sources(x)
    BY <1>3 DEF CountsAs
  <2> QED
    BY <1>1, <1>2, <1>4, <2>1, <2>2, <2>3 DEF CountedAlike, OneMore
<1>5. ASSUME x.op # "SLTZ", t.rd_count = s.rd_count PROVE v.rd_count = u.rd_count
  BY <1>1, <1>2, <1>3, <1>5 DEF CountsAs, OneMore
<1>6. ASSUME PairsAlike(s, t) PROVE PairsAlike(u, v)
  <2>1. /\ u.prev = {} \/ \E k \in Slots : u.prev = {k}
        /\ v.prev = {} \/ \E k \in Slots : v.prev = {k}
        /\ v.prev = {} <=> u.prev = {}
    BY <1>1, <1>2, <1>3, SlotKinds DEF CountsAs, OneMore
  <2>2. y.op = "NOP" <=> x.op = "NOP"
    BY <1>3 DEF CountsAs
  <2>3. CASE x.op = "NOP"
    <3>1. u.nops = s.nops (+) SetToBag(s.prev) /\ v.nops = t.nops (+) SetToBag(t.prev)
      BY <1>1, <1>2, <1>3, <2>2, <2>3 DEF OneMore
    <3>2. /\ IsSlotBag(s.nops (+) SetToBag(s.prev))
          /\ BagCardinality(s.nops (+) SetToBag(s.prev))
               = BagCardinality(s.nops) + IF s.prev = {} THEN 0 ELSE 1
      BY <1>6, PairsGrow DEF PairsAlike
    <3>3. /\ IsSlotBag(t.nops (+) SetToBag(t.prev))
          /\ BagCardinality(t.nops (+) SetToBag(t.prev))
               = BagCardinality(t.nops) + IF t.prev = {} THEN 0 ELSE 1
      BY <1>6, PairsGrow DEF PairsAlike
    <3>4. BagCardinality(v.nops) = BagCardinality(u.nops)
      BY <1>6, <3>1, <3>2, <3>3 DEF PairsAlike
    <3> QED
      BY <2>1, <3>1, <3>2, <3>3, <3>4 DEF PairsAlike
  <2>4. CASE x.op # "NOP"
    <3>1. u.nops = s.nops (+) EmptyBag /\ v.nops = t.nops (+) EmptyBag
      BY <1>1, <1>2, <1>3, <2>2, <2>4 DEF OneMore
    <3>2. u.nops = s.nops /\ v.nops = t.nops
      BY <1>6, <3>1, CountedNot DEF PairsAlike, IsSlotBag
    <3> QED
      BY <1>6, <2>1, <3>2 DEF PairsAlike
  <2> QED
    BY <2>3, <2>4
<1> QED
  BY <1>4, <1>5, <1>6 DEF x, s, t, u, v

(* Programs whose instructions count alike have the same tables. *)
LEMMA AlikeTables ==
  ASSUME NEW m \in Nat, NEW S, NEW F, Counts(S, F, m), NEW T, NEW G, Counts(T, G, m),
         \A k \in 1..m : /\ F[k].op # "INVALID_OP" /\ G[k].op # "INVALID_OP"
                         /\ CountsAs(F[k], G[k])
                         /\ conv_to_pseudo(F[k]).op = F[k].op
                         /\ conv_to_pseudo(G[k]).op = G[k].op
  PROVE  /\ CountedAlike(S[m], T[m]) /\ PairsAlike(S[m], T[m])
         /\ (\A k \in 1..m : F[k].op # "SLTZ") => T[m].rd_count = S[m].rd_count
<1> DEFINE Never == \A k \in 1..m : F[k].op # "SLTZ"
           Good(j) == /\ CountedAlike(S[j], T[j]) /\ PairsAlike(S[j], T[j])
                      /\ Never => T[j].rd_count = S[j].rd_count
           N == {j \in Nat : j <= m /\ ~Good(j)}
<1>1. Good(0)
  <2>1. S[0] = NoStat /\ T[0] = NoStat
    BY DEF Counts
  <2>2. NoStat.prev = {} /\ NoStat.nops = EmptyBag
    BY DEF NoStat
  <2>3. IsSlotBag(EmptyBag)
    <3>1. DOMAIN EmptyBag = {} /\ EmptyBag = [e \in {} |-> 1]
      BY DEF EmptyBag, SetToBag
    <3>2. IsFiniteSet({})
      BY FS_EmptySet
    <3>3. EmptyBag \in [{} -> Nat]
      BY <3>1
    <3> QED
      BY <3>1, <3>2, <3>3 DEF IsSlotBag, IsList
  <2>4. CountedAlike(NoStat, NoStat) /\ PairsAlike(NoStat, NoStat)
    BY <2>2, <2>3 DEF CountedAlike, PairsAlike
  <2> QED
    BY <2>1, <2>4
<1>2. ASSUME NEW j \in 0..m - 1, Good(j) PROVE Good(j + 1)
  <2>1. j + 1 \in 1..m
    OBVIOUS
  <2>2. /\ CountedAlike(S[j], T[j]) => CountedAlike(S[j + 1], T[j + 1])
        /\ PairsAlike(S[j], T[j]) => PairsAlike(S[j + 1], T[j + 1])
        /\ F[j + 1].op # "SLTZ" /\ T[j].rd_count = S[j].rd_count =>
              T[j + 1].rd_count = S[j + 1].rd_count
    BY <2>1, AlikeStep
  <2> QED
    BY <1>2, <2>1, <2>2
<1> HIDE DEF Good
<1>3. N = {}
  <2> SUFFICES ASSUME N # {} PROVE FALSE
    OBVIOUS
  <2>1. PICK j \in N : \A l \in N : j <= l
    <3>1. N \in SUBSET Nat
      OBVIOUS
    <3> HIDE DEF N
    <3> QED BY <3>1, LeastNatural
  <2>2. /\ j # 0 /\ j \in Nat /\ j - 1 \in 0..m - 1 /\ j - 1 \in Nat
        /\ ~(j <= j - 1) /\ (j - 1) + 1 = j /\ ~Good(j) /\ j - 1 <= m
    BY <1>1, <2>1
  <2>3. Good(j - 1)
    BY <2>1, <2>2
  <2> QED
    BY <1>2, <2>2, <2>3
<1>4. Good(m)
  <2>1. m <= m
    OBVIOUS
  <2> QED
    BY <1>3, <2>1
<1> QED
  BY <1>4 DEF Good

(* The tables of the operations and of the distances, as a whole. *)
LEMMA TablesCollect ==
  ASSUME NEW m \in Nat, NEW T, NEW G, Counts(T, G, m), \A k \in 1..m : G[k].op # "INVALID_OP",
         NEW small, small = {k \in 1..m : is_compressible(G[k])}
  PROVE  /\ T[m].freq = BagOf([k \in 1..m |-> G[k].op])
         /\ T[m].freq_comp = BagOf([k \in small |-> G[k].op])
<1>1. ASSUME NEW j \in 0..m - 1 PROVE j + 1 \in 1..m /\ OneMore(T[j], G[j + 1], T[j + 1])
  <2>1. j + 1 \in 1..m
    OBVIOUS
  <2> QED
    BY <2>1, CountsStep
<1>2. T[0] = NoStat
  BY DEF Counts
<1>4. m \in 0..m /\ 0 \in 0..m /\ \A j \in 0..m - 1 : j \in 0..m /\ j + 1 \in 0..m /\ j + 1 \in 1..m
  OBVIOUS
<1>5. T[m].freq = BagOf([k \in 1..m |-> G[k].op])
  <2> DEFINE b == [j \in 0..m |-> T[j].freq]
             g == [k \in 1..m |-> G[k].op]
  <2>1. b[0] = EmptyBag
    BY <1>2, <1>4 DEF NoStat
  <2>2. ASSUME NEW j \in 0..m - 1
        PROVE  b[j + 1] = b[j] (+) Entries(j + 1 \in 1..m, g[j + 1])
    <3>1. b[j] = T[j].freq /\ b[j + 1] = T[j + 1].freq /\ g[j + 1] = G[j + 1].op
      BY <1>4
    <3> HIDE DEF b, g
    <3>2. Entries(j + 1 \in 1..m, g[j + 1]) = SetToBag({g[j + 1]})
      BY <1>1 DEF Entries
    <3> QED
      BY <1>1, <3>1, <3>2 DEF OneMore
  <2>3. b[m] = T[m].freq /\ [k \in 1..m |-> g[k]] = g
    BY <1>4
  <2> HIDE DEF b
  <2>4. b[m] = BagOf([k \in 1..m |-> g[k]])
    <3> DEFINE all == 1..m
    <3>1. all \in SUBSET (1..m) /\ \A j \in 0..m - 1 : b[j + 1] = b[j] (+) Entries(j + 1 \in all, g[j + 1])
      BY <2>2
    <3> HIDE DEF g, all
    <3>2. b[m] = BagOf([k \in all |-> g[k]])
      BY <2>1, <3>1, BagCollects
    <3> QED
      BY <3>2 DEF all
  <2> QED
    BY <2>3, <2>4
<1>6. T[m].freq_comp = BagOf([k \in small |-> G[k].op])
  <2> DEFINE b == [j \in 0..m |-> T[j].freq_comp]
             g == [k \in 1..m |-> G[k].op]
  <2>1. b[0] = EmptyBag
    BY <1>2, <1>4 DEF NoStat
  <2>2. ASSUME NEW j \in 0..m - 1
        PROVE  b[j + 1] = b[j] (+) Entries(j + 1 \in small, g[j + 1])
    <3>1. b[j] = T[j].freq_comp /\ b[j + 1] = T[j + 1].freq_comp /\ g[j + 1] = G[j + 1].op
      BY <1>4
    <3> HIDE DEF b, g
    <3>2. j + 1 \in small <=> is_compressible(G[j + 1])
      BY <1>1
    <3> QED
      BY <1>1, <3>1, <3>2 DEF OneMore, Entries
  <2>3. b[m] = T[m].freq_comp /\ [k \in small |-> g[k]] = [k \in small |-> G[k].op]
    BY <1>4
  <2> HIDE DEF b
  <2>4. b[m] = BagOf([k \in small |-> g[k]])
    <3> HIDE DEF g
    <3>1. small \in SUBSET (1..m)
      OBVIOUS
    <3> QED
      BY <2>1, <2>2, <3>1, BagCollects
  <2> QED
    BY <2>3, <2>4
<1> QED
  BY <1>5, <1>6

(* Those of the first m instructions of which the distance is counted.     *)
Branching(K, G, m) ==
  K \in SUBSET (1..m) /\ \A k \in 1..m : k \in K <=> BranchDistances(G[k]) # {}

(* So is the table of the distances. *)
LEMMA DistancesCollect ==
  ASSUME NEW m \in Nat, NEW T, NEW G, Counts(T, G, m), \A k \in 1..m : G[k].op # "INVALID_OP",
         NEW K, Branching(K, G, m), NEW far, far = [k \in K |-> Int16(G[k].simm)]
  PROVE  T[m].branch_list = BagOf(far)
<1>1. ASSUME NEW j \in 0..m - 1 PROVE j + 1 \in 1..m /\ OneMore(T[j], G[j + 1], T[j + 1])
  <2>1. j + 1 \in 1..m
    OBVIOUS
  <2> QED
    BY <2>1, CountsStep
<1>2. T[0] = NoStat
  BY DEF Counts
<1>3. K \in SUBSET (1..m) /\ \A k \in 1..m : k \in K <=> BranchDistances(G[k]) # {}
  BY DEF Branching
<1>4. m \in 0..m /\ 0 \in 0..m /\ \A j \in 0..m - 1 : j \in 0..m /\ j + 1 \in 0..m /\ j + 1 \in 1..m
  OBVIOUS
<1> DEFINE b == [j \in 0..m |-> T[j].branch_list]
           g == [k \in 1..m |-> Int16(G[k].simm)]
<1>5. b[0] = EmptyBag
  BY <1>2, <1>4 DEF NoStat
<1>6. ASSUME NEW j \in 0..m - 1
      PROVE  b[j + 1] = b[j] (+) Entries(j + 1 \in K, g[j + 1])
  <2>1. /\ b[j] = T[j].branch_list /\ b[j + 1] = T[j + 1].branch_list
        /\ g[j + 1] = Int16(G[j + 1].simm)
    BY <1>4
  <2> HIDE DEF b, g
  <2>2. j + 1 \in K <=> BranchDistances(G[j + 1]) # {}
    BY <1>1, <1>3
  <2>3. BranchDistances(G[j + 1]) = {} \/ BranchDistances(G[j + 1]) = {g[j + 1]}
    BY <2>1 DEF BranchDistances
  <2>4. SetToBag(BranchDistances(G[j + 1])) = Entries(j + 1 \in K, g[j + 1])
    BY <2>2, <2>3 DEF Entries, EmptyBag
  <2> QED
    BY <1>1, <2>1, <2>4 DEF OneMore
<1>7. b[m] = T[m].branch_list /\ [k \in K |-> g[k]] = far
  BY <1>3, <1>4
<1> HIDE DEF b, g
<1>8. b[m] = BagOf([k \in K |-> g[k]])
  <2>1. K \in SUBSET (1..m) /\ \A j \in 0..m - 1 : b[j + 1] = b[j] (+) Entries(j + 1 \in K, g[j + 1])
    BY <1>3, <1>6
  <2> QED
    BY <1>5, <2>1, BagCollects
<1> QED
  BY <1>7, <1>8

(***************************************************************************)
(* Which instructions of the output the analyzer takes to be short         *)
(***************************************************************************)
(* Instructions that mean the same are as compressible, but for loads and  *)
(* stores, where that depends on a field that says the same as the offset. *)
LEMMA SimpleAlike ==
  ASSUME NEW x, NEW y, Means(x, y), x.op \notin {"LW", "SW"}
  PROVE  is_compressible_simple(y) <=> is_compressible_simple(x)
<1>1. /\ y.op = x.op
      /\ x.op \notin Commutes => (x.op \in WithRs => y.rs = x.rs) /\ (x.op \in WithRt => y.rt = x.rt)
      /\ x.op \in WithRd => y.rd = x.rd
      /\ x.op \in WithImm => y.imm = x.imm
      /\ x.op \in WithSimm => y.simm = x.simm
  BY DEF Means
<1>2. CASE x.op \in {"NOP", "MOV", "CLEAR", "NOT", "NEG", "LSI", "JR", "JALR"}
  BY <1>1, <1>2 DEF is_compressible_simple
<1>3. CASE x.op \in Shifts
  <2>1. y.rd = x.rd /\ y.rt = x.rt
    BY <1>1, <1>3 DEF WithRd, WithRt, Commutes, Shifts
  <2> QED
    BY <1>1, <1>3, <2>1 DEF is_compressible_simple, Shifts
<1>4. CASE x.op \in {"ADDU", "OR", "XOR"}
  <2>1. (y.rs = x.rs /\ y.rt = x.rt) \/ (y.rs = x.rt /\ y.rt = x.rs)
    <3>1. x.op \in WithRs /\ x.op \in WithRt
      BY <1>4 DEF WithRs, WithRt, Alu
    <3> QED
      BY <3>1 DEF Means
  <2>2. y.rd = x.rd
    BY <1>1, <1>4 DEF WithRd, Alu
  <2> QED
    BY <1>1, <1>4, <2>1, <2>2 DEF is_compressible_simple, Shifts
<1>5. CASE x.op \in {"SUBU", "SLTU"}
  <2>1. y.rd = x.rd /\ y.rs = x.rs
    BY <1>1, <1>5 DEF WithRd, WithRs, Commutes, Alu, Compare
  <2> QED
    BY <1>1, <1>5, <2>1 DEF is_compressible_simple, Shifts
<1>6. CASE x.op = "ADDIU"
  <2>1. y.rs = x.rs /\ y.rt = x.rt /\ y.simm = x.simm
    BY <1>1, <1>6 DEF WithRt, WithRs, WithSimm, Commutes, AluImm
  <2> QED
    BY <1>1, <1>6, <2>1 DEF is_compressible_simple, Shifts
<1>7. CASE x.op = "ANDI"
  <2>1. y.rs = x.rs /\ y.rt = x.rt /\ y.imm = x.imm
    BY <1>1, <1>7 DEF WithRt, WithRs, WithImm, Commutes, AluImm
  <2> QED
    BY <1>1, <1>7, <2>1 DEF is_compressible_simple, Shifts
<1>8. CASE x.op \notin {"NOP", "MOV", "CLEAR", "NOT", "NEG", "LSI", "JR", "JALR", "ADDU", "OR", "XOR",
                        "SUBU", "SLTU", "ADDIU", "ANDI"} \cup Shifts
  BY <1>1, <1>8 DEF is_compressible_simple
<1> QED
  BY <1>2, <1>3, <1>4, <1>5, <1>6, <1>7, <1>8

(* No long code is read as LW or SW by the parser of the old set. *)
LEMMA NoOldAccess ==
  ASSUME NEW w \in Word, LongWord(w)
  PROVE  parse_op(w) \notin {"LW", "SW"}
<1>1. w[1] \in Nat /\ w[1] < 32768
  BY HalfBounds, WordParts DEF LongWord
<1>2. get_opcode(w) \in Nat /\ get_opcode(w) < 32
  BY <1>1 DEF get_opcode
<1>3. \A t \in {SpecialTable, BranchTable, Cop0Table} : \A e \in t : e[2] \notin {"LW", "SW"}
  BY DEF SpecialTable, BranchTable, Cop0Table
<1>4. \A e \in OpcodeTable : e[1] < 32 => e[2] \notin {"LW", "SW"}
  BY DEF OpcodeTable
<1>5. ASSUME NEW t, NEW code, \A e \in t : e[1] = code => e[2] \notin {"LW", "SW"}
      PROVE  Lookup(t, code) \notin {"LW", "SW"}
  <2>1. CASE \E e \in t : e[1] = code
    BY <1>5, <2>1, LookupIn
  <2>2. CASE \A e \in t : e[1] # code
    BY <2>2, LookupNone
  <2> QED
    BY <2>1, <2>2
<1>6. /\ Lookup(SpecialTable, get_func(w)) \notin {"LW", "SW"}
      /\ Lookup(BranchTable, get_rt(w)) \notin {"LW", "SW"}
      /\ Lookup(Cop0Table, get_rs(w)) \notin {"LW", "SW"}
  BY <1>3, <1>5
<1>7. Lookup(OpcodeTable, get_opcode(w)) \notin {"LW", "SW"}
  BY <1>2, <1>4, <1>5
<1> QED
  BY <1>6, <1>7 DEF parse_op

(* What the small format of a load or store sets. *)
LEMMA SmallImmediate ==
  ASSUME NEW h \in Nat, h >= 32768
  PROVE  parse_small(h, Blank).op \in {"LW", "SW"} => parse_small(h, Blank).imm = (h % 32) * 4
<1> DEFINE z      == parse_small(h, Blank)
           opcode == (h \div 1024) % 32
<1>1. opcode \in Nat
  OBVIOUS
<1>2. z = parse_instr_v2(<<h, 0>>, Blank).instr
  BY DEF parse_instr_v2
<1>3. CASE opcode \in 0..18
  <2>1. SmallWord(h, opcode)
    BY DEF SmallWord
  <2> HIDE DEF opcode, z
  <2>2. z.op \notin {"LW", "SW"}
    BY <1>2, <1>3, <2>1, SmallDecoded DEF ThreeOf, TwoOf
  <2> QED
    BY <2>2 DEF z
<1>4. CASE opcode = 19
  BY <1>4, SmallCodes DEF parse_small, Blank
<1>5. CASE opcode = 20
  BY <1>5, SmallCodes DEF parse_small, Blank
<1>6. CASE opcode \notin 0..20
  BY <1>6, SmallCodes DEF parse_small, Blank
<1> QED
  <2> HIDE DEF opcode
  <2> QED
    BY <1>1, <1>3, <1>4, <1>5, <1>6

(* parse_instr_v2 sets the imm of an LW or SW only in the small format,    *)
(* where it is a multiple of 4 that fits; in the long one it is still 0.   *)
LEMMA StackAccess ==
  ASSUME NEW w \in Word
  PROVE  LET y == conv_to_pseudo(parse_instr_v2(w, Blank).instr)
         IN y.op \in {"LW", "SW"} => y.imm % 4 = 0 /\ y.imm < 128
<1> DEFINE f == parse_instr_v2(w, Blank).instr
           y == conv_to_pseudo(f)
<1>1. f \in StructInstr
  BY ParseV2Type
<1>2. w[1] \in Nat /\ w[1] <= 65535
  BY HalfBounds, WordParts
<1>3. ASSUME f.op \in {"LW", "SW"} PROVE f.imm % 4 = 0 /\ f.imm < 128
  <2>1. CASE w[1] < 32768
    <3>1. f = parse_long(w, Blank)
      BY <2>1 DEF parse_instr_v2
    <3>2. parse_instr(w).op \notin {"LW", "SW"}
      BY <2>1, NoOldAccess DEF parse_instr, LongWord
    <3>3. f # parse_instr(w)
      BY <1>3, <3>2
    <3>4. f.imm = 0
      BY <3>1, <3>3 DEF parse_long, Blank
    <3> QED
      BY <3>4
  <2>2. CASE ~(w[1] < 32768)
    <3>1. f = parse_small(w[1], Blank)
      BY <2>2 DEF parse_instr_v2
    <3>2. w[1] % 32 \in Nat /\ w[1] % 32 <= 31
      BY <1>2
    <3>3. parse_small(w[1], Blank).op \in {"LW", "SW"} =>
            parse_small(w[1], Blank).imm = (w[1] % 32) * 4
      BY <1>2, <2>2, SmallImmediate
    <3>4. f.imm = (w[1] % 32) * 4
      BY <1>3, <3>1, <3>3
    <3> HIDE DEF f
    <3> QED
      BY <3>2, <3>4
  <2> QED
    BY <2>1, <2>2
<1> HIDE DEF f
<1>4. y.op \in {"LW", "SW"} => y = f
  BY <1>1, PseudoShape DEF Pseudo, PseudoBranch
<1> QED
  BY <1>3, <1>4 DEF f

(***************************************************************************)
(* The statistics of the output                                            *)
(***************************************************************************)
(* What the analyzer makes of an instruction of the output, y, when the    *)
(* converter has made i of what it makes of the word in the input, x.      *)
CountedOf(x, i, y) ==
  /\ y.op = i.op
  /\ is_compressible(y) <=> i.compressed \/ (i.op \in {"LW", "SW"} /\ i.rs = 29)
  /\ is_branch(i.op) => y.simm = i.simm
  /\ CountsAs(x, y)
  /\ x.op # "INVALID_OP" /\ y.op # "INVALID_OP"
  /\ conv_to_pseudo(x).op = x.op /\ conv_to_pseudo(y).op = y.op

(* What is fetched is decoded from a word. *)
LEMMA FetchedWord ==
  ASSUME IInv, OutputCoded, pc = "done", NEW k \in 1..Len(prog)
  PROVE  \E w \in Word : Fetched(k) = parse_instr_v2(w, Blank)
<1> DEFINE h == NewAddr(prog)[k] \div 2
           w == <<out[h + 1], IF h + 1 < Len(out) THEN out[h + 1 + 1] ELSE 0>>
<1>1. h \in Nat /\ HasInstr(out, h, TRUE)
  BY OutputAt
<1>2. out \in Seq(Half)
  BY DEF IInv, TypeOK
<1>3. Fetched(k) = parse_instr_v2(w, Blank)
  BY DEF Fetched
<1> HIDE DEF h
<1>4. Len(out) \in Nat /\ h + 1 \in 1..Len(out) /\ 0 \in Half
      /\ (h + 1 < Len(out) => h + 1 + 1 \in 1..Len(out))
  <2>1. Len(out) \in Nat
    BY <1>2
  <2>2. Len(out) - h >= 1
    BY <1>1 DEF HasInstr
  <2>3. 0 \in Half
    BY DEF Half, HalfMax
  <2> QED
    BY <1>1, <2>1, <2>2, <2>3
<1>5. \A j \in 1..Len(out) : out[j] \in Half
  BY <1>2
<1>6. w \in Word
  BY <1>4, <1>5, WordParts
<1> HIDE DEF w
<1> QED
  BY <1>3, <1>6

(* A branch of the output has the offset that the converter gave it. *)
LEMMA OffsetReadBack ==
  ASSUME IInv, Faithful, OutputCoded, InLongReach, pc = "done", NEW k \in 1..Len(prog),
         is_branch(prog[k].op)
  PROVE  conv_to_pseudo(Fetched(k).instr).simm = prog[k].simm
<1> DEFINE i == prog[k]
           f == Fetched(k).instr
           t == attr[k].target_index + 1
           g == NewAddr(prog)
<1>1. is_branch(f.op) /\ f.simm = g[t] - g[k + 1]
  BY FetchedTransfer
<1>2. HasOffset(attr, k) /\ i.simm = OffsetOf(attr, k)
  BY DEF IInv, OffsetsCorrect, Corrected, Laying, Laid
<1>3. Arrays(prog, attr) /\ Placed(prog, attr)
  BY TypeFacts DEF IInv
<1>4. OffsetOf(attr, k) = g[t] - g[k + 1]
  BY <1>2, <1>3, OffsetValue
<1>5. f \in StructInstr
  <2>1. PICK w \in Word : Fetched(k) = parse_instr_v2(w, Blank)
    BY FetchedWord
  <2> HIDE DEF f
  <2> QED
    BY <2>1, ParseV2Type DEF f
<1> HIDE DEF f, i, g, t
<1>6. conv_to_pseudo(f).simm = f.simm
  BY <1>1, <1>5, TransferKept DEF Transfers
<1> QED
  BY <1>1, <1>2, <1>4, <1>6 DEF f, i

(* The offsets that the analyzer takes to be in reach. *)
ReachesJ(offset) == offset \in -1024..1022
ReachesZ(offset) == offset \in -32..30

(* Which branches are short for the analyzer.                              *)
LEMMA ShortBranch ==
  ASSUME NEW y, ~is_compressible_simple(y)
  PROVE  /\ y.op \in {"B", "BAL"} => (is_compressible(y) <=> ReachesJ(y.simm))
         /\ y.op \in {"BEQZ", "BNEZ"} => (is_compressible(y) <=> ReachesZ(y.simm))
<1> DEFINE Always == y.op \in {"B", "BAL"}
           Zero == y.op \in {"BEQZ", "BNEZ"}
           InJ == y.simm \in -1024..1022
           InZ == y.simm \in -32..30
<1>1. is_compressible(y) <=> is_compressible_simple(y) \/ (Always /\ InJ) \/ (Zero /\ InZ)
  BY DEF is_compressible
<1>2. ~(Always /\ Zero)
  OBVIOUS
<1>3. (ReachesJ(y.simm) <=> InJ) /\ (ReachesZ(y.simm) <=> InZ)
  BY DEF ReachesJ, ReachesZ
<1> HIDE DEF InJ, InZ
<1>4. CASE Always
  BY <1>1, <1>2, <1>3, <1>4
<1>5. CASE Zero
  BY <1>1, <1>2, <1>3, <1>5
<1> QED
  BY <1>4, <1>5

(* They are those that are in the converter's reach.                       *)
LEMMA SameReach ==
  ASSUME JReach = 1024, ZReach = 32, NEW op, NEW offset
  PROVE  /\ op \in {"B", "BAL"} => (offset \in -ReachOf(op)..ReachOf(op) - 2 <=> ReachesJ(offset))
         /\ op \in {"BEQZ", "BNEZ"} => (offset \in -ReachOf(op)..ReachOf(op) - 2 <=> ReachesZ(offset))
<1> DEFINE Within(r) == -r..r - 2
<1>1. Within(1024) = -1024..1022 /\ Within(32) = -32..30
  OBVIOUS
<1>2. offset \in -ReachOf(op)..ReachOf(op) - 2 <=> offset \in Within(ReachOf(op))
  OBVIOUS
<1> HIDE DEF Within
<1>3. (op \in {"B", "BAL"} => ReachOf(op) = 1024) /\ (op \in {"BEQZ", "BNEZ"} => ReachOf(op) = 32)
  BY DEF ReachOf
<1>4. ReachesJ(offset) <=> offset \in Within(1024)
  BY <1>1 DEF ReachesJ
<1>5. ReachesZ(offset) <=> offset \in Within(32)
  BY <1>1 DEF ReachesZ
<1> QED
  BY <1>2, <1>3, <1>4, <1>5

(* Which of what is read back the analyzer takes to be short.              *)
LEMMA ShortReadBack ==
  ASSUME JReach = 1024, ZReach = 32,
         IInv, Faithful, OutputCoded, InLongReach, Reduced, pc = "done", NEW k \in 1..Len(prog)
  PROVE  LET i == prog[k]
         IN is_compressible(conv_to_pseudo(Fetched(k).instr))
              <=> i.compressed \/ (i.op \in {"LW", "SW"} /\ i.rs = 29)
<1> DEFINE i == prog[k]
           w == input[k]
           x == Parsed(w)
           y == conv_to_pseudo(Fetched(k).instr)
<1>1. /\ i \in StructInstr /\ w \in Word /\ Alike(ReadOf(w), i)
  BY TypeFacts DEF IInv, TypeOK, Faithful, FromWords
<1>2. Means(i, y)
  BY CodedMeans
<1>3. is_branch(i.op) => y.simm = i.simm
  BY OffsetReadBack
<1>4. i.op \in PseudoBranch => (i.compressed <=> Compressible(i))
  BY DEF IInv, ShortFit, LongDoNot, Laying, Laid
<1>5. y.op \in {"LW", "SW"} => y.imm % 4 = 0 /\ y.imm < 128
  <2>1. PICK v \in Word : Fetched(k) = parse_instr_v2(v, Blank)
    BY FetchedWord
  <2>2. y = conv_to_pseudo(parse_instr_v2(v, Blank).instr)
    BY <2>1
  <2> HIDE DEF y
  <2> QED
    BY <2>2, StackAccess
<1> HIDE DEF i, w, y
<1>6. /\ i.op = x.op \/ (x.op = "J" /\ i.op = "B") \/ (x.op = "JAL" /\ i.op = "BAL")
      /\ i.op \notin PseudoBranch => i.compressed = is_compressible_simple(x)
      /\ i.op = x.op => Means(x, i)
      /\ i.rs = x.rs
  BY <1>1, MeansRead
<1> HIDE DEF x
<1>7. y.op = i.op
  BY <1>2 DEF Means
<1>8. CASE i.op \in PseudoBranch
  <2>1. Compressible(i) <=> i.simm \in -ReachOf(i.op)..ReachOf(i.op) - 2
    BY <1>1, <1>8, CompressibleMeans
  <2>2. ~is_compressible_simple(y)
    BY <1>7, <1>8, BranchesNotSimple
  <2>3. y.simm = i.simm
    BY <1>3, <1>8, Transferring
  <2>4. is_compressible(y) <=> i.simm \in -ReachOf(i.op)..ReachOf(i.op) - 2
    <3> DEFINE Fits == i.simm \in -ReachOf(i.op)..ReachOf(i.op) - 2
    <3>1. /\ i.op \in {"B", "BAL"} => (Fits <=> ReachesJ(i.simm))
          /\ i.op \in {"BEQZ", "BNEZ"} => (Fits <=> ReachesZ(i.simm))
      BY SameReach
    <3>2. /\ y.op \in {"B", "BAL"} => (is_compressible(y) <=> ReachesJ(y.simm))
          /\ y.op \in {"BEQZ", "BNEZ"} => (is_compressible(y) <=> ReachesZ(y.simm))
      BY <2>2, ShortBranch
    <3> HIDE DEF Fits
    <3>3. i.op \in {"B", "BAL"} \/ i.op \in {"BEQZ", "BNEZ"}
      BY <1>8 DEF PseudoBranch
    <3>4. is_compressible(y) <=> Fits
      BY <1>7, <2>3, <3>1, <3>2, <3>3
    <3> QED
      BY <3>4 DEF Fits
  <2>5. i.op \notin {"LW", "SW"}
    BY <1>8 DEF PseudoBranch
  <2> QED
    BY <1>4, <1>8, <2>1, <2>4, <2>5 DEF i, y
<1>9. CASE i.op \in {"LW", "SW"}
  <2>1. y.rs = i.rs
    BY <1>2, <1>9 DEF Means, WithRs, Commutes, Loads, Stores
  <2>2. is_compressible(y) <=> i.rs = 29
    BY <1>5, <1>7, <1>9, <2>1 DEF is_compressible, is_compressible_simple, Shifts
  <2>3. i.compressed => i.rs = 29
    <3>1. x.op = i.op /\ i.compressed = is_compressible_simple(x)
      BY <1>6, <1>9 DEF PseudoBranch
    <3> QED
      BY <1>6, <1>9, <3>1 DEF is_compressible_simple, Shifts
  <2> QED
    BY <1>9, <2>2, <2>3 DEF i, y
<1>10. CASE i.op \notin PseudoBranch \cup {"LW", "SW"}
  <2>1. x.op = i.op /\ i.compressed = is_compressible_simple(x) /\ Means(x, i)
    BY <1>6, <1>10 DEF PseudoBranch
  <2>2. is_compressible_simple(i) <=> is_compressible_simple(x)
    BY <1>10, <2>1, SimpleAlike
  <2>3. is_compressible_simple(y) <=> is_compressible_simple(i)
    BY <1>2, <1>10, SimpleAlike
  <2>4. is_compressible(y) <=> is_compressible_simple(y)
    BY <1>7, <1>10 DEF is_compressible, PseudoBranch
  <2>5. i.compressed \in BOOLEAN
    BY <1>1, InstrFields
  <2> QED
    BY <1>10, <2>1, <2>2, <2>3, <2>4, <2>5 DEF i, y
<1> QED
  BY <1>8, <1>9, <1>10

(* Every instruction of the output is counted as its word in the input. *)
LEMMA ReadBackCounts ==
  ASSUME JReach = 1024, ZReach = 32,
         IInv, Faithful, OutputCoded, InLongReach, Reduced, pc = "done", NEW k \in 1..Len(prog)
  PROVE  CountedOf(Parsed(input[k]), prog[k], conv_to_pseudo(Fetched(k).instr))
<1> DEFINE i == prog[k]
           w == input[k]
           x == Parsed(w)
           f == Fetched(k).instr
           y == conv_to_pseudo(f)
<1>1. /\ i \in StructInstr /\ w \in Word /\ Alike(ReadOf(w), i) /\ x.op # "INVALID_OP"
  BY TypeFacts DEF IInv, TypeOK, Faithful, FromWords, KnownWords
<1>2. Means(i, y)
  BY CodedMeans
<1>3. is_branch(i.op) => y.simm = i.simm
  BY OffsetReadBack
<1>4. is_compressible(y) <=> i.compressed \/ (i.op \in {"LW", "SW"} /\ i.rs = 29)
  BY ShortReadBack
<1>5. f \in StructInstr
  <2>1. PICK v \in Word : Fetched(k) = parse_instr_v2(v, Blank)
    BY FetchedWord
  <2>2. f = parse_instr_v2(v, Blank).instr
    BY <2>1
  <2> HIDE DEF f
  <2> QED
    BY <2>2, ParseV2Type
<1> HIDE DEF i, w, f
<1>6. /\ i.op = x.op \/ (x.op = "J" /\ i.op = "B") \/ (x.op = "JAL" /\ i.op = "BAL")
      /\ i.op = x.op => Means(x, i)
  BY <1>1, MeansRead
<1>7. conv_to_pseudo(y) = y
  BY <1>5, PseudoTwice
<1>8. conv_to_pseudo(x) = x
  BY <1>1, ParseType, PseudoTwice DEF Parsed
<1> HIDE DEF x, y
<1>9. y.op = i.op
  BY <1>2 DEF Means
<1>10. CountsAs(x, y)
  <2>1. CASE i.op = x.op
    BY <1>2, <1>6, <2>1, MeansCounts, CountsOn
  <2>2. CASE i.op # x.op
    BY <1>6, <1>9, <2>2, JumpCounts
  <2> QED
    BY <2>1, <2>2
<1>11. y.op # "INVALID_OP"
  BY <1>1, <1>6, <1>9
<1>12. CountedOf(x, i, y)
  BY <1>1, <1>3, <1>4, <1>7, <1>8, <1>9, <1>10, <1>11 DEF CountedOf
<1> QED
  BY <1>12 DEF x, i, y, w, f

(* What is counted of the input of a finished conversion is what the       *)
(* converter has read.                                                     *)
LEMMA InputCounts ==
  ASSUME IInv, pc = "done", conv = TRUE, NativeCounted(counted)
  PROVE  \E S : /\ Counts(S, [k \in 1..Len(prog) |-> Parsed(input[k])], Len(prog))
                /\ S[Len(prog)] = counted
<1> DEFINE n == Len(prog)
           F == [k \in 1..n |-> Parsed(input[k])]
<1>1. PICK a, m, P, S :
        /\ Places(P, m, NativeFile, FALSE) /\ Statistics(S, P, m, NativeFile, FALSE, TRUE)
        /\ P[m] = a /\ S[m] = counted /\ ~HasInstr(NativeFile, a, FALSE)
  <2>1. PICK a : CountedFrom(NativeFile, FALSE, TRUE, a, counted, "done")
    BY DEF NativeCounted
  <2> QED
    BY <2>1 DEF CountedFrom
<1>2. input \in Seq(Word) /\ Len(input) = n /\ n \in Nat /\ m \in Nat
  BY <1>1, TypeFacts DEF IInv, TypeOK, WholeInput, Corrected, Laying, Laid, Places
<1>3. /\ m = n
      /\ \A j \in 0..m - 1 : Decoded(NativeFile, P[j] + 1, FALSE).instr = parse_instr(input[j + 1])
  BY <1>1, <1>2, NativePlaces
<1> HIDE DEF n
<1>4. ASSUME NEW j \in 0..n - 1
      PROVE  S[j + 1] = Added(S[j], F[j + 1])
  <2>1. j + 1 \in 1..n
    BY <1>2
  <2>2. Seen(NativeFile, FALSE, TRUE, P[j]) = Parsed(input[j + 1])
    BY <1>3 DEF Seen, Parsed
  <2>3. F[j + 1] = Parsed(input[j + 1])
    BY <2>1
  <2> HIDE DEF F
  <2> QED
    BY <1>1, <1>3, <2>2, <2>3 DEF Statistics
<1> HIDE DEF F
<1>5. Counts(S, F, n)
  BY <1>1, <1>4 DEF Counts, Statistics
<1> QED
  BY <1>1, <1>3, <1>5 DEF F, n

(* What is counted of its output is what a processor fetches there.        *)
LEMMA OutputCounts ==
  ASSUME IInv, OutputCoded, pc = "done", conv = TRUE, OutCounted,
         stage \in {"merge", "done", "crash"}
  PROVE  \E T : /\ Counts(T, [k \in 1..Len(prog) |-> conv_to_pseudo(Fetched(k).instr)], Len(prog))
                /\ T[Len(prog)] = stat
<1> DEFINE n == Len(prog)
           G == [k \in 1..n |-> conv_to_pseudo(Fetched(k).instr)]
           b(k) == NewAddr(prog)[k] \div 2
<1>1. PICK m, P, T :
        /\ Places(P, m, out, TRUE) /\ Statistics(T, P, m, out, TRUE, TRUE)
        /\ P[m] = at /\ T[m] = stat /\ ~HasInstr(out, at, TRUE)
  BY DEF OutCounted, CountedFrom
<1>2. m = n /\ n \in Nat /\ \A j \in 0..m : P[j] = b(j + 1)
  BY <1>1, OutputPlaces
<1>3. \A k \in 1..n : Decoded(out, b(k) + 1, TRUE) = Fetched(k)
  BY OutputAt
<1> HIDE DEF n, b
<1>4. ASSUME NEW j \in 0..n - 1
      PROVE  T[j + 1] = Added(T[j], G[j + 1])
  <2>1. j + 1 \in 1..n /\ j \in 0..m
    BY <1>2
  <2>2. Seen(out, TRUE, TRUE, P[j]) = conv_to_pseudo(Fetched(j + 1).instr)
    BY <1>2, <1>3, <2>1 DEF Seen
  <2>3. G[j + 1] = conv_to_pseudo(Fetched(j + 1).instr)
    BY <2>1
  <2> HIDE DEF G
  <2> QED
    BY <1>1, <1>2, <2>2, <2>3 DEF Statistics
<1> HIDE DEF G
<1>5. Counts(T, G, n)
  BY <1>1, <1>4 DEF Counts, Statistics
<1> QED
  BY <1>1, <1>2, <1>5 DEF G, n

(* The tables of the output are those of the program that was written, and *)
(* those of the input where the table does not depend on the encoding.     *)
LEMMA StatisticsAgree ==
  ASSUME JReach = 1024, ZReach = 32,
         IInv, Faithful, OutputCoded, InLongReach, Reduced, pc = "done", conv = TRUE,
         NativeCounted(counted), OutCounted, stage \in {"merge", "done", "crash"},
         NEW branches, branches = {k \in DOMAIN prog : is_branch(prog[k].op)
                                                         /\ prog[k].op \notin {"BLEZ", "BGTZ"}},
         NEW small, small = {k \in DOMAIN prog : prog[k].compressed
                                \/ (prog[k].op \in {"LW", "SW"} /\ prog[k].rs = 29)}
  PROVE  /\ stat.freq = BagOf([k \in DOMAIN prog |-> prog[k].op])
         /\ stat.freq_comp = BagOf([k \in small |-> prog[k].op])
         /\ stat.branch_list = BagOf([k \in branches |-> Int16(prog[k].simm)])
         /\ CountedAlike(counted, stat) /\ PairsAlike(counted, stat)
         /\ stat.rd_count = counted.rd_count \/ "SLTZ" \in DOMAIN stat.freq
<1> DEFINE n == Len(prog)
           F == [k \in 1..n |-> Parsed(input[k])]
           G == [k \in 1..n |-> conv_to_pseudo(Fetched(k).instr)]
<1>1. n \in Nat /\ DOMAIN prog = 1..n
  <2>1. prog \in Seq(StructInstr)
    BY TypeFacts DEF IInv
  <2> QED
    BY <2>1
<1>2. PICK S : Counts(S, F, n) /\ S[n] = counted
  BY InputCounts
<1>3. PICK T : Counts(T, G, n) /\ T[n] = stat
  BY OutputCounts
<1>4. \A k \in 1..n : CountedOf(F[k], prog[k], G[k])
  <2> SUFFICES ASSUME NEW k \in 1..n PROVE CountedOf(F[k], prog[k], G[k])
    OBVIOUS
  <2>1. F[k] = Parsed(input[k]) /\ G[k] = conv_to_pseudo(Fetched(k).instr)
    OBVIOUS
  <2> HIDE DEF F, G
  <2> QED
    BY <2>1, ReadBackCounts
<1> HIDE DEF F, G, n
<1>5. \A k \in 1..n : /\ G[k].op = prog[k].op /\ G[k].op # "INVALID_OP" /\ F[k].op # "INVALID_OP"
                      /\ (is_compressible(G[k]) <=> prog[k].compressed
                            \/ (prog[k].op \in {"LW", "SW"} /\ prog[k].rs = 29))
                      /\ (is_branch(prog[k].op) => G[k].simm = prog[k].simm)
                      /\ CountsAs(F[k], G[k])
                      /\ conv_to_pseudo(F[k]).op = F[k].op /\ conv_to_pseudo(G[k]).op = G[k].op
  BY <1>4 DEF CountedOf
<1>6. /\ CountedAlike(counted, stat) /\ PairsAlike(counted, stat)
      /\ (\A k \in 1..n : F[k].op # "SLTZ") => stat.rd_count = counted.rd_count
  BY <1>1, <1>2, <1>3, <1>5, AlikeTables
<1>7. small = {k \in 1..n : is_compressible(G[k])}
  BY <1>1, <1>5
<1>8. stat.freq = BagOf([k \in 1..n |-> G[k].op])
      /\ stat.freq_comp = BagOf([k \in small |-> G[k].op])
  <2>1. /\ n \in Nat /\ Counts(T, G, n) /\ \A k \in 1..n : G[k].op # "INVALID_OP"
        /\ small = {k \in 1..n : is_compressible(G[k])}
    BY <1>1, <1>3, <1>5, <1>7
  <2>2. T[n].freq = BagOf([k \in 1..n |-> G[k].op])
        /\ T[n].freq_comp = BagOf([k \in small |-> G[k].op])
    BY <2>1, TablesCollect
  <2> QED
    BY <1>3, <2>2
<1>9. stat.freq = BagOf([k \in DOMAIN prog |-> prog[k].op])
  <2>1. [k \in 1..n |-> G[k].op] = [k \in DOMAIN prog |-> prog[k].op]
    BY <1>1, <1>5
  <2> QED
    BY <1>8, <2>1
<1>10. stat.freq_comp = BagOf([k \in small |-> prog[k].op])
  <2>1. [k \in small |-> G[k].op] = [k \in small |-> prog[k].op]
    BY <1>5, <1>7
  <2> QED
    BY <1>8, <2>1
<1>11. \A k \in 1..n : k \in branches <=> BranchDistances(G[k]) # {}
  <2> SUFFICES ASSUME NEW k \in 1..n PROVE k \in branches <=> BranchDistances(G[k]) # {}
    OBVIOUS
  <2>1. k \in branches <=> is_branch(G[k].op) /\ G[k].op \notin {"BLEZ", "BGTZ"}
    BY <1>1, <1>5
  <2> QED
    BY <2>1 DEF BranchDistances, is_branch, NativeBranch, PseudoBranch
<1>12. branches \in SUBSET (1..n) /\ \A k \in branches : is_branch(prog[k].op)
  BY <1>1
<1>13. stat.branch_list = BagOf([k \in branches |-> Int16(G[k].simm)])
  <2>1. /\ n \in Nat /\ Counts(T, G, n) /\ \A k \in 1..n : G[k].op # "INVALID_OP"
        /\ Branching(branches, G, n)
    BY <1>1, <1>3, <1>5, <1>11, <1>12 DEF Branching
  <2> DEFINE far == [k \in branches |-> Int16(G[k].simm)]
  <2>2. far = [k \in branches |-> Int16(G[k].simm)]
    OBVIOUS
  <2> HIDE DEF far
  <2>3. T[n].branch_list = BagOf(far)
    BY <2>1, <2>2, DistancesCollect
  <2> QED
    BY <1>3, <2>2, <2>3
<1>14. stat.branch_list = BagOf([k \in branches |-> Int16(prog[k].simm)])
  <2>1. [k \in branches |-> Int16(G[k].simm)] = [k \in branches |-> Int16(prog[k].simm)]
    BY <1>5, <1>12
  <2> QED
    BY <1>13, <2>1
<1>15. ASSUME NEW k \in 1..n, F[k].op = "SLTZ"
       PROVE  "SLTZ" \in DOMAIN stat.freq
  <2> DEFINE f == [j \in 1..n |-> G[j].op]
  <2>1. f[k] = "SLTZ" /\ DOMAIN f = 1..n
    BY <1>5, <1>15 DEF CountsAs
  <2> HIDE DEF f
  <2>2. IsFiniteSet(DOMAIN f)
    <3>1. IsFiniteSet(1..n)
      BY <1>1, FS_Interval
    <3> QED
      BY <2>1, <3>1
  <2>3. DOMAIN BagOf(f) = {f[j] : j \in DOMAIN f}
    BY <2>2, BagOfTimes
  <2> QED
    BY <1>8, <2>1, <2>3 DEF f
<1> QED
  BY <1>6, <1>9, <1>10, <1>14, <1>15

(* What the analyzer with option -p finds in a converted program is what   *)
(* the converter wrote, and what it found in the native program where that *)
(* does not depend on the encoding: for every program that is no longer    *)
(* than a long branch reaches. The reaches of the short branches have to   *)
(* be those of the code: is_compressible compares with them as numbers.    *)
THEOREM AnalyzerCountsWritten ==
  ASSUME JReach = 1024, ZReach = 32, \A p \in Programs : 2 * Len(p) <= LongReach
  PROVE  ISpec => []AnalyzerAgrees
<1>1. ListingsInv => AnalyzerAgrees
  <2> SUFFICES ASSUME ListingsInv, Converting, tool = "count -c", conv, Reduced,
                      stage \in {"merge", "done", "crash"},
                      NEW branches,
                      branches = {k \in DOMAIN prog : is_branch(prog[k].op)
                                                        /\ prog[k].op \notin {"BLEZ", "BGTZ"}},
                      NEW small,
                      small = {k \in DOMAIN prog : prog[k].compressed
                                 \/ (prog[k].op \in {"LW", "SW"} /\ prog[k].rs = 29)}
               PROVE  /\ stat.freq = BagOf([k \in DOMAIN prog |-> prog[k].op])
                      /\ stat.freq_comp = BagOf([k \in small |-> prog[k].op])
                      /\ stat.branch_list = BagOf([k \in branches |-> Int16(prog[k].simm)])
                      /\ BagCardinality(stat.nops) = BagCardinality(counted.nops)
                      /\ \A table \in {"uimm_list", "simm_list", "mem_stat", "rs_count"} :
                           stat[table] = counted[table]
                      /\ stat.rd_count = counted.rd_count \/ "SLTZ" \in DOMAIN stat.freq
    BY DEF AnalyzerAgrees
  <2>1. /\ input # <<>> /\ pc = "done" /\ IInv /\ Faithful /\ OutputCoded /\ input \in Programs
        /\ conv = TRUE
    BY DEF ListingsInv, InspectOK, OriginOK, Converting
  <2>2. InLongReach
    BY <2>1, ProgramsInReach
  <2>3. NativeCounted(counted) /\ OutCounted
    BY DEF ListingsInv, ReadOK
  <2>4. /\ stat.freq = BagOf([k \in DOMAIN prog |-> prog[k].op])
        /\ stat.freq_comp = BagOf([k \in small |-> prog[k].op])
        /\ stat.branch_list = BagOf([k \in branches |-> Int16(prog[k].simm)])
        /\ CountedAlike(counted, stat) /\ PairsAlike(counted, stat)
        /\ stat.rd_count = counted.rd_count \/ "SLTZ" \in DOMAIN stat.freq
    BY <2>1, <2>2, <2>3, StatisticsAgree
  <2> QED
    BY <2>4 DEF CountedAlike, PairsAlike
<1> QED
  BY <1>1, ListingsInvariant, PTL
=============================================================================
