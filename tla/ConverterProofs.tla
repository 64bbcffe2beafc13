--------------------------- MODULE ConverterProofs -------------------------
(***************************************************************************)
(* The converter keeps the layout of the program consistent and every      *)
(* short branch in its reach, for every input file and every reach of the  *)
(* short formats.                                                          *)
(***************************************************************************)
EXTENDS Converter, LayoutProofs, InstrProofs

(***************************************************************************)
(* Instructions and attributes with one field changed                      *)
(***************************************************************************)
LEMMA InstrFields ==
  ASSUME NEW i \in StructInstr
  PROVE  /\ i.op \in Operation /\ i.simm \in Int /\ i.addr \in Nat /\ i.compressed \in BOOLEAN
         /\ Size(i) \in {2, 4} /\ Size(i) \in Nat
BY DEF StructInstr, Size

(* What the converter may change of an instruction: the offset of a        *)
(* branch, the target of a jump, whether a pseudo branch is short; and it  *)
(* may make a branch of a jump.                                            *)
Alike(i, j) ==
  /\ j.rs = i.rs /\ j.rt = i.rt /\ j.rd = i.rd /\ j.shamt = i.shamt /\ j.imm = i.imm
  /\ \/ j.op = i.op
     \/ i.op = "J" /\ j.op = "B"
     \/ i.op = "JAL" /\ j.op = "BAL"
  /\ is_branch(j.op) \/ j.simm = i.simm
  /\ IsJump(i.op) \/ j.addr = i.addr
  /\ j.op \in PseudoBranch \/ j.compressed = i.compressed

(* The operations with a target, in groups that do not overlap. *)
LEMMA Transferring ==
  /\ \A op : IsJump(op) => ~is_branch(op) /\ op \notin PseudoBranch
  /\ \A op \in PseudoBranch : is_branch(op)
  /\ {"B", "BAL"} \subseteq PseudoBranch
BY DEF IsJump, is_branch, NativeBranch, PseudoBranch

(* Instructions that are alike stay alike. *)
LEMMA AlikeOrder ==
  /\ \A i : Alike(i, i)
  /\ \A i, j, l : Alike(i, j) /\ Alike(j, l) => Alike(i, l)
<1>1. \A i : Alike(i, i)
  BY Zenon DEF Alike
<1>2. ASSUME NEW i, NEW j, NEW l, Alike(i, j), Alike(j, l) PROVE Alike(i, l)
  <2>1. \/ l.op = j.op
        \/ j.op = "J" /\ l.op = "B" /\ i.op = "J"
        \/ j.op = "JAL" /\ l.op = "BAL" /\ i.op = "JAL"
    BY <1>2 DEF Alike
  <2>2. IsJump(j.op) => i.op = j.op
    BY <1>2 DEF Alike, IsJump
  <2>3. l.op \notin PseudoBranch => l.op = j.op
    BY <2>1 DEF PseudoBranch
  <2>4. ~is_branch(l.op) => l.op = j.op
    BY <2>3, Transferring
  <2>5. is_branch(l.op) \/ l.simm = i.simm
    BY <1>2, <2>4 DEF Alike
  <2>6. IsJump(i.op) \/ l.addr = i.addr
    BY <1>2, <2>2 DEF Alike
  <2>7. l.op \in PseudoBranch \/ l.compressed = i.compressed
    BY <1>2, <2>3 DEF Alike
  <2>8. \/ l.op = i.op
        \/ i.op = "J" /\ l.op = "B"
        \/ i.op = "JAL" /\ l.op = "BAL"
    BY <1>2, <2>1 DEF Alike
  <2> QED
    BY <1>2, <2>5, <2>6, <2>7, <2>8 DEF Alike
<1> QED
  BY <1>1, <1>2

(* Setting simm gives an instruction that differs in simm only. *)
LEMMA WithOffset ==
  ASSUME NEW i \in StructInstr, NEW n \in Int
  PROVE  /\ [i EXCEPT !.simm = n] \in StructInstr
         /\ [i EXCEPT !.simm = n].op = i.op /\ [i EXCEPT !.simm = n].simm = n
         /\ [i EXCEPT !.simm = n].compressed = i.compressed
         /\ is_branch(i.op) => Alike(i, [i EXCEPT !.simm = n])
BY DEF StructInstr, Alike

(* Setting compressed gives an instruction that differs in compressed only. *)
LEMMA WithFlag ==
  ASSUME NEW i \in StructInstr, NEW b \in BOOLEAN
  PROVE  /\ [i EXCEPT !.compressed = b] \in StructInstr
         /\ [i EXCEPT !.compressed = b].op = i.op /\ [i EXCEPT !.compressed = b].simm = i.simm
         /\ [i EXCEPT !.compressed = b].compressed = b
         /\ i.op \in PseudoBranch \/ b = i.compressed => Alike(i, [i EXCEPT !.compressed = b])
BY DEF StructInstr, Alike

(* Setting addr leaves what the layout depends on. *)
LEMMA WithAddr ==
  ASSUME NEW i \in StructInstr, NEW n \in Nat
  PROVE  /\ [i EXCEPT !.addr = n] \in StructInstr
         /\ [i EXCEPT !.addr = n].op = i.op /\ [i EXCEPT !.addr = n].simm = i.simm
         /\ [i EXCEPT !.addr = n].compressed = i.compressed
         /\ [i EXCEPT !.addr = n].addr = n
         /\ IsJump(i.op) => Alike(i, [i EXCEPT !.addr = n])
BY DEF StructInstr, Alike

(* The branch that jump_to_branch puts in the place of a jump. *)
LEMMA AsBranch ==
  ASSUME NEW i \in StructInstr, NEW n \in Int
  PROVE  /\ Converted(i, n) \in StructInstr
         /\ Converted(i, n).op \in {"B", "BAL"}
         /\ Converted(i, n).simm = n
         /\ Converted(i, n).compressed = i.compressed
         /\ IsJump(i.op) => Alike(i, Converted(i, n))
<1> DEFINE op == IF i.op = "J" THEN "B" ELSE "BAL"
<1>1. op \in {"B", "BAL"} /\ op \in Operation
  BY DEF Operation, Pseudo, PseudoBranch
<1>2. IsJump(i.op) => (i.op = "J" /\ op = "B") \/ (i.op = "JAL" /\ op = "BAL")
  BY DEF IsJump
<1> HIDE DEF op
<1>3. Converted(i, n) = [i EXCEPT !.simm = n, !.op = op]
  BY DEF Converted, op
<1>4. is_branch(op) /\ op \in PseudoBranch
  BY <1>1, Transferring
<1>5. IsJump(i.op) => Alike(i, Converted(i, n))
  BY <1>2, <1>3, <1>4 DEF StructInstr, Alike
<1> QED
  BY <1>1, <1>3, <1>5 DEF StructInstr

(* What an update of one attribute leaves of the others. *)
LEMMA AttrFields ==
  ASSUME NEW a \in InstrAttr, NEW n \in Nat
  PROVE  /\ a.new_addr \in Nat /\ a.target_index \in Int /\ a.jump_target \in Nat
         /\ [a EXCEPT !.new_addr = n] \in InstrAttr
         /\ [a EXCEPT !.new_addr = n].new_addr = n
         /\ [a EXCEPT !.new_addr = n].target_index = a.target_index
         /\ [a EXCEPT !.jump_target = n] \in InstrAttr
         /\ [a EXCEPT !.jump_target = n].new_addr = a.new_addr
         /\ [a EXCEPT !.jump_target = n].target_index = a.target_index
         /\ [a EXCEPT !.jump_target = n].jump_target = n
BY DEF InstrAttr

(***************************************************************************)
(* Addresses of a program                                                  *)
(***************************************************************************)
SizesOf(p) == [k \in DOMAIN p |-> Size(p[k])]

(* The sizes of a program are the sequence that Layout adds up. *)
LEMMA SizesOfType ==
  ASSUME NEW p \in Seq(StructInstr)
  PROVE  /\ SizesOf(p) \in Seq(Nat) /\ Len(SizesOf(p)) = Len(p)
         /\ \A k \in 1..Len(p) : SizesOf(p)[k] = Size(p[k])
         /\ NewAddr(p) = Addresses(SizesOf(p))
<1>1. Len(p) \in Nat /\ DOMAIN p = 1..Len(p) /\ \A k \in 1..Len(p) : p[k] \in StructInstr
  OBVIOUS
<1>2. \A k \in 1..Len(p) : Size(p[k]) \in Nat
  BY <1>1, InstrFields
<1>3. SizesOf(p) \in [1..Len(p) -> Nat]
  BY <1>1, <1>2 DEF SizesOf
<1>4. SizesOf(p) \in Seq(Nat) /\ Len(SizesOf(p)) = Len(p)
  BY <1>1, <1>3
<1> QED
  BY <1>1, <1>4 DEF SizesOf, NewAddr

(* Every new address is the one before it and the size in between. *)
LEMMA NewAddrSteps ==
  ASSUME NEW p \in Seq(StructInstr)
  PROVE  /\ NewAddr(p) \in [1..Len(p) + 1 -> Nat]
         /\ NewAddr(p)[1] = 0
         /\ \A k \in 1..Len(p) : NewAddr(p)[k + 1] = NewAddr(p)[k] + Size(p[k])
BY SizesOfType, AddressesSteps

(* The addresses depend on the compressed flags alone.                     *)
LEMMA NewAddrSame ==
  ASSUME NEW p \in Seq(StructInstr), NEW q \in Seq(StructInstr), Len(p) = Len(q),
         \A k \in 1..Len(p) : p[k].compressed = q[k].compressed
  PROVE  NewAddr(p) = NewAddr(q)
<1>1. \A k \in 1..Len(p) : Size(p[k]) = Size(q[k])
  BY Zenon DEF Size
<1>2. DOMAIN p = 1..Len(p) /\ DOMAIN q = 1..Len(p)
  OBVIOUS
<1>3. SizesOf(p) = SizesOf(q)
  BY <1>1, <1>2 DEF SizesOf
<1> QED
  BY <1>3, SizesOfType

(* An instruction more leaves the addresses as they are.                   *)
LEMMA NewAddrAppend ==
  ASSUME NEW p \in Seq(StructInstr), NEW i \in StructInstr
  PROVE  /\ \A k \in 1..Len(p) + 1 : NewAddr(Append(p, i))[k] = NewAddr(p)[k]
         /\ NewAddr(Append(p, i))[Len(p) + 2] = NewAddr(p)[Len(p) + 1] + Size(i)
<1> DEFINE q == Append(p, i)
<1>1. /\ q \in Seq(StructInstr) /\ Len(q) = Len(p) + 1 /\ q[Len(p) + 1] = i
      /\ \A k \in 1..Len(p) : q[k] = p[k]
  OBVIOUS
<1>2. Len(p) \in Nat /\ Len(p) + 1 \in 1..Len(p) + 1
  OBVIOUS
<1> HIDE DEF q
<1>3. \A k \in 1..Len(p) : SizesOf(q)[k] = SizesOf(p)[k]
  <2> TAKE k \in 1..Len(p)
  <2>1. k \in 1..Len(q)
    BY <1>1, <1>2
  <2>2. SizesOf(q)[k] = Size(q[k]) /\ SizesOf(p)[k] = Size(p[k])
    BY <1>1, <2>1, SizesOfType, Zenon
  <2> QED
    BY <1>1, <2>2
<1>4. \A k \in 1..Len(p) + 1 : NewAddr(q)[k] = NewAddr(p)[k]
  <2>1. /\ SizesOf(p) \in Seq(Nat) /\ SizesOf(q) \in Seq(Nat)
        /\ NewAddr(p) = Addresses(SizesOf(p)) /\ NewAddr(q) = Addresses(SizesOf(q))
        /\ Len(p) <= Len(SizesOf(p)) /\ Len(p) <= Len(SizesOf(q))
    BY <1>1, <1>2, SizesOfType
  <2> QED
    BY <1>2, <1>3, <2>1, AddressesPrefix
<1>5. NewAddr(q)[(Len(p) + 1) + 1] = NewAddr(q)[Len(p) + 1] + Size(i)
  BY <1>1, <1>2, NewAddrSteps
<1>6. (Len(p) + 1) + 1 = Len(p) + 2
  BY <1>2
<1> QED
  BY <1>2, <1>4, <1>5, <1>6 DEF q

(* Shortening instructions keeps what is in reach in reach.                *)
LEMMA NewAddrShrink ==
  ASSUME NEW p \in Seq(StructInstr), NEW q \in Seq(StructInstr), Len(p) = Len(q),
         \A k \in 1..Len(p) : p[k].compressed => q[k].compressed,
         NEW s \in 1..Len(p) + 1, NEW t \in 1..Len(p) + 1,
         NEW m \in Nat, m >= 2, NewAddr(p)[t] - NewAddr(p)[s] \in -m..m - 2
  PROVE  NewAddr(q)[t] - NewAddr(q)[s] \in -m..m - 2
<1>1. \A k \in 1..Len(p) : SizesOf(q)[k] <= SizesOf(p)[k]
  <2> TAKE k \in 1..Len(p)
  <2>1. Size(q[k]) <= Size(p[k])
    BY DEF Size
  <2> QED
    BY <2>1, SizesOfType
<1>2. /\ NewAddr(p)[t] \in Nat /\ NewAddr(p)[s] \in Nat
      /\ NewAddr(q)[t] \in Nat /\ NewAddr(q)[s] \in Nat
  BY NewAddrSteps
<1>3. Len(p) \in Nat
  OBVIOUS
<1>4. \A i \in 1..Len(p) + 1 : \A j \in i..Len(p) + 1 :
        /\ 0 <= NewAddr(q)[j] - NewAddr(q)[i]
        /\ NewAddr(q)[j] - NewAddr(q)[i] <= NewAddr(p)[j] - NewAddr(p)[i]
  BY <1>1, SizesOfType, AddressesShrink
<1>5. \/ t \in s..Len(p) + 1
      \/ s \in t..Len(p) + 1
  BY <1>3
<1>6. \/ /\ 0 <= NewAddr(q)[t] - NewAddr(q)[s]
         /\ NewAddr(q)[t] - NewAddr(q)[s] <= NewAddr(p)[t] - NewAddr(p)[s]
      \/ /\ 0 <= NewAddr(q)[s] - NewAddr(q)[t]
         /\ NewAddr(q)[s] - NewAddr(q)[t] <= NewAddr(p)[s] - NewAddr(p)[t]
  BY <1>4, <1>5
<1> QED
  BY <1>2, <1>6, StillInReach

(***************************************************************************)
(* The functions main calls, element by element                            *)
(***************************************************************************)
Arrays(p, a) == p \in Seq(StructInstr) /\ a \in Seq(InstrAttr) /\ Len(a) = Len(p)

(* The addresses in the second array are those of the first.               *)
Placed(p, a) == \A k \in 1..Len(p) : a[k].new_addr = NewAddr(p)[k]

(* The elements of the two parallel arrays. *)
LEMMA ArraysElements ==
  ASSUME NEW p, NEW a, Arrays(p, a)
  PROVE  /\ Len(p) \in Nat /\ DOMAIN p = 1..Len(p) /\ DOMAIN a = 1..Len(p)
         /\ \A k \in 1..Len(p) : p[k] \in StructInstr /\ a[k] \in InstrAttr
BY DEF Arrays

(* A function on the indices whose values have their type is an array.     *)
LEMMA ArrayType ==
  ASSUME NEW S, NEW n \in Nat, NEW f, f = [k \in 1..n |-> f[k]], \A k \in 1..n : f[k] \in S
  PROVE  f \in Seq(S) /\ Len(f) = n
<1>1. f \in [1..n -> S]
  OBVIOUS
<1> QED
  BY <1>1

(* The new offset of an instruction with a target inside the program. *)
LEMMA OffsetType ==
  ASSUME NEW p, NEW a, Arrays(p, a), NEW k \in 1..Len(p), HasOffset(a, k)
  PROVE  /\ a[k].target_index + 1 \in 1..Len(p) /\ k + 1 \in 1..Len(p)
         /\ OffsetOf(a, k) \in Int
<1>1. /\ Len(p) \in Nat /\ Len(a) = Len(p)
      /\ \A j \in 1..Len(p) : a[j] \in InstrAttr
  BY ArraysElements DEF Arrays
<1>2. a[k].target_index + 1 \in 1..Len(p) /\ k + 1 \in 1..Len(p)
  BY <1>1 DEF HasOffset
<1>3. a[a[k].target_index + 1].new_addr \in Nat /\ a[k + 1].new_addr \in Nat
  BY <1>1, <1>2, AttrFields
<1> QED
  BY <1>2, <1>3 DEF OffsetOf

(* Once the addresses are placed it is the distance to the target. *)
LEMMA OffsetValue ==
  ASSUME NEW p, NEW a, Arrays(p, a), Placed(p, a), NEW k \in 1..Len(p), HasOffset(a, k)
  PROVE  OffsetOf(a, k) = NewAddr(p)[a[k].target_index + 1] - NewAddr(p)[k + 1]
BY OffsetType DEF OffsetOf, Placed

(* Offsets depend on new addresses and target indices only. *)
LEMMA SameOffsets ==
  ASSUME NEW p, NEW a, NEW b, Arrays(p, a), Arrays(p, b), NEW k \in 1..Len(p),
         \A j \in 1..Len(p) : b[j].new_addr = a[j].new_addr
                             /\ b[j].target_index = a[j].target_index,
         HasOffset(a, k)
  PROVE  HasOffset(b, k) /\ OffsetOf(b, k) = OffsetOf(a, k)
<1>1. HasOffset(b, k)
  BY DEF HasOffset, Arrays
<1>2. a[k].target_index + 1 \in 1..Len(p) /\ k + 1 \in 1..Len(p)
  BY OffsetType
<1> QED
  BY <1>1, <1>2 DEF OffsetOf

(* correct_branch_offsets gives every branch its offset and keeps op and compressed. *)
LEMMA OffsetsCorrected ==
  ASSUME NEW p, NEW a, Arrays(p, a), BranchesHaveOffsets(p, a)
  PROVE  LET q == correct_branch_offsets(p, a) IN
         /\ Arrays(q, a) /\ Len(q) = Len(p)
         /\ \A k \in 1..Len(p) :
              /\ q[k].op = p[k].op /\ q[k].compressed = p[k].compressed
              /\ is_branch(p[k].op) => q[k].simm = OffsetOf(a, k)
              /\ Alike(p[k], q[k])
<1> DEFINE q == correct_branch_offsets(p, a)
<1>1. /\ Len(p) \in Nat /\ DOMAIN p = 1..Len(p)
      /\ \A k \in 1..Len(p) : p[k] \in StructInstr
  BY ArraysElements
<1>2. /\ q = [k \in 1..Len(p) |-> q[k]]
      /\ \A k \in 1..Len(p) :
           q[k] = IF is_branch(p[k].op) THEN [p[k] EXCEPT !.simm = OffsetOf(a, k)] ELSE p[k]
  BY <1>1 DEF correct_branch_offsets
<1> HIDE DEF q
<1>3. \A k \in 1..Len(p) :
        /\ q[k] \in StructInstr
        /\ q[k].op = p[k].op /\ q[k].compressed = p[k].compressed
        /\ is_branch(p[k].op) => q[k].simm = OffsetOf(a, k)
        /\ Alike(p[k], q[k])
  <2> TAKE k \in 1..Len(p)
  <2>1. p[k] \in StructInstr
    BY <1>1
  <2>2. CASE is_branch(p[k].op)
    <3>1. OffsetOf(a, k) \in Int
      BY <1>1, <2>2, OffsetType DEF BranchesHaveOffsets
    <3> DEFINE n == OffsetOf(a, k)
    <3>2. q[k] = [p[k] EXCEPT !.simm = n]
      BY <1>2, <2>2
    <3> HIDE DEF n
    <3>3. /\ [p[k] EXCEPT !.simm = n] \in StructInstr
          /\ [p[k] EXCEPT !.simm = n].op = p[k].op
          /\ [p[k] EXCEPT !.simm = n].simm = n
          /\ [p[k] EXCEPT !.simm = n].compressed = p[k].compressed
          /\ Alike(p[k], [p[k] EXCEPT !.simm = n])
      BY <2>1, <2>2, <3>1, WithOffset DEF n
    <3> QED
      BY <3>2, <3>3, Zenon DEF n
  <2>3. CASE ~is_branch(p[k].op)
    BY <1>2, <2>1, <2>3, AlikeOrder, Zenon
  <2> QED
    BY <2>2, <2>3, Zenon
<1>4. q \in Seq(StructInstr) /\ Len(q) = Len(p)
  BY <1>1, <1>2, <1>3, ArrayType
<1> QED
  BY <1>3, <1>4 DEF q, Arrays

(* correct_jump_targets leaves addresses and target indices. *)
LEMMA TargetsCorrected ==
  ASSUME NEW p, NEW a, Arrays(p, a), JumpsHaveOffsets(p, a)
  PROVE  LET b == correct_jump_targets(p, a) IN
         /\ Arrays(p, b)
         /\ \A k \in 1..Len(p) :
              /\ b[k].new_addr = a[k].new_addr /\ b[k].target_index = a[k].target_index
              /\ IsJump(p[k].op) => b[k].jump_target = a[a[k].target_index + 1].new_addr
<1> DEFINE b == correct_jump_targets(p, a)
           to(k) == a[a[k].target_index + 1].new_addr
<1>1. /\ Len(p) \in Nat /\ DOMAIN p = 1..Len(p) /\ DOMAIN a = 1..Len(p)
      /\ \A k \in 1..Len(p) : a[k] \in InstrAttr
  BY ArraysElements
<1>2. /\ b = [k \in 1..Len(p) |-> b[k]]
      /\ \A k \in 1..Len(p) :
           b[k] = IF IsJump(p[k].op) THEN [a[k] EXCEPT !.jump_target = to(k)] ELSE a[k]
  BY <1>1 DEF correct_jump_targets
<1>3. \A k \in 1..Len(p) : IsJump(p[k].op) => to(k) \in Nat
  <2> TAKE k \in 1..Len(p)
  <2> HAVE IsJump(p[k].op)
  <2>1. HasOffset(a, k)
    BY <1>1 DEF JumpsHaveOffsets
  <2>2. a[k].target_index + 1 \in 1..Len(p)
    BY <2>1, OffsetType
  <2> QED
    BY <1>1, <2>2, AttrFields
<1> HIDE DEF b, to
<1>4. \A k \in 1..Len(p) :
        /\ b[k] \in InstrAttr
        /\ b[k].new_addr = a[k].new_addr /\ b[k].target_index = a[k].target_index
        /\ IsJump(p[k].op) => b[k].jump_target = to(k)
  <2> TAKE k \in 1..Len(p)
  <2>1. CASE IsJump(p[k].op)
    <3> DEFINE n == to(k)
    <3>1. n \in Nat /\ a[k] \in InstrAttr /\ b[k] = [a[k] EXCEPT !.jump_target = n]
      BY <1>1, <1>2, <1>3, <2>1
    <3> HIDE DEF n
    <3>2. /\ [a[k] EXCEPT !.jump_target = n] \in InstrAttr
          /\ [a[k] EXCEPT !.jump_target = n].new_addr = a[k].new_addr
          /\ [a[k] EXCEPT !.jump_target = n].target_index = a[k].target_index
          /\ [a[k] EXCEPT !.jump_target = n].jump_target = n
      BY <3>1, AttrFields, Zenon
    <3> QED
      BY <3>1, <3>2, Zenon DEF n
  <2>2. CASE ~IsJump(p[k].op)
    BY <1>1, <1>2, <2>2
  <2> QED
    BY <2>1, <2>2
<1>5. b \in Seq(InstrAttr) /\ Len(b) = Len(p)
  BY <1>1, <1>2, <1>4, ArrayType
<1> QED
  BY <1>4, <1>5 DEF b, to, Arrays

(* calc_new_addr places every instruction behind the one before it. *)
LEMMA AddressesRecalculated ==
  ASSUME NEW p, NEW a, Arrays(p, a)
  PROVE  LET b == calc_new_addr(p, a) IN
         /\ Arrays(p, b) /\ Placed(p, b)
         /\ \A k \in 1..Len(p) : b[k].target_index = a[k].target_index
<1> DEFINE b == calc_new_addr(p, a)
           addr == NewAddr(p)
<1>1. /\ Len(p) \in Nat /\ DOMAIN a = 1..Len(p) /\ p \in Seq(StructInstr)
      /\ \A k \in 1..Len(p) : a[k] \in InstrAttr
  BY ArraysElements DEF Arrays
<1>2. /\ b = [k \in 1..Len(p) |-> b[k]]
      /\ \A k \in 1..Len(p) : b[k] = [a[k] EXCEPT !.new_addr = addr[k]]
  BY <1>1 DEF calc_new_addr
<1>3. addr \in [1..Len(p) + 1 -> Nat]
  BY <1>1, NewAddrSteps
<1> HIDE DEF b, addr
<1>4. \A k \in 1..Len(p) :
        /\ b[k] \in InstrAttr
        /\ b[k].new_addr = addr[k] /\ b[k].target_index = a[k].target_index
  <2> TAKE k \in 1..Len(p)
  <2> DEFINE n == addr[k]
  <2>1. n \in Nat /\ a[k] \in InstrAttr /\ b[k] = [a[k] EXCEPT !.new_addr = n]
    BY <1>1, <1>2, <1>3
  <2> HIDE DEF n
  <2>2. /\ [a[k] EXCEPT !.new_addr = n] \in InstrAttr
        /\ [a[k] EXCEPT !.new_addr = n].new_addr = n
        /\ [a[k] EXCEPT !.new_addr = n].target_index = a[k].target_index
    BY <2>1, AttrFields, Zenon
  <2> QED
    BY <2>1, <2>2, Zenon DEF n
<1>5. b \in Seq(InstrAttr) /\ Len(b) = Len(p)
  BY <1>1, <1>2, <1>4, ArrayType
<1> QED
  BY <1>1, <1>4, <1>5 DEF b, addr, Arrays, Placed

(* The reach of the short format of a branch. *)
ReachOf(op) == IF op \in {"B", "BAL"} THEN JReach ELSE ZReach

(* A pseudo branch is compressible exactly when its offset is in reach. *)
LEMMA CompressibleMeans ==
  ASSUME NEW i \in StructInstr
  PROVE  /\ Compressible(i) \in BOOLEAN
         /\ i.op \in PseudoBranch =>
              (Compressible(i) <=> i.simm \in -ReachOf(i.op)..ReachOf(i.op) - 2)
         /\ i.op \notin PseudoBranch => (Compressible(i) <=> i.compressed)
BY DEF Compressible, ReachOf, PseudoBranch

(* compress_flags sets compressed to what op and simm allow and keeps both. *)
LEMMA FlagsSet ==
  ASSUME NEW p \in Seq(StructInstr)
  PROVE  LET q == compress_flags(p) IN
         /\ q \in Seq(StructInstr) /\ Len(q) = Len(p)
         /\ \A k \in 1..Len(p) : /\ q[k].op = p[k].op /\ q[k].simm = p[k].simm
                                 /\ (q[k].compressed <=> Compressible(p[k]))
                                 /\ Alike(p[k], q[k])
<1> DEFINE q == compress_flags(p)
<1>1. /\ Len(p) \in Nat /\ DOMAIN p = 1..Len(p)
      /\ \A k \in 1..Len(p) : p[k] \in StructInstr
  OBVIOUS
<1>2. /\ q = [k \in 1..Len(p) |-> q[k]]
      /\ \A k \in 1..Len(p) : q[k] = [p[k] EXCEPT !.compressed = Compressible(p[k])]
  BY <1>1 DEF compress_flags
<1> HIDE DEF q
<1>3. \A k \in 1..Len(p) :
        /\ q[k] \in StructInstr /\ q[k].op = p[k].op /\ q[k].simm = p[k].simm
        /\ (q[k].compressed <=> Compressible(p[k]))
        /\ Alike(p[k], q[k])
  <2> TAKE k \in 1..Len(p)
  <2> DEFINE b == Compressible(p[k])
  <2>1. /\ b \in BOOLEAN /\ p[k] \in StructInstr /\ q[k] = [p[k] EXCEPT !.compressed = b]
        /\ p[k].op \in PseudoBranch \/ b = p[k].compressed
    <3>1. p[k] \in StructInstr /\ p[k].compressed \in BOOLEAN
      BY <1>1, InstrFields
    <3>2. b \in BOOLEAN /\ (p[k].op \in PseudoBranch \/ (b <=> p[k].compressed))
      BY <3>1, CompressibleMeans, Zenon
    <3> QED
      BY <1>2, <3>1, <3>2, Zenon
  <2> HIDE DEF b
  <2>2. /\ [p[k] EXCEPT !.compressed = b] \in StructInstr
        /\ [p[k] EXCEPT !.compressed = b].op = p[k].op
        /\ [p[k] EXCEPT !.compressed = b].simm = p[k].simm
        /\ [p[k] EXCEPT !.compressed = b].compressed = b
        /\ Alike(p[k], [p[k] EXCEPT !.compressed = b])
    BY <2>1, WithFlag, Zenon
  <2> QED
    BY <2>1, <2>2, Zenon DEF b
<1>4. q \in Seq(StructInstr) /\ Len(q) = Len(p)
  BY <1>1, <1>2, <1>3, ArrayType
<1> QED
  BY <1>3, <1>4 DEF q

(* jump_to_branch replaces only jumps, by branches that are compressible. *)
LEMMA JumpsConverted ==
  ASSUME NEW p, NEW a, Arrays(p, a), JumpsHaveOffsets(p, a)
  PROVE  LET q == jump_to_branch(p, a) IN
         /\ q \in Seq(StructInstr) /\ Len(q) = Len(p)
         /\ \A k \in 1..Len(p) :
              /\ q[k].compressed = p[k].compressed /\ Alike(p[k], q[k])
              /\ \/ q[k] = p[k]
                 \/ /\ IsJump(p[k].op) /\ q[k].op \in {"B", "BAL"}
                    /\ q[k].simm = OffsetOf(a, k) /\ Compressible(q[k])
<1> DEFINE q == jump_to_branch(p, a)
           Near(k) == IsJump(p[k].op) /\ OffsetOf(a, k) \in -JReach..JReach - 2
<1>1. /\ Len(p) \in Nat /\ DOMAIN p = 1..Len(p)
      /\ \A k \in 1..Len(p) : p[k] \in StructInstr
  BY ArraysElements
<1>2. /\ q = [k \in 1..Len(p) |-> q[k]]
      /\ \A k \in 1..Len(p) :
           q[k] = IF Near(k) THEN Converted(p[k], OffsetOf(a, k)) ELSE p[k]
  BY <1>1 DEF jump_to_branch
<1> HIDE DEF q
<1>3. \A k \in 1..Len(p) :
        /\ q[k] \in StructInstr
        /\ q[k].compressed = p[k].compressed /\ Alike(p[k], q[k])
        /\ \/ q[k] = p[k]
           \/ /\ IsJump(p[k].op) /\ q[k].op \in {"B", "BAL"}
              /\ q[k].simm = OffsetOf(a, k) /\ Compressible(q[k])
  <2> TAKE k \in 1..Len(p)
  <2>1. CASE Near(k)
    <3>1. OffsetOf(a, k) \in Int
      BY <1>1, <2>1, OffsetType DEF JumpsHaveOffsets
    <3>2. OffsetOf(a, k) \in -JReach..JReach - 2 /\ IsJump(p[k].op)
      BY <2>1
    <3>3. q[k] = Converted(p[k], OffsetOf(a, k)) /\ p[k] \in StructInstr
      BY <1>1, <1>2, <2>1
    <3>4. /\ q[k] \in StructInstr /\ q[k].op \in {"B", "BAL"} /\ q[k].simm = OffsetOf(a, k)
          /\ q[k].compressed = p[k].compressed /\ Alike(p[k], q[k])
      <4> DEFINE i == p[k]
                 n == OffsetOf(a, k)
      <4>1. i \in StructInstr /\ n \in Int /\ q[k] = Converted(i, n) /\ IsJump(i.op)
        BY <3>1, <3>2, <3>3
      <4> HIDE DEF i, n
      <4>2. /\ Converted(i, n) \in StructInstr /\ Converted(i, n).op \in {"B", "BAL"}
            /\ Converted(i, n).simm = n /\ Converted(i, n).compressed = i.compressed
            /\ Alike(i, Converted(i, n))
        BY <4>1, AsBranch
      <4> QED
        BY <4>1, <4>2, Zenon DEF i, n
    <3>5. Compressible(q[k])
      BY <3>2, <3>4 DEF Compressible
    <3> QED
      BY <3>2, <3>4, <3>5, Zenon
  <2>2. CASE ~Near(k)
    <3>1. q[k] = p[k]
      BY <1>2, <2>2
    <3> QED
      BY <1>1, <3>1, AlikeOrder, Zenon
  <2> QED
    BY <2>1, <2>2, Zenon
<1>4. q \in Seq(StructInstr) /\ Len(q) = Len(p)
  BY <1>1, <1>2, <1>3, ArrayType
<1> QED
  BY <1>3, <1>4 DEF q

(***************************************************************************)
(* The inductive invariant                                                 *)
(***************************************************************************)
Corrected == pc = "jumps" \/ Laying

WholeInput == Corrected => Len(prog) = Len(input)

(* While the file is parsed, new_addr is the end of what was parsed.       *)
Running == pc = "parse" => new_addr = NewAddr(prog)[Len(prog) + 1]

(* Until the loop of main starts, no branch is short.                      *)
AllLong == pc \in {"parse", "jumps"} =>
             \A k \in 1..Len(prog) : prog[k].op \in PseudoBranch => ~prog[k].compressed

(* The branches have offsets, and simm is that offset. *)
OffsetsCorrect ==
  Corrected => \A k \in 1..Len(prog) :
    is_branch(prog[k].op) => HasOffset(attr, k) /\ prog[k].simm = OffsetOf(attr, k)

JumpsInside == Laying => \A k \in 1..Len(prog) : IsJump(prog[k].op) => HasOffset(attr, k)

(* A short branch is in reach, and at the end only a long one is not.      *)
ShortFit ==
  Laying => \A k \in 1..Len(prog) :
    prog[k].op \in PseudoBranch /\ prog[k].compressed => Compressible(prog[k])

LongDoNot ==
  Laid => \A k \in 1..Len(prog) :
    prog[k].op \in PseudoBranch /\ Compressible(prog[k]) => prog[k].compressed

(* Only a jump changes its operation: to a branch that is in reach.        *)
FromInput ==
  \A k \in 1..Len(prog) :
    \/ prog[k].op = Parsed(input[k]).op
    \/ Laying /\ prog[k].op \in PseudoBranch /\ Compressible(prog[k])

(* The output file ends where the layout says. *)
OutputPlaced ==
  /\ pc \in {"parse", "jumps", "compress", "targets"} => written = 0 /\ out = <<>>
  /\ 2 * Len(out) = NewAddr(prog)[written + 1]

IInv ==
  /\ TypeOK
  /\ Placed(prog, attr)
  /\ WholeInput
  /\ Running
  /\ AllLong
  /\ OffsetsCorrect
  /\ JumpsInside
  /\ ShortFit
  /\ LongDoNot
  /\ FromInput
  /\ OutputPlaced

(***************************************************************************)
(* Its preservation, action by action                                      *)
(***************************************************************************)
LEMMA TypeFacts ==
  ASSUME TypeOK
  PROVE  /\ Arrays(prog, attr) /\ prog \in Seq(StructInstr) /\ attr \in Seq(InstrAttr)
         /\ Len(prog) \in Nat /\ Len(input) \in Nat
         /\ DOMAIN prog = 1..Len(prog) /\ DOMAIN attr = 1..Len(prog)
         /\ \A k \in 1..Len(prog) : prog[k] \in StructInstr /\ attr[k] \in InstrAttr
         /\ \A k \in 1..Len(input) : input[k] \in Word
BY DEF TypeOK, Arrays

(* A word is parsed to an instruction. *)
LEMMA ParsedType ==
  ASSUME NEW w \in Word
  PROVE  Parsed(w) \in StructInstr
BY ParseType, PseudoType DEF Parsed, Rewritten

(* The index of a target is an integer, in or out of the program. *)
LEMMA TargetIndexType ==
  ASSUME NEW i \in StructInstr, NEW n \in Nat
  PROVE  TargetIndex(i, n) \in Int
<1>1. i.addr \in Nat /\ i.simm \in Int
  BY InstrFields
<1>2. i.addr \div 4 \in Int /\ n + CDiv(i.simm, 4) \in Int /\ -1 \in Int
  BY <1>1, CDivType
<1> QED
  BY <1>2, Zenon DEF TargetIndex

(* is_compressible_simple never takes a pseudo branch. *)
LEMMA BranchesNotSimple ==
  ASSUME NEW i
  PROVE  /\ is_compressible_simple(i) \in BOOLEAN
         /\ i.op \in PseudoBranch => ~is_compressible_simple(i)
<1>1. is_compressible_simple(i) \in BOOLEAN
  BY DEF is_compressible_simple
<1>2. i.op \in PseudoBranch => ~is_compressible_simple(i)
  BY DEF is_compressible_simple, PseudoBranch, Shifts
<1> QED
  BY <1>1, <1>2

(* The converter starts in the invariant. *)
LEMMA InitInvariant ==
  ASSUME Init
  PROVE  IInv
<1>1. input \in Seq(Word)
  BY ProgramsAssumption DEF Init
<1>2. pc = "parse" /\ prog = <<>> /\ attr = <<>> /\ new_addr = 0 /\ written = 0 /\ out = <<>>
  BY DEF Init
<1>3. TypeOK
  BY <1>1, <1>2 DEF TypeOK
<1>4. <<>> \in Seq(StructInstr) /\ Len(<<>>) = 0
  OBVIOUS
<1>5. NewAddr(prog)[1] = 0
  BY <1>2, <1>4, NewAddrSteps
<1>6. Running /\ OutputPlaced
  BY <1>2, <1>4, <1>5 DEF Running, OutputPlaced
<1>7. ~Laying /\ ~Laid /\ ~Corrected
  BY <1>2 DEF Corrected, Laying, Laid
<1>8. \A k \in 1..Len(prog) : FALSE
  BY <1>2
<1> QED
  BY <1>3, <1>6, <1>7, <1>8
  DEF IInv, Placed, WholeInput, AllLong, OffsetsCorrect, JumpsInside, ShortFit, LongDoNot, FromInput

(* Parsing a word keeps the invariant. *)
LEMMA ParseKeeps ==
  ASSUME IInv, ParseInstr
  PROVE  IInv'
<1> DEFINE n == Len(prog)
           w == input[n + 1]
           i == Parsed(w)
           instr == [i EXCEPT !.compressed = is_compressible_simple(i)]
           at == [new_addr |-> new_addr,
                  jump_target |-> IF IsJump(i.op) THEN i.addr ELSE 0,
                  target_index |-> TargetIndex(i, n + 1)]
<1> USE DEF IInv
<1>1. /\ pc = "parse" /\ n < Len(input) /\ input' = input /\ written' = written /\ out' = out
  BY DEF ParseInstr
<1>2. n \in Nat /\ n + 1 \in 1..Len(input) /\ w \in Word
  BY <1>1, TypeFacts
<1>3. i \in StructInstr
  BY <1>2, ParsedType
<1>4. written = 0 /\ out = <<>>
  BY <1>1 DEF OutputPlaced
<1>5. CASE i.op = "INVALID_OP"
  <2>1. pc' = "exit" /\ prog' = prog /\ attr' = attr /\ new_addr' = new_addr
    BY <1>5 DEF ParseInstr
  <2>2. TypeOK'
    BY <1>1, <2>1 DEF TypeOK
  <2>3. ~Laying' /\ ~Laid' /\ ~Corrected'
    BY <1>1, <1>2, <2>1 DEF Corrected, Laying, Laid
  <2>4. Placed(prog, attr)' /\ Running' /\ AllLong'
    BY <2>1 DEF Placed, Running, AllLong
  <2>5. FromInput'
    <3>1. ~Laying
      BY <1>1 DEF Laying, Laid
    <3> QED
      BY <1>1, <2>1, <3>1 DEF FromInput
  <2>6. OutputPlaced'
    BY <1>1, <2>1 DEF OutputPlaced
  <2> QED
    BY <2>2, <2>3, <2>4, <2>5, <2>6 DEF WholeInput, OffsetsCorrect, JumpsInside, ShortFit, LongDoNot
<1>6. CASE i.op # "INVALID_OP"
  <2>1. /\ pc' = pc /\ prog' = Append(prog, instr) /\ attr' = Append(attr, at)
        /\ new_addr' = new_addr + Size(instr)
    BY <1>6 DEF ParseInstr
  <2>2. /\ instr \in StructInstr /\ instr.op = i.op
        /\ instr.op \in PseudoBranch => ~instr.compressed
    <3> DEFINE b == is_compressible_simple(i)
    <3>1. b \in BOOLEAN /\ (i.op \in PseudoBranch => ~b)
      BY BranchesNotSimple
    <3> HIDE DEF b, i
    <3>2. /\ [i EXCEPT !.compressed = b] \in StructInstr /\ [i EXCEPT !.compressed = b].op = i.op
          /\ [i EXCEPT !.compressed = b].compressed = b
      BY <1>3, <3>1, WithFlag, Zenon
    <3> QED
      BY <3>1, <3>2, Zenon DEF b
  <2>3. at \in InstrAttr /\ at.new_addr = new_addr
    <3>1. TargetIndex(i, n + 1) \in Int /\ i.addr \in Nat /\ new_addr \in Nat
      BY <1>2, <1>3, TargetIndexType, InstrFields DEF TypeOK
    <3> HIDE DEF i, n
    <3> QED
      BY <3>1 DEF InstrAttr
  <2> HIDE DEF instr, at, i, w
  <2>4. /\ prog' \in Seq(StructInstr) /\ Len(prog') = n + 1 /\ prog'[n + 1] = instr
        /\ \A k \in 1..n : prog'[k] = prog[k]
    BY <2>1, <2>2, TypeFacts
  <2>5. /\ attr' \in Seq(InstrAttr) /\ Len(attr') = n + 1 /\ attr'[n + 1] = at
        /\ \A k \in 1..n : attr'[k] = attr[k]
    BY <2>1, <2>3, TypeFacts DEF TypeOK
  <2>6. /\ \A k \in 1..n + 1 : NewAddr(prog')[k] = NewAddr(prog)[k]
        /\ NewAddr(prog')[n + 2] = NewAddr(prog)[n + 1] + Size(instr)
    BY <2>1, <2>2, TypeFacts, NewAddrAppend
  <2>7. new_addr = NewAddr(prog)[n + 1] /\ new_addr \in Nat /\ Size(instr) \in Nat
    BY <1>1, <2>2, InstrFields DEF Running, TypeOK
  <2> HIDE DEF n
  <2>8. \A k \in 1..n + 1 : k \in 1..n \/ k = n + 1
    BY <1>2
  <2>9. TypeOK'
    <3>1. n + 1 <= Len(input)
      BY <1>2, <1>1, TypeFacts DEF n
    <3> QED
      BY <1>1, <1>2, <1>4, <2>1, <2>4, <2>5, <2>7, <3>1 DEF TypeOK
  <2>10. Placed(prog, attr)'
    <3>1. \A k \in 1..n : attr[k].new_addr = NewAddr(prog)[k]
      BY DEF Placed, n
    <3>2. \A k \in 1..n + 1 : attr'[k].new_addr = NewAddr(prog')[k]
      BY <1>2, <2>3, <2>5, <2>6, <2>7, <2>8, <3>1
    <3> QED
      BY <2>4, <3>2 DEF Placed
  <2>11. Running'
    <3>1. (n + 1) + 1 = n + 2
      BY <1>2
    <3> QED
      BY <2>1, <2>4, <2>6, <2>7, <3>1 DEF Running
  <2>12. AllLong'
    <3>1. \A k \in 1..n : prog[k].op \in PseudoBranch => ~prog[k].compressed
      BY <1>1 DEF AllLong, n
    <3> QED
      BY <2>2, <2>4, <2>8, <3>1 DEF AllLong
  <2>13. ~Laying /\ ~Laying' /\ ~Laid' /\ ~Corrected'
    BY <1>1, <2>1 DEF Corrected, Laying, Laid
  <2>14. FromInput'
    <3>1. \A k \in 1..n : prog[k].op = Parsed(input[k]).op
      BY <2>13 DEF FromInput, n
    <3>2. \A k \in 1..n + 1 : prog'[k].op = Parsed(input[k]).op
      BY <2>2, <2>4, <2>8, <3>1 DEF i, w
    <3> QED
      BY <1>1, <2>4, <3>2 DEF FromInput
  <2>15. OutputPlaced'
    <3>1. NewAddr(prog')[1] = NewAddr(prog)[1] /\ 0 + 1 = 1
      BY <1>2, <2>6
    <3> QED
      BY <1>1, <1>4, <2>1, <3>1 DEF OutputPlaced
  <2> QED
    BY <2>9, <2>10, <2>11, <2>12, <2>13, <2>14, <2>15
    DEF WholeInput, OffsetsCorrect, JumpsInside, ShortFit, LongDoNot
<1> QED
  BY <1>5, <1>6

(* A failed assertion ends the process and leaves the rest as it is. *)
LEMMA AbortKeeps ==
  ASSUME IInv, pc' = "abort", UNCHANGED <<input, prog, attr, new_addr, written, out>>,
         ~Laying
  PROVE  IInv'
<1> USE DEF IInv
<1>1. TypeOK'
  BY DEF TypeOK
<1>2. ~Laying' /\ ~Laid' /\ ~Corrected'
  BY DEF Corrected, Laying, Laid
<1>3. Placed(prog, attr)' /\ Running' /\ AllLong' /\ OutputPlaced'
  BY DEF Placed, Running, AllLong, OutputPlaced
<1>4. FromInput'
  BY DEF FromInput
<1> QED
  BY <1>1, <1>2, <1>3, <1>4 DEF WholeInput, OffsetsCorrect, JumpsInside, ShortFit, LongDoNot

(* Correcting the branch offsets before the loop keeps it. *)
LEMMA CorrectOffsetsKeeps ==
  ASSUME IInv, CorrectOffsets
  PROVE  IInv'
<1> USE DEF IInv
<1>1. /\ pc = "parse" /\ input' = input /\ attr' = attr /\ new_addr' = new_addr
      /\ written' = written /\ out' = out
  BY DEF CorrectOffsets
<1>2. ~Laying
  BY <1>1 DEF Laying, Laid
<1>3. CASE ~BranchesHaveOffsets(prog, attr)
  BY <1>1, <1>2, <1>3, AbortKeeps DEF CorrectOffsets
<1>4. CASE BranchesHaveOffsets(prog, attr)
  <2> DEFINE q == correct_branch_offsets(prog, attr)
  <2>1. pc' = "jumps" /\ prog' = q
    BY <1>4 DEF CorrectOffsets
  <2>2. /\ Arrays(q, attr) /\ Len(q) = Len(prog)
        /\ \A k \in 1..Len(prog) :
             /\ q[k].op = prog[k].op /\ q[k].compressed = prog[k].compressed
             /\ is_branch(prog[k].op) => q[k].simm = OffsetOf(attr, k)
    BY <1>4, TypeFacts, OffsetsCorrected
  <2> HIDE DEF q
  <2>3. q \in Seq(StructInstr) /\ NewAddr(q) = NewAddr(prog)
    BY <2>2, TypeFacts, NewAddrSame DEF Arrays
  <2>4. \A k \in 1..Len(prog) : is_branch(prog[k].op) => HasOffset(attr, k)
    BY <1>4, TypeFacts DEF BranchesHaveOffsets
  <2>5. TypeOK'
    BY <1>1, <2>1, <2>2, <2>3 DEF TypeOK
  <2>6. ~Laying' /\ ~Laid'
    BY <2>1 DEF Laying, Laid
  <2>7. Placed(prog, attr)' /\ Running' /\ OutputPlaced'
    BY <1>1, <2>1, <2>2, <2>3 DEF Placed, Running, OutputPlaced
  <2>8. AllLong'
    BY <1>1, <2>1, <2>2 DEF AllLong
  <2>9. OffsetsCorrect'
    BY <1>1, <2>1, <2>2, <2>4 DEF OffsetsCorrect
  <2>10. FromInput'
    BY <1>1, <1>2, <2>1, <2>2 DEF FromInput
  <2>11. WholeInput'
    BY <1>1, <2>1, <2>2 DEF WholeInput, CorrectOffsets
  <2> QED
    BY <2>5, <2>6, <2>7, <2>8, <2>9, <2>10, <2>11 DEF JumpsInside, ShortFit, LongDoNot
<1> QED
  BY <1>3, <1>4

(* Turning jumps into branches keeps it. *)
LEMMA ConvertJumpsKeeps ==
  ASSUME IInv, ConvertJumps
  PROVE  IInv'
<1> USE DEF IInv
<1>1. /\ pc = "jumps" /\ input' = input /\ new_addr' = new_addr
      /\ written' = written /\ out' = out
  BY DEF ConvertJumps
<1>2. ~Laying /\ Corrected
  BY <1>1 DEF Laying, Laid, Corrected
<1>3. CASE ~JumpsHaveOffsets(prog, attr)
  BY <1>1, <1>2, <1>3, AbortKeeps DEF ConvertJumps
<1>4. CASE JumpsHaveOffsets(prog, attr)
  <2> DEFINE q == jump_to_branch(prog, attr)
             b == correct_jump_targets(prog, attr)
  <2>1. pc' = "compress" /\ prog' = q /\ attr' = b
    BY <1>4 DEF ConvertJumps
  <2>2. /\ q \in Seq(StructInstr) /\ Len(q) = Len(prog)
        /\ \A k \in 1..Len(prog) :
             /\ q[k].compressed = prog[k].compressed
             /\ \/ q[k] = prog[k]
                \/ /\ IsJump(prog[k].op) /\ q[k].op \in {"B", "BAL"}
                   /\ q[k].simm = OffsetOf(attr, k) /\ Compressible(q[k])
    BY <1>4, TypeFacts, JumpsConverted
  <2>3. /\ Arrays(prog, b)
        /\ \A k \in 1..Len(prog) : /\ b[k].new_addr = attr[k].new_addr
                                   /\ b[k].target_index = attr[k].target_index
    BY <1>4, TypeFacts, TargetsCorrected
  <2> HIDE DEF q, b
  <2>4. NewAddr(q) = NewAddr(prog)
    BY <2>2, TypeFacts, NewAddrSame
  <2>5. \A k \in 1..Len(prog) :
          HasOffset(attr, k) => HasOffset(b, k) /\ OffsetOf(b, k) = OffsetOf(attr, k)
    BY <2>3, TypeFacts, SameOffsets
  <2>6. TypeOK'
    BY <1>1, <2>1, <2>2, <2>3 DEF TypeOK, Arrays
  <2>7. Laying' /\ ~Laid'
    BY <2>1 DEF Laying, Laid
  <2>8. Placed(prog, attr)' /\ Running' /\ AllLong' /\ OutputPlaced'
    BY <1>1, <2>1, <2>2, <2>3, <2>4 DEF Placed, Running, AllLong, OutputPlaced
  <2>9. \A k \in 1..Len(prog) : IsJump(prog[k].op) => HasOffset(attr, k)
    BY <1>4, TypeFacts DEF JumpsHaveOffsets
  <2>10. OffsetsCorrect'
    <3>1. \A k \in 1..Len(prog) :
            is_branch(q[k].op) => HasOffset(b, k) /\ q[k].simm = OffsetOf(b, k)
      <4> TAKE k \in 1..Len(prog)
      <4>1. CASE q[k] = prog[k]
        BY <1>2, <2>5, <4>1 DEF OffsetsCorrect
      <4>2. CASE IsJump(prog[k].op) /\ q[k].simm = OffsetOf(attr, k)
        BY <2>5, <2>9, <4>2
      <4> QED
        BY <2>2, <4>1, <4>2
    <3> QED
      BY <2>1, <2>2, <3>1 DEF OffsetsCorrect
  <2>11. JumpsInside'
    <3>1. \A k \in 1..Len(prog) : IsJump(q[k].op) => HasOffset(b, k)
      BY <2>2, <2>5, <2>9 DEF IsJump
    <3> QED
      BY <2>1, <2>2, <3>1 DEF JumpsInside
  <2>12. ShortFit'
    <3>1. \A k \in 1..Len(prog) :
            q[k].op \in PseudoBranch /\ q[k].compressed => Compressible(q[k])
      BY <1>1, <2>2 DEF AllLong
    <3> QED
      BY <2>1, <2>2, <3>1 DEF ShortFit
  <2>13. FromInput'
    <3>1. \A k \in 1..Len(prog) :
            \/ q[k].op = Parsed(input[k]).op
            \/ q[k].op \in PseudoBranch /\ Compressible(q[k])
      BY <1>2, <2>2 DEF FromInput, PseudoBranch
    <3> QED
      BY <1>1, <2>1, <2>2, <2>7, <3>1 DEF FromInput
  <2>14. WholeInput'
    BY <1>1, <1>2, <2>1, <2>2 DEF WholeInput
  <2> QED
    BY <2>6, <2>7, <2>8, <2>10, <2>11, <2>12, <2>13, <2>14 DEF LongDoNot
<1> QED
  BY <1>3, <1>4

(* One pass: no instruction gets longer, so every branch that was in reach *)
(* still is, and the flags that were set stay set.                         *)
LEMMA PassFacts ==
  ASSUME IInv, CompressBranch
  PROVE  /\ Arrays(prog', attr') /\ Len(prog') = Len(prog)
         /\ Placed(prog', attr')
         /\ \A k \in 1..Len(prog) :
              /\ prog'[k].op = prog[k].op
              /\ attr'[k].target_index = attr[k].target_index
              /\ prog[k].compressed => prog'[k].compressed
              /\ is_branch(prog[k].op) =>
                   HasOffset(attr', k) /\ prog'[k].simm = OffsetOf(attr', k)
              /\ prog[k].op \in PseudoBranch =>
                   /\ prog'[k].compressed <=> Compressible(prog[k])
                   /\ Compressible(prog[k]) => Compressible(prog'[k])
              /\ Alike(prog[k], prog'[k])
         /\ pc' # "targets" => \E k \in 1..Len(prog) : prog'[k].compressed # prog[k].compressed
         /\ pc' = "targets" => \A k \in 1..Len(prog) : prog'[k].compressed = prog[k].compressed
<1> USE DEF IInv
<1> DEFINE p1 == correct_branch_offsets(prog, attr)
           p2 == compress_flags(p1)
           a2 == calc_new_addr(p2, attr)
           p3 == correct_branch_offsets(p2, a2)
<1>1. /\ pc = "compress" /\ prog' = p3 /\ attr' = a2
      /\ pc' = IF {k \in DOMAIN prog : p2[k].compressed # prog[k].compressed} = {}
               THEN "targets" ELSE "compress"
  BY DEF CompressBranch
<1>2. Laying /\ Corrected
  BY <1>1 DEF Laying, Corrected
<1>3. \A k \in 1..Len(prog) :
        is_branch(prog[k].op) => HasOffset(attr, k) /\ prog[k].simm = OffsetOf(attr, k)
  BY <1>2 DEF OffsetsCorrect
<1>4. BranchesHaveOffsets(prog, attr)
  BY <1>3, TypeFacts DEF BranchesHaveOffsets
<1>5. /\ Arrays(p1, attr) /\ Len(p1) = Len(prog)
      /\ \A k \in 1..Len(prog) :
           /\ p1[k].op = prog[k].op /\ p1[k].compressed = prog[k].compressed
           /\ is_branch(prog[k].op) => p1[k].simm = OffsetOf(attr, k)
           /\ Alike(prog[k], p1[k])
  BY <1>4, TypeFacts, OffsetsCorrected
<1> HIDE DEF p1
<1>6. p1 \in Seq(StructInstr)
  BY <1>5 DEF Arrays
<1>7. /\ p2 \in Seq(StructInstr) /\ Len(p2) = Len(prog)
      /\ \A k \in 1..Len(prog) : /\ p2[k].op = p1[k].op /\ p2[k].simm = p1[k].simm
                                 /\ (p2[k].compressed <=> Compressible(p1[k]))
                                 /\ Alike(p1[k], p2[k])
  BY <1>5, <1>6, FlagsSet
<1> HIDE DEF p2
<1>8. Arrays(p2, attr)
  BY <1>7, TypeFacts DEF Arrays
<1>9. /\ Arrays(p2, a2) /\ Placed(p2, a2)
      /\ \A k \in 1..Len(prog) : a2[k].target_index = attr[k].target_index
  BY <1>7, <1>8, AddressesRecalculated
<1> HIDE DEF a2
<1>10. Len(attr) = Len(prog) /\ Len(a2) = Len(prog)
  BY <1>7, <1>9, TypeFacts DEF Arrays
<1>11. \A k \in 1..Len(prog) : HasOffset(attr, k) => HasOffset(a2, k)
  BY <1>9, <1>10 DEF HasOffset
<1>12. BranchesHaveOffsets(p2, a2)
  BY <1>3, <1>5, <1>7, <1>11, TypeFacts DEF BranchesHaveOffsets
<1>13. /\ Arrays(p3, a2) /\ Len(p3) = Len(prog)
       /\ \A k \in 1..Len(prog) :
            /\ p3[k].op = p2[k].op /\ p3[k].compressed = p2[k].compressed
            /\ is_branch(p2[k].op) => p3[k].simm = OffsetOf(a2, k)
            /\ Alike(p2[k], p3[k])
  BY <1>7, <1>9, <1>12, OffsetsCorrected
<1> HIDE DEF p3
<1>14. p3 \in Seq(StructInstr) /\ NewAddr(p3) = NewAddr(p2)
  BY <1>7, <1>13, NewAddrSame DEF Arrays
<1>15. Placed(p3, a2)
  BY <1>7, <1>9, <1>13, <1>14 DEF Placed
<1>16. \A k \in 1..Len(prog) :
         /\ prog[k].op \in PseudoBranch => (p2[k].compressed <=> Compressible(prog[k]))
         /\ prog[k].op \notin PseudoBranch => (p2[k].compressed <=> prog[k].compressed)
  <2> TAKE k \in 1..Len(prog)
  <2>1. p1[k] \in StructInstr /\ prog[k] \in StructInstr
    BY <1>5, <1>6, TypeFacts
  <2>2. CASE prog[k].op \in PseudoBranch
    <3>1. is_branch(prog[k].op)
      BY <2>2 DEF is_branch
    <3>2. p1[k].simm = prog[k].simm /\ p1[k].op = prog[k].op
      BY <1>3, <1>5, <3>1
    <3>3. Compressible(p1[k]) <=> Compressible(prog[k])
      BY <2>2, <3>2 DEF Compressible
    <3> QED
      BY <1>7, <2>2, <3>3
  <2>3. CASE prog[k].op \notin PseudoBranch
    <3>1. Compressible(p1[k]) <=> prog[k].compressed
      BY <1>5, <2>1, <2>3, CompressibleMeans
    <3> QED
      BY <1>7, <2>3, <3>1
  <2> QED
    BY <2>2, <2>3
<1>17. \A k \in 1..Len(prog) : prog[k].compressed => p2[k].compressed
  BY <1>2, <1>16 DEF ShortFit
<1>18. \A k \in 1..Len(prog) :
         prog[k].op \in PseudoBranch /\ Compressible(prog[k]) => Compressible(p3[k])
  <2> TAKE k \in 1..Len(prog)
  <2> HAVE prog[k].op \in PseudoBranch /\ Compressible(prog[k])
  <2> DEFINE m == ReachOf(prog[k].op)
             t == attr[k].target_index + 1
  <2>1. is_branch(prog[k].op)
    BY DEF is_branch
  <2>2. m \in Nat /\ m >= 2
    BY ReachAssumption DEF ReachOf
  <2>3. prog[k].simm \in -m..m - 2
    BY CompressibleMeans, TypeFacts
  <2>4. HasOffset(attr, k) /\ HasOffset(a2, k)
    BY <1>3, <1>11, <2>1
  <2>5. Len(prog) \in Nat /\ t \in 1..Len(prog) /\ k + 1 \in 1..Len(prog)
    BY <2>4, TypeFacts, OffsetType
  <2>6. OffsetOf(attr, k) = NewAddr(prog)[t] - NewAddr(prog)[k + 1]
    BY <2>4, TypeFacts, OffsetValue
  <2>7. OffsetOf(a2, k) = NewAddr(p2)[t] - NewAddr(p2)[k + 1]
    BY <1>7, <1>9, <2>4, OffsetValue
  <2> HIDE DEF m, t
  <2>8. NewAddr(prog)[t] - NewAddr(prog)[k + 1] \in -m..m - 2
    BY <1>3, <2>1, <2>3, <2>6
  <2>9. t \in 1..Len(prog) + 1 /\ k + 1 \in 1..Len(prog) + 1
    BY <2>5
  <2>10. NewAddr(p2)[t] - NewAddr(p2)[k + 1] \in -m..m - 2
    BY <1>7, <1>17, <2>2, <2>8, <2>9, TypeFacts, NewAddrShrink
  <2>11. p3[k].simm \in -m..m - 2
    BY <1>5, <1>7, <1>13, <2>1, <2>7, <2>10
  <2>12. p3[k].op = prog[k].op /\ p3[k] \in StructInstr
    BY <1>5, <1>7, <1>13, <1>14, <2>5
  <2> QED
    BY <2>11, <2>12, CompressibleMeans DEF m
<1>19. \A k \in 1..Len(prog) : is_branch(prog[k].op) =>
         HasOffset(a2, k) /\ p3[k].simm = OffsetOf(a2, k)
  BY <1>3, <1>5, <1>7, <1>11, <1>13
<1>20. /\ pc' = "targets" => \A k \in 1..Len(prog) : p3[k].compressed = prog[k].compressed
       /\ pc' # "targets" => \E k \in 1..Len(prog) : p3[k].compressed # prog[k].compressed
  BY <1>1, <1>13, TypeFacts
<1>21. \A k \in 1..Len(prog) :
         /\ p3[k].op = prog[k].op
         /\ prog[k].compressed => p3[k].compressed
         /\ prog[k].op \in PseudoBranch => (p3[k].compressed <=> Compressible(prog[k]))
  BY <1>5, <1>7, <1>13, <1>16, <1>17
<1>22. Arrays(p3, a2) /\ Len(p3) = Len(prog) /\ prog' = p3 /\ attr' = a2
  BY <1>1, <1>13
<1>23. \A k \in 1..Len(prog) : Alike(prog[k], p3[k])
  BY <1>5, <1>7, <1>13, AlikeOrder, Zenon
<1> QED
  BY <1>9, <1>15, <1>18, <1>19, <1>20, <1>21, <1>22, <1>23

(* A pass over the flags and the addresses keeps it. *)
LEMMA CompressKeeps ==
  ASSUME IInv, CompressBranch
  PROVE  IInv'
<1> USE DEF IInv
<1>1. /\ pc = "compress" /\ pc' \in {"targets", "compress"} /\ input' = input
      /\ new_addr' = new_addr /\ written' = written /\ out' = out
  BY DEF CompressBranch
<1>2. Laying /\ Corrected /\ Laying' /\ (Laid' => pc' = "targets")
  BY <1>1 DEF Laying, Laid, Corrected
<1>3. /\ Arrays(prog', attr') /\ Len(prog') = Len(prog) /\ Placed(prog', attr')
      /\ prog' \in Seq(StructInstr) /\ attr' \in Seq(InstrAttr)
      /\ Len(attr') = Len(prog) /\ Len(attr) = Len(prog)
  BY PassFacts, TypeFacts DEF Arrays
<1>4. \A k \in 1..Len(prog) : prog'[k].op = prog[k].op /\ attr'[k].target_index = attr[k].target_index
  BY PassFacts
<1>5. \A k \in 1..Len(prog) :
        is_branch(prog[k].op) => HasOffset(attr', k) /\ prog'[k].simm = OffsetOf(attr', k)
  BY PassFacts
<1>6. \A k \in 1..Len(prog) : prog[k].op \in PseudoBranch =>
        /\ prog'[k].compressed <=> Compressible(prog[k])
        /\ Compressible(prog[k]) => Compressible(prog'[k])
  BY PassFacts
<1>7. TypeOK'
  BY <1>1, <1>3 DEF TypeOK
<1>8. Running' /\ AllLong'
  BY <1>1 DEF Running, AllLong
<1>9. OffsetsCorrect'
  BY <1>3, <1>4, <1>5 DEF OffsetsCorrect
<1>10. JumpsInside'
  <2>1. \A k \in 1..Len(prog) : IsJump(prog'[k].op) => HasOffset(attr', k)
    BY <1>2, <1>3, <1>4 DEF JumpsInside, HasOffset
  <2> QED
    BY <1>3, <2>1 DEF JumpsInside
<1>11. ShortFit'
  BY <1>3, <1>4, <1>6 DEF ShortFit
<1>12. LongDoNot'
  <2>1. SUFFICES ASSUME pc' = "targets", NEW k \in 1..Len(prog), prog[k].op \in PseudoBranch,
                        Compressible(prog'[k])
                 PROVE  prog'[k].compressed
    BY <1>2, <1>3, <1>4 DEF LongDoNot
  <2>2. NewAddr(prog') = NewAddr(prog)
    BY <1>3, <2>1, PassFacts, TypeFacts, NewAddrSame
  <2>3. is_branch(prog[k].op)
    BY <2>1 DEF is_branch
  <2>4. HasOffset(attr, k) /\ prog[k].simm = OffsetOf(attr, k)
    BY <1>2, <2>3 DEF OffsetsCorrect
  <2>5. HasOffset(attr', k) /\ prog'[k].simm = OffsetOf(attr', k)
    BY <1>5, <2>3
  <2>6. OffsetOf(attr, k) = NewAddr(prog)[attr[k].target_index + 1] - NewAddr(prog)[k + 1]
    BY <2>4, TypeFacts, OffsetValue
  <2>7. OffsetOf(attr', k) = NewAddr(prog')[attr'[k].target_index + 1] - NewAddr(prog')[k + 1]
    BY <1>3, <2>5, OffsetValue
  <2>8. prog'[k].simm = prog[k].simm /\ prog'[k].op = prog[k].op
    BY <1>4, <2>2, <2>4, <2>5, <2>6, <2>7
  <2>9. Compressible(prog[k])
    BY <2>1, <2>8 DEF Compressible
  <2> QED
    BY <1>6, <2>1, <2>9
<1>13. FromInput'
  <2>1. \A k \in 1..Len(prog) :
          \/ prog'[k].op = Parsed(input[k]).op
          \/ prog'[k].op \in PseudoBranch /\ Compressible(prog'[k])
    BY <1>4, <1>6 DEF FromInput
  <2> QED
    BY <1>1, <1>2, <1>3, <2>1 DEF FromInput
<1>14. OutputPlaced'
  <2>1. written = 0 /\ out = <<>>
    BY <1>1 DEF OutputPlaced
  <2>2. NewAddr(prog')[1] = 0 /\ 0 + 1 = 1
    BY <1>3, NewAddrSteps
  <2>3. Len(<<>>) = 0
    OBVIOUS
  <2> QED
    BY <1>1, <2>1, <2>2, <2>3 DEF OutputPlaced
<1>15. WholeInput'
  BY <1>1, <1>2, <1>3 DEF WholeInput
<1> QED
  BY <1>3, <1>7, <1>8, <1>9, <1>10, <1>11, <1>12, <1>13, <1>14, <1>15

(* Correcting the jump targets after the loop keeps it. *)
LEMMA CorrectTargetsKeeps ==
  ASSUME IInv, CorrectTargets
  PROVE  IInv'
<1> USE DEF IInv
<1> DEFINE b == correct_jump_targets(prog, attr)
<1>1. /\ pc = "targets" /\ pc' = "write" /\ input' = input /\ prog' = prog
      /\ new_addr' = new_addr /\ written' = written /\ out' = out /\ attr' = b
  BY DEF CorrectTargets
<1>2. Laying /\ Laid /\ Corrected /\ Laying' /\ Laid' /\ Corrected'
  BY <1>1 DEF Laying, Laid, Corrected
<1>3. JumpsHaveOffsets(prog, attr)
  BY <1>2, TypeFacts DEF JumpsInside, JumpsHaveOffsets
<1>4. /\ Arrays(prog, b)
      /\ \A k \in 1..Len(prog) : /\ b[k].new_addr = attr[k].new_addr
                                 /\ b[k].target_index = attr[k].target_index
  BY <1>3, TypeFacts, TargetsCorrected
<1> HIDE DEF b
<1>5. \A k \in 1..Len(prog) :
        HasOffset(attr, k) => HasOffset(b, k) /\ OffsetOf(b, k) = OffsetOf(attr, k)
  BY <1>4, TypeFacts, SameOffsets
<1>6. TypeOK'
  BY <1>1, <1>4 DEF TypeOK, Arrays
<1>7. Placed(prog, attr)' /\ WholeInput' /\ Running' /\ AllLong' /\ OutputPlaced'
  BY <1>1, <1>2, <1>4 DEF Placed, WholeInput, Running, AllLong, OutputPlaced
<1>8. OffsetsCorrect' /\ JumpsInside'
  BY <1>1, <1>2, <1>5 DEF OffsetsCorrect, JumpsInside
<1>9. ShortFit' /\ LongDoNot' /\ FromInput'
  BY <1>1, <1>2 DEF ShortFit, LongDoNot, FromInput
<1> QED
  BY <1>6, <1>7, <1>8, <1>9

(* Writing one instruction keeps it. *)
LEMMA WriteKeeps ==
  ASSUME IInv, WriteInstr
  PROVE  IInv'
<1> USE DEF IInv
<1> DEFINE k == written + 1
           target == attr[k].jump_target
           i == IF IsJump(prog[k].op) THEN [prog[k] EXCEPT !.addr = target] ELSE prog[k]
           code == write_instr_v2(i)
<1>1. /\ pc = "write" /\ written < Len(prog) /\ input' = input /\ attr' = attr
      /\ new_addr' = new_addr /\ prog' = [prog EXCEPT ![k] = i]
      /\ IF code = NoCode THEN pc' = "exit" /\ out' = out /\ written' = written
         ELSE out' = out \o code /\ written' = k /\ pc' = pc
  BY DEF WriteInstr
<1>2. k \in 1..Len(prog) /\ written \in Nat
  BY <1>1, TypeFacts DEF TypeOK
<1>3. prog[k] \in StructInstr /\ target \in Nat
  BY <1>2, TypeFacts, AttrFields
<1>4. /\ i \in StructInstr /\ i.op = prog[k].op /\ i.simm = prog[k].simm
      /\ i.compressed = prog[k].compressed
  <2> HIDE DEF k, target
  <2>1. /\ [prog[k] EXCEPT !.addr = target] \in StructInstr
        /\ [prog[k] EXCEPT !.addr = target].op = prog[k].op
        /\ [prog[k] EXCEPT !.addr = target].simm = prog[k].simm
        /\ [prog[k] EXCEPT !.addr = target].compressed = prog[k].compressed
    BY <1>3, WithAddr, Zenon
  <2> QED
    BY <1>3, <2>1, Zenon
<1>5. Coded(code, IF i.compressed THEN 1 ELSE 2)
  BY <1>4, CodeSize
<1> HIDE DEF code, i, target
<1>6. /\ prog' \in Seq(StructInstr) /\ Len(prog') = Len(prog)
      /\ \A j \in 1..Len(prog) : /\ prog'[j].op = prog[j].op /\ prog'[j].simm = prog[j].simm
                                 /\ prog'[j].compressed = prog[j].compressed
  BY <1>1, <1>2, <1>4, TypeFacts
<1>7. NewAddr(prog') = NewAddr(prog)
  BY <1>6, TypeFacts, NewAddrSame
<1>8. \A j \in 1..Len(prog) : Compressible(prog'[j]) <=> Compressible(prog[j])
  BY <1>6, Zenon DEF Compressible
<1>9. 2 * Len(out) = NewAddr(prog)[k] /\ out \in Seq(Half)
  BY DEF OutputPlaced, TypeOK
<1>10. CASE code = NoCode
  <2>1. pc' = "exit" /\ out' = out /\ written' = written
    BY <1>1, <1>10
  <2>2. TypeOK'
    BY <1>1, <1>6, <2>1 DEF TypeOK
  <2>3. OutputPlaced'
    BY <1>7, <1>9, <2>1 DEF OutputPlaced
  <2>4. Laying /\ Laid /\ Corrected
    BY <1>1 DEF Laying, Laid, Corrected
  <2>5. Placed(prog, attr)' /\ WholeInput' /\ Running' /\ AllLong'
    BY <1>1, <1>6, <1>7, <2>1, <2>4 DEF Placed, WholeInput, Running, AllLong
  <2>6. OffsetsCorrect' /\ JumpsInside'
    BY <1>1, <1>6, <2>4 DEF OffsetsCorrect, JumpsInside
  <2>7. ShortFit' /\ LongDoNot'
    BY <1>6, <1>8, <2>4 DEF ShortFit, LongDoNot
  <2>8. FromInput'
    <3>1. Laying'
      BY <1>1, <1>6, <2>1, <2>4 DEF Laying, Laid, WholeInput
    <3> QED
      BY <1>1, <1>6, <1>8, <2>4, <3>1 DEF FromInput
  <2> QED
    BY <2>2, <2>3, <2>5, <2>6, <2>7, <2>8
<1>11. CASE code # NoCode
  <2>1. pc' = "write" /\ out' = out \o code /\ written' = k
    BY <1>1, <1>11
  <2>2. code \in Seq(Half) /\ 2 * Len(code) = Size(prog[k])
    <3>1. code \in Seq(Half) /\ Len(code) = IF prog[k].compressed THEN 1 ELSE 2
      BY <1>4, <1>5, <1>11, Zenon DEF Coded
    <3>2. Size(prog[k]) = IF prog[k].compressed THEN 2 ELSE 4
      BY DEF Size
    <3> QED
      BY <3>1, <3>2
  <2>3. out' \in Seq(Half) /\ 2 * Len(out') = 2 * Len(out) + 2 * Len(code)
    BY <1>9, <2>1, <2>2
  <2>4. TypeOK'
    BY <1>1, <1>2, <1>6, <2>1, <2>3 DEF TypeOK
  <2>5. NewAddr(prog)[k + 1] = NewAddr(prog)[k] + Size(prog[k])
    BY <1>2, TypeFacts, NewAddrSteps
  <2>6. OutputPlaced'
    BY <1>7, <1>9, <2>1, <2>2, <2>3, <2>5 DEF OutputPlaced
  <2>7. Laying /\ Laid /\ Corrected /\ Laying' /\ Laid' /\ Corrected'
    BY <1>1, <2>1 DEF Laying, Laid, Corrected
  <2>8. Placed(prog, attr)' /\ WholeInput' /\ Running' /\ AllLong'
    BY <1>1, <1>6, <1>7, <2>1, <2>7 DEF Placed, WholeInput, Running, AllLong
  <2>9. OffsetsCorrect' /\ JumpsInside'
    BY <1>1, <1>6, <2>7 DEF OffsetsCorrect, JumpsInside
  <2>10. ShortFit' /\ LongDoNot' /\ FromInput'
    BY <1>1, <1>6, <1>8, <2>7 DEF ShortFit, LongDoNot, FromInput
  <2> QED
    BY <2>4, <2>6, <2>8, <2>9, <2>10
<1> QED
  BY <1>10, <1>11

(* Leaving convert_file keeps it. *)
LEMMA ReturnKeeps ==
  ASSUME IInv, Return
  PROVE  IInv'
<1> USE DEF IInv
<1>1. /\ pc = "write" /\ pc' = "done"
      /\ UNCHANGED <<input, prog, attr, new_addr, written, out>>
  BY DEF Return
<1>2. Laying /\ Laid /\ Corrected /\ Laying' /\ Laid' /\ Corrected'
  BY <1>1 DEF Laying, Laid, Corrected
<1>3. TypeOK'
  BY <1>1 DEF TypeOK
<1>4. Placed(prog, attr)' /\ WholeInput' /\ Running' /\ AllLong' /\ OutputPlaced'
  BY <1>1, <1>2 DEF Placed, WholeInput, Running, AllLong, OutputPlaced
<1>5. OffsetsCorrect' /\ JumpsInside' /\ ShortFit' /\ LongDoNot' /\ FromInput'
  BY <1>1, <1>2 DEF OffsetsCorrect, JumpsInside, ShortFit, LongDoNot, FromInput
<1> QED
  BY <1>3, <1>4, <1>5

(* So does a step in which nothing changes. *)
LEMMA StutterKeeps ==
  ASSUME IInv, UNCHANGED vars
  PROVE  IInv'
BY DEF IInv, vars, TypeOK, Placed, WholeInput, Running, AllLong, OffsetsCorrect, JumpsInside,
       ShortFit, LongDoNot, FromInput, OutputPlaced, Corrected, Laying, Laid

(* Every state of every conversion satisfies the inductive invariant. *)
THEOREM Invariant == Spec => []IInv
<1>1. Init => IInv
  BY InitInvariant
<1>2. IInv /\ [Next]_vars => IInv'
  BY ParseKeeps, CorrectOffsetsKeeps, ConvertJumpsKeeps, CompressKeeps, CorrectTargetsKeeps,
     WriteKeeps, ReturnKeeps, StutterKeeps DEF Next
<1> QED
  BY <1>1, <1>2, PTL DEF Spec

(***************************************************************************)
(* The properties                                                          *)
(***************************************************************************)

(* Every variable keeps its type: a register number, a half or an address  *)
(* never leaves its range.                                                 *)
THEOREM Types == Spec => []TypeOK
<1>1. IInv => TypeOK
  BY DEF IInv
<1> QED
  BY <1>1, Invariant, PTL

(* No call of correct_branch_offsets or correct_jump_targets after the     *)
(* first ones fails its assertion.                                         *)
THEOREM Offsets == Spec => []OffsetsDefined
<1>1. IInv => OffsetsDefined
  BY TypeFacts DEF IInv, OffsetsDefined, OffsetsCorrect, JumpsInside, BranchesHaveOffsets,
                   JumpsHaveOffsets, Corrected
<1> QED
  BY <1>1, Invariant, PTL

(* Flags, addresses and offsets agree between two calls.                   *)
THEOREM Consistent == Spec => []LayoutConsistent
<1>1. IInv => LayoutConsistent
  BY TypeFacts DEF IInv, LayoutConsistent, Placed, Running, OffsetsCorrect, Corrected
<1> QED
  BY <1>1, Invariant, PTL

(* A short branch reaches its target under the layout of the moment.       *)
THEOREM InReach == Spec => []ShortInReach
<1>1. IInv => ShortInReach
  BY TypeFacts DEF IInv, ShortInReach, ShortFit
<1> QED
  BY <1>1, Invariant, PTL

(* main's loop leaves no long branch that would fit.                       *)
THEOREM Complete == Spec => []NoneLeftToShorten
<1>1. IInv => NoneLeftToShorten
  BY TypeFacts DEF IInv, NoneLeftToShorten, LongDoNot
<1> QED
  BY <1>1, Invariant, PTL

(* A jump that became a branch is short in the end.                        *)
THEOREM JumpsShort == Spec => []NearJumpsShort
<1>1. IInv => NearJumpsShort
  BY TypeFacts DEF IInv, NearJumpsShort, LongDoNot, FromInput
<1> QED
  BY <1>1, Invariant, PTL

(* What is in the output file ends where the layout says.                  *)
THEOREM OutputFits == Spec => []WrittenAsLaidOut
<1>1. IInv => WrittenAsLaidOut
  BY DEF IInv, WrittenAsLaidOut, OutputPlaced
<1> QED
  BY <1>1, Invariant, PTL

(* No step makes a short instruction long again.                           *)
THEOREM Monotone == Spec => NeverLengthened
<1> DEFINE Step == \A k \in DOMAIN prog : prog[k].compressed => prog'[k].compressed
<1>1. ASSUME IInv, Next PROVE Step
  <2> SUFFICES ASSUME NEW k \in 1..Len(prog), prog[k].compressed
               PROVE  prog'[k].compressed
    BY <1>1, TypeFacts DEF IInv
  <2>1. CASE ParseInstr
    BY <2>1, <1>1, TypeFacts DEF ParseInstr, IInv
  <2>2. CASE CorrectOffsets
    BY <2>2, <1>1, TypeFacts, OffsetsCorrected DEF CorrectOffsets, IInv
  <2>3. CASE ConvertJumps
    BY <2>3, <1>1, TypeFacts, JumpsConverted DEF ConvertJumps, IInv
  <2>4. CASE CompressBranch
    BY <2>4, <1>1, PassFacts
  <2>5. CASE CorrectTargets
    BY <2>5 DEF CorrectTargets
  <2>6. CASE WriteInstr
    BY <2>6, <1>1, TypeFacts DEF WriteInstr, IInv
  <2>7. CASE Return
    BY <2>7 DEF Return
  <2> QED
    BY <1>1, <2>1, <2>2, <2>3, <2>4, <2>5, <2>6, <2>7 DEF Next
<1>2. UNCHANGED vars => Step
  BY DEF vars
<1>3. IInv /\ [Next]_vars => [Step]_vars
  BY <1>1, <1>2
<1> QED
  BY <1>3, Invariant, PTL DEF Spec, NeverLengthened

(***************************************************************************)
(* What the program still has of the input file                            *)
(***************************************************************************)

(* The instruction that parse_bin stores for a word.                       *)
ReadOf(w) == [Parsed(w) EXCEPT !.compressed = is_compressible_simple(Parsed(w))]

FromWords == \A k \in 1..Len(prog) : Alike(ReadOf(input[k]), prog[k])

KnownWords == \A k \in 1..Len(prog) : Parsed(input[k]).op # "INVALID_OP"

TargetsRead == \A k \in 1..Len(prog) : attr[k].target_index = TargetIndex(Parsed(input[k]), k)

(* Before they are written, jumps get the address of their target.         *)
TargetsSet ==
  pc \in {"write", "done"} =>
    \A k \in 1..Len(prog) : IsJump(prog[k].op) =>
      attr[k].jump_target = NewAddr(prog)[attr[k].target_index + 1]

Faithful == FromWords /\ KnownWords /\ TargetsRead /\ TargetsSet

(* What WriteInstr does with the instruction before it is written: a jump  *)
(* gets its address, and nothing else changes.                             *)
LEMMA WrittenOnly ==
  ASSUME TypeOK, WriteInstr
  PROVE  /\ written + 1 \in 1..Len(prog) /\ Len(prog') = Len(prog)
         /\ \A k \in 1..Len(prog) :
              /\ prog'[k] \in StructInstr /\ Alike(prog[k], prog'[k])
              /\ prog'[k].op = prog[k].op /\ prog'[k].simm = prog[k].simm
              /\ prog'[k].compressed = prog[k].compressed
              /\ k # written + 1 => prog'[k] = prog[k]
         /\ IsJump(prog[written + 1].op) =>
              prog'[written + 1].addr = attr[written + 1].jump_target
         /\ LET code == write_instr_v2(prog'[written + 1]) IN
              IF code = NoCode THEN pc' = "exit" /\ out' = out /\ written' = written
              ELSE pc' = "write" /\ out' = out \o code /\ written' = written + 1
<1> DEFINE k == written + 1
           target == attr[k].jump_target
           i == IF IsJump(prog[k].op) THEN [prog[k] EXCEPT !.addr = target] ELSE prog[k]
           code == write_instr_v2(i)
<1>1. /\ prog' = [prog EXCEPT ![k] = i]
      /\ IF code = NoCode THEN pc' = "exit" /\ out' = out /\ written' = written
         ELSE pc' = "write" /\ out' = out \o code /\ written' = written + 1
  BY DEF WriteInstr
<1>2. k \in 1..Len(prog)
  BY TypeFacts DEF WriteInstr, TypeOK
<1>3. prog[k] \in StructInstr /\ target \in Nat
  BY <1>2, TypeFacts, AttrFields
<1>4. /\ i \in StructInstr /\ Alike(prog[k], i) /\ i.op = prog[k].op
      /\ i.simm = prog[k].simm /\ i.compressed = prog[k].compressed
      /\ IsJump(prog[k].op) => i.addr = target
  <2> HIDE DEF k, target
  <2>1. CASE IsJump(prog[k].op)
    <3>1. /\ [prog[k] EXCEPT !.addr = target] \in StructInstr
          /\ [prog[k] EXCEPT !.addr = target].op = prog[k].op
          /\ [prog[k] EXCEPT !.addr = target].simm = prog[k].simm
          /\ [prog[k] EXCEPT !.addr = target].compressed = prog[k].compressed
          /\ [prog[k] EXCEPT !.addr = target].addr = target
          /\ Alike(prog[k], [prog[k] EXCEPT !.addr = target])
      BY <1>3, <2>1, WithAddr
    <3> QED
      BY <2>1, <3>1, Zenon
  <2>2. CASE ~IsJump(prog[k].op)
    BY <1>3, <2>2, AlikeOrder, Zenon
  <2> QED
    BY <2>1, <2>2
<1> HIDE DEF i, code
<1>5. Len(prog') = Len(prog) /\ prog'[k] = i /\ \A j \in 1..Len(prog) : j # k => prog'[j] = prog[j]
  <2> HIDE DEF k
  <2> QED
    BY <1>1, <1>2, TypeFacts
<1>6. \A j \in 1..Len(prog) :
        /\ prog'[j] \in StructInstr /\ Alike(prog[j], prog'[j])
        /\ prog'[j].op = prog[j].op /\ prog'[j].simm = prog[j].simm
        /\ prog'[j].compressed = prog[j].compressed
  BY <1>4, <1>5, TypeFacts, AlikeOrder
<1> QED
  BY <1>1, <1>2, <1>4, <1>5, <1>6 DEF code

(* Once it has been read, an instruction only changes as Alike says. *)
LEMMA OnlyAlike ==
  ASSUME IInv, Next, ~ParseInstr
  PROVE  /\ input' = input /\ Len(prog') = Len(prog)
         /\ \A k \in 1..Len(prog) :
              Alike(prog[k], prog'[k]) /\ attr'[k].target_index = attr[k].target_index
<1> USE DEF IInv
<1> DEFINE Kept == /\ input' = input /\ Len(prog') = Len(prog)
                   /\ \A k \in 1..Len(prog) : /\ Alike(prog[k], prog'[k])
                                              /\ attr'[k].target_index = attr[k].target_index
<1>1. ASSUME input' = input, prog' = prog, attr' = attr PROVE Kept
  BY <1>1, AlikeOrder
<1>2. ASSUME CorrectOffsets PROVE Kept
  <2>1. CASE BranchesHaveOffsets(prog, attr)
    BY <1>2, <2>1, TypeFacts, OffsetsCorrected DEF CorrectOffsets
  <2>2. CASE ~BranchesHaveOffsets(prog, attr)
    BY <1>1, <1>2, <2>2 DEF CorrectOffsets
  <2> QED
    BY <2>1, <2>2
<1>3. ASSUME ConvertJumps PROVE Kept
  <2>1. CASE JumpsHaveOffsets(prog, attr)
    BY <1>3, <2>1, TypeFacts, JumpsConverted, TargetsCorrected DEF ConvertJumps
  <2>2. CASE ~JumpsHaveOffsets(prog, attr)
    BY <1>1, <1>3, <2>2 DEF ConvertJumps
  <2> QED
    BY <2>1, <2>2
<1>4. ASSUME CompressBranch PROVE Kept
  BY <1>4, PassFacts DEF CompressBranch
<1>5. ASSUME CorrectTargets PROVE Kept
  <2>1. JumpsHaveOffsets(prog, attr)
    BY <1>5, TypeFacts DEF CorrectTargets, JumpsInside, JumpsHaveOffsets, Laying, Laid
  <2> QED
    BY <1>5, <2>1, AlikeOrder, TypeFacts, TargetsCorrected DEF CorrectTargets
<1>6. ASSUME WriteInstr PROVE Kept
  <2>1. input' = input /\ attr' = attr
    BY <1>6 DEF WriteInstr
  <2> QED
    BY <1>6, <2>1, WrittenOnly
<1>7. ASSUME Return PROVE Kept
  BY <1>1, <1>7 DEF Return
<1> QED
  BY <1>2, <1>3, <1>4, <1>5, <1>6, <1>7 DEF Next

(* Reading another word keeps what is known of those before it. *)
LEMMA ParseFaithful ==
  ASSUME IInv, Faithful, ParseInstr
  PROVE  Faithful'
<1> USE DEF IInv
<1> DEFINE n == Len(prog)
           w == input[n + 1]
           at == [new_addr |-> new_addr,
                  jump_target |-> IF IsJump(Parsed(w).op) THEN Parsed(w).addr ELSE 0,
                  target_index |-> TargetIndex(Parsed(w), n + 1)]
<1>1. pc = "parse" /\ input' = input /\ n \in Nat
  BY TypeFacts DEF ParseInstr
<1>2. CASE Parsed(w).op = "INVALID_OP"
  <2>1. pc' = "exit" /\ prog' = prog /\ attr' = attr
    BY <1>2 DEF ParseInstr
  <2> QED
    BY <1>1, <2>1 DEF Faithful, FromWords, KnownWords, TargetsRead, TargetsSet
<1>3. CASE Parsed(w).op # "INVALID_OP"
  <2>1. prog' = Append(prog, ReadOf(w)) /\ attr' = Append(attr, at) /\ pc' = pc
    BY <1>3 DEF ParseInstr, ReadOf
  <2>2. at.target_index = TargetIndex(Parsed(w), n + 1)
    OBVIOUS
  <2> HIDE DEF at
  <2>3. /\ Len(prog') = n + 1 /\ prog'[n + 1] = ReadOf(w)
        /\ \A k \in 1..n : prog'[k] = prog[k]
    BY <2>1, TypeFacts
  <2>4. /\ attr'[n + 1] = at /\ \A k \in 1..n : attr'[k] = attr[k]
    BY <2>1, TypeFacts DEF TypeOK
  <2>5. \A k \in 1..n + 1 : k \in 1..n \/ k = n + 1
    BY <1>1
  <2> HIDE DEF n
  <2>6. FromWords'
    <3>1. \A k \in 1..n : Alike(ReadOf(input[k]), prog[k])
      BY DEF Faithful, FromWords, n
    <3>2. \A k \in 1..n + 1 : Alike(ReadOf(input[k]), prog'[k])
      BY <2>3, <2>5, <3>1, AlikeOrder
    <3> QED
      BY <1>1, <2>3, <3>2 DEF FromWords
  <2>7. KnownWords'
    <3>1. \A k \in 1..n : Parsed(input[k]).op # "INVALID_OP"
      BY DEF Faithful, KnownWords, n
    <3>2. \A k \in 1..n + 1 : Parsed(input[k]).op # "INVALID_OP"
      BY <1>3, <2>5, <3>1
    <3> QED
      BY <1>1, <2>3, <3>2 DEF KnownWords
  <2>8. TargetsRead'
    <3>1. \A k \in 1..n : attr[k].target_index = TargetIndex(Parsed(input[k]), k)
      BY DEF Faithful, TargetsRead, n
    <3>2. \A k \in 1..n + 1 : attr'[k].target_index = TargetIndex(Parsed(input[k]), k)
      BY <2>2, <2>4, <2>5, <3>1
    <3> QED
      BY <1>1, <2>3, <3>2 DEF TargetsRead
  <2> QED
    BY <1>1, <2>1, <2>6, <2>7, <2>8 DEF Faithful, TargetsSet
<1> QED
  BY <1>2, <1>3

(* Nor do the later steps lose it. *)
LEMMA LaterFaithful ==
  ASSUME IInv, Faithful, Next, ~ParseInstr
  PROVE  Faithful'
<1> USE DEF IInv
<1>1. /\ input' = input /\ Len(prog') = Len(prog)
      /\ \A k \in 1..Len(prog) :
           Alike(prog[k], prog'[k]) /\ attr'[k].target_index = attr[k].target_index
  BY OnlyAlike
<1>2. FromWords'
  BY <1>1, AlikeOrder DEF Faithful, FromWords
<1>3. KnownWords' /\ TargetsRead'
  BY <1>1 DEF Faithful, KnownWords, TargetsRead
<1>4. TargetsSet'
  <2>1. CASE CorrectTargets
    <3>1. Laying /\ prog' = prog /\ attr' = correct_jump_targets(prog, attr)
      BY <2>1 DEF CorrectTargets, Laying, Laid
    <3>2. JumpsHaveOffsets(prog, attr)
      BY <3>1, TypeFacts DEF JumpsInside, JumpsHaveOffsets
    <3>3. \A k \in 1..Len(prog) : IsJump(prog[k].op) =>
            attr'[k].jump_target = attr[attr[k].target_index + 1].new_addr
      BY <3>1, <3>2, TypeFacts, TargetsCorrected
    <3>4. \A k \in 1..Len(prog) : IsJump(prog[k].op) => attr[k].target_index + 1 \in 1..Len(prog)
      BY <3>1, TypeFacts, OffsetType DEF JumpsInside
    <3> QED
      BY <1>1, <3>1, <3>3, <3>4 DEF TargetsSet, Placed
  <2>2. CASE WriteInstr
    <3>1. pc = "write" /\ attr' = attr
      BY <2>2 DEF WriteInstr
    <3>2. \A k \in 1..Len(prog) :
            prog'[k].op = prog[k].op /\ prog'[k].compressed = prog[k].compressed
      BY <2>2, WrittenOnly
    <3>3. prog' \in Seq(StructInstr)
      BY <2>2, WriteKeeps DEF TypeOK
    <3>4. NewAddr(prog') = NewAddr(prog)
      BY <1>1, <3>2, <3>3, TypeFacts, NewAddrSame
    <3> QED
      BY <1>1, <3>1, <3>2, <3>4 DEF Faithful, TargetsSet
  <2>3. CASE Return
    BY <2>3 DEF Return, Faithful, TargetsSet
  <2>4. CASE ~CorrectTargets /\ ~WriteInstr /\ ~Return
    <3>1. pc' \notin {"write", "done"}
      BY <2>4 DEF Next, CorrectOffsets, ConvertJumps, CompressBranch
    <3> QED
      BY <3>1 DEF TargetsSet
  <2> QED
    BY <2>1, <2>2, <2>3, <2>4
<1> QED
  BY <1>2, <1>3, <1>4 DEF Faithful

(* Every instruction of the program is that of its word in the input file, *)
(* but for what the relaxation may change, and knows its target.           *)
THEOREM StaysFaithful == Spec => []Faithful
<1>1. Init => Faithful
  BY DEF Init, Faithful, FromWords, KnownWords, TargetsRead, TargetsSet
<1>2. IInv /\ Faithful /\ [Next]_vars => Faithful'
  <2>1. ASSUME IInv, Faithful, UNCHANGED vars PROVE Faithful'
    BY <2>1 DEF vars, Faithful, FromWords, KnownWords, TargetsRead, TargetsSet
  <2> QED
    BY <2>1, ParseFaithful, LaterFaithful
<1> QED
  BY <1>1, <1>2, Invariant, PTL DEF Spec

(* A step that gives up on a target does so at an instruction that has no  *)
(* offset: its target is outside, or nothing follows it.                   *)
LEMMA AbortStep ==
  ASSUME IInv, AbortsOnlyOutside, Next
  PROVE  AbortsOnlyOutside'
<1> SUFFICES ASSUME pc' = "abort" PROVE AbortsOnlyOutside'
  BY DEF AbortsOnlyOutside
<1>1. /\ prog' = prog /\ attr' = attr
      /\ ~BranchesHaveOffsets(prog, attr) \/ ~JumpsHaveOffsets(prog, attr)
  BY DEF Next, ParseInstr, CorrectOffsets, ConvertJumps, CompressBranch, CorrectTargets,
         WriteInstr, Return
<1>2. PICK k \in 1..Len(prog) : Transfers(prog[k].op) /\ ~HasOffset(attr, k)
  BY <1>1, TypeFacts DEF IInv, BranchesHaveOffsets, JumpsHaveOffsets, Transfers
<1>3. k = Len(prog) \/ attr[k].target_index \notin 0..Len(prog) - 1
  <2>1. Len(attr) = Len(prog) /\ Len(prog) \in Nat
    BY TypeFacts DEF IInv, Arrays
  <2>2. attr[k].target_index \notin 0..Len(prog) - 1 \/ ~(k < Len(prog))
    BY <1>2, <2>1 DEF HasOffset
  <2> QED
    BY <2>1, <2>2
<1> QED
  BY <1>1, <1>2, <1>3, TypeFacts DEF IInv, AbortsOnlyOutside

(* The asserts on targets end the process only when a target is outside    *)
(* the program, and the read behind the array only when a branch or a jump *)
(* comes last. For every program, and whatever has been short so far.      *)
THEOREM AbortsOutside == Spec => []AbortsOnlyOutside
<1>1. Init => AbortsOnlyOutside
  BY DEF Init, AbortsOnlyOutside
<1>2. IInv /\ AbortsOnlyOutside /\ [Next]_vars => AbortsOnlyOutside'
  <2>1. ASSUME AbortsOnlyOutside, UNCHANGED vars PROVE AbortsOnlyOutside'
    BY <2>1 DEF vars, AbortsOnlyOutside
  <2> QED
    BY <2>1, AbortStep
<1> QED
  BY <1>1, <1>2, Invariant, PTL DEF Spec

(***************************************************************************)
(* The refinement of Relaxation.                                           *)
(***************************************************************************)
Shape == [k \in DOMAIN prog |-> ShapeOf(k)]
Shortened == {k \in DOMAIN prog : prog[k].op \in PseudoBranch /\ prog[k].compressed}

(* The kinds of the instructions of a shape. *)
LEMMA ShapeKinds ==
  ASSUME TypeOK, NEW k \in 1..Len(prog)
  PROVE  /\ ShapeOf(k).kind \in {"two", "four", "J16", "I16"}
         /\ ShapeOf(k).kind = "J16" <=> prog[k].op \in {"B", "BAL"}
         /\ ShapeOf(k).kind = "I16" <=> prog[k].op \in {"BEQZ", "BNEZ"}
         /\ ShapeOf(k).kind = "two" <=> prog[k].op \notin PseudoBranch /\ prog[k].compressed
         /\ ShapeOf(k).target = IF prog[k].op \in PseudoBranch
                                THEN attr[k].target_index + 1 ELSE 0
<1> DEFINE t == attr[k].target_index + 1
<1>1. ShapeOf(k) = CASE prog[k].op \in {"B", "BAL"}     -> [kind |-> "J16", target |-> t]
                     [] prog[k].op \in {"BEQZ", "BNEZ"} -> [kind |-> "I16", target |-> t]
                     [] OTHER -> [kind |-> IF prog[k].compressed THEN "two" ELSE "four",
                                  target |-> 0]
  BY DEF ShapeOf
<1> HIDE DEF t
<1>2. CASE prog[k].op \in {"B", "BAL"}
  <2>1. ShapeOf(k) = [kind |-> "J16", target |-> t]
    BY <1>1, <1>2
  <2> QED
    BY <1>2, <2>1 DEF t, PseudoBranch
<1>3. CASE prog[k].op \in {"BEQZ", "BNEZ"}
  <2>1. ShapeOf(k) = [kind |-> "I16", target |-> t]
    BY <1>1, <1>3
  <2> QED
    BY <1>3, <2>1 DEF t, PseudoBranch
<1>4. CASE prog[k].op \notin PseudoBranch
  <2>1. ShapeOf(k) = [kind |-> IF prog[k].compressed THEN "two" ELSE "four", target |-> 0]
    BY <1>1, <1>4 DEF PseudoBranch
  <2> QED
    BY <1>4, <2>1 DEF PseudoBranch
<1> QED
  BY <1>2, <1>3, <1>4 DEF PseudoBranch

(* The shape of a program whose branches have offsets is one of Relaxation. *)
LEMMA ShapeIsShape ==
  ASSUME IInv, Laying
  PROVE  Shape \in Seq(ShapeInstr) /\ IsShape(Shape) /\ Len(Shape) = Len(prog)
<1>1. TypeOK /\ Len(prog) \in Nat /\ DOMAIN prog = 1..Len(prog)
  BY TypeFacts DEF IInv
<1>2. \A k \in 1..Len(prog) : prog[k].op \in PseudoBranch =>
        attr[k].target_index + 1 \in 1..Len(prog)
  BY TypeFacts, OffsetType, Transferring DEF IInv, OffsetsCorrect, Corrected
<1>3. \A k \in 1..Len(prog) : ShapeOf(k) \in ShapeInstr
  <2> TAKE k \in 1..Len(prog)
  <2> DEFINE t == attr[k].target_index + 1
  <2>1. ShapeOf(k) = [kind |-> ShapeOf(k).kind, target |-> ShapeOf(k).target]
    BY DEF ShapeOf
  <2>2. ShapeOf(k).kind \in {"two", "four", "J16", "I16"}
    BY <1>1, ShapeKinds
  <2>3. ShapeOf(k).target = IF prog[k].op \in PseudoBranch THEN t ELSE 0
    BY <1>1, ShapeKinds
  <2>4. prog[k].op \in PseudoBranch => t \in Nat
    BY <1>2
  <2> HIDE DEF t
  <2>5. ShapeOf(k).target \in Nat
    BY <2>3, <2>4
  <2> QED
    BY <2>1, <2>2, <2>5 DEF ShapeInstr
<1>4. Shape = [k \in 1..Len(prog) |-> Shape[k]] /\ \A k \in 1..Len(prog) : Shape[k] = ShapeOf(k)
  BY <1>1 DEF Shape
<1>5. Shape \in Seq(ShapeInstr) /\ Len(Shape) = Len(prog)
  BY <1>1, <1>3, <1>4, ArrayType
<1>6. \A k \in DOMAIN Shape : Shape[k].kind \in {"J16", "I16"} => Shape[k].target \in DOMAIN Shape
  <2>1. DOMAIN Shape = 1..Len(prog)
    BY <1>1 DEF Shape
  <2>2. \A k \in 1..Len(prog) :
          ShapeOf(k).kind \in {"J16", "I16"} =>
            prog[k].op \in PseudoBranch /\ ShapeOf(k).target = attr[k].target_index + 1
    BY <1>1, ShapeKinds DEF PseudoBranch
  <2> QED
    BY <1>2, <1>4, <2>1, <2>2
<1> QED
  BY <1>5, <1>6 DEF IsShape

(* The same as a formula that can be primed. *)
ShapeFits == Shape \in Seq(ShapeInstr) /\ IsShape(Shape)

(* It holds from the first pass on. *)
LEMMA LaidShapeFits == IInv /\ Laying => ShapeFits
BY ShapeIsShape DEF ShapeFits

(* Its sizes are those of the instructions, and so are its addresses.      *)
LEMMA ShapeSizes ==
  ASSUME IInv, Laying
  PROVE  R!Sizes(Shape, Shortened) = SizesOf(prog)
<1>1. TypeOK /\ DOMAIN prog = 1..Len(prog)
  BY TypeFacts DEF IInv
<1>2. DOMAIN Shape = 1..Len(prog) /\ \A k \in 1..Len(prog) : Shape[k] = ShapeOf(k)
  BY <1>1 DEF Shape
<1>3. \A k \in 1..Len(prog) :
        (Shape[k].kind = "two" \/ k \in Shortened) <=> prog[k].compressed
  BY <1>1, <1>2, ShapeKinds DEF Shortened
<1>4. \A k \in 1..Len(prog) :
        (IF Shape[k].kind = "two" \/ k \in Shortened THEN 2 ELSE 4) = Size(prog[k])
  BY <1>3, Zenon DEF Size
<1> QED
  BY <1>1, <1>2, <1>4 DEF R!Sizes, SizesOf

(* What fits in Relaxation is what compress_branch finds compressible. *)
LEMMA ShapeFitting ==
  ASSUME IInv, Laying
  PROVE  R!Fitting(Shape, Shortened) =
           {k \in 1..Len(prog) : prog[k].op \in PseudoBranch /\ Compressible(prog[k])}
<1>1. TypeOK /\ DOMAIN prog = 1..Len(prog) /\ prog \in Seq(StructInstr) /\ Arrays(prog, attr)
  BY TypeFacts DEF IInv
<1>2. DOMAIN Shape = 1..Len(prog) /\ \A k \in 1..Len(prog) : Shape[k] = ShapeOf(k)
  BY <1>1 DEF Shape
<1>3. R!Addresses(R!Sizes(Shape, Shortened)) = NewAddr(prog)
  <2>1. \A size : R!Addresses(size) = Addresses(size)
    BY DEF R!Addresses, Addresses
  <2> QED
    BY <1>1, <2>1, ShapeSizes, SizesOfType
<1>4. R!Branches(Shape) = {k \in 1..Len(prog) : prog[k].op \in PseudoBranch}
  <2>1. \A k \in 1..Len(prog) : Shape[k].kind \in {"J16", "I16"} <=> prog[k].op \in PseudoBranch
    BY <1>1, <1>2, ShapeKinds DEF PseudoBranch
  <2> QED
    BY <1>2, <2>1 DEF R!Branches
<1>5. ASSUME NEW k \in 1..Len(prog), prog[k].op \in PseudoBranch
      PROVE  R!Offset(Shape, Shortened, k) \in R!Reach(Shape[k].kind) <=> Compressible(prog[k])
  <2>1. HasOffset(attr, k) /\ prog[k].simm = OffsetOf(attr, k)
    BY <1>1, <1>5, Transferring DEF IInv, OffsetsCorrect, Corrected
  <2>2. OffsetOf(attr, k) = NewAddr(prog)[attr[k].target_index + 1] - NewAddr(prog)[k + 1]
    BY <1>1, <2>1, OffsetValue DEF IInv
  <2>3. Shape[k].target = attr[k].target_index + 1
    BY <1>1, <1>2, <1>5, ShapeKinds
  <2>4. R!Offset(Shape, Shortened, k) = prog[k].simm
    BY <1>3, <2>1, <2>2, <2>3, Zenon DEF R!Offset
  <2>5. R!Reach(Shape[k].kind) = -ReachOf(prog[k].op)..ReachOf(prog[k].op) - 2
    BY <1>1, <1>2, <1>5, ShapeKinds DEF R!Reach, ReachOf, PseudoBranch
  <2>6. prog[k] \in StructInstr
    BY <1>1
  <2> QED
    BY <1>5, <2>4, <2>5, <2>6, CompressibleMeans
<1> QED
  BY <1>4, <1>5 DEF R!Fitting

(* Instructions that are alike have the same place in the shape. *)
LEMMA SameShape ==
  ASSUME TypeOK, TypeOK', Len(prog') = Len(prog),
         \A k \in 1..Len(prog) : /\ prog'[k].op = prog[k].op /\ Alike(prog[k], prog'[k])
                                 /\ attr'[k].target_index = attr[k].target_index
  PROVE  Shape' = Shape
<1>1. DOMAIN prog' = 1..Len(prog) /\ DOMAIN prog = 1..Len(prog)
  BY TypeFacts DEF TypeOK
<1>2. ASSUME NEW k \in 1..Len(prog) PROVE ShapeOf(k)' = ShapeOf(k)
  <2>1. /\ prog'[k].op = prog[k].op
        /\ prog[k].op \in PseudoBranch \/ prog'[k].compressed = prog[k].compressed
        /\ attr'[k].target_index = attr[k].target_index
    BY <1>2 DEF Alike
  <2>2. prog[k].op \in PseudoBranch => prog[k].op \in {"B", "BAL"} \cup {"BEQZ", "BNEZ"}
    BY DEF PseudoBranch
  <2> QED
    BY <2>1, <2>2 DEF ShapeOf
<1>3. Shape' = [k \in 1..Len(prog) |-> ShapeOf(k)'] /\ Shape = [k \in 1..Len(prog) |-> ShapeOf(k)]
  BY <1>1 DEF Shape
<1> QED
  BY <1>2, <1>3

(* A step before the layout starts, or after it, is none of Relaxation. *)
LEMMA NotLayingYet ==
  ASSUME ~Laying, ~Laying'
  PROVE  UNCHANGED R!rvars
BY DEF R!rvars, Laying

(* A later step that keeps the kinds, the targets and the flags. *)
LEMMA NothingShortened ==
  ASSUME TypeOK, TypeOK', Laying, Laying', Laid' <=> Laid, Len(prog') = Len(prog),
         \A k \in 1..Len(prog) : /\ prog'[k].op = prog[k].op /\ Alike(prog[k], prog'[k])
                                 /\ prog'[k].compressed = prog[k].compressed
                                 /\ attr'[k].target_index = attr[k].target_index
  PROVE  UNCHANGED R!rvars
<1>1. Shape' = Shape
  BY SameShape
<1>2. Shortened' = Shortened
  BY TypeFacts DEF Shortened, TypeOK
<1> QED
  BY <1>1, <1>2 DEF R!rvars, Shape, Shortened

(* Turning the jumps into branches loads the program. *)
LEMMA ConvertLoads ==
  ASSUME IInv, IInv', Faithful, ConvertJumps, pc' = "compress"
  PROVE  R!Load
<1>1. ~Laying /\ ~Laid /\ Laying' /\ ~Laid' /\ pc = "jumps"
  BY DEF ConvertJumps, Laying, Laid
<1>2. JumpsHaveOffsets(prog, attr) /\ prog' = jump_to_branch(prog, attr)
  BY DEF ConvertJumps
<1>3. Len(prog') = Len(prog) /\ DOMAIN prog' = 1..Len(prog)
  BY <1>2, TypeFacts, JumpsConverted DEF IInv
<1>4. Shape' \in Seq(ShapeInstr) /\ IsShape(Shape')
  <2>1. ShapeFits'
    BY <1>1, LaidShapeFits, PTL
  <2> QED
    BY <2>1 DEF ShapeFits, IsShape
<1>5. Shortened' = {}
  <2>1. SUFFICES ASSUME NEW k \in 1..Len(prog), prog'[k].op \in PseudoBranch, prog'[k].compressed
                 PROVE  FALSE
    BY <1>3 DEF Shortened
  <2>2. /\ prog'[k].compressed = prog[k].compressed
        /\ prog'[k] = prog[k] \/ IsJump(prog[k].op)
    BY <1>2, TypeFacts, JumpsConverted DEF IInv
  <2>3. prog[k].op \in PseudoBranch => ~prog[k].compressed
    BY <1>1 DEF IInv, AllLong
  <2>4. IsJump(prog[k].op) => ~prog[k].compressed
    <3> DEFINE i == Parsed(input[k])
    <3> HAVE IsJump(prog[k].op)
    <3>1. Alike(ReadOf(input[k]), prog[k]) /\ i \in StructInstr
      BY ParsedType, TypeFacts DEF Faithful, FromWords, IInv, TypeOK
    <3>2. prog[k].op \notin PseudoBranch
      BY Transferring
    <3>3. is_compressible_simple(i) \in BOOLEAN
      BY DEF is_compressible_simple
    <3> HIDE DEF i
    <3>4. ReadOf(input[k]).op = i.op /\ ReadOf(input[k]).compressed = is_compressible_simple(i)
      BY <3>1, <3>3 DEF ReadOf, StructInstr, i
    <3>5. i.op = prog[k].op /\ prog[k].compressed = is_compressible_simple(i)
      BY <3>1, <3>2, <3>4 DEF Alike, PseudoBranch
    <3>6. ~is_compressible_simple(i)
      BY <3>5 DEF IsJump, is_compressible_simple, Shifts
    <3> QED
      BY <3>5, <3>6
  <2> QED
    BY <2>1, <2>2, <2>3, <2>4
<1> DEFINE shapes == {sh \in Seq(ShapeInstr) : IsShape(sh)}
<1>6. Shape' \in shapes
  BY <1>4
<1> QED
  BY <1>1, <1>5, <1>6 DEF R!Load, Shape, Shortened

(* A pass shortens branches that fit, or finds that none is left. *)
LEMMA PassRefines ==
  ASSUME IInv, IInv', CompressBranch
  PROVE  R!Shorten \/ R!Finish
<1>1. pc = "compress" /\ pc' \in {"compress", "targets"}
  BY DEF CompressBranch
<1>2. Laying /\ ~Laid /\ Laying' /\ (Laid' <=> pc' = "targets")
  BY <1>1 DEF Laying, Laid
<1>3. /\ TypeOK /\ TypeOK' /\ Len(prog') = Len(prog)
      /\ DOMAIN prog' = 1..Len(prog) /\ DOMAIN prog = 1..Len(prog)
  BY PassFacts, TypeFacts DEF IInv, Arrays
<1>4. \A k \in 1..Len(prog) :
        /\ prog'[k].op = prog[k].op /\ Alike(prog[k], prog'[k])
        /\ attr'[k].target_index = attr[k].target_index
        /\ prog[k].compressed => prog'[k].compressed
        /\ prog[k].op \in PseudoBranch => (prog'[k].compressed <=> Compressible(prog[k]))
        /\ prog[k].op \notin PseudoBranch => prog'[k].compressed = prog[k].compressed
  BY PassFacts DEF Alike
<1>5. Shape' = Shape
  BY <1>3, <1>4, SameShape
<1> DEFINE F == R!Fitting(Shape, Shortened)
<1>6. F = {k \in 1..Len(prog) : prog[k].op \in PseudoBranch /\ Compressible(prog[k])}
  BY <1>2, ShapeFitting
<1> HIDE DEF F
<1>7. Shortened \subseteq Shortened' /\ Shortened' \subseteq F
  BY <1>3, <1>4, <1>6 DEF Shortened
<1>8. CASE pc' = "targets"
  <2>1. \A k \in 1..Len(prog) : prog'[k].compressed = prog[k].compressed
    BY <1>8, PassFacts
  <2>2. Shortened' = Shortened
    BY <1>3, <1>4, <2>1 DEF Shortened
  <2>3. F \subseteq Shortened
    BY <1>3, <1>4, <1>6, <2>1 DEF Shortened
  <2>4. R!Finish
    BY <1>2, <1>5, <1>8, <2>2, <2>3 DEF R!Finish, Shape, Shortened, F
  <2> QED
    BY <2>4
<1>9. CASE pc' # "targets"
  <2>1. PICK k \in 1..Len(prog) : prog'[k].compressed # prog[k].compressed
    BY <1>9, PassFacts
  <2>2. prog[k] \in StructInstr /\ prog'[k] \in StructInstr
    BY <1>3, TypeFacts DEF TypeOK
  <2>3. k \in Shortened' \ Shortened
    BY <1>3, <1>4, <2>1, <2>2, InstrFields DEF Shortened
  <2>4. Shortened' \ Shortened \in SUBSET (F \ Shortened)
    BY <1>7
  <2>5. Shortened' \ Shortened # {} /\ Shortened' = Shortened \cup (Shortened' \ Shortened)
    BY <1>7, <2>3
  <2>6. \E S \in SUBSET (F \ Shortened) : S # {} /\ Shortened' = Shortened \cup S
    BY <2>4, <2>5, Zenon
  <2>7. R!Shorten
    BY <1>2, <1>5, <1>9, <2>6 DEF R!Shorten, Shape, Shortened, F
  <2> QED
    BY <2>7
<1> QED
  BY <1>8, <1>9

(* Every step of the converter is one of Relaxation, or none.              *)
LEMMA RelaxationStep ==
  ASSUME IInv, IInv', Faithful, [Next]_vars
  PROVE  [R!RNext]_R!rvars
<1>1. TypeOK /\ TypeOK' /\ Len(prog) \in Nat
  BY TypeFacts DEF IInv
<1>2. CASE ParseInstr
  <2>1. ~Laying /\ ~Laying'
    BY <1>1, <1>2 DEF ParseInstr, Laying, Laid
  <2> QED
    BY <2>1, NotLayingYet
<1>3. CASE CorrectOffsets
  <2>1. ~Laying /\ ~Laying'
    BY <1>3 DEF CorrectOffsets, Laying, Laid
  <2> QED
    BY <2>1, NotLayingYet
<1>4. CASE ConvertJumps
  <2>1. CASE pc' = "compress"
    BY <1>4, <2>1, ConvertLoads DEF R!RNext
  <2>2. CASE pc' # "compress"
    <3>1. ~Laying /\ ~Laying'
      BY <1>4, <2>2 DEF ConvertJumps, Laying, Laid
    <3> QED
      BY <3>1, NotLayingYet
  <2> QED
    BY <2>1, <2>2
<1>5. CASE CompressBranch
  BY <1>5, PassRefines DEF R!RNext
<1>6. CASE CorrectTargets \/ WriteInstr \/ Return
  <2>1. Next /\ ~ParseInstr
    BY <1>6 DEF Next, ParseInstr, CorrectTargets, WriteInstr, Return
  <2>2. /\ input' = input /\ Len(prog') = Len(prog)
        /\ \A k \in 1..Len(prog) :
             Alike(prog[k], prog'[k]) /\ attr'[k].target_index = attr[k].target_index
    BY <2>1, OnlyAlike
  <2>3. Laying /\ Laid /\ Len(prog) = Len(input)
    BY <1>6 DEF CorrectTargets, WriteInstr, Return, Laying, Laid, IInv, WholeInput, Corrected
  <2>4. Laying' /\ Laid'
    BY <1>6, <2>2, <2>3 DEF CorrectTargets, WriteInstr, Return, Laying, Laid
  <2>5. \A k \in 1..Len(prog) :
          prog'[k].op = prog[k].op /\ prog'[k].compressed = prog[k].compressed
    <3>1. CASE WriteInstr
      BY <3>1, WrittenOnly DEF IInv
    <3>2. CASE prog' = prog
      BY <3>2
    <3> QED
      BY <1>6, <3>1, <3>2 DEF CorrectTargets, Return
  <2> QED
    BY <1>1, <2>2, <2>3, <2>4, <2>5, NothingShortened
<1>7. CASE UNCHANGED vars
  BY <1>7 DEF vars, R!rvars, Laying, Laid, ShapeOf
<1> QED
  BY <1>2, <1>3, <1>4, <1>5, <1>6, <1>7 DEF Next

(* The passes of compress_branch implement the abstract relaxation: each   *)
(* one shortens branches that fit under the addresses before it, at least  *)
(* one, and the loop ends where nothing is left to shorten. (That the loop *)
(* goes on is the other half of ImplementsRelaxation.)                     *)
THEOREM PassesRelax == Spec => R!RInit /\ [][R!RNext]_R!rvars
<1>1. Init => R!RInit
  BY DEF Init, R!RInit, Laying, Laid
<1>2. IInv /\ IInv' /\ Faithful /\ [Next]_vars => [R!RNext]_R!rvars
  BY RelaxationStep
<1> QED
  BY <1>1, <1>2, Invariant, StaysFaithful, PTL DEF Spec

(***************************************************************************)
(* The writer never gives up on what the converter has made                *)
(***************************************************************************)

(* The reaches of the code's formats, and a file whose addresses fit the   *)
(* 26-bit field of a jump.                                                 *)
CodeReach ==
  /\ JReach <= 1024 /\ ZReach <= 32
  /\ \A p \in Programs : Len(p) <= 33554432

(* An instruction is even placed, at most four bytes after the one before. *)
LEMMA NewAddrBounds ==
  ASSUME NEW p \in Seq(StructInstr)
  PROVE  \A k \in 1..Len(p) + 1 :
           NewAddr(p)[k] \in Nat /\ NewAddr(p)[k] <= 4 * (k - 1) /\ NewAddr(p)[k] % 2 = 0
<1> DEFINE n == Len(p)
           a == NewAddr(p)
           T == {k \in 1..n + 1 : ~(a[k] <= 4 * (k - 1) /\ a[k] % 2 = 0)}
<1>1. n \in Nat /\ \A k \in 1..n : Size(p[k]) \in {2, 4}
  BY InstrFields
<1>2. a \in [1..n + 1 -> Nat] /\ a[1] = 0 /\ \A k \in 1..n : a[k + 1] = a[k] + Size(p[k])
  BY NewAddrSteps
<1> HIDE DEF a, n
<1>3. T = {}
  <2>1. SUFFICES ASSUME T # {} PROVE FALSE
    OBVIOUS
  <2>2. PICK k \in T : \A l \in T : k <= l
    <3>1. T \in SUBSET Nat
      BY <1>1
    <3> QED
      BY <2>1, <3>1, LeastNatural
  <2>3. k # 1
    BY <1>1, <1>2, <2>2
  <2>4. k - 1 \in 1..n /\ k - 1 \in 1..n + 1 /\ k - 1 \notin T /\ (k - 1) + 1 = k
    BY <1>1, <2>2, <2>3
  <2>5. a[k - 1] \in Nat /\ a[k - 1] <= 4 * (k - 1 - 1) /\ a[k - 1] % 2 = 0
    BY <1>2, <2>4
  <2>6. a[k] = a[k - 1] + Size(p[k - 1]) /\ Size(p[k - 1]) \in {2, 4}
    BY <1>1, <1>2, <2>4
  <2>7. a[k] <= 4 * (k - 1) /\ a[k] % 2 = 0
    <3> DEFINE x == a[k - 1]
               z == Size(p[k - 1])
    <3>1. x \in Nat /\ z \in {2, 4} /\ x <= 4 * (k - 1 - 1) /\ x % 2 = 0 /\ a[k] = x + z /\ k \in Int
      BY <2>4, <2>5, <2>6
    <3> HIDE DEF x, z
    <3> QED
      BY <3>1
  <2> QED
    BY <2>2, <2>7
<1> QED
  BY <1>2, <1>3 DEF a, n

(* The half of an offset in the reach of a short branch fits its field.    *)
LEMMA HalfOffsets ==
  /\ \A n \in Int : n >= -1024 /\ n <= 1022 => CDiv(n, 2) \in -512..511
  /\ \A n \in Int : n >= -32 /\ n <= 30 => CDiv(n, 2) \in Signed5
BY DEF CDiv, Signed5

(* The instruction that parse_bin stores: the parsed one, with its flag.   *)
LEMMA ReadOfType ==
  ASSUME NEW w \in Word
  PROVE  LET x == Parsed(w)
             y == ReadOf(w)
         IN /\ x \in StructInstr /\ y \in StructInstr
            /\ y.op = x.op /\ y.rs = x.rs /\ y.rt = x.rt /\ y.rd = x.rd /\ y.imm = x.imm
            /\ y.simm = x.simm /\ y.addr = x.addr /\ y.compressed = is_compressible_simple(x)
<1> DEFINE x == Parsed(w)
           y == ReadOf(w)
           b == is_compressible_simple(x)
<1>1. x \in StructInstr
  BY ParsedType
<1>2. b \in BOOLEAN
  BY BranchesNotSimple
<1>3. y = [x EXCEPT !.compressed = b]
  BY DEF ReadOf
<1> HIDE DEF x, y, b
<1>4. /\ y \in StructInstr
      /\ y.op = x.op /\ y.rs = x.rs /\ y.rt = x.rt /\ y.rd = x.rd /\ y.imm = x.imm
      /\ y.simm = x.simm /\ y.addr = x.addr
  BY <1>1, <1>2, <1>3 DEF StructInstr
<1>5. y.compressed = b
  BY <1>1, <1>3 DEF StructInstr
<1> QED
  BY <1>1, <1>4, <1>5 DEF x, y, b

(* An instruction that was short when it was read has a code.              *)
LEMMA SimpleIsShort ==
  ASSUME NEW w \in Word, Parsed(w).op # "INVALID_OP", NEW i \in StructInstr,
         Alike(ReadOf(w), i), i.op \notin PseudoBranch, i.compressed
  PROVE  Short(i)
<1> DEFINE x == Parsed(w)
           y == ReadOf(w)
<1>1. x \in StructInstr
  BY ParsedType
<1>2. /\ y.op = x.op /\ y.rs = x.rs /\ y.rt = x.rt /\ y.rd = x.rd /\ y.imm = x.imm
      /\ y.simm = x.simm /\ y.compressed = is_compressible_simple(x)
  BY ReadOfType
<1> HIDE DEF x, y
<1>3. /\ i.op = x.op /\ i.rs = x.rs /\ i.rt = x.rt /\ i.rd = x.rd /\ i.imm = x.imm
      /\ is_branch(i.op) \/ i.simm = x.simm
      /\ is_compressible_simple(x)
  <2>1. Alike(y, i) /\ {"B", "BAL"} \subseteq PseudoBranch
    BY Transferring DEF y
  <2> QED
    BY <1>2, <2>1 DEF Alike
<1>4. ~is_branch(i.op)
  BY <1>3 DEF is_compressible_simple, is_branch, NativeBranch, PseudoBranch, Shifts
<1>5. is_compressible_simple(i)
  BY <1>3, <1>4 DEF is_compressible_simple
<1>6. x.op = "LSI" => x.simm \in -16..15
  <2> DEFINE raw == parse_instr(w)
  <2>1. raw \in StructInstr /\ raw.op \in Native \cup {"INVALID_OP"} /\ x = conv_to_pseudo(raw)
    BY ParseType DEF x, Parsed
  <2> HIDE DEF raw
  <2>2. CASE raw.op = "INVALID_OP"
    <3>1. conv_to_pseudo(raw) = raw
      BY <2>2 DEF conv_to_pseudo, Shifts, ShiftVs, Alu, AluImm, Compare, NativeBranch
    <3> QED
      BY <2>1, <2>2, <3>1
  <2>3. CASE raw.op \in Native
    BY <2>1, <2>3, PseudoKeeps
  <2> QED
    BY <2>1, <2>2, <2>3
<1> QED
  BY <1>3, <1>4, <1>5, <1>6 DEF Short, Signed5

(* So does a short branch in reach. *)
LEMMA InReachIsShort ==
  ASSUME CodeReach, NEW i \in StructInstr, i.op \in PseudoBranch, Compressible(i)
  PROVE  Short(i)
<1>1. i.simm \in Int /\ i.simm >= -ReachOf(i.op) /\ i.simm <= ReachOf(i.op) - 2
  <2>1. ReachOf(i.op) \in Nat
    BY ReachAssumption DEF ReachOf
  <2> QED
    BY <2>1, InstrFields, CompressibleMeans
<1>2. CASE i.op \in {"B", "BAL"}
  <2>1. ReachOf(i.op) \in Nat /\ ReachOf(i.op) <= 1024
    BY <1>2, ReachAssumption DEF ReachOf, CodeReach
  <2>2. i.simm \in Int /\ i.simm >= -1024 /\ i.simm <= 1022
    BY ONLY <1>1, <2>1
  <2>3. CDiv(i.simm, 2) \in -512..511
    BY ONLY <2>2, HalfOffsets, ZenonT(60)
  <2> QED
    BY <1>2, <2>3 DEF Short
<1>3. CASE i.op \in {"BEQZ", "BNEZ"}
  <2>1. ReachOf(i.op) \in Nat /\ ReachOf(i.op) <= 32
    BY <1>3, ReachAssumption DEF ReachOf, CodeReach
  <2>2. i.simm \in Int /\ i.simm >= -32 /\ i.simm <= 30
    BY ONLY <1>1, <2>1
  <2>3. CDiv(i.simm, 2) \in Signed5
    BY ONLY <2>2, HalfOffsets, ZenonT(60)
  <2> QED
    BY <1>3, <2>3 DEF Short
<1> QED
  BY <1>2, <1>3 DEF PseudoBranch

(* The address of a target fits the field of a jump. *)
LEMMA TargetFits ==
  ASSUME NEW n \in Nat, n <= 134217724
  PROVE  JumpFits(CDiv(n, 2))
BY SMT DEF CDiv, JumpFits

(* What the last loop of main writes has a code, or it is MFC0 or MTC0.    *)
LEMMA AllHaveCodes ==
  ASSUME CodeReach, IInv, Faithful, input \in Programs, WriteInstr
  PROVE  LET i == prog'[written + 1] IN write_instr_v2(i) # NoCode \/ i.op \in Cop0
<1> USE DEF IInv
<1> DEFINE k == written + 1
           i == prog'[k]
<1>1. /\ k \in 1..Len(prog) /\ i \in StructInstr /\ Alike(prog[k], i) /\ i.op = prog[k].op
      /\ i.simm = prog[k].simm /\ i.compressed = prog[k].compressed
      /\ IsJump(prog[k].op) => i.addr = attr[k].jump_target
  BY WrittenOnly
<1>2. Laying /\ Corrected /\ pc = "write" /\ Len(prog) = Len(input) /\ prog[k] \in StructInstr
  BY <1>1, TypeFacts DEF WriteInstr, Laying, Laid, Corrected, WholeInput
<1>3. input[k] \in Word /\ ReadOf(input[k]) \in StructInstr
  BY <1>1, <1>2, TypeFacts, ReadOfType
<1>4. Alike(ReadOf(input[k]), prog[k]) /\ Parsed(input[k]).op # "INVALID_OP"
  BY <1>1 DEF Faithful, FromWords, KnownWords
<1> HIDE DEF i, k
<1> SUFFICES write_instr_v2(i) # NoCode \/ i.op \in Cop0
  BY DEF i, k
<1>5. Alike(ReadOf(input[k]), i)
  BY <1>1, <1>2, <1>3, <1>4, AlikeOrder
<1>6. i.op # "INVALID_OP"
  <2>1. ReadOf(input[k]).op = Parsed(input[k]).op
    BY <1>3, ReadOfType
  <2> QED
    BY <1>4, <1>5, <2>1 DEF Alike
<1>7. CASE i.compressed
  <2>1. CASE i.op \in PseudoBranch
    <3>1. Compressible(prog[k])
      BY <1>1, <1>2, <1>7, <2>1 DEF ShortFit
    <3>2. Compressible(i)
      BY <1>1, <3>1, Zenon DEF Compressible
    <3> QED
      BY <1>1, <1>7, <2>1, <3>2, InReachIsShort, SmallHasCode DEF write_instr_v2
  <2>2. CASE i.op \notin PseudoBranch
    BY <1>1, <1>3, <1>4, <1>5, <1>7, <2>2, SimpleIsShort, SmallHasCode DEF write_instr_v2
  <2> QED
    BY <2>1, <2>2
<1>8. CASE ~i.compressed /\ i.op \notin Cop0
  <2>1. IsJump(i.op) => JumpFits(CDiv(i.addr, 2))
    <3>1. SUFFICES ASSUME IsJump(i.op) PROVE JumpFits(CDiv(i.addr, 2))
      OBVIOUS
    <3>2. HasOffset(attr, k)
      BY <1>1, <1>2, <3>1 DEF JumpsInside
    <3> DEFINE t == attr[k].target_index + 1
    <3>3. t \in 1..Len(prog) /\ i.addr = NewAddr(prog)[t]
      BY <1>1, <1>2, <3>1, <3>2, TypeFacts, OffsetType DEF Faithful, TargetsSet
    <3>4. Len(prog) \in Nat /\ Len(prog) <= 33554432
      BY <1>2, TypeFacts DEF CodeReach
    <3> HIDE DEF t
    <3>5. t \in 1..Len(prog) + 1
      BY <3>3, <3>4
    <3>6. i.addr \in Nat /\ i.addr <= 4 * (t - 1)
      BY <3>3, <3>5, TypeFacts, NewAddrBounds
    <3>7. i.addr <= 134217724
      BY <3>3, <3>4, <3>6
    <3> QED
      BY <3>6, <3>7, TargetFits
  <2> QED
    BY <1>1, <1>6, <1>8, <2>1, LongHasCode DEF write_instr_v2, IsJump
<1> QED
  BY <1>7, <1>8

(* The steps that end in exit: at an unknown word, or at a code that the   *)
(* format does not have.                                                   *)
LEMMA ExitStep ==
  ASSUME CodeReach, IInv, Faithful, input \in Programs, RefusedOnlyUnknown, Next
  PROVE  RefusedOnlyUnknown'
<1> USE DEF IInv
<1> SUFFICES ASSUME pc' = "exit" PROVE RefusedOnlyUnknown'
  BY DEF RefusedOnlyUnknown
<1>1. CASE ParseInstr
  <2>1. /\ pc = "parse" /\ Len(prog) < Len(input)
        /\ input' = input /\ written' = written /\ written = 0
    BY <1>1 DEF ParseInstr, OutputPlaced
  <2>2. prog' = prog /\ Parsed(input[Len(prog) + 1]).op = "INVALID_OP"
    BY <1>1, <2>1 DEF ParseInstr
  <2> QED
    BY <2>1, <2>2 DEF RefusedOnlyUnknown
<1>2. CASE WriteInstr
  <2>1. /\ Len(prog') = Len(prog) /\ input' = input
        /\ write_instr_v2(prog'[written + 1]) = NoCode /\ written' = written
    BY <1>2, WrittenOnly DEF WriteInstr
  <2>2. Len(prog) = Len(input) /\ Len(prog) \in Nat
    BY <1>2, TypeFacts DEF WriteInstr, WholeInput, Corrected, Laying, Laid
  <2>3. prog'[written + 1].op \in Cop0
    BY <1>2, <2>1, AllHaveCodes
  <2> QED
    BY <2>1, <2>2, <2>3 DEF RefusedOnlyUnknown
<1>3. CASE ~ParseInstr /\ ~WriteInstr
  BY <1>3 DEF Next, CorrectOffsets, ConvertJumps, CompressBranch, CorrectTargets, Return
<1> QED
  BY <1>1, <1>2, <1>3

(* The input file does not change. *)
LEMMA InputStays ==
  ASSUME input \in Programs, [Next]_vars
  PROVE  (input \in Programs)'
BY DEF Next, vars, ParseInstr, CorrectOffsets, ConvertJumps, CompressBranch, CorrectTargets,
       WriteInstr, Return

(* With the reaches of the code, and addresses that fit the field of a     *)
(* jump, the process gives up only at a word that is no instruction and at *)
(* MFC0 and MTC0: whatever is short has an operand that fits.              *)
THEOREM RefusesOnlyUnknown ==
  ASSUME CodeReach
  PROVE  Spec => []RefusedOnlyUnknown
<1> DEFINE FromPrograms == input \in Programs
<1>1. Init => FromPrograms /\ RefusedOnlyUnknown
  BY DEF Init, RefusedOnlyUnknown
<1>2. FromPrograms /\ [Next]_vars => FromPrograms'
  BY InputStays
<1>3. FromPrograms /\ IInv /\ Faithful /\ RefusedOnlyUnknown /\ [Next]_vars => RefusedOnlyUnknown'
  <2>1. ASSUME RefusedOnlyUnknown, UNCHANGED vars PROVE RefusedOnlyUnknown'
    BY <2>1 DEF vars, RefusedOnlyUnknown
  <2> QED
    BY <2>1, ExitStep
<1> HIDE DEF FromPrograms
<1> QED
  BY <1>1, <1>2, <1>3, Invariant, StaysFaithful, PTL DEF Spec

(***************************************************************************)
(* The output file goes where the input file goes                          *)
(***************************************************************************)

(* The code of instruction k stands in the output where the layout has it. *)
CodedAt(k) ==
  LET c == write_instr_v2(prog[k])
      h == NewAddr(prog)[k] \div 2
  IN /\ c # NoCode
     /\ h + Len(c) <= Len(out)
     /\ \A j \in 1..Len(c) : out[h + j] = c[j]
     /\ IsJump(prog[k].op) => prog[k].addr = attr[k].jump_target

OutputCoded ==
  /\ pc \in {"write", "done"} => \A k \in 1..written : CodedAt(k)
  /\ pc = "done" => written = Len(prog)

(* Writing the next instruction leaves the codes before it alone.          *)
LEMMA WriteCoded ==
  ASSUME IInv, OutputCoded, WriteInstr
  PROVE  OutputCoded'
<1> USE DEF IInv
<1> DEFINE n == written + 1
           i == prog'[n]
           code == write_instr_v2(i)
<1>1. /\ n \in 1..Len(prog) /\ Len(prog') = Len(prog)
      /\ \A k \in 1..Len(prog) : /\ prog'[k] \in StructInstr
                                 /\ prog'[k].op = prog[k].op
                                 /\ prog'[k].compressed = prog[k].compressed
                                 /\ k # n => prog'[k] = prog[k]
      /\ IsJump(prog[n].op) => i.addr = attr[n].jump_target
      /\ IF code = NoCode THEN pc' = "exit" /\ out' = out /\ written' = written
         ELSE pc' = "write" /\ out' = out \o code /\ written' = n
  BY WrittenOnly
<1>2. attr' = attr /\ pc = "write" /\ written \in Nat
  BY TypeFacts DEF WriteInstr, TypeOK
<1>3. prog' \in Seq(StructInstr)
  BY WriteKeeps DEF TypeOK
<1>4. NewAddr(prog') = NewAddr(prog)
  BY <1>1, <1>3, TypeFacts, NewAddrSame
<1>5. NewAddr(prog)[n] = 2 * Len(out) /\ out \in Seq(Half)
  BY DEF OutputPlaced, TypeOK
<1>6. CASE code = NoCode
  BY <1>1, <1>6 DEF OutputCoded
<1>7. CASE code # NoCode
  <2>1. pc' = "write" /\ out' = out \o code /\ written' = n
    BY <1>1, <1>7
  <2>2. code \in Seq(Half)
    <3>1. Coded(code, IF i.compressed THEN 1 ELSE 2)
      BY <1>1, CodeSize
    <3> HIDE DEF code
    <3> QED
      BY <1>7, <3>1 DEF Coded
  <2>3. Len(out) \in Nat /\ Len(code) \in Nat /\ Len(out') = Len(out) + Len(code)
    <3> HIDE DEF code
    <3> QED
      BY <1>5, <2>1, <2>2
  <2>4. ASSUME NEW k \in 1..n PROVE CodedAt(k)'
    <3> DEFINE c == write_instr_v2(prog'[k])
               h == NewAddr(prog)[k] \div 2
    <3>1. k \in 1..Len(prog)
      BY <1>1, <1>2, <2>4, TypeFacts
    <3>2. CASE k = n
      <4>1. c = code /\ h = Len(out)
        <5>1. (2 * Len(out)) \div 2 = Len(out)
          BY <2>3
        <5> QED
          BY <1>5, <3>2, <5>1
      <4> HIDE DEF c, h, code, n
      <4>2. h + Len(c) <= Len(out') /\ \A j \in 1..Len(c) : out'[h + j] = c[j]
        BY <1>5, <2>1, <2>2, <2>3, <4>1
      <4>3. IsJump(prog'[k].op) => prog'[k].addr = attr'[k].jump_target
        BY <1>1, <1>2, <3>1, <3>2
      <4> QED
        BY <1>4, <1>7, <4>1, <4>2, <4>3 DEF CodedAt, c, h
    <3>3. CASE k # n
      <4>1. k \in 1..written /\ prog'[k] = prog[k]
        BY <1>1, <1>2, <2>4, <3>1, <3>3
      <4>2. /\ c # NoCode /\ h + Len(c) <= Len(out)
            /\ \A j \in 1..Len(c) : out[h + j] = c[j]
            /\ IsJump(prog[k].op) => prog[k].addr = attr[k].jump_target
        BY <1>2, <4>1 DEF OutputCoded, CodedAt
      <4>3. h \in Nat /\ Len(c) \in Nat
        <5>1. NewAddr(prog)[k] \in Nat
          <6>1. k \in 1..Len(prog) + 1
            BY <3>1, TypeFacts
          <6> HIDE DEF n
          <6> QED
            BY <6>1, TypeFacts, NewAddrBounds
        <5>2. Coded(c, IF prog'[k].compressed THEN 1 ELSE 2)
          BY <1>1, <3>1, CodeSize
        <5> HIDE DEF c
        <5>3. c \in Seq(Half)
          BY <4>2, <5>2 DEF Coded
        <5> QED
          BY <5>1, <5>3
      <4> HIDE DEF c, h, code, n
      <4>4. h + Len(c) <= Len(out') /\ \A j \in 1..Len(c) : out'[h + j] = c[j]
        BY <1>5, <2>1, <2>2, <2>3, <4>2, <4>3, SMTT(30)
      <4> QED
        BY <1>2, <1>4, <4>1, <4>2, <4>4 DEF CodedAt, c, h
    <3> QED
      BY <3>2, <3>3
  <2> QED
    BY <1>1, <2>1, <2>4 DEF OutputCoded
<1> QED
  BY <1>6, <1>7

(* Nothing else touches what was written. *)
LEMMA StaysCoded ==
  ASSUME IInv, OutputCoded, [Next]_vars
  PROVE  OutputCoded'
<1> USE DEF IInv
<1>1. CASE WriteInstr
  BY <1>1, WriteCoded
<1>2. CASE Return \/ UNCHANGED vars
  <2>1. /\ UNCHANGED <<prog, attr, written, out>>
        /\ pc' = pc \/ (pc = "write" /\ pc' = "done" /\ written = Len(prog))
    BY <1>2 DEF Return, vars
  <2>2. \A k : CodedAt(k)' <=> CodedAt(k)
    BY <2>1 DEF CodedAt
  <2> QED
    BY <2>1, <2>2 DEF OutputCoded
<1>3. CASE CorrectTargets
  <2>1. written' = 0 /\ pc' = "write"
    BY <1>3 DEF CorrectTargets, OutputPlaced
  <2> QED
    BY <2>1 DEF OutputCoded
<1>4. CASE ~WriteInstr /\ ~Return /\ ~CorrectTargets /\ ~UNCHANGED vars
  <2>1. pc' \notin {"write", "done"}
    BY <1>4 DEF Next, ParseInstr, CorrectOffsets, ConvertJumps, CompressBranch
  <2> QED
    BY <2>1 DEF OutputCoded
<1> QED
  BY <1>1, <1>2, <1>3, <1>4

(* The output file has, for each instruction, its code. *)
THEOREM StaysOutputCoded == Spec => []OutputCoded
<1>1. Init => OutputCoded
  BY DEF Init, OutputCoded
<1>2. IInv /\ OutputCoded /\ [Next]_vars => OutputCoded'
  BY StaysCoded
<1> QED
  BY <1>1, <1>2, Invariant, PTL DEF Spec

(* What a processor of the compressed set finds where the layout puts an   *)
(* instruction: one of the same size and kind, with the offset or target.  *)
LEMMA FetchedCode ==
  ASSUME IInv, OutputCoded, pc = "done", NEW k \in 1..Len(prog)
  PROVE  LET i    == prog[k]
             half == CDiv(i.simm, 2)
         IN ReadAs(Fetched(k), Size(i), KindOf(i),
                   2 * (IF i.compressed THEN half ELSE WrapLong(half)), 2 * CDiv(i.addr, 2))
<1> USE DEF IInv
<1> DEFINE i == prog[k]
           half == CDiv(i.simm, 2)
           addr == 2 * CDiv(i.addr, 2)
           c == write_instr_v2(i)
           h == NewAddr(prog)[k] \div 2
           x == IF h + 1 < Len(out) THEN out[h + 1 + 1] ELSE 0
<1>1. i \in StructInstr /\ k \in 1..Len(prog) + 1
  BY TypeFacts
<1>2. c # NoCode /\ h + Len(c) <= Len(out) /\ \A j \in 1..Len(c) : out[h + j] = c[j]
  BY DEF OutputCoded, CodedAt
<1>3. h \in Nat /\ Len(out) \in Nat
  <2>1. NewAddr(prog)[k] \in Nat
    BY <1>1, TypeFacts, NewAddrBounds
  <2> QED
    BY <2>1 DEF TypeOK
<1>4. Fetched(k) = parse_instr_v2(<<out[h + 1], x>>, Blank)
  BY DEF Fetched
<1>5. CASE i.compressed
  <2>1. c = write_compressed(i) /\ Size(i) = 2
    BY <1>5 DEF write_instr_v2, Size
  <2> HIDE DEF c, x, h, addr, half
  <2>2. c = <<c[1]>>
    BY <1>1, <1>2, <2>1, SmallReadBack
  <2>3. out[h + 1] = c[1]
    <3>1. Len(c) = 1
      BY <2>2
    <3> QED
      BY <1>2, <3>1
  <2>4. ReadAs(parse_instr_v2(<<c[1], x>>, Blank), 2, KindOf(i), 2 * half, addr)
    BY <1>1, <1>2, <2>1, SmallReadBack DEF half
  <2> QED
    BY <1>4, <1>5, <2>1, <2>3, <2>4 DEF addr, half
<1>6. CASE ~i.compressed
  <2>1. c = write_long(i) /\ Size(i) = 4
    BY <1>6 DEF write_instr_v2, Size
  <2> HIDE DEF c, h, addr, half
  <2>2. c = <<c[1], c[2]>>
    BY <1>1, <1>2, <2>1, LongReadBack
  <2>3. out[h + 1] = c[1] /\ x = c[2]
    <3>1. Len(c) = 2
      BY <2>2
    <3>2. h + 1 < Len(out) /\ h + 1 + 1 = h + 2
      BY <1>2, <1>3, <3>1
    <3> QED
      BY <1>2, <3>1, <3>2
  <2>4. ReadAs(parse_instr_v2(c, Blank), 4, KindOf(i), 2 * WrapLong(half), addr)
    BY <1>1, <1>2, <2>1, LongReadBack DEF half, addr
  <2> HIDE DEF x
  <2>5. <<out[h + 1], x>> = c
    BY <2>2, <2>3, Zenon
  <2> QED
    BY <1>4, <1>6, <2>1, <2>4, <2>5 DEF addr, half
<1> QED
  BY <1>5, <1>6

(* The addresses of the program. *)
LEMMA PlacedBounds ==
  ASSUME IInv, NEW j \in 1..Len(prog)
  PROVE  /\ NewAddr(prog)[j] \in Nat /\ NewAddr(prog)[j] <= 4 * (j - 1)
         /\ NewAddr(prog)[j] % 2 = 0
         /\ NewAddr(prog)[j + 1] = NewAddr(prog)[j] + Size(prog[j]) /\ Size(prog[j]) \in Nat
<1>1. /\ prog \in Seq(StructInstr) /\ j \in 1..Len(prog) + 1
      /\ Size(prog[j]) \in Nat
  <2>1. prog \in Seq(StructInstr) /\ Len(prog) \in Nat /\ prog[j] \in StructInstr
    BY TypeFacts DEF IInv
  <2> QED
    BY <2>1, InstrFields
<1> QED
  BY <1>1, NewAddrBounds, NewAddrSteps

(* Where a word of the input transfers control, in the program as well.    *)
LEMMA SameTransfers ==
  ASSUME IInv, Faithful, NEW k \in 1..Len(prog)
  PROVE  LET old == parse_instr(input[k]).op IN
         /\ Transfers(old) <=> Transfers(prog[k].op)
         /\ Transfers(old) => OldTarget(k) = attr[k].target_index + 1
<1> USE DEF IInv
<1> DEFINE w == input[k]
           i == parse_instr(w)
           x == Parsed(w)
<1>1. /\ w \in Word /\ k \in Nat /\ Alike(ReadOf(w), prog[k]) /\ x.op # "INVALID_OP"
      /\ attr[k].target_index = TargetIndex(x, k)
  BY TypeFacts DEF TypeOK, Faithful, FromWords, KnownWords, TargetsRead
<1>2. /\ is_branch(x.op) <=> is_branch(i.op)
      /\ IsJump(x.op) <=> IsJump(i.op)
      /\ x.simm = i.simm /\ x.addr = i.addr
  BY <1>1, KindsKept DEF Parsed, IsJump
<1>3. ReadOf(w).op = x.op
  BY <1>1, ReadOfType
<1>4. Transfers(x.op) <=> Transfers(prog[k].op)
  <2>1. \/ prog[k].op = x.op
        \/ x.op = "J" /\ prog[k].op = "B"
        \/ x.op = "JAL" /\ prog[k].op = "BAL"
    BY <1>1, <1>3 DEF Alike
  <2>2. Transfers("J") /\ Transfers("JAL") /\ Transfers("B") /\ Transfers("BAL")
    BY DEF Transfers, IsJump, is_branch, PseudoBranch
  <2> QED
    BY <2>1, <2>2
<1>5. i.simm \in Int /\ i.addr \in Nat
  BY <1>1, ParseType, InstrFields
<1>6. is_branch(i.op) => CDiv(i.simm, 4) = i.simm \div 4
  BY <1>1, BranchOffset
<1>7. OldTarget(k) = IF IsJump(i.op) THEN (i.addr \div 4) + 1 ELSE k + 1 + (i.simm \div 4)
  BY DEF OldTarget
<1> HIDE DEF w, i, x
<1>8. CASE IsJump(i.op)
  <2>1. TargetIndex(x, k) = x.addr \div 4
    BY <1>2, <1>8, Transferring, Zenon DEF TargetIndex
  <2> QED
    BY <1>1, <1>2, <1>4, <1>7, <1>8, <2>1 DEF Transfers, i, w
<1>9. CASE is_branch(i.op) /\ ~IsJump(i.op)
  <2> DEFINE d == CDiv(x.simm, 4)
             e == k + d
  <2>1. TargetIndex(x, k) = e
    <3>1. is_branch(x.op) /\ ~IsJump(x.op)
      BY <1>2, <1>9
    <3> HIDE DEF e
    <3>2. e = k + CDiv(x.simm, 4)
      BY DEF e
    <3> QED
      BY <3>1, <3>2, Zenon DEF TargetIndex
  <2>2. d = i.simm \div 4
    BY <1>2, <1>6, <1>9
  <2>3. e + 1 = k + 1 + (i.simm \div 4)
    BY <1>1, <1>5, <2>2
  <2> QED
    BY <1>1, <1>2, <1>4, <1>7, <1>9, <2>1, <2>3 DEF Transfers, i, w
<1>10. CASE ~Transfers(i.op)
  BY <1>2, <1>4, <1>10 DEF Transfers, i, w
<1> QED
  BY <1>8, <1>9, <1>10 DEF Transfers

(* Every long branch has an offset that its field holds. *)
InLongReach ==
  \A k \in 1..Len(prog) : is_branch(prog[k].op) /\ ~prog[k].compressed =>
    prog[k].simm >= -(2 * LongReach) /\ prog[k].simm <= 2 * LongReach - 2

(* An even number is twice its half. *)
LEMMA TwiceHalf ==
  /\ \A n \in Nat : n % 2 = 0 => 2 * CDiv(n, 2) = n
  /\ \A a, b \in Nat : a % 2 = 0 /\ b % 2 = 0 => CDiv(a - b, 2) \in Int /\ 2 * CDiv(a - b, 2) = a - b
BY DEF CDiv

(* An instruction that transfers control has an even offset or address,    *)
(* which is read back as it was written.                                   *)
LEMMA FetchedTransfer ==
  ASSUME IInv, Faithful, OutputCoded, InLongReach, pc = "done", NEW k \in 1..Len(prog)
  PROVE  LET f    == Fetched(k)
             addr == NewAddr(prog)
             t    == attr[k].target_index + 1
         IN /\ f.rc = Size(prog[k])
            /\ is_branch(f.instr.op) <=> is_branch(prog[k].op)
            /\ IsJump(f.instr.op) <=> IsJump(prog[k].op)
            /\ IsJump(prog[k].op) => f.instr.addr = addr[t]
            /\ is_branch(prog[k].op) => f.instr.simm = addr[t] - addr[k + 1]
            /\ Transfers(prog[k].op) => t \in 1..Len(prog)
<1> USE DEF IInv
<1> DEFINE i == prog[k]
           f == Fetched(k)
           half == CDiv(i.simm, 2)
           addr == NewAddr(prog)
           t == attr[k].target_index + 1
<1>1. /\ i \in StructInstr /\ written = Len(prog) /\ Laying /\ Corrected
      /\ Len(prog) \in Nat
  BY TypeFacts DEF OutputCoded, Laying, Laid, Corrected
<1>2. ReadAs(f, Size(i), KindOf(i), 2 * (IF i.compressed THEN half ELSE WrapLong(half)),
             2 * CDiv(i.addr, 2))
  BY FetchedCode
<1>3. /\ IsJump(i.op) => i.addr = attr[k].jump_target /\ attr[k].jump_target = addr[t]
      /\ is_branch(i.op) => i.simm = OffsetOf(attr, k)
      /\ Transfers(i.op) => HasOffset(attr, k)
  BY <1>1 DEF OutputCoded, CodedAt, Faithful, TargetsSet, OffsetsCorrect, JumpsInside, Transfers
<1>4. Transfers(i.op) => t \in 1..Len(prog) /\ k + 1 \in 1..Len(prog)
  BY <1>3, TypeFacts, OffsetType
<1>5. is_branch(i.op) => i.simm = addr[t] - addr[k + 1]
  BY <1>3, TypeFacts, OffsetValue DEF Transfers
<1>6. \A j \in 1..Len(prog) : addr[j] \in Nat /\ addr[j] % 2 = 0
  BY PlacedBounds
<1>7. f.rc = Size(i) /\ KindOf(f.instr) = KindOf(i)
  BY <1>2 DEF ReadAs
<1>8. is_branch(f.instr.op) <=> is_branch(i.op)
  <2> HIDE DEF f, i
  <2> QED
    BY <1>7 DEF KindOf
<1>9. IsJump(f.instr.op) <=> IsJump(i.op)
  <2>1. \A j : KindOf(j) = "jump" <=> IsJump(j.op)
    BY Transferring DEF KindOf, IsJump
  <2> HIDE DEF f, i
  <2> QED
    BY <1>7, <2>1
<1>10. IsJump(i.op) => f.instr.addr = addr[t]
  <2>1. SUFFICES ASSUME IsJump(i.op) PROVE f.instr.addr = addr[t]
    OBVIOUS
  <2>2. KindOf(i) = "jump"
    BY <2>1, Transferring DEF KindOf, IsJump
  <2>3. f.instr.addr = 2 * CDiv(i.addr, 2)
    BY <1>2, <2>2 DEF ReadAs
  <2>4. i.addr = addr[t] /\ addr[t] \in Nat /\ addr[t] % 2 = 0
    BY <1>3, <1>4, <1>6, <2>1 DEF Transfers
  <2> HIDE DEF i, f, addr
  <2> QED
    BY <2>3, <2>4, TwiceHalf
<1>11. is_branch(i.op) => f.instr.simm = addr[t] - addr[k + 1]
  <2>1. SUFFICES ASSUME is_branch(i.op) PROVE f.instr.simm = addr[t] - addr[k + 1]
    OBVIOUS
  <2>2. KindOf(i) = "branch"
    BY <2>1 DEF KindOf
  <2>3. f.instr.simm = 2 * (IF i.compressed THEN half ELSE WrapLong(half))
    BY <1>2, <2>2 DEF ReadAs
  <2>4. /\ addr[t] \in Nat /\ addr[t] % 2 = 0 /\ addr[k + 1] \in Nat /\ addr[k + 1] % 2 = 0
    BY <1>4, <1>6, <2>1 DEF Transfers
  <2>5. half \in Int /\ 2 * half = i.simm /\ i.simm = addr[t] - addr[k + 1]
    <3> HIDE DEF addr, t, i
    <3> QED
      BY <1>5, <2>1, <2>4, TwiceHalf
  <2>6. ~i.compressed => WrapLong(half) = half
    <3>1. SUFFICES ASSUME ~i.compressed PROVE WrapLong(half) = half
      OBVIOUS
    <3>2. i.simm >= -(2 * LongReach) /\ i.simm <= 2 * LongReach - 2
      BY <2>1, <3>1 DEF InLongReach
    <3>3. LongReach \in Nat
      BY LongReachAssumption, SMTT(30)
    <3> HIDE DEF half, i
    <3>4. half \in -LongReach..LongReach - 1
      BY <2>5, <3>2, <3>3
    <3> QED
      BY <2>5, <3>4, WrapLongValue
  <2> HIDE DEF half, i, f, addr
  <2> QED
    BY <2>3, <2>5, <2>6
<1> QED
  BY <1>4, <1>7, <1>8, <1>9, <1>10, <1>11

(* Every branch and jump of the output file goes to the address of the     *)
(* instruction that it went to in the input file: for every program, if    *)
(* the long branches have offsets that fit their field. The code does not  *)
(* test that they do.                                                      *)
LEMMA AllPreserved ==
  ASSUME IInv, Faithful, OutputCoded, InLongReach
  PROVE  TargetsPreserved
<1> USE DEF IInv
<1> SUFFICES ASSUME pc = "done", NEW k \in DOMAIN input
             PROVE  LET old == parse_instr(input[k]).op IN
                    /\ Fetched(k).rc = Size(prog[k])
                    /\ Transfers(old) <=> Transfers(Fetched(k).instr.op)
                    /\ Transfers(old) => NewTarget(k) = NewAddr(prog)[OldTarget(k)]
  BY DEF TargetsPreserved
<1> DEFINE f == Fetched(k)
           addr == NewAddr(prog)
           t == attr[k].target_index + 1
           old == parse_instr(input[k]).op
<1>1. k \in 1..Len(prog)
  <2>1. Len(prog) = Len(input) /\ DOMAIN input = 1..Len(input)
    BY DEF WholeInput, Corrected, Laying, Laid, TypeOK
  <2> QED
    BY <2>1
<1>2. /\ f.rc = Size(prog[k])
      /\ is_branch(f.instr.op) <=> is_branch(prog[k].op)
      /\ IsJump(f.instr.op) <=> IsJump(prog[k].op)
      /\ IsJump(prog[k].op) => f.instr.addr = addr[t]
      /\ is_branch(prog[k].op) => f.instr.simm = addr[t] - addr[k + 1]
      /\ Transfers(prog[k].op) => t \in 1..Len(prog)
  BY <1>1, FetchedTransfer
<1>3. /\ Transfers(old) <=> Transfers(prog[k].op)
      /\ Transfers(old) => OldTarget(k) = t
  BY <1>1, SameTransfers
<1>4. /\ addr[k + 1] = addr[k] + Size(prog[k]) /\ addr[k] \in Nat /\ Size(prog[k]) \in Nat
      /\ \A j \in 1..Len(prog) : addr[j] \in Nat
  BY <1>1, PlacedBounds
<1>5. NewTarget(k) = IF IsJump(f.instr.op) THEN f.instr.addr
                     ELSE addr[k] + f.rc + f.instr.simm
  BY DEF NewTarget
<1>6. Transfers(old) => NewTarget(k) = addr[t]
  <2> HIDE DEF f, addr, t, old
  <2>1. \A j \in 1..Len(prog) : addr[j] \in Int
    BY <1>4
  <2> QED
    BY <1>2, <1>3, <1>4, <1>5, <2>1 DEF Transfers
<1> QED
  BY <1>2, <1>3, <1>6 DEF Transfers

(* In the states in which the output is complete, its transfers of control *)
(* are those of the input, unless a long branch is too far for its field.  *)
THEOREM PreservesInReach == Spec => [](InLongReach => TargetsPreserved)
<1>1. IInv /\ Faithful /\ OutputCoded => (InLongReach => TargetsPreserved)
  BY AllPreserved
<1> QED
  BY <1>1, Invariant, StaysFaithful, StaysOutputCoded, PTL

(* No branch is too far in a program that is not longer than a long branch *)
(* reaches.                                                                *)
LEMMA ProgramsInReach ==
  ASSUME \A p \in Programs : 2 * Len(p) <= LongReach,
         IInv, input \in Programs, pc = "done"
  PROVE  InLongReach
<1> USE DEF IInv
<1> SUFFICES ASSUME NEW k \in 1..Len(prog), is_branch(prog[k].op)
             PROVE  prog[k].simm >= -(2 * LongReach) /\ prog[k].simm <= 2 * LongReach - 2
  BY DEF InLongReach
<1>2. Len(prog) = Len(input) /\ Corrected /\ Len(prog) \in Nat
  BY TypeFacts DEF WholeInput, Corrected, Laying, Laid
<1>3. 2 * Len(prog) <= LongReach /\ LongReach \in Nat
  BY <1>2, LongReachAssumption, SMTT(30)
<1> DEFINE t == attr[k].target_index + 1
           a == NewAddr(prog)
<1>4. HasOffset(attr, k) /\ prog[k].simm = OffsetOf(attr, k)
  BY <1>2 DEF OffsetsCorrect
<1>5. t \in 1..Len(prog) /\ k + 1 \in 1..Len(prog) /\ prog[k].simm = a[t] - a[k + 1]
  BY <1>4, TypeFacts, OffsetType, OffsetValue
<1>6. \A j \in 1..Len(prog) : a[j] \in Nat /\ a[j] <= 4 * (j - 1)
  BY PlacedBounds
<1> HIDE DEF t, a
<1>7. /\ a[t] \in Nat /\ a[t] <= 4 * (t - 1) /\ a[k + 1] \in Nat /\ a[k + 1] <= 4 * k
  <2>1. a[k + 1] <= 4 * (k + 1 - 1) /\ k + 1 - 1 = k
    BY <1>5, <1>6
  <2> QED
    BY <1>5, <1>6, <2>1
<1>8. a[t] <= 2 * LongReach - 4 /\ a[k + 1] <= 2 * LongReach - 4
  BY <1>2, <1>3, <1>5, <1>7, SMTT(30)
<1>9. \A x, y, l \in Nat :
        x <= 2 * l - 4 /\ y <= 2 * l - 4 => x - y >= -(2 * l) /\ x - y <= 2 * l - 2
  OBVIOUS
<1> QED
  BY <1>3, <1>5, <1>7, <1>8, <1>9

(* In particular when no program is longer than a long branch reaches:     *)
(* 16384 instructions with the field of the code.                          *)
THEOREM Preserves ==
  ASSUME \A p \in Programs : 2 * Len(p) <= LongReach
  PROVE  Spec => []TargetsPreserved
<1> DEFINE FromPrograms == input \in Programs
<1>1. Init => FromPrograms
  BY DEF Init
<1>2. FromPrograms /\ [Next]_vars => FromPrograms'
  BY InputStays
<1>3. IInv /\ FromPrograms => InLongReach \/ pc # "done"
  BY ProgramsInReach
<1>4. IInv /\ Faithful /\ OutputCoded /\ FromPrograms => TargetsPreserved
  <2>1. pc # "done" => TargetsPreserved
    BY DEF TargetsPreserved
  <2> QED
    BY <1>3, <2>1, AllPreserved
<1> HIDE DEF FromPrograms
<1> QED
  BY <1>1, <1>2, <1>4, Invariant, StaysFaithful, StaysOutputCoded, PTL DEF Spec

(***************************************************************************)
(* Every well-formed program is converted, if the process ends: what       *)
(* Converts says, but for the fairness.                                    *)
(***************************************************************************)

(* Where the process can be when it gives up: it has read the whole file   *)
(* or stopped at a word, and when it writes there is an instruction left.  *)
GivesUpInside ==
  /\ pc = "abort" => Len(prog) = Len(input) /\ Len(prog) > 0
  /\ pc = "exit" => (written = 0 /\ Len(prog) < Len(input)) \/ written + 1 \in 1..Len(prog)

LEMMA GivingUpInside ==
  ASSUME IInv, GivesUpInside, [Next]_vars
  PROVE  GivesUpInside'
<1> USE DEF IInv
<1>1. CASE UNCHANGED vars
  BY <1>1 DEF vars, GivesUpInside
<1>2. CASE ParseInstr
  <2>1. pc = "parse" /\ Len(prog) < Len(input) /\ input' = input /\ written' = written
        /\ written = 0 /\ pc' # "abort" /\ (pc' = "exit" => prog' = prog)
    BY <1>2 DEF ParseInstr, OutputPlaced
  <2> QED
    BY <2>1 DEF GivesUpInside
<1>3. CASE WriteInstr
  <2>1. written + 1 \in 1..Len(prog) /\ Len(prog') = Len(prog) /\ pc' \in {"exit", "write"}
        /\ (pc' = "exit" => written' = written)
    BY <1>3, WrittenOnly
  <2> QED
    BY <2>1 DEF GivesUpInside
<1>4. CASE CorrectOffsets \/ ConvertJumps
  <2>1. Len(prog) = Len(input) /\ input' = input
    BY <1>4 DEF CorrectOffsets, ConvertJumps, WholeInput, Corrected
  <2>2. /\ pc' # "exit"
        /\ pc' = "abort" => prog' = prog /\ (~BranchesHaveOffsets(prog, attr) \/ ~JumpsHaveOffsets(prog, attr))
    BY <1>4 DEF CorrectOffsets, ConvertJumps
  <2>3. ~BranchesHaveOffsets(prog, attr) \/ ~JumpsHaveOffsets(prog, attr) => Len(prog) > 0
    BY TypeFacts DEF BranchesHaveOffsets, JumpsHaveOffsets
  <2> QED
    BY <2>1, <2>2, <2>3 DEF GivesUpInside
<1>5. CASE CompressBranch \/ CorrectTargets \/ Return
  BY <1>5 DEF CompressBranch, CorrectTargets, Return, GivesUpInside
<1> QED
  BY <1>1, <1>2, <1>3, <1>4, <1>5 DEF Next

(* An instruction that conv_to_pseudo rewrites stays one that has a code.  *)
LEMMA StaysKnown ==
  ASSUME NEW w \in Word, parse_instr(w).op \in Native \ Cop0
  PROVE  Parsed(w).op \notin Cop0 \cup {"INVALID_OP"}
<1> DEFINE i == parse_instr(w)
           j == conv_to_pseudo(i)
<1>1. i \in StructInstr
  BY ParseType
<1>2. j.op \in {i.op} \cup (IF i.op \in NativeBranch THEN PseudoBranch ELSE PlainPseudo)
  BY <1>1, PseudoKeeps
<1>3. \A op \in PseudoBranch \cup PlainPseudo : op \notin Cop0 \cup {"INVALID_OP"}
  BY DEF PseudoBranch, PlainPseudo, Cop0
<1>4. i.op \notin Cop0 \cup {"INVALID_OP"}
  BY Groups
<1> HIDE DEF i, j
<1> QED
  BY <1>2, <1>3, <1>4 DEF Parsed, i, j

(* A process that gave up was given a program that is not well-formed. *)
LEMMA OnlyIllFormed ==
  ASSUME IInv, Faithful, GivesUpInside, AbortsOnlyOutside, RefusedOnlyUnknown,
         pc \in {"exit", "abort"}
  PROVE  ~WellFormed(input)
<1> USE DEF IInv
<1> SUFFICES ASSUME WellFormed(input) PROVE FALSE
  OBVIOUS
<1> DEFINE Target(k) == LET i == parse_instr(input[k]) IN
             IF IsJump(i.op) THEN (i.addr \div 4) + 1 ELSE k + 1 + (i.simm \div 4)
<1>1. /\ Len(prog) \in Nat /\ Len(input) \in Nat /\ Len(prog) <= Len(input)
      /\ DOMAIN input = 1..Len(input) /\ \A k \in 1..Len(input) : input[k] \in Word
  BY TypeFacts DEF TypeOK
<1>2. ASSUME NEW k \in 1..Len(input)
      PROVE  /\ parse_instr(input[k]).op \in Native \ Cop0
             /\ Parsed(input[k]).op \notin Cop0 \cup {"INVALID_OP"}
             /\ Transfers(parse_instr(input[k]).op) =>
                  k < Len(input) /\ OldTarget(k) \in 1..Len(input)
  <2>1. /\ parse_instr(input[k]).op \in Native \ Cop0
        /\ Transfers(parse_instr(input[k]).op) =>
             k < Len(input) /\ OldTarget(k) \in 1..Len(input)
    BY <1>1 DEF WellFormed, OldTarget
  <2> QED
    BY <1>1, <2>1, StaysKnown
<1>3. ASSUME NEW k \in 1..Len(prog), Transfers(prog[k].op)
      PROVE  k < Len(input) /\ attr[k].target_index + 1 \in 1..Len(input)
  BY <1>1, <1>2, <1>3, SameTransfers
<1>4. CASE pc = "abort"
  <2>1. Len(prog) = Len(input) /\ Len(prog) \in 1..Len(prog) /\ DOMAIN prog = 1..Len(prog)
    BY <1>1, <1>4, TypeFacts DEF GivesUpInside
  <2>2. ~Transfers(prog[Len(prog)].op)
    BY <1>1, <1>3, <2>1
  <2>3. PICK k \in 1..Len(prog) :
          Transfers(prog[k].op) /\ attr[k].target_index \notin 0..Len(prog) - 1
    BY <1>4, <2>1, <2>2 DEF AbortsOnlyOutside
  <2>4. attr[k].target_index \in Int
    BY TypeFacts, AttrFields
  <2> QED
    BY <1>1, <1>3, <2>1, <2>3, <2>4
<1>5. CASE pc = "exit" /\ written = 0 /\ Len(prog) < Len(input)
  <2>1. Len(prog) + 1 \in 1..Len(input)
    BY <1>1, <1>5
  <2> QED
    BY <1>2, <1>5, <2>1 DEF RefusedOnlyUnknown
<1>6. CASE pc = "exit" /\ ~(written = 0 /\ Len(prog) < Len(input))
  <2> DEFINE k == written + 1
  <2>1. k \in 1..Len(prog) /\ prog[k].op \in Cop0
    BY <1>6 DEF GivesUpInside, RefusedOnlyUnknown
  <2> HIDE DEF k
  <2>2. Alike(ReadOf(input[k]), prog[k]) /\ k \in 1..Len(input)
    BY <1>1, <2>1 DEF Faithful, FromWords
  <2>3. ReadOf(input[k]).op = Parsed(input[k]).op
    BY <1>1, <2>2, ReadOfType
  <2>4. prog[k].op = Parsed(input[k]).op \/ prog[k].op \in {"B", "BAL"}
    BY <2>2, <2>3 DEF Alike
  <2> QED
    BY <1>2, <2>1, <2>2, <2>4 DEF Cop0
<1> QED
  BY <1>4, <1>5, <1>6

(* Neither an assertion, nor the end of the array, nor an operand without  *)
(* a code stops the conversion of a well-formed program: the safety part   *)
(* of Converts, for reaches up to those of the code.                       *)
THEOREM NeverStopped ==
  ASSUME CodeReach
  PROVE  Spec => [](WellFormed(input) => pc \notin {"exit", "abort"})
<1>1. Init => GivesUpInside
  BY DEF Init, GivesUpInside
<1>2. IInv /\ GivesUpInside /\ [Next]_vars => GivesUpInside'
  BY GivingUpInside
<1>3. IInv /\ Faithful /\ GivesUpInside /\ AbortsOnlyOutside /\ RefusedOnlyUnknown
        => (WellFormed(input) => pc \notin {"exit", "abort"})
  BY OnlyIllFormed
<1> QED
  BY <1>1, <1>2, <1>3, Invariant, StaysFaithful, AbortsOutside, RefusesOnlyUnknown, PTL DEF Spec
=============================================================================
