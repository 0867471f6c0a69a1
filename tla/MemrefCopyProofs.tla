-------------------------- MODULE MemrefCopyProofs --------------------------
(***************************************************************************)
(* For copies of any shape, strides, element size and base addresses: the    *)
(* walk keeps inside the extents of its axes, every word it moves is aligned *)
(* at both ends, and when it ends each byte of each element has been moved   *)
(* to its place in the target, and no other byte has.                        *)
(***************************************************************************)
EXTENDS MemrefCopy, WellFoundedInduction, FiniteSetTheorems, TLAPS

-----------------------------------------------------------------------------
(* Multiples of a word. *)

Whole(x) == x \in Int /\ x % Word = 0

\* A multiple of a word is a number of words, and the other way round.
LEMMA WholeIs ==
    ASSUME NEW x \in Int
    PROVE  x % Word = 0 <=> \E q \in Int : x = q * Word
<1> DEFINE d == x \div Word
           r == x % Word
<1>1. Word \in Int /\ Word >= 1
  BY WordAssumption
<1>2. d \in Int /\ r \in Int /\ x = Word * d + r /\ 0 <= r /\ r < Word
  BY <1>1, Z3
<1> HIDE DEF d, r
<1>3. ASSUME r = 0 PROVE \E q \in Int : x = q * Word
  BY <1>1, <1>2, <1>3, Z3
<1>4. ASSUME NEW q \in Int, x = q * Word PROVE r = 0
  <2>1. r = Word * (q - d)
    BY <1>1, <1>2, <1>4, Z3
  <2>2. q - d \in Int
    BY <1>2
  <2>3. CASE q - d <= -1
    <3>1. Word * (q - d) <= -1
      BY <1>1, <2>2, <2>3, Z3
    <3> QED BY <1>2, <2>1, <3>1
  <2>4. CASE q - d >= 1
    <3>1. Word * (q - d) >= Word
      BY <1>1, <2>2, <2>4, Z3
    <3> QED BY <1>1, <1>2, <2>1, <3>1
  <2>5. CASE q - d = 0
    BY <1>1, <2>1, <2>5
  <2> QED BY <2>2, <2>3, <2>4, <2>5
<1> QED BY <1>3, <1>4 DEF r

LEMMA WholeSum ==
    ASSUME NEW x, NEW y, Whole(x), Whole(y)
    PROVE  Whole(x + y) /\ Whole(x - y)
<1>1. PICK p \in Int : x = p * Word
  BY WholeIs DEF Whole
<1>2. PICK q \in Int : y = q * Word
  BY WholeIs DEF Whole
<1>3. x + y = (p + q) * Word /\ x - y = (p - q) * Word /\ x + y \in Int /\ x - y \in Int
  BY <1>1, <1>2, WordAssumption, Z3
<1>4. p + q \in Int /\ p - q \in Int
  OBVIOUS
<1> QED BY <1>3, <1>4, WholeIs DEF Whole

LEMMA WholeTimes ==
    ASSUME NEW x, Whole(x), NEW k \in Int
    PROVE  Whole(k * x)
<1>1. PICK p \in Int : x = p * Word
  BY WholeIs DEF Whole
<1>2. k * x = (k * p) * Word /\ k * x \in Int /\ k * p \in Int
  BY <1>1, WordAssumption, Z3
<1> QED BY <1>2, WholeIs DEF Whole

LEMMA WholeZero == Whole(0)
<1>1. 0 = 0 * Word
  BY WordAssumption
<1> QED BY <1>1, WholeIs DEF Whole

-----------------------------------------------------------------------------
(* The invariant. *)

Walking == phase \in {"row", "carry"}

\* Past the start the copy has axes, and none of them is empty.
ExtentsInv ==
    phase \in {"collapse", "row", "carry"} => Rank >= 1 /\ \A d \in Axes : sizes[d] >= 1

\* The odometer's offsets are whole words where runs are copied in words.
OffsetsInv == Walking /\ Wordwise => Whole(readIndex) /\ Whole(writeIndex)

IInv == TypeOK /\ ExtentsInv /\ OffsetsInv /\ WordsAreAligned

\* What there is to know of the copy.
LEMMA CopyIs ==
    ASSUME TypeOK
    PROVE  /\ Rank \in Nat /\ copy.elem \in Nat /\ sizes \in [Axes -> Nat]
           /\ copy.src.base \in Nat /\ copy.dst.base \in Nat
           /\ copy.src.strides \in [Axes -> Int] /\ copy.dst.strides \in [Axes -> Int]
  BY DEF TypeOK, CopyOf, Operand, sizes, Axes, Rank

LEMMA StepsAre ==
    ASSUME TypeOK, NEW d \in Axes
    PROVE  SrcStep(d) \in Int /\ DstStep(d) \in Int /\ sizes[d] \in Nat
<1>1. /\ copy.elem \in Int /\ copy.src.strides[d] \in Int /\ copy.dst.strides[d] \in Int
      /\ sizes[d] \in Nat
  BY CopyIs
<1> QED BY <1>1 DEF SrcStep, DstStep

\* A step of the odometer is a whole number of words.
LEMMA StepsAreWhole ==
    ASSUME TypeOK, Wordwise, NEW d \in 1 .. outer
    PROVE  Whole(SrcStep(d)) /\ Whole(DstStep(d))
<1>1. d \in Axes
  BY CopyIs DEF TypeOK, Axes
<1> QED BY <1>1, StepsAre DEF Wordwise, Whole

\* Every move of a row is aligned, where it is made in words.
LEMMA RowIsAligned ==
    ASSUME IInv, phase = "row", NEW m \in Row, m.how = "words"
    PROVE  m.to % Word = 0 /\ m.from % Word = 0 /\ m.bytes % Word = 0
<1> USE DEF IInv
<1>1. PICK k \in 0 .. sizes[inner] - 1 :
        m = Move(copy.dst.base + writeIndex + k * DstStep(inner),
                 copy.src.base + readIndex + k * SrcStep(inner), runBytes, How)
  BY DEF Row
<1>2. Wordwise
  BY <1>1 DEF How, Move
<1>3. inner \in 1 .. outer /\ k \in Int
  BY StepsAre DEF TypeOK, inner
<1>4. Whole(SrcStep(inner)) /\ Whole(DstStep(inner))
  BY <1>2, <1>3, StepsAreWhole
<1>5. Whole(k * SrcStep(inner)) /\ Whole(k * DstStep(inner))
  BY <1>3, <1>4, WholeTimes
<1>6. Whole(copy.src.base) /\ Whole(copy.dst.base)
  BY <1>2, CopyIs DEF Wordwise, Whole
<1>7. Whole(readIndex) /\ Whole(writeIndex)
  BY <1>2 DEF OffsetsInv, Walking
<1>8. /\ Whole(copy.src.base + readIndex + k * SrcStep(inner))
      /\ Whole(copy.dst.base + writeIndex + k * DstStep(inner))
  BY <1>5, <1>6, <1>7, WholeSum
<1>9. runBytes % Word = 0
  BY <1>2 DEF Wordwise
<1> QED BY <1>1, <1>8, <1>9 DEF Move, Whole

\* The terms of the steps mention nothing but the copy, the run and its axes.
LEMMA SameWalk ==
    ASSUME UNCHANGED <<copy, run, outer>>
    PROVE  /\ Wordwise' <=> Wordwise
           /\ Rank' = Rank /\ Axes' = Axes /\ sizes' = sizes
  BY DEF Wordwise, runBytes, SrcStep, DstStep, Rank, Axes, sizes

-----------------------------------------------------------------------------
LEMMA InitEstablishes == Init => IInv
<1> SUFFICES ASSUME Init PROVE IInv
  OBVIOUS
<1>1. Rank \in Nat /\ copy \in CopyOf(Rank)
  BY CopiesAssumption DEF Init, Rank
<1>2. TypeOK
  BY <1>1 DEF Init, TypeOK, Phases
<1> QED BY <1>2 DEF Init, IInv, ExtentsInv, OffsetsInv, Walking, WordsAreAligned

\* Once the copy has been made or refused there is nothing to keep.
LEMMA EndsWith ==
    ASSUME IInv, UNCHANGED <<copy, run, outer>>, phase' \in {"done", "exited"},
           readIndex' \in Int, writeIndex' \in Int, WordsAreAligned'
    PROVE  IInv'
<1>1. Rank' = Rank /\ Axes' = Axes /\ sizes' = sizes
  BY SameWalk
<1>2. TypeOK'
  BY <1>1 DEF IInv, TypeOK, Phases
<1> QED BY <1>2 DEF IInv, ExtentsInv, OffsetsInv, Walking

LEMMA NextKeeps == IInv /\ [Next]_vars => IInv'
<1> SUFFICES ASSUME IInv, [Next]_vars PROVE IInv'
  OBVIOUS
<1>0. TypeOK /\ ExtentsInv /\ OffsetsInv /\ WordsAreAligned
  BY DEF IInv
<1>1. CASE NothingToCopy \/ TooManyAxes
  BY <1>0, <1>1, EndsWith DEF NothingToCopy, TooManyAxes, TypeOK, WordsAreAligned
<1>2. CASE CopyScalar
  <2>1. moves' = {Move(copy.dst.base, copy.src.base, copy.elem, "memcpy")}
    BY <1>2 DEF CopyScalar
  <2>2. WordsAreAligned'
    BY <2>1 DEF WordsAreAligned, Move
  <2> QED BY <1>0, <1>2, <2>2, EndsWith DEF CopyScalar, TypeOK
<1>3. CASE AllPacked
  <2>1. moves' = {Move(copy.dst.base, copy.src.base, runBytes, "memcpy")}
    BY <1>3 DEF AllPacked
  <2>2. WordsAreAligned'
    BY <2>1 DEF WordsAreAligned, Move
  <2> QED BY <1>0, <1>3, <2>2, EndsWith DEF AllPacked, TypeOK
<1>4. CASE Begin
  <2>1. /\ phase' = "collapse" /\ run' = 1 /\ outer' = Rank
        /\ UNCHANGED <<copy, indices, readIndex, writeIndex, axis, moves>>
        /\ Rank >= 1 /\ \A d \in Axes : sizes[d] # 0
    BY <1>4 DEF Begin, Axes
  <2>2. Rank' = Rank /\ Axes' = Axes /\ sizes' = sizes
    BY <2>1 DEF Rank, Axes, sizes
  <2>3. TypeOK'
    BY <1>0, <2>1, <2>2 DEF TypeOK, Phases
  <2>4. ExtentsInv'
    BY <1>0, <2>1, <2>2, CopyIs DEF ExtentsInv
  <2> QED BY <1>0, <2>1, <2>3, <2>4 DEF IInv, OffsetsInv, Walking, WordsAreAligned
<1>5. CASE Collapse
  <2>1. /\ phase = "collapse" /\ run' = run * sizes[outer] /\ outer' = outer - 1 /\ outer > 0
        /\ UNCHANGED <<copy, phase, indices, readIndex, writeIndex, axis, moves>>
    BY <1>5 DEF Collapse, Packed
  <2>2. Rank' = Rank /\ Axes' = Axes /\ sizes' = sizes
    BY <2>1 DEF Rank, Axes, sizes
  <2>3. outer \in Axes /\ run \in Nat
    BY <1>0, <2>1 DEF TypeOK, Axes
  <2>4. sizes[outer] \in Nat
    BY <1>0, <2>3, StepsAre
  <2>5. run' \in Nat
    BY <2>1, <2>3, <2>4, Z3
  <2>6. TypeOK'
    BY <1>0, <2>1, <2>2, <2>5 DEF TypeOK
  <2> QED BY <1>0, <2>1, <2>2, <2>6 DEF IInv, ExtentsInv, OffsetsInv, Walking, WordsAreAligned
<1>6. CASE StartWalk
  <2>1. /\ phase = "collapse" /\ outer > 0 /\ indices' = [d \in 1 .. outer |-> 0]
        /\ readIndex' = 0 /\ writeIndex' = 0 /\ phase' = "row"
        /\ UNCHANGED <<copy, run, outer, axis, moves>>
    BY <1>6 DEF StartWalk
  <2>2. Rank' = Rank /\ Axes' = Axes /\ sizes' = sizes
    BY <2>1, SameWalk
  <2>3. \A d \in 1 .. outer : d \in Axes /\ sizes[d] >= 1
    BY <1>0, <2>1 DEF TypeOK, ExtentsInv, Axes
  <2>4. indices' \in [1 .. outer -> Nat] /\ \A d \in 1 .. outer : indices'[d] < sizes[d]
    BY <2>1, <2>3, <1>0, CopyIs
  <2>5. TypeOK'
    BY <1>0, <2>1, <2>2, <2>4 DEF TypeOK, Phases
  <2>6. ExtentsInv'
    BY <1>0, <2>1, <2>2 DEF ExtentsInv
  <2> QED BY <1>0, <2>1, <2>5, <2>6, WholeZero DEF IInv, OffsetsInv, WordsAreAligned
<1>7. CASE CopyRow
  <2>1. /\ phase = "row" /\ moves' = moves \cup Row
        /\ UNCHANGED <<copy, run, outer, indices, readIndex, writeIndex>>
        /\ axis' = outer - 1
        /\ phase' = IF outer = 1 THEN "done" ELSE "carry"
    BY <1>7 DEF CopyRow, inner
  <2>2. (Wordwise' <=> Wordwise) /\ Rank' = Rank /\ Axes' = Axes /\ sizes' = sizes
    BY <2>1, SameWalk
  <2>3. WordsAreAligned'
    <3>1. \A m \in Row : m.how = "words" => m.to % Word = 0 /\ m.from % Word = 0 /\ m.bytes % Word = 0
      BY <2>1, RowIsAligned
    <3> QED BY <1>0, <2>1, <3>1 DEF WordsAreAligned
  <2>4. CASE outer = 1
    BY <1>0, <2>1, <2>3, <2>4, EndsWith DEF TypeOK
  <2>5. CASE outer # 1
    <3>1. axis' \in 1 .. outer - 1 /\ phase' = "carry"
      BY <1>0, <2>1, <2>5 DEF TypeOK
    <3>2. TypeOK'
      BY <1>0, <2>1, <2>2, <3>1 DEF TypeOK, Phases
    <3>3. ExtentsInv' /\ OffsetsInv'
      BY <1>0, <2>1, <2>2, <3>1 DEF ExtentsInv, OffsetsInv, Walking
    <3> QED BY <2>3, <3>2, <3>3 DEF IInv
  <2> QED BY <2>4, <2>5
<1>8. CASE Turn \/ Carry \/ LastRow
  <2>1. /\ phase = "carry" /\ axis \in 1 .. outer - 1 /\ axis \in 1 .. outer /\ axis \in Axes
        /\ outer \in Int
    BY <1>0, <1>8 DEF Turn, Carry, LastRow, TypeOK, Axes
  <2>2. UNCHANGED <<copy, run, outer, moves>>
    BY <1>8 DEF Turn, Carry, LastRow
  <2>3. (Wordwise' <=> Wordwise) /\ Rank' = Rank /\ Axes' = Axes /\ sizes' = sizes
    BY <2>2, SameWalk
  <2>4. WordsAreAligned'
    BY <1>0, <2>2 DEF WordsAreAligned
  <2>5. SrcStep(axis) \in Int /\ DstStep(axis) \in Int /\ sizes[axis] \in Nat
    BY <1>0, <2>1, StepsAre
  <2>6. /\ readIndex' \in {readIndex + SrcStep(axis),
                           readIndex + SrcStep(axis) - sizes[axis] * SrcStep(axis)}
        /\ writeIndex' \in {writeIndex + DstStep(axis),
                            writeIndex + DstStep(axis) - sizes[axis] * DstStep(axis)}
    BY <1>8 DEF Turn, Carry, LastRow
  <2>7. readIndex' \in Int /\ writeIndex' \in Int
    <3>1. /\ sizes[axis] * SrcStep(axis) \in Int /\ sizes[axis] * DstStep(axis) \in Int
          /\ readIndex \in Int /\ writeIndex \in Int
      BY <1>0, <2>5, Z3 DEF TypeOK
    <3> QED BY <2>5, <2>6, <3>1
  <2>8. ASSUME Wordwise PROVE Whole(readIndex') /\ Whole(writeIndex')
    <3>1. Whole(readIndex) /\ Whole(writeIndex)
      BY <1>0, <2>1, <2>8 DEF OffsetsInv, Walking
    <3>2. Whole(SrcStep(axis)) /\ Whole(DstStep(axis))
      BY <1>0, <2>1, <2>8, StepsAreWhole
    <3>3. Whole(sizes[axis] * SrcStep(axis)) /\ Whole(sizes[axis] * DstStep(axis))
      <4>1. sizes[axis] \in Int
        BY <2>5
      <4> QED BY <3>2, <4>1, WholeTimes
    <3>4. /\ Whole(readIndex + SrcStep(axis)) /\ Whole(writeIndex + DstStep(axis))
      BY <3>1, <3>2, WholeSum
    <3>5. /\ Whole(SrcStep(axis) - sizes[axis] * SrcStep(axis))
          /\ Whole(DstStep(axis) - sizes[axis] * DstStep(axis))
      BY <3>2, <3>3, WholeSum
    <3>6. /\ Whole(readIndex + (SrcStep(axis) - sizes[axis] * SrcStep(axis)))
          /\ Whole(writeIndex + (DstStep(axis) - sizes[axis] * DstStep(axis)))
      BY <3>1, <3>5, WholeSum
    <3> QED BY <2>6, <3>4, <3>6
  <2>9. ExtentsInv' /\ OffsetsInv'
    BY <1>0, <2>1, <2>3, <2>8 DEF ExtentsInv, OffsetsInv, Walking
  <2>10. indices \in [1 .. outer -> Nat] /\ \A d \in 1 .. outer : indices[d] < sizes[d]
    BY <1>0, <2>1 DEF TypeOK
  <2>11. \A d \in 1 .. outer : d \in Axes /\ sizes[d] >= 1 /\ sizes[d] \in Nat
    BY <1>0, <2>1, CopyIs DEF TypeOK, ExtentsInv, Axes
  <2>12. CASE Turn
    <3>1. /\ indices[axis] + 1 # sizes[axis] /\ indices' = [indices EXCEPT ![axis] = indices[axis] + 1]
          /\ phase' = "row"
      BY <1>0, <2>12 DEF Turn
    <3>2. indices' \in [1 .. outer -> Nat] /\ \A d \in 1 .. outer : indices'[d] < sizes[d]
      <4> DEFINE x == indices[axis] + 1
      <4>1. x \in Nat /\ x < sizes[axis]
        BY <2>1, <2>10, <2>11, <3>1
      <4> HIDE DEF x
      <4> QED BY <2>1, <2>10, <4>1, <3>1 DEF x
    <3>3. TypeOK'
      BY <1>0, <2>1, <2>2, <2>3, <2>7, <3>1, <3>2 DEF TypeOK, Phases
    <3> QED BY <2>4, <2>9, <3>3 DEF IInv
  <2>13. CASE Carry
    <3>1. /\ axis > 1 /\ indices' = [indices EXCEPT ![axis] = 0]
          /\ phase' = "carry" /\ axis' = axis - 1
      BY <2>1, <2>13 DEF Carry
    <3>2. indices' \in [1 .. outer -> Nat] /\ \A d \in 1 .. outer : indices'[d] < sizes[d]
      BY <2>1, <2>10, <2>11, <3>1
    <3>3. axis' \in 1 .. outer - 1
      BY <2>1, <3>1
    <3>4. TypeOK'
      BY <1>0, <2>1, <2>2, <2>3, <2>7, <3>1, <3>2, <3>3 DEF TypeOK, Phases
    <3> QED BY <2>4, <2>9, <3>4 DEF IInv
  <2>14. CASE LastRow
    BY <2>2, <2>4, <2>7, <2>14, EndsWith DEF LastRow
  <2> QED BY <1>8, <2>12, <2>13, <2>14
<1>9. CASE UNCHANGED vars
  <2>1. UNCHANGED <<copy, run, outer>> /\ UNCHANGED <<phase, indices, readIndex, writeIndex, axis, moves>>
    BY <1>9 DEF vars
  <2>2. (Wordwise' <=> Wordwise) /\ Rank' = Rank /\ Axes' = Axes /\ sizes' = sizes
    BY <2>1, SameWalk
  <2> QED BY <1>0, <2>1, <2>2 DEF IInv, TypeOK, ExtentsInv, OffsetsInv, Walking, WordsAreAligned
<1> QED BY <1>1, <1>2, <1>3, <1>4, <1>5, <1>6, <1>7, <1>8, <1>9 DEF Next

LEMMA CopyInvariant == Spec => []IInv
  BY InitEstablishes, NextKeeps, PTL DEF Spec

\* The odometer never leaves the extents of the axes it walks.
THEOREM CopyTypeCorrect == Spec => []TypeOK
<1>1. IInv => TypeOK
  BY DEF IInv
<1> QED BY <1>1, CopyInvariant, PTL

\* The alignment decided once, before the walk, holds of every word moved.
THEOREM AllWordsAligned == Spec => []WordsAreAligned
<1>1. IInv => WordsAreAligned
  BY DEF IInv
<1> QED BY <1>1, CopyInvariant, PTL

-----------------------------------------------------------------------------
(* Induction along the axes, by the least one that fails. *)

LEMMA LeastNatural ==
    ASSUME NEW S \in SUBSET Nat, S # {}
    PROVE  \E m \in S : \A k \in S : m <= k
<1> DEFINE R == {p \in Nat \X Nat : p[1] < p[2]}
<1>1. IsWellFoundedOn(R, Nat)
  BY NatLessThanWellFounded, Zenon DEF OpToRel
<1>2. \A k, l \in S : k < l => <<k, l>> \in R
  OBVIOUS
<1> HIDE DEF R
<1>3. PICK m \in S : \A k \in S : ~(<<k, m>> \in R)
  BY <1>1, WFMin
<1>4. \A k \in S : ~(k < m)
  BY <1>2, <1>3, Zenon
<1>5. \A k \in S : m \in Nat /\ k \in Nat
  OBVIOUS
<1> QED BY <1>4, <1>5

LEMMA AxisInduction ==
    ASSUME NEW n \in Nat, NEW S, 0 \in S, \A k \in 1 .. n : k - 1 \in S => k \in S
    PROVE  n \in S
<1> DEFINE U == (0 .. n) \ S
<1>1. U \in SUBSET Nat
  OBVIOUS
<1>2. SUFFICES ASSUME n \notin S PROVE FALSE
  OBVIOUS
<1>3. PICK m \in U : \A k \in U : m <= k
  <2>1. U # {}
    BY <1>2
  <2> HIDE DEF U
  <2> QED BY <1>1, <2>1, LeastNatural
<1>4. m \in 1 .. n /\ m - 1 \in S
  BY <1>3
<1> QED BY <1>3, <1>4

-----------------------------------------------------------------------------
(* Sums. *)

\* p adds up the first terms of f.
AddsUp(p, n, f) ==
    /\ p \in [0 .. n -> Int] /\ p[0] = 0
    /\ \A k \in 1 .. n : p[k] = p[k - 1] + f[k]

Sums(n, f) == CHOOSE p : AddsUp(p, n, f)

LEMMA SumsAddUp ==
    ASSUME NEW n \in Nat, NEW f \in [1 .. n -> Int]
    PROVE  AddsUp(Sums(n, f), n, f)
<1> DEFINE Upto(k, p) == p[0] = 0 /\ \A i \in 1 .. k : p[i] = p[i - 1] + f[i]
           S == {k \in 0 .. n : \E p \in [0 .. n -> Int] : Upto(k, p)}
<1>1. 0 \in S
  <2>1. [i \in 0 .. n |-> 0] \in [0 .. n -> Int] /\ Upto(0, [i \in 0 .. n |-> 0])
    OBVIOUS
  <2> HIDE DEF Upto
  <2> QED BY <2>1
<1>2. ASSUME NEW k \in 1 .. n, k - 1 \in S PROVE k \in S
  <2>1. PICK p \in [0 .. n -> Int] : Upto(k - 1, p)
    BY <1>2
  <2> DEFINE x == p[k - 1] + f[k]
             q == [p EXCEPT ![k] = x]
  <2>2. x \in Int
    BY <2>1
  <2>3. q \in [0 .. n -> Int] /\ q[k] = x /\ \A i \in 0 .. k - 1 : q[i] = p[i]
    <3> HIDE DEF x
    <3> QED BY <2>2
  <2>4. Upto(k, q)
    <3>1. q[0] = 0
      BY <2>1, <2>3
    <3> SUFFICES ASSUME NEW i \in 1 .. k PROVE q[i] = q[i - 1] + f[i]
      BY <3>1
    <3>2. q[i - 1] = p[i - 1]
      BY <2>3
    <3>3. CASE i = k
      <4> HIDE DEF q
      <4> QED BY <2>3, <3>2, <3>3
    <3>4. CASE i # k
      <4>1. i \in 0 .. k - 1 /\ i \in 1 .. k - 1
        BY <3>4
      <4>2. q[i] = p[i] /\ p[i] = p[i - 1] + f[i]
        <5> HIDE DEF q
        <5> QED BY <2>1, <2>3, <4>1
      <4> HIDE DEF q
      <4> QED BY <3>2, <4>2
    <3> QED BY <3>3, <3>4
  <2>5. \E r \in [0 .. n -> Int] : Upto(k, r)
    <3> HIDE DEF q, Upto
    <3> QED BY <2>3, <2>4
  <2> HIDE DEF Upto
  <2> QED BY <2>5
<1>3. n \in S
  <2> HIDE DEF S
  <2> QED BY <1>1, <1>2, AxisInduction
<1>4. \E p : AddsUp(p, n, f)
  BY <1>3 DEF AddsUp
<1> QED BY <1>4 DEF Sums

\* What a sum over a set of places leaves out is nought.
Within(s, n, f) == [i \in 1 .. n |-> IF i \in s THEN f[i] ELSE 0]

SumOver(s, n, f) == Sums(n, Within(s, n, f))[n]

LEMMA SumOverNone ==
    ASSUME NEW n \in Nat, NEW f \in [1 .. n -> Int]
    PROVE  SumOver({}, n, f) = 0
<1> DEFINE w == Within({}, n, f)
           p == Sums(n, w)
           S == {k \in 0 .. n : p[k] = 0}
<1>1. w \in [1 .. n -> Int] /\ \A i \in 1 .. n : w[i] = 0
  BY DEF Within
<1> HIDE DEF w
<1>2. AddsUp(p, n, w)
  BY <1>1, SumsAddUp
<1> HIDE DEF p
<1>3. 0 \in S /\ \A k \in 1 .. n : k - 1 \in S => k \in S
  BY <1>1, <1>2 DEF AddsUp
<1>4. n \in S
  <2> HIDE DEF S
  <2> QED BY <1>3, AxisInduction
<1> QED BY <1>4 DEF SumOver, p, w

LEMMA SumOverRest ==
    ASSUME NEW n \in Nat, NEW f \in [1 .. n -> Int], NEW s \in SUBSET (1 .. n), NEW x \in s
    PROVE  SumOver(s, n, f) = f[x] + SumOver(s \ {x}, n, f)
<1> DEFINE v == Within(s, n, f)
           w == Within(s \ {x}, n, f)
           p == Sums(n, v)
           q == Sums(n, w)
           S == {k \in 0 .. n : p[k] = q[k] + (IF x <= k THEN f[x] ELSE 0)}
<1>1. /\ v \in [1 .. n -> Int] /\ w \in [1 .. n -> Int] /\ x \in 1 .. n /\ f[x] \in Int
      /\ \A i \in 1 .. n : v[i] = IF i = x THEN f[x] ELSE w[i]
      /\ w[x] = 0
  BY DEF Within
<1> HIDE DEF v, w
<1>2. AddsUp(p, n, v) /\ AddsUp(q, n, w)
  BY <1>1, SumsAddUp
<1> HIDE DEF p, q
<1>3. 0 \in S
  BY <1>1, <1>2 DEF AddsUp
<1>4. ASSUME NEW k \in 1 .. n, k - 1 \in S PROVE k \in S
  <2>1. /\ p[k] = p[k - 1] + v[k] /\ q[k] = q[k - 1] + w[k]
        /\ p[k - 1] \in Int /\ q[k - 1] \in Int /\ w[k] \in Int
    <3>1. k - 1 \in 0 .. n /\ w[k] \in Int
      BY <1>1
    <3> QED BY <1>2, <3>1 DEF AddsUp
  <2>2. p[k - 1] = q[k - 1] + (IF x <= k - 1 THEN f[x] ELSE 0)
    BY <1>4
  <2>3. CASE k = x
    BY <1>1, <2>1, <2>2, <2>3
  <2>4. CASE k > x
    <3>1. v[k] = w[k] /\ x <= k /\ x <= k - 1
      BY <1>1, <2>4
    <3>2. f[x] \in Int /\ p[k - 1] = q[k - 1] + f[x]
      BY <1>1, <2>2, <3>1
    <3>3. p[k] = q[k] + f[x]
      BY <2>1, <3>1, <3>2
    <3> QED BY <3>1, <3>3
  <2>5. CASE k < x
    <3>1. v[k] = w[k] /\ ~(x <= k) /\ ~(x <= k - 1)
      BY <1>1, <2>5
    <3> QED BY <2>1, <2>2, <3>1
  <2> QED BY <1>1, <2>3, <2>4, <2>5
<1>5. n \in S
  <2> HIDE DEF S
  <2> QED BY <1>3, <1>4, AxisInduction
<1>6. n >= x /\ p[n] = q[n] + (IF x <= n THEN f[x] ELSE 0) /\ q[n] \in Int
  BY <1>1, <1>2, <1>5 DEF AddsUp
<1>7. p[n] = f[x] + q[n]
  BY <1>1, <1>6
<1> QED BY <1>7 DEF SumOver, p, q, v, w

\* SumFunction adds the places in an order of its own, and comes to the same.
LEMMA SumIs ==
    ASSUME NEW n \in Nat, NEW f \in [1 .. n -> Int]
    PROVE  SumFunction(f) = Sums(n, f)[n]
<1> DEFINE D == 1 .. n
           pick(s) == CHOOSE x \in s : TRUE
           Iterates(iter) == iter = [s \in SUBSET D |-> IF s = {} THEN 0
                                                       ELSE f[pick(s)] + iter[s \ {pick(s)}]]
           over == [s \in SUBSET D |-> SumOver(s, n, f)]
           any == CHOOSE iter : Iterates(iter)
<1>1. SumFunction(f) = any[D]
  <2>1. DOMAIN f = D
    OBVIOUS
  <2> QED BY <2>1, Zenon DEF SumFunction, SumFunctionOnSet, FoldFunctionOnSet, MapThenFoldSet
<1>2. \A s \in SUBSET D : s # {} => pick(s) \in s /\ s \ {pick(s)} \in SUBSET D
  OBVIOUS
<1>3. Iterates(over)
  <2>1. ASSUME NEW s \in SUBSET D
        PROVE  over[s] = IF s = {} THEN 0 ELSE f[pick(s)] + over[s \ {pick(s)}]
    <3>1. CASE s = {}
      BY <3>1, SumOverNone
    <3>2. CASE s # {}
      <4>1. pick(s) \in s /\ s \ {pick(s)} \in SUBSET D
        BY <1>2, <3>2
      <4> HIDE DEF pick
      <4> QED BY <3>2, <4>1, SumOverRest
    <3> QED BY <3>1, <3>2
  <2>2. over = [s \in SUBSET D |-> over[s]]
    OBVIOUS
  <2> HIDE DEF over, pick, D
  <2> QED BY <2>1, <2>2
<1>4. Iterates(any)
  <2> HIDE DEF Iterates, over
  <2> QED BY <1>3
<1> HIDE DEF any
<1>5. \A s \in SUBSET D : any[s] = IF s = {} THEN 0 ELSE f[pick(s)] + any[s \ {pick(s)}]
  <2> HIDE DEF pick, D
  <2> QED BY <1>4
<1>6. \A s \in SUBSET D : over[s] = IF s = {} THEN 0 ELSE f[pick(s)] + over[s \ {pick(s)}]
  <2> HIDE DEF pick, D, over
  <2> QED BY <1>3
<1> DEFINE sizesOfBad == {Cardinality(s) : s \in {t \in SUBSET D : any[t] # over[t]}}
<1>7. \A s \in SUBSET D : IsFiniteSet(s) /\ Cardinality(s) \in Nat
  <2>1. IsFiniteSet(D)
    BY FS_Interval
  <2> QED BY <2>1, FS_Subset, FS_CardinalityType
<1>8. ASSUME NEW t \in SUBSET D, any[t] # over[t] PROVE FALSE
  <2>1. sizesOfBad \in SUBSET Nat /\ sizesOfBad # {}
    BY <1>7, <1>8
  <2>2. PICK m \in sizesOfBad : \A k \in sizesOfBad : m <= k
    <3> HIDE DEF sizesOfBad
    <3> QED BY <2>1, LeastNatural
  <2>3. PICK s \in SUBSET D : any[s] # over[s] /\ m = Cardinality(s)
    BY <2>2
  <2>4. s # {}
    BY <1>5, <1>6, <2>3
  <2> DEFINE rest == s \ {pick(s)}
  <2>5. pick(s) \in s /\ rest \in SUBSET D
    BY <1>2, <2>4
  <2>6. Cardinality(rest) = m - 1 /\ m \in Nat /\ Cardinality(rest) \in Nat
    <3> HIDE DEF pick
    <3> QED BY <1>7, <2>3, <2>5, FS_RemoveElement
  <2>7. any[rest] = over[rest]
    <3> HIDE DEF rest
    <3>1. Cardinality(rest) \in sizesOfBad \/ any[rest] = over[rest]
      BY <2>5
    <3>2. Cardinality(rest) \notin sizesOfBad
      <4> HIDE DEF sizesOfBad
      <4> QED BY <2>2, <2>6
    <3> QED BY <3>1, <3>2
  <2> HIDE DEF pick, over
  <2> QED BY <1>5, <1>6, <2>3, <2>4, <2>7
<1>9. any[D] = over[D]
  BY <1>8
<1>10. over[D] = Sums(n, f)[n]
  <2>1. Within(D, n, f) = f
    BY DEF Within
  <2> QED BY <2>1 DEF SumOver
<1> QED BY <1>1, <1>9, <1>10

-----------------------------------------------------------------------------
(* Offsets. *)

Terms(n, strides, e) == [d \in 1 .. n |-> e[d] * strides[d]]

\* What the first k indices of e add to an address, in elements.
Part(n, strides, e, k) == Sums(n, Terms(n, strides, e))[k]

SamePrefix(f, e, k) == \A d \in 1 .. k : f[d] = e[d]

LEMMA PartSteps ==
    ASSUME NEW n \in Nat, NEW strides \in [1 .. n -> Int], NEW e \in [1 .. n -> Nat]
    PROVE  /\ Part(n, strides, e, 0) = 0
           /\ \A k \in 0 .. n : Part(n, strides, e, k) \in Int
           /\ \A k \in 1 .. n :
                 Part(n, strides, e, k) = Part(n, strides, e, k - 1) + e[k] * strides[k]
<1> DEFINE f == Terms(n, strides, e)
<1>1. \A k \in 1 .. n : e[k] * strides[k] \in Int
  <2> SUFFICES ASSUME NEW k \in 1 .. n PROVE e[k] * strides[k] \in Int
    OBVIOUS
  <2>1. e[k] \in Int /\ strides[k] \in Int
    OBVIOUS
  <2> QED BY <2>1
<1>2. f \in [1 .. n -> Int] /\ \A k \in 1 .. n : f[k] = e[k] * strides[k]
  BY <1>1 DEF Terms
<1> HIDE DEF f
<1>3. AddsUp(Sums(n, f), n, f)
  BY <1>2, SumsAddUp
<1> QED BY <1>2, <1>3 DEF AddsUp, Part, f

LEMMA PartOfNone ==
    ASSUME NEW n \in Nat, NEW strides \in [1 .. n -> Int], NEW e \in [1 .. n -> Nat]
    PROVE  Part(n, strides, e, 0) = 0
  BY PartSteps, Zenon

LEMMA PartAgrees ==
    ASSUME NEW n \in Nat, NEW strides \in [1 .. n -> Int],
           NEW e \in [1 .. n -> Nat], NEW f \in [1 .. n -> Nat],
           NEW k \in 0 .. n, SamePrefix(f, e, k)
    PROVE  Part(n, strides, f, k) = Part(n, strides, e, k)
<1> DEFINE S == {i \in 0 .. k : Part(n, strides, f, i) = Part(n, strides, e, i)}
<1>1. 0 \in S
  <2>1. Part(n, strides, f, 0) = 0
    BY PartOfNone
  <2>2. Part(n, strides, e, 0) = 0
    BY PartOfNone
  <2>3. 0 \in 0 .. k
    OBVIOUS
  <2> QED BY <2>1, <2>2, <2>3
<1>2. ASSUME NEW i \in 1 .. k, i - 1 \in S PROVE i \in S
  <2>1. i \in 1 .. n /\ f[i] = e[i]
    BY DEF SamePrefix
  <2>2. /\ Part(n, strides, f, i) = Part(n, strides, f, i - 1) + f[i] * strides[i]
        /\ Part(n, strides, e, i) = Part(n, strides, e, i - 1) + e[i] * strides[i]
    BY <2>1, PartSteps
  <2> QED BY <1>2, <2>1, <2>2
<1>3. k \in S
  <2> HIDE DEF S
  <2> QED BY <1>1, <1>2, AxisInduction
<1> QED BY <1>3

LEMMA PartChanges ==
    ASSUME NEW n \in Nat, NEW strides \in [1 .. n -> Int],
           NEW e \in [1 .. n -> Nat], NEW a \in 1 .. n, NEW v \in Nat, NEW k \in a .. n
    PROVE  Part(n, strides, [e EXCEPT ![a] = v], k)
             = Part(n, strides, e, k) + (v - e[a]) * strides[a]
<1> DEFINE f == [e EXCEPT ![a] = v]
           p(i) == Part(n, strides, f, i)
           q(i) == Part(n, strides, e, i)
           more == (v - e[a]) * strides[a]
           S == {j \in 0 .. k - a : p(a + j) = q(a + j) + more}
<1>1. f \in [1 .. n -> Nat] /\ f[a] = v /\ \A d \in 1 .. n : d # a => f[d] = e[d]
  OBVIOUS
<1> HIDE DEF f
<1>2. k \in Int /\ a \in Int /\ k - a \in Nat /\ e[a] \in Int /\ v \in Int /\ strides[a] \in Int
  OBVIOUS
<1>3. more \in Int /\ v * strides[a] = e[a] * strides[a] + more
      /\ e[a] * strides[a] \in Int
  <2> DEFINE s == strides[a]
             x == e[a]
  <2>1. s \in Int /\ x \in Int /\ v \in Int
    BY <1>2
  <2> HIDE DEF s, x
  <2>2. (v - x) * s \in Int /\ x * s \in Int /\ v * s = x * s + (v - x) * s
    BY <2>1, Z3
  <2> QED BY <2>2 DEF s, x
<1> HIDE DEF more
<1>4. 0 \in S
  <2>1. SamePrefix(f, e, a - 1) /\ a - 1 \in 0 .. n
    BY <1>1, <1>2 DEF SamePrefix
  <2>2. p(a - 1) = q(a - 1) /\ q(a - 1) \in Int
    BY <1>1, <2>1, PartAgrees, PartSteps
  <2>3. p(a) = p(a - 1) + f[a] * strides[a] /\ q(a) = q(a - 1) + e[a] * strides[a]
    BY <1>1, PartSteps
  <2> HIDE DEF p, q
  <2>4. p(a) = q(a) + more
    BY <1>1, <1>3, <2>2, <2>3
  <2>5. a + 0 = a /\ 0 \in 0 .. k - a
    BY <1>2
  <2> QED BY <2>4, <2>5
<1>5. ASSUME NEW j \in 1 .. k - a, j - 1 \in S PROVE j \in S
  <2>1. /\ a + j \in 1 .. n /\ a + j # a /\ (a + j) - 1 = a + (j - 1)
        /\ (a + j) - 1 \in 0 .. n
    BY <1>2
  <2>2. /\ p(a + j) = p((a + j) - 1) + f[a + j] * strides[a + j]
        /\ q(a + j) = q((a + j) - 1) + e[a + j] * strides[a + j]
        /\ q((a + j) - 1) \in Int
    BY <1>1, <2>1, PartSteps
  <2>3. f[a + j] = e[a + j]
    BY <1>1, <2>1
  <2>4. e[a + j] * strides[a + j] \in Int
    <3>1. e[a + j] \in Int /\ strides[a + j] \in Int
      BY <2>1
    <3> QED BY <3>1
  <2> DEFINE w == e[a + j] * strides[a + j]
  <2>7. p(a + j) = p((a + j) - 1) + w /\ q(a + j) = q((a + j) - 1) + w /\ w \in Int
    BY <2>2, <2>3, <2>4
  <2> HIDE DEF p, q, w
  <2>5. p((a + j) - 1) = q((a + j) - 1) + more
    BY <1>5, <2>1
  <2>6. p(a + j) = q(a + j) + more
    BY <1>3, <2>2, <2>5, <2>7
  <2> QED BY <2>6
<1>6. k - a \in S
  <2> HIDE DEF S
  <2> QED BY <1>2, <1>4, <1>5, AxisInduction
<1>7. a + (k - a) = k
  BY <1>2
<1> QED BY <1>6, <1>7 DEF f, more

-----------------------------------------------------------------------------
(* The elements of a copy, and the bytes they are in. *)

LEMMA LargestExtent ==
    ASSUME NEW n \in Nat, NEW extents \in [1 .. n -> Nat]
    PROVE  LET largest == Max({0} \cup {extents[d] : d \in 1 .. n})
           IN  largest \in Nat /\ \A d \in 1 .. n : extents[d] <= largest
<1> DEFINE E(k) == {0} \cup {extents[d] : d \in 1 .. k}
           Tops(k) == \E x \in E(k) : \A y \in E(k) : x >= y
           S == {k \in 0 .. n : Tops(k)}
<1>0. \A k \in 0 .. n : E(k) \subseteq Nat
  OBVIOUS
<1>1. 0 \in S
  <2>1. E(0) = {0}
    OBVIOUS
  <2> HIDE DEF E
  <2> QED BY <2>1
<1>2. ASSUME NEW k \in 1 .. n, k - 1 \in S PROVE k \in S
  <2>1. E(k) = E(k - 1) \cup {extents[k]} /\ extents[k] \in Nat
    <3>1. 1 .. k = (1 .. k - 1) \cup {k}
      OBVIOUS
    <3> QED BY <3>1
  <2>2. E(k - 1) \subseteq Nat
    <3>1. k - 1 \in 0 .. n
      OBVIOUS
    <3> HIDE DEF E
    <3> QED BY <1>0, <3>1
  <2> HIDE DEF E
  <2>3. PICK x \in E(k - 1) : \A y \in E(k - 1) : x >= y
    BY <1>2
  <2>4. CASE x >= extents[k]
    <3>1. \A y \in E(k) : x >= y
      BY <2>1, <2>3, <2>4
    <3> QED BY <2>1, <3>1
  <2>5. CASE ~(x >= extents[k])
    <3>1. \A y \in E(k) : extents[k] >= y
      BY <2>1, <2>2, <2>3, <2>5
    <3>2. extents[k] \in E(k)
      BY <2>1
    <3>3. Tops(k)
      BY <3>1, <3>2
    <3> HIDE DEF Tops
    <3> QED BY <3>3
  <2> QED BY <2>4, <2>5
<1>3. Tops(n)
  <2>1. n \in S
    <3> HIDE DEF S
    <3> QED BY <1>1, <1>2, AxisInduction
  <2> HIDE DEF Tops
  <2> QED BY <2>1
<1>4. n \in 0 .. n
  OBVIOUS
<1>5. Max(E(n)) \in E(n) /\ \A y \in E(n) : Max(E(n)) >= y
  <2> HIDE DEF E
  <2> QED BY <1>3 DEF Max
<1>6. \A d \in 1 .. n : extents[d] \in E(n)
  OBVIOUS
<1>7. E(n) \subseteq Nat
  <2> HIDE DEF E
  <2> QED BY <1>0, <1>4
<1>8. Max(E(n)) \in Nat /\ \A d \in 1 .. n : extents[d] <= Max(E(n))
  <2> HIDE DEF E
  <2> QED BY <1>5, <1>6, <1>7
<1> QED BY <1>8

LEMMA ElementsAre ==
    ASSUME TypeOK, NEW e
    PROVE  e \in Elements <=> e \in [Axes -> Nat] /\ \A d \in Axes : e[d] < sizes[d]
<1> DEFINE largest == Max({0} \cup {sizes[d] : d \in Axes})
<1>1. Rank \in Nat /\ sizes \in [Axes -> Nat] /\ Axes = 1 .. Rank
  BY CopyIs DEF Axes
<1>2. largest \in Nat /\ \A d \in Axes : sizes[d] <= largest
  BY <1>1, LargestExtent
<1>3. Elements = {f \in [Axes -> 0 .. largest] : \A d \in Axes : f[d] < sizes[d]}
  BY DEF Elements
<1> HIDE DEF largest
<1>4. ASSUME e \in [Axes -> Nat], \A d \in Axes : e[d] < sizes[d] PROVE e \in [Axes -> 0 .. largest]
  <2>1. \A d \in Axes : e[d] \in 0 .. largest
    <3> SUFFICES ASSUME NEW d \in Axes PROVE e[d] \in 0 .. largest
      OBVIOUS
    <3>1. e[d] \in Nat /\ sizes[d] \in Nat /\ e[d] < sizes[d] /\ sizes[d] <= largest
      BY <1>1, <1>2, <1>4
    <3> QED BY <1>2, <3>1
  <2> QED BY <1>4, <2>1
<1>5. ASSUME e \in [Axes -> 0 .. largest] PROVE e \in [Axes -> Nat]
  BY <1>5
<1> QED BY <1>3, <1>4, <1>5

SrcPart(e, k) == Part(Rank, copy.src.strides, e, k)
DstPart(e, k) == Part(Rank, copy.dst.strides, e, k)

\* An element's place in both operands, axis by axis.
LEMMA PartsAre ==
    ASSUME TypeOK, NEW e \in Elements
    PROVE  /\ SrcPart(e, 0) = 0 /\ DstPart(e, 0) = 0
           /\ \A k \in 0 .. Rank : SrcPart(e, k) \in Int /\ DstPart(e, k) \in Int
           /\ \A k \in Axes :
                 /\ SrcPart(e, k) = SrcPart(e, k - 1) + e[k] * copy.src.strides[k]
                 /\ DstPart(e, k) = DstPart(e, k - 1) + e[k] * copy.dst.strides[k]
<1>1. /\ Rank \in Nat /\ Axes = 1 .. Rank /\ e \in [1 .. Rank -> Nat]
      /\ copy.src.strides \in [1 .. Rank -> Int] /\ copy.dst.strides \in [1 .. Rank -> Int]
  BY CopyIs, ElementsAre DEF Axes
<1>2. SrcPart(e, 0) = 0
  BY <1>1, PartOfNone DEF SrcPart
<1>3. DstPart(e, 0) = 0
  BY <1>1, PartOfNone DEF DstPart
<1>4. /\ \A k \in 0 .. Rank : SrcPart(e, k) \in Int
      /\ \A k \in 1 .. Rank : SrcPart(e, k) = SrcPart(e, k - 1) + e[k] * copy.src.strides[k]
  BY <1>1, PartSteps, Zenon DEF SrcPart
<1>5. /\ \A k \in 0 .. Rank : DstPart(e, k) \in Int
      /\ \A k \in 1 .. Rank : DstPart(e, k) = DstPart(e, k - 1) + e[k] * copy.dst.strides[k]
  BY <1>1, PartSteps, Zenon DEF DstPart
<1> QED BY <1>1, <1>2, <1>3, <1>4, <1>5

LEMMA AddressesAre ==
    ASSUME TypeOK, NEW e \in Elements
    PROVE  /\ AddressOf(copy.src, e) = copy.src.base + copy.elem * SrcPart(e, Rank)
           /\ AddressOf(copy.dst, e) = copy.dst.base + copy.elem * DstPart(e, Rank)
<1>1. /\ Rank \in Nat /\ Axes = 1 .. Rank /\ e \in [1 .. Rank -> Nat]
      /\ copy.src.strides \in [1 .. Rank -> Int] /\ copy.dst.strides \in [1 .. Rank -> Int]
  BY CopyIs, ElementsAre DEF Axes
<1>2. ASSUME NEW strides \in [1 .. Rank -> Int]
      PROVE  SumFunction([d \in Axes |-> e[d] * strides[d]]) = Part(Rank, strides, e, Rank)
  <2>1. Terms(Rank, strides, e) \in [1 .. Rank -> Int]
    <3>1. \A k \in 1 .. Rank : e[k] * strides[k] \in Int
      <4> SUFFICES ASSUME NEW k \in 1 .. Rank PROVE e[k] * strides[k] \in Int
        OBVIOUS
      <4>1. e[k] \in Int /\ strides[k] \in Int
        BY <1>1, <1>2
      <4> QED BY <4>1
    <3> QED BY <3>1 DEF Terms
  <2>2. SumFunction(Terms(Rank, strides, e)) = Sums(Rank, Terms(Rank, strides, e))[Rank]
    BY <1>1, <2>1, SumIs
  <2> QED BY <1>1, <2>2 DEF Terms, Part
<1> QED BY <1>1, <1>2 DEF AddressOf, SrcPart, DstPart

-----------------------------------------------------------------------------
(* A run, and the elements in it. *)

LEMMA Divides ==
    ASSUME NEW w \in Nat \ {0}, NEW x \in Nat
    PROVE  \E q \in Nat, r \in 0 .. w - 1 : x = w * q + r
<1> DEFINE q == x \div w
           r == x % w
<1>1. q \in Int /\ r \in Int /\ x = w * q + r /\ 0 <= r /\ r < w
  BY Z3
<1> HIDE DEF q, r
<1>2. q >= 0
  <2> SUFFICES ASSUME q <= -1 PROVE FALSE
    BY <1>1
  <2>1. w * q <= -w
    BY <1>1, Z3
  <2> QED BY <1>1, <2>1
<1> QED BY <1>1, <1>2

\* The places of a block of n by w, in order.
LEMMA PlaceInBlock ==
    ASSUME NEW w \in Nat \ {0}, NEW n \in Nat, NEW q \in 0 .. n - 1, NEW r \in 0 .. w - 1
    PROVE  w * q + r \in 0 .. n * w - 1
<1>1. w \in Int /\ n \in Int /\ q \in Int /\ r \in Int /\ 0 <= q /\ q <= n - 1 /\ 0 <= r /\ r <= w - 1 /\ w >= 1
  OBVIOUS
<1>2. w * q <= w * (n - 1) /\ 0 <= w * q /\ w * q \in Int
  BY <1>1, Z3
<1>3. w * (n - 1) = n * w - w /\ n * w \in Int
  BY <1>1, Z3
<1> QED BY <1>1, <1>2, <1>3

LEMMA PlaceOfBlock ==
    ASSUME NEW w \in Nat \ {0}, NEW n \in Nat, NEW x \in 0 .. n * w - 1
    PROVE  \E q \in 0 .. n - 1, r \in 0 .. w - 1 : x = w * q + r
<1>1. x \in Nat /\ n * w \in Int /\ x <= n * w - 1
  BY Z3
<1>2. PICK q \in Nat, r \in 0 .. w - 1 : x = w * q + r
  BY <1>1, Divides
<1>3. q <= n - 1
  <2> SUFFICES ASSUME q >= n PROVE FALSE
    OBVIOUS
  <2>1. w * q >= n * w /\ w * q \in Int
    BY Z3
  <2> QED BY <1>1, <1>2, <2>1
<1> QED BY <1>2, <1>3

\* f is t after the place where the outer indices of e lead, in both operands.
Lies(e, f, t) ==
    /\ SrcPart(f, Rank) = SrcPart(e, outer) + t
    /\ DstPart(f, Rank) = DstPart(e, outer) + t

\* The axes inside the run make one packed block of both operands: an element
\* is in the run of its outer indices, and each place of a run is an element's.
RunInv ==
    /\ run >= 1
    /\ \A e \in Elements :
         /\ \E t \in 0 .. run - 1 : Lies(e, e, t)
         /\ \A t \in 0 .. run - 1 :
               \E f \in Elements : SamePrefix(f, e, outer) /\ Lies(e, f, t)

ElementOf(e) == BytesOf(AddressOf(copy.dst, e), AddressOf(copy.src, e), copy.elem)

RunOf(e) ==
    BytesOf(copy.dst.base + copy.elem * DstPart(e, outer),
            copy.src.base + copy.elem * SrcPart(e, outer), runBytes)

\* The bytes of an element that lies in a run, in the run.
LEMMA ElementInRun ==
    ASSUME TypeOK, NEW e \in Elements, NEW f \in Elements, NEW t \in 0 .. run - 1, Lies(e, f, t),
           NEW b \in Int
    PROVE  /\ AddressOf(copy.dst, f) + b
                = (copy.dst.base + copy.elem * DstPart(e, outer)) + (copy.elem * t + b)
           /\ AddressOf(copy.src, f) + b
                = (copy.src.base + copy.elem * SrcPart(e, outer)) + (copy.elem * t + b)
<1> DEFINE el == copy.elem
           p == SrcPart(e, outer)
           q == DstPart(e, outer)
           s == copy.src.base
           d == copy.dst.base
<1>1. /\ el \in Int /\ s \in Int /\ d \in Int /\ t \in Int
      /\ p \in Int /\ q \in Int
  <2>1. el \in Int /\ s \in Int /\ d \in Int /\ t \in Int
    BY CopyIs
  <2>2. outer \in 0 .. Rank
    BY DEF TypeOK
  <2>3. SrcPart(e, outer) \in Int /\ DstPart(e, outer) \in Int
    BY <2>2, PartsAre
  <2> QED BY <2>1, <2>3
<1>2. /\ AddressOf(copy.dst, f) = d + el * (q + t)
      /\ AddressOf(copy.src, f) = s + el * (p + t)
  BY AddressesAre DEF Lies
<1> HIDE DEF el, p, q, s, d
<1>3. /\ el * (q + t) = el * q + el * t /\ el * (p + t) = el * p + el * t
      /\ el * q \in Int /\ el * p \in Int /\ el * t \in Int
  BY <1>1, Z3
<1>4. /\ (d + el * (q + t)) + b = (d + el * q) + (el * t + b)
      /\ (s + el * (p + t)) + b = (s + el * p) + (el * t + b)
  BY <1>1, <1>3
<1> QED BY <1>2, <1>4 DEF el, p, q, s, d

LEMMA RunsAreElements ==
    ASSUME TypeOK, RunInv
    PROVE  ElementBytes = UNION {RunOf(e) : e \in Elements}
<1>1. copy.elem \in Nat \ {0} /\ run \in Nat /\ runBytes = run * copy.elem
  BY DEF TypeOK, CopyOf, runBytes
<1>2. ElementBytes = UNION {ElementOf(e) : e \in Elements}
  BY DEF ElementBytes, ElementOf
<1>3. ASSUME NEW e \in Elements PROVE ElementOf(e) \subseteq RunOf(e)
  <2>1. PICK t \in 0 .. run - 1 : Lies(e, e, t)
    BY DEF RunInv
  <2> SUFFICES ASSUME NEW b \in 0 .. copy.elem - 1
               PROVE  <<AddressOf(copy.dst, e) + b, AddressOf(copy.src, e) + b>> \in RunOf(e)
    BY DEF ElementOf, BytesOf
  <2>2. copy.elem * t + b \in 0 .. runBytes - 1
    BY <1>1, PlaceInBlock
  <2>3. b \in Int
    OBVIOUS
  <2> QED BY <2>1, <2>2, <2>3, ElementInRun DEF RunOf, BytesOf
<1>4. ASSUME NEW e \in Elements, NEW x \in RunOf(e)
      PROVE  \E f \in Elements : x \in ElementOf(f)
  <2>1. PICK j \in 0 .. runBytes - 1 :
            x = <<(copy.dst.base + copy.elem * DstPart(e, outer)) + j,
                  (copy.src.base + copy.elem * SrcPart(e, outer)) + j>>
    BY DEF RunOf, BytesOf
  <2>2. PICK t \in 0 .. run - 1, b \in 0 .. copy.elem - 1 : j = copy.elem * t + b
    BY <1>1, PlaceOfBlock
  <2>3. PICK f \in Elements : Lies(e, f, t)
    BY DEF RunInv
  <2>4. b \in Int
    OBVIOUS
  <2>5. x = <<AddressOf(copy.dst, f) + b, AddressOf(copy.src, f) + b>>
    BY <2>1, <2>2, <2>3, <2>4, ElementInRun
  <2> QED BY <2>5 DEF ElementOf, BytesOf
<1> HIDE DEF ElementOf, RunOf
<1> QED BY <1>2, <1>3, <1>4

LEMMA PrefixParts ==
    ASSUME TypeOK, NEW e \in Elements, NEW f \in Elements, NEW k \in 0 .. Rank, SamePrefix(f, e, k)
    PROVE  SrcPart(f, k) = SrcPart(e, k) /\ DstPart(f, k) = DstPart(e, k)
<1>1. /\ Rank \in Nat /\ e \in [1 .. Rank -> Nat] /\ f \in [1 .. Rank -> Nat]
      /\ copy.src.strides \in [1 .. Rank -> Int] /\ copy.dst.strides \in [1 .. Rank -> Int]
  BY CopyIs, ElementsAre DEF Axes
<1>2. SrcPart(f, k) = SrcPart(e, k)
  BY <1>1, PartAgrees DEF SrcPart
<1>3. DstPart(f, k) = DstPart(e, k)
  BY <1>1, PartAgrees DEF DstPart
<1> QED BY <1>2, <1>3

\* Another index on one axis.
LEMMA ElementChanges ==
    ASSUME TypeOK, NEW e \in Elements, NEW a \in Axes, NEW v \in Nat, v < sizes[a]
    PROVE  /\ [e EXCEPT ![a] = v] \in Elements
           /\ [e EXCEPT ![a] = v][a] = v
           /\ \A d \in Axes : d # a => [e EXCEPT ![a] = v][d] = e[d]
           /\ SamePrefix([e EXCEPT ![a] = v], e, a - 1)
<1> DEFINE f == [e EXCEPT ![a] = v]
<1>1. Rank \in Nat /\ Axes = 1 .. Rank /\ e \in [Axes -> Nat] /\ \A d \in Axes : e[d] < sizes[d]
  BY CopyIs, ElementsAre DEF Axes
<1>2. f \in [Axes -> Nat] /\ f[a] = v /\ \A d \in Axes : d # a => f[d] = e[d]
  BY <1>1
<1> HIDE DEF f
<1>3. \A d \in Axes : f[d] < sizes[d]
  BY <1>1, <1>2
<1>4. f \in Elements
  BY <1>2, <1>3, ElementsAre
<1>5. SamePrefix(f, e, a - 1)
  BY <1>1, <1>2 DEF SamePrefix
<1> QED BY <1>2, <1>4, <1>5 DEF f

\* The terms of the copy are the same as long as the copy is.
LEMMA SameCopy ==
    ASSUME UNCHANGED copy
    PROVE  /\ Rank' = Rank /\ Axes' = Axes /\ sizes' = sizes /\ Elements' = Elements
           /\ ElementBytes' = ElementBytes
           /\ \A e, k : SrcPart(e, k)' = SrcPart(e, k) /\ DstPart(e, k)' = DstPart(e, k)
<1>1. Rank' = Rank /\ Axes' = Axes /\ sizes' = sizes
  BY DEF Rank, Axes, sizes
<1>2. Elements' = Elements
  BY <1>1 DEF Elements
<1>3. \A e, k : SrcPart(e, k)' = SrcPart(e, k) /\ DstPart(e, k)' = DstPart(e, k)
  BY <1>1 DEF SrcPart, DstPart
<1>4. ElementBytes' = ElementBytes
  BY <1>1, <1>2 DEF ElementBytes, AddressOf
<1> QED BY <1>1, <1>2, <1>3, <1>4

LEMMA SameRuns ==
    ASSUME UNCHANGED <<copy, run, outer>>
    PROVE  (RunInv' <=> RunInv) /\ \A e : RunOf(e)' = RunOf(e)
<1>1. \A e, f, t : Lies(e, f, t)' <=> Lies(e, f, t)
  BY SameCopy DEF Lies
<1>2. RunInv' <=> RunInv
  BY <1>1, SameCopy DEF RunInv
<1>3. \A e : RunOf(e)' = RunOf(e)
  BY SameCopy DEF RunOf, runBytes
<1> QED BY <1>2, <1>3

\* Before the first axis is collapsed a run is an element.
LEMMA RunStarts ==
    ASSUME TypeOK, UNCHANGED copy, run' = 1, outer' = Rank
    PROVE  RunInv'
<1>1. Rank \in Nat
  BY CopyIs
<1>2. ASSUME NEW e \in Elements PROVE SrcPart(e, Rank) \in Int /\ DstPart(e, Rank) \in Int
  <2>1. Rank \in 0 .. Rank
    BY <1>1
  <2> QED BY <2>1, PartsAre
<1>3. ASSUME NEW e \in Elements PROVE Lies(e, e, 0)'
  <2>1. /\ SrcPart(e, Rank)' = SrcPart(e, Rank) /\ DstPart(e, Rank)' = DstPart(e, Rank)
        /\ SrcPart(e, outer)' = SrcPart(e, Rank) /\ DstPart(e, outer)' = DstPart(e, Rank)
    BY SameCopy DEF SrcPart, DstPart
  <2> QED BY <1>2, <2>1 DEF Lies
<1>4. \A e \in Elements : SamePrefix(e, e, Rank)
  BY DEF SamePrefix
<1>5. 0 .. run' - 1 = {0}
  OBVIOUS
<1>6. Elements' = Elements /\ \A e, f : SamePrefix(f, e, outer)' <=> SamePrefix(f, e, Rank)
  BY SameCopy DEF SamePrefix
<1>7. run' >= 1
  OBVIOUS
<1> QED BY <1>3, <1>4, <1>5, <1>6, <1>7 DEF RunInv

\* What one more packed axis adds to the place of an element.
LEMMA PackedPart ==
    ASSUME TypeOK, Packed, NEW e \in Elements
    PROVE  /\ outer \in Axes /\ run \in Nat /\ sizes[outer] \in Nat
           /\ e[outer] \in 0 .. sizes[outer] - 1
           /\ SrcPart(e, outer) = SrcPart(e, outer - 1) + run * e[outer]
           /\ DstPart(e, outer) = DstPart(e, outer - 1) + run * e[outer]
           /\ SrcPart(e, outer - 1) \in Int /\ DstPart(e, outer - 1) \in Int
<1>1. /\ outer \in Axes /\ run \in Nat /\ sizes[outer] \in Nat
      /\ copy.src.strides[outer] = run /\ copy.dst.strides[outer] = run
      /\ outer - 1 \in 0 .. Rank
  BY CopyIs DEF TypeOK, Packed, Axes
<1>2. e[outer] \in Nat /\ e[outer] < sizes[outer]
  BY <1>1, ElementsAre
<1>3. e[outer] * run = run * e[outer]
  BY <1>1, <1>2, Z3
<1>4. SrcPart(e, outer - 1) \in Int /\ DstPart(e, outer - 1) \in Int
  BY <1>1, PartsAre
<1>5. /\ SrcPart(e, outer) = SrcPart(e, outer - 1) + run * e[outer]
      /\ DstPart(e, outer) = DstPart(e, outer - 1) + run * e[outer]
  BY <1>1, <1>3, PartsAre
<1> QED BY <1>1, <1>2, <1>4, <1>5

\* An axis packed in both operands only makes the run longer.
LEMMA RunGrows ==
    ASSUME TypeOK, RunInv, Packed, sizes[outer] >= 1,
           UNCHANGED copy, run' = run * sizes[outer], outer' = outer - 1
    PROVE  RunInv'
<1>1. /\ Elements' = Elements
      /\ \A e : SrcPart(e, Rank)' = SrcPart(e, Rank) /\ DstPart(e, Rank)' = DstPart(e, Rank)
      /\ \A e : /\ SrcPart(e, outer)' = SrcPart(e, outer - 1)
                /\ DstPart(e, outer)' = DstPart(e, outer - 1)
  BY SameCopy DEF SrcPart, DstPart
<1>2. /\ outer \in Axes /\ run \in Nat \ {0} /\ sizes[outer] \in Nat /\ Rank \in Nat
      /\ outer - 1 \in 0 .. Rank
  BY CopyIs DEF TypeOK, Packed, Axes, RunInv
<1>3. run' \in Nat /\ run' = sizes[outer] * run /\ run' >= 1
  BY <1>2, Z3
<1>4. ASSUME NEW e \in Elements PROVE \E t \in 0 .. run' - 1 : Lies(e, e, t)'
  <2>1. PICK t \in 0 .. run - 1 : Lies(e, e, t)
    BY DEF RunInv
  <2>2. PICK u \in 0 .. run' - 1 : u = run * e[outer] + t
    BY <1>2, <1>3, PackedPart, PlaceInBlock
  <2>3. run * e[outer] \in Int
    BY <1>2, PackedPart, Z3
  <2>4. Lies(e, e, u)'
    <3>1. /\ SrcPart(e, Rank) = SrcPart(e, outer - 1) + u
          /\ DstPart(e, Rank) = DstPart(e, outer - 1) + u
      BY <2>1, <2>2, <2>3, PackedPart DEF Lies
    <3> QED BY <1>1, <3>1 DEF Lies
  <2> QED BY <2>4
<1>5. ASSUME NEW e \in Elements, NEW u \in 0 .. run' - 1
      PROVE  \E f \in Elements : SamePrefix(f, e, outer - 1) /\ Lies(e, f, u)'
  <2>1. PICK q \in 0 .. sizes[outer] - 1, r \in 0 .. run - 1 : u = run * q + r
    <3> DEFINE n == sizes[outer]
               w == run
    <3>1. w \in Nat \ {0} /\ n \in Nat /\ u \in 0 .. n * w - 1
      BY <1>2, <1>3
    <3> HIDE DEF n, w
    <3>2. \E q \in 0 .. n - 1, r \in 0 .. w - 1 : u = w * q + r
      BY <3>1, PlaceOfBlock
    <3> QED BY <3>2 DEF n, w
  <2> DEFINE g == [e EXCEPT ![outer] = q]
  <2>2. q \in Nat /\ q < sizes[outer]
    BY <1>2
  <2>3. g \in Elements /\ g[outer] = q /\ SamePrefix(g, e, outer - 1)
    BY <1>2, <2>2, ElementChanges
  <2> HIDE DEF g
  <2>4. PICK f \in Elements : SamePrefix(f, g, outer) /\ Lies(g, f, r)
    BY <2>3 DEF RunInv
  <2>5. SamePrefix(f, e, outer - 1)
    <3>1. \A d \in 1 .. outer - 1 : d \in 1 .. outer
      BY <1>2 DEF Axes
    <3> QED BY <2>3, <2>4, <3>1 DEF SamePrefix
  <2>6. /\ SrcPart(g, outer - 1) = SrcPart(e, outer - 1)
        /\ DstPart(g, outer - 1) = DstPart(e, outer - 1)
    BY <1>2, <2>3, PrefixParts
  <2>7. /\ SrcPart(g, outer) = SrcPart(e, outer - 1) + run * q
        /\ DstPart(g, outer) = DstPart(e, outer - 1) + run * q
        /\ SrcPart(e, outer - 1) \in Int /\ DstPart(e, outer - 1) \in Int
    BY <2>3, <2>6, PackedPart
  <2>8. run * q \in Int /\ r \in Int
    BY <1>2, <2>2, Z3
  <2>9. /\ SrcPart(f, Rank) = SrcPart(e, outer - 1) + u
        /\ DstPart(f, Rank) = DstPart(e, outer - 1) + u
    BY <2>1, <2>4, <2>7, <2>8 DEF Lies
  <2> QED BY <1>1, <2>5, <2>9 DEF Lies
<1>6. \A e, f : SamePrefix(f, e, outer)' <=> SamePrefix(f, e, outer - 1)
  BY DEF SamePrefix
<1> QED BY <1>1, <1>3, <1>4, <1>5, <1>6 DEF RunInv

\* The copies there is no walk for.
LEMMA NoElements ==
    ASSUME TypeOK, NEW d \in Axes, sizes[d] = 0
    PROVE  ElementBytes = {}
<1>1. ASSUME NEW e \in Elements PROVE FALSE
  <2>1. e[d] \in Nat /\ e[d] < sizes[d]
    BY ElementsAre
  <2> QED BY <2>1
<1> QED BY <1>1 DEF ElementBytes

LEMMA SomeElement ==
    ASSUME TypeOK, \A d \in Axes : sizes[d] >= 1
    PROVE  [d \in Axes |-> 0] \in Elements
<1>1. \A d \in Axes : [a \in Axes |-> 0][d] < sizes[d]
  BY CopyIs
<1> QED BY <1>1, ElementsAre

LEMMA OneElement ==
    ASSUME TypeOK, Rank = 0
    PROVE  ElementBytes = BytesOf(copy.dst.base, copy.src.base, copy.elem)
<1>1. /\ copy.elem \in Int /\ copy.src.base \in Int /\ copy.dst.base \in Int
  BY CopyIs
<1>2. ASSUME NEW e \in Elements PROVE ElementOf(e) = BytesOf(copy.dst.base, copy.src.base, copy.elem)
  <2>1. SrcPart(e, Rank) = 0 /\ DstPart(e, Rank) = 0
    BY PartsAre
  <2>2. AddressOf(copy.src, e) = copy.src.base /\ AddressOf(copy.dst, e) = copy.dst.base
    BY <1>1, <2>1, AddressesAre
  <2> QED BY <2>2 DEF ElementOf
<1>3. [d \in Axes |-> 0] \in Elements
  BY SomeElement DEF Axes
<1>4. ElementBytes = UNION {ElementOf(e) : e \in Elements}
  BY DEF ElementBytes, ElementOf
<1> HIDE DEF ElementOf
<1> QED BY <1>2, <1>3, <1>4

LEMMA OneRun ==
    ASSUME TypeOK, RunInv, outer = 0, \A d \in Axes : sizes[d] >= 1
    PROVE  ElementBytes = BytesOf(copy.dst.base, copy.src.base, runBytes)
<1>1. /\ copy.elem \in Int /\ copy.src.base \in Int /\ copy.dst.base \in Int
  BY CopyIs
<1>2. ASSUME NEW e \in Elements PROVE RunOf(e) = BytesOf(copy.dst.base, copy.src.base, runBytes)
  <2>1. SrcPart(e, outer) = 0 /\ DstPart(e, outer) = 0
    BY PartsAre
  <2> QED BY <1>1, <2>1 DEF RunOf
<1>3. [d \in Axes |-> 0] \in Elements
  BY SomeElement
<1>4. ElementBytes = UNION {RunOf(e) : e \in Elements}
  BY RunsAreElements
<1> HIDE DEF RunOf
<1> QED BY <1>2, <1>3, <1>4

-----------------------------------------------------------------------------
(* The odometer. *)

\* e comes before h on the first k axes.
Before(e, h, k) == \E a \in 1 .. k : e[a] < h[a] /\ SamePrefix(e, h, a - 1)

UpTo(e, h, k) == Before(e, h, k) \/ SamePrefix(e, h, k)

\* The next one after h, which counts up on axis a, comes after what is up to h.
LEMMA TurnsPast ==
    ASSUME NEW m \in Nat, NEW a \in 1 .. m, NEW e, NEW h, NEW g,
           \A d \in 1 .. m : e[d] \in Nat /\ h[d] \in Nat,
           \A d \in a + 1 .. m : h[d] = 0,
           g[a] = h[a] + 1, \A d \in 1 .. m : d # a => g[d] = h[d]
    PROVE  Before(e, g, m) <=> UpTo(e, h, a)
<1>1. ASSUME NEW b \in 1 .. m, e[b] < g[b], SamePrefix(e, g, b - 1) PROVE UpTo(e, h, a)
  <2>1. b <= a
    <3> SUFFICES ASSUME b > a PROVE FALSE
      OBVIOUS
    <3>1. g[b] = 0 /\ e[b] \in Nat
      OBVIOUS
    <3> QED BY <1>1, <3>1
  <2>2. SamePrefix(e, h, b - 1)
    BY <1>1, <2>1 DEF SamePrefix
  <2>3. CASE b < a
    <3>1. b \in 1 .. a /\ e[b] < h[b]
      BY <1>1, <2>3
    <3> QED BY <2>2, <3>1 DEF UpTo, Before
  <2>4. CASE b = a /\ e[a] < h[a]
    <3>1. a \in 1 .. a
      OBVIOUS
    <3> QED BY <2>2, <2>4, <3>1 DEF UpTo, Before
  <2>5. CASE b = a /\ e[a] = h[a]
    <3>1. \A d \in 1 .. a : d = a \/ d \in 1 .. a - 1
      OBVIOUS
    <3> QED BY <2>2, <2>5, <3>1 DEF UpTo, SamePrefix
  <2>6. b = a => e[a] < h[a] \/ e[a] = h[a]
    BY <1>1
  <2> QED BY <2>1, <2>3, <2>4, <2>5, <2>6
<1>2. ASSUME NEW b \in 1 .. a, e[b] < h[b], SamePrefix(e, h, b - 1) PROVE Before(e, g, m)
  <2>1. b \in 1 .. m /\ e[b] < g[b]
    BY <1>2
  <2>2. SamePrefix(e, g, b - 1)
    BY <1>2 DEF SamePrefix
  <2> QED BY <2>1, <2>2 DEF Before
<1>3. ASSUME SamePrefix(e, h, a) PROVE Before(e, g, m)
  <2>1. e[a] = h[a] /\ e[a] < g[a]
    BY <1>3 DEF SamePrefix
  <2>2. SamePrefix(e, g, a - 1)
    BY <1>3 DEF SamePrefix
  <2> QED BY <2>1, <2>2 DEF Before
<1> QED BY <1>1, <1>2, <1>3 DEF Before, UpTo

\* An axis that is through adds nothing to what is up to h.
LEMMA CarriesPast ==
    ASSUME NEW a \in Nat \ {0}, NEW e, NEW h, NEW g,
           e[a] \in Nat, h[a] \in Nat, e[a] <= h[a],
           \A d \in 1 .. a - 1 : g[d] = h[d]
    PROVE  UpTo(e, g, a - 1) <=> UpTo(e, h, a)
<1>1. ASSUME NEW b \in 1 .. a - 1
      PROVE  /\ b \in 1 .. a
             /\ (e[b] < g[b] <=> e[b] < h[b])
             /\ (SamePrefix(e, g, b - 1) <=> SamePrefix(e, h, b - 1))
  BY DEF SamePrefix
<1>2. SamePrefix(e, g, a - 1) <=> SamePrefix(e, h, a - 1)
  BY DEF SamePrefix
<1>3. ASSUME UpTo(e, g, a - 1) PROVE UpTo(e, h, a)
  <2>1. CASE Before(e, g, a - 1)
    BY <1>1, <2>1 DEF UpTo, Before
  <2>2. CASE SamePrefix(e, g, a - 1)
    <3>1. CASE e[a] < h[a]
      <4>1. a \in 1 .. a
        OBVIOUS
      <4> QED BY <1>2, <2>2, <3>1, <4>1 DEF UpTo, Before
    <3>2. CASE e[a] = h[a]
      <4>1. \A d \in 1 .. a : d = a \/ d \in 1 .. a - 1
        OBVIOUS
      <4> QED BY <1>2, <2>2, <3>2, <4>1 DEF UpTo, SamePrefix
    <3> QED BY <3>1, <3>2
  <2> QED BY <1>3, <2>1, <2>2 DEF UpTo
<1>4. ASSUME UpTo(e, h, a) PROVE UpTo(e, g, a - 1)
  <2>1. CASE Before(e, h, a)
    <3>1. PICK b \in 1 .. a : e[b] < h[b] /\ SamePrefix(e, h, b - 1)
      BY <2>1 DEF Before
    <3>2. CASE b = a
      BY <1>2, <3>1, <3>2 DEF UpTo
    <3>3. CASE b # a
      <4>1. b \in 1 .. a - 1
        BY <3>3
      <4> QED BY <1>1, <3>1, <4>1 DEF UpTo, Before
    <3> QED BY <3>2, <3>3
  <2>2. CASE SamePrefix(e, h, a)
    <3>1. SamePrefix(e, h, a - 1)
      BY <2>2 DEF SamePrefix
    <3> QED BY <1>2, <3>1 DEF UpTo
  <2> QED BY <1>4, <2>1, <2>2 DEF UpTo
<1> QED BY <1>3, <1>4

\* The element at which the odometer stands.
Here == [d \in Axes |-> IF d \in 1 .. outer THEN indices[d] ELSE 0]

BytesBy(S) == UNION {RunOf(e) : e \in S}

\* The offsets are those of where the odometer stands, and what has been moved
\* is the rows it has passed; between a row and the next one it has passed what
\* is up to it on the axes not yet carried.
WalkInv ==
    /\ indices[outer] = 0
    /\ readIndex = copy.elem * SrcPart(Here, outer)
    /\ writeIndex = copy.elem * DstPart(Here, outer)
    /\ phase = "row" =>
         MovedBytes = BytesBy({e \in Elements : Before(e, Here, outer - 1)})
    /\ phase = "carry" =>
         /\ \A d \in axis + 1 .. outer : indices[d] = 0
         /\ MovedBytes = BytesBy({e \in Elements : UpTo(e, Here, axis)})

LEMMA HereIs ==
    ASSUME TypeOK, ExtentsInv, Walking
    PROVE  /\ Here \in Elements /\ outer \in Axes /\ outer \in Nat
           /\ \A d \in 1 .. outer : d \in Axes /\ Here[d] = indices[d]
<1>1. /\ Rank \in Nat /\ outer \in 1 .. Rank /\ indices \in [1 .. outer -> Nat]
      /\ \A d \in 1 .. outer : indices[d] < sizes[d]
  BY DEF TypeOK, Walking
<1>2. \A d \in 1 .. outer : d \in Axes /\ Here[d] = indices[d]
  BY <1>1 DEF Here, Axes
<1>3. \A d \in Axes : sizes[d] >= 1 /\ sizes[d] \in Nat
  BY CopyIs DEF ExtentsInv, Walking
<1>4. Here \in [Axes -> Nat] /\ \A d \in Axes : Here[d] < sizes[d]
  BY <1>1, <1>3 DEF Here
<1> QED BY <1>1, <1>2, <1>4, ElementsAre DEF Axes

\* A move of the row the odometer stands on is the run of an element of the row.
LEMMA RunInRow ==
    ASSUME TypeOK, ExtentsInv, Walking, WalkInv,
           NEW e \in Elements, SamePrefix(e, Here, outer - 1)
    PROVE  /\ e[outer] \in 0 .. sizes[outer] - 1
           /\ RunOf(e) = BytesOf(copy.dst.base + writeIndex + e[outer] * DstStep(outer),
                                copy.src.base + readIndex + e[outer] * SrcStep(outer), runBytes)
<1>1. /\ Here \in Elements /\ outer \in Axes /\ outer - 1 \in 0 .. Rank /\ Here[outer] = 0
      /\ sizes[outer] \in Nat
  <2>1. Here \in Elements /\ outer \in Axes
    BY HereIs
  <2>2. outer \in 1 .. outer /\ outer - 1 \in 0 .. Rank /\ sizes[outer] \in Nat
    BY <2>1, CopyIs DEF Axes
  <2>3. Here[outer] = indices[outer]
    BY <2>2, HereIs
  <2> QED BY <2>1, <2>2, <2>3 DEF WalkInv
<1>2. e[outer] \in Nat /\ e[outer] < sizes[outer]
  BY <1>1, ElementsAre
<1>3. /\ SrcPart(e, outer - 1) = SrcPart(Here, outer - 1) /\ SrcPart(Here, outer - 1) \in Int
      /\ DstPart(e, outer - 1) = DstPart(Here, outer - 1) /\ DstPart(Here, outer - 1) \in Int
  BY <1>1, PrefixParts, PartsAre
<1> DEFINE el == copy.elem
           k == e[outer]
           ss == copy.src.strides[outer]
           ds == copy.dst.strides[outer]
           p == SrcPart(Here, outer - 1)
           q == DstPart(Here, outer - 1)
           s == copy.src.base
           d == copy.dst.base
<1>4. /\ SrcPart(e, outer) = p + k * ss /\ DstPart(e, outer) = q + k * ds
      /\ SrcPart(Here, outer) = p + 0 * ss /\ DstPart(Here, outer) = q + 0 * ds
  BY <1>1, <1>3, PartsAre
<1>5. /\ el \in Int /\ k \in Int /\ ss \in Int /\ ds \in Int /\ p \in Int /\ q \in Int
      /\ s \in Int /\ d \in Int
  BY <1>1, <1>2, <1>3, CopyIs
<1>6. readIndex = el * (p + 0 * ss) /\ writeIndex = el * (q + 0 * ds)
  BY <1>4 DEF WalkInv
<1>7. SrcStep(outer) = ss * el /\ DstStep(outer) = ds * el
  BY DEF SrcStep, DstStep
<1> HIDE DEF el, k, ss, ds, p, q, s, d
<1>8. /\ s + el * (p + k * ss) = s + el * (p + 0 * ss) + k * (ss * el)
      /\ d + el * (q + k * ds) = d + el * (q + 0 * ds) + k * (ds * el)
  BY <1>5, Z3
<1>9. RunOf(e) = BytesOf(d + el * (q + k * ds), s + el * (p + k * ss), runBytes)
  BY <1>4 DEF RunOf, d, s, el
<1>10. RunOf(e) = BytesOf(d + writeIndex + k * DstStep(outer), s + readIndex + k * SrcStep(outer), runBytes)
  BY <1>6, <1>7, <1>8, <1>9
<1> QED BY <1>1, <1>2, <1>10 DEF k, s, d

BytesMoved(S) == UNION {BytesOf(m.to, m.from, m.bytes) : m \in S}

LEMMA RowBytes ==
    ASSUME TypeOK, ExtentsInv, Walking, WalkInv
    PROVE  BytesMoved(Row) = BytesBy({e \in Elements : SamePrefix(e, Here, outer - 1)})
<1> DEFINE S == {e \in Elements : SamePrefix(e, Here, outer - 1)}
           MoveAt(k) == Move(copy.dst.base + writeIndex + k * DstStep(outer),
                             copy.src.base + readIndex + k * SrcStep(outer), runBytes, How)
           Bytes(m) == BytesOf(m.to, m.from, m.bytes)
<1>1. Row = {MoveAt(k) : k \in 0 .. sizes[outer] - 1}
  BY DEF Row, inner
<1>2. \A k : Bytes(MoveAt(k)) = BytesOf(copy.dst.base + writeIndex + k * DstStep(outer),
                                       copy.src.base + readIndex + k * SrcStep(outer), runBytes)
  BY DEF Move
<1>3. ASSUME NEW e \in S
      PROVE  e[outer] \in 0 .. sizes[outer] - 1 /\ RunOf(e) = Bytes(MoveAt(e[outer]))
  BY <1>2, <1>3, RunInRow
<1>4. ASSUME NEW k \in 0 .. sizes[outer] - 1
      PROVE  \E e \in S : e[outer] = k
  <2> DEFINE e == [Here EXCEPT ![outer] = k]
  <2>1. Here \in Elements /\ outer \in Axes /\ k \in Nat /\ k < sizes[outer]
    BY HereIs, CopyIs
  <2>2. e \in Elements /\ e[outer] = k /\ SamePrefix(e, Here, outer - 1)
    BY <2>1, ElementChanges
  <2> HIDE DEF e
  <2> QED BY <2>2
<1> HIDE DEF MoveAt, S
<1>5. \A k \in 0 .. sizes[outer] - 1 : \E e \in S : Bytes(MoveAt(k)) = RunOf(e)
  <2> SUFFICES ASSUME NEW k \in 0 .. sizes[outer] - 1 PROVE \E e \in S : Bytes(MoveAt(k)) = RunOf(e)
    OBVIOUS
  <2>1. PICK e \in S : e[outer] = k
    BY <1>4
  <2> HIDE DEF Bytes
  <2> QED BY <1>3, <2>1
<1>6. BytesMoved(Row) = UNION {Bytes(MoveAt(k)) : k \in 0 .. sizes[outer] - 1}
  BY <1>1 DEF BytesMoved
<1>7. UNION {Bytes(MoveAt(k)) : k \in 0 .. sizes[outer] - 1} = UNION {RunOf(e) : e \in S}
  <2> HIDE DEF Bytes
  <2> QED BY <1>3, <1>5
<1> QED BY <1>6, <1>7 DEF BytesBy, S

\* The offsets follow the odometer when an index of it changes.
LEMMA OffsetsFollow ==
    ASSUME TypeOK, ExtentsInv, Walking, WalkInv, UNCHANGED <<copy, outer>>,
           NEW a \in 1 .. outer - 1, NEW v \in Nat, v < sizes[a],
           indices' = [indices EXCEPT ![a] = v],
           readIndex' = readIndex + (v - indices[a]) * SrcStep(a),
           writeIndex' = writeIndex + (v - indices[a]) * DstStep(a)
    PROVE  /\ Here' = [Here EXCEPT ![a] = v]
           /\ indices'[outer'] = 0
           /\ readIndex' = copy'.elem * SrcPart(Here, outer)'
           /\ writeIndex' = copy'.elem * DstPart(Here, outer)'
<1>1. /\ Here \in Elements /\ outer \in Axes /\ outer \in 1 .. Rank /\ a \in 1 .. Rank /\ a \in 1 .. outer
      /\ Here[a] = indices[a] /\ a # outer /\ outer \in a .. Rank /\ Axes = 1 .. Rank
  BY HereIs, CopyIs DEF TypeOK, Walking, Axes
<1>2. /\ indices \in [1 .. outer -> Nat] /\ indices[outer] = 0 /\ indices[a] \in Nat
  BY <1>1 DEF TypeOK, WalkInv, Walking
<1>3. indices'[outer'] = 0
  BY <1>1, <1>2
<1>4. Here' = [Here EXCEPT ![a] = v]
  <2>1. Axes' = Axes /\ outer' = outer
    BY SameCopy
  <2>2. \A d \in 1 .. outer : indices'[d] = IF d = a THEN v ELSE indices[d]
    BY <1>1, <1>2
  <2>3. Here' = [d \in Axes |-> IF d \in 1 .. outer THEN indices'[d] ELSE 0]
    BY <2>1 DEF Here
  <2>4. [Here EXCEPT ![a] = v] = [d \in Axes |-> IF d = a THEN v ELSE Here[d]]
    BY <1>1 DEF Here
  <2>5. \A d \in Axes : (IF d \in 1 .. outer THEN indices'[d] ELSE 0) = (IF d = a THEN v ELSE Here[d])
    BY <1>1, <2>2 DEF Here
  <2> QED BY <2>3, <2>4, <2>5
<1> DEFINE g == [Here EXCEPT ![a] = v]
           el == copy.elem
           k == v - indices[a]
           ss == copy.src.strides[a]
           ds == copy.dst.strides[a]
           p == SrcPart(Here, outer)
           q == DstPart(Here, outer)
<1>5. /\ Rank \in Nat /\ Here \in [1 .. Rank -> Nat]
      /\ copy.src.strides \in [1 .. Rank -> Int] /\ copy.dst.strides \in [1 .. Rank -> Int]
  BY <1>1, CopyIs, ElementsAre
<1>6. SrcPart(g, outer) = p + k * ss
  <2>1. Part(Rank, copy.src.strides, g, outer)
          = Part(Rank, copy.src.strides, Here, outer) + (v - Here[a]) * copy.src.strides[a]
    BY <1>1, <1>5, PartChanges
  <2> QED BY <1>1, <2>1 DEF SrcPart
<1>7. DstPart(g, outer) = q + k * ds
  <2>1. Part(Rank, copy.dst.strides, g, outer)
          = Part(Rank, copy.dst.strides, Here, outer) + (v - Here[a]) * copy.dst.strides[a]
    BY <1>1, <1>5, PartChanges
  <2> QED BY <1>1, <2>1 DEF DstPart
<1>8. el \in Int /\ k \in Int /\ ss \in Int /\ ds \in Int
  <2>1. el \in Int /\ k \in Int
    BY <1>2, CopyIs
  <2> QED BY <1>1, <1>5, <2>1
<1>9. p \in Int /\ q \in Int
  <2>1. outer \in 0 .. Rank
    BY <1>1
  <2> QED BY <1>1, <2>1, PartsAre
<1>10. /\ readIndex' = el * p + k * (ss * el) /\ writeIndex' = el * q + k * (ds * el)
  BY DEF WalkInv, SrcStep, DstStep
<1>11. /\ copy'.elem = el
       /\ SrcPart(Here, outer)' = SrcPart(g, outer) /\ DstPart(Here, outer)' = DstPart(g, outer)
  BY <1>4, SameCopy DEF SrcPart, DstPart
<1> HIDE DEF g, el, k, ss, ds, p, q
<1>12. el * p + k * (ss * el) = el * (p + k * ss) /\ el * q + k * (ds * el) = el * (q + k * ds)
  BY <1>8, <1>9, Z3
<1>13. readIndex' = copy'.elem * SrcPart(Here, outer)' /\ writeIndex' = copy'.elem * DstPart(Here, outer)'
  BY <1>6, <1>7, <1>10, <1>11, <1>12
<1> QED BY <1>3, <1>4, <1>13 DEF g

\* At the start the odometer, and the offsets, are nought.
LEMMA PartOfZeros ==
    ASSUME NEW n \in Nat, NEW strides \in [1 .. n -> Int], NEW e \in [1 .. n -> Nat],
           \A d \in 1 .. n : e[d] = 0, NEW k \in 0 .. n
    PROVE  Part(n, strides, e, k) = 0
<1> DEFINE S == {i \in 0 .. k : Part(n, strides, e, i) = 0}
<1>1. 0 \in S
  <2>1. Part(n, strides, e, 0) = 0
    BY PartOfNone
  <2> QED BY <2>1
<1>2. ASSUME NEW i \in 1 .. k, i - 1 \in S PROVE i \in S
  <2>1. i \in 1 .. n /\ e[i] = 0 /\ strides[i] \in Int
    OBVIOUS
  <2>2. Part(n, strides, e, i) = Part(n, strides, e, i - 1) + e[i] * strides[i]
    BY <2>1, PartSteps
  <2> QED BY <1>2, <2>1, <2>2
<1>3. k \in S
  <2> HIDE DEF S
  <2> QED BY <1>1, <1>2, AxisInduction
<1> QED BY <1>3

LEMMA WalkStarts ==
    ASSUME TypeOK, ExtentsInv, phase = "collapse", outer > 0, moves = {},
           UNCHANGED <<copy, run, outer, moves>>, phase' = "row",
           indices' = [d \in 1 .. outer |-> 0], readIndex' = 0, writeIndex' = 0
    PROVE  WalkInv'
<1>1. /\ Rank \in Nat /\ outer \in 1 .. Rank /\ outer \in 0 .. Rank /\ copy.elem \in Int
      /\ copy.src.strides \in [1 .. Rank -> Int] /\ copy.dst.strides \in [1 .. Rank -> Int]
      /\ Axes = 1 .. Rank
  <2>1. outer \in 0 .. Rank /\ Rank \in Nat
    BY DEF TypeOK
  <2>2. outer \in 1 .. Rank
    BY <2>1
  <2>3. Axes = 1 .. Rank
    BY DEF Axes
  <2>4. copy.elem \in Int
    BY CopyIs
  <2> QED BY <2>1, <2>2, <2>3, <2>4, CopyIs
<1>2. Here' = [d \in Axes |-> 0]
  BY SameCopy DEF Here
<1>3. Here' \in [1 .. Rank -> Nat] /\ \A d \in 1 .. Rank : Here'[d] = 0
  BY <1>1, <1>2
<1>4. SrcPart(Here, outer)' = Part(Rank, copy.src.strides, Here', outer)
  BY SameCopy DEF SrcPart
<1>5. DstPart(Here, outer)' = Part(Rank, copy.dst.strides, Here', outer)
  BY SameCopy DEF DstPart
<1>6. Part(Rank, copy.src.strides, Here', outer) = 0
  BY <1>1, <1>3, PartOfZeros
<1>7. Part(Rank, copy.dst.strides, Here', outer) = 0
  BY <1>1, <1>3, PartOfZeros
<1>8. readIndex' = copy'.elem * SrcPart(Here, outer)' /\ writeIndex' = copy'.elem * DstPart(Here, outer)'
  BY <1>1, <1>4, <1>5, <1>6, <1>7
<1>9. MovedBytes' = {}
  BY DEF MovedBytes
<1>10. \A e \in Elements : ~Before(e, Here, outer - 1)'
  <2> SUFFICES ASSUME NEW e \in Elements, NEW a \in 1 .. outer - 1, e[a] < Here'[a] PROVE FALSE
    BY DEF Before
  <2>1. a \in Axes /\ Here'[a] = 0
    BY <1>1, <1>2
  <2>2. e[a] \in Nat
    BY <2>1, ElementsAre
  <2> QED BY <2>1, <2>2
<1>11. BytesBy({e \in Elements : Before(e, Here, outer - 1)})' = {}
  <2>1. {e \in Elements : Before(e, Here, outer - 1)}' = {}
    BY <1>10, SameCopy
  <2> QED BY <2>1 DEF BytesBy
<1>12. indices'[outer'] = 0
  BY <1>1
<1> QED BY <1>8, <1>9, <1>11, <1>12 DEF WalkInv

\* A row is moved: the odometer has passed what is up to it on the axes before.
LEMMA RowIsMoved ==
    ASSUME TypeOK, ExtentsInv, phase = "row", WalkInv, moves' = moves \cup Row
    PROVE  MovedBytes' = BytesBy({e \in Elements : UpTo(e, Here, outer - 1)})
<1> DEFINE past == {e \in Elements : Before(e, Here, outer - 1)}
           on == {e \in Elements : SamePrefix(e, Here, outer - 1)}
<1>1. MovedBytes = BytesBy(past)
  BY DEF WalkInv
<1>2. BytesMoved(Row) = BytesBy(on)
  BY RowBytes DEF Walking
<1>3. MovedBytes' = MovedBytes \cup BytesMoved(Row)
  <2> DEFINE Bytes(m) == BytesOf(m.to, m.from, m.bytes)
  <2>1. MovedBytes' = UNION {Bytes(m) : m \in moves \cup Row}
    BY DEF MovedBytes
  <2>2. MovedBytes = UNION {Bytes(m) : m \in moves} /\ BytesMoved(Row) = UNION {Bytes(m) : m \in Row}
    BY DEF MovedBytes, BytesMoved
  <2> HIDE DEF Bytes
  <2> QED BY <2>1, <2>2
<1>4. {e \in Elements : UpTo(e, Here, outer - 1)} = past \cup on
  BY DEF UpTo
<1> HIDE DEF past, on
<1>5. BytesBy(past \cup on) = BytesBy(past) \cup BytesBy(on)
  BY DEF BytesBy
<1> QED BY <1>1, <1>2, <1>3, <1>4, <1>5

LEMMA RowKeepsWalk ==
    ASSUME TypeOK, ExtentsInv, phase = "row", WalkInv, outer # 1, phase' = "carry",
           moves' = moves \cup Row, axis' = outer - 1,
           UNCHANGED <<copy, run, outer, indices, readIndex, writeIndex>>
    PROVE  WalkInv'
<1>1. Here' = Here /\ Elements' = Elements
  BY SameCopy DEF Here
<1>2. /\ indices'[outer'] = 0
      /\ readIndex' = copy'.elem * SrcPart(Here, outer)'
      /\ writeIndex' = copy'.elem * DstPart(Here, outer)'
  BY <1>1, SameCopy DEF WalkInv, SrcPart, DstPart
<1>3. MovedBytes' = BytesBy({e \in Elements : UpTo(e, Here, outer - 1)})
  BY RowIsMoved
<1>4. {e \in Elements : UpTo(e, Here, axis)}' = {e \in Elements : UpTo(e, Here, outer - 1)}
  BY <1>1 DEF UpTo, Before, SamePrefix
<1>5. \A S : BytesBy(S)' = BytesBy(S)
  BY SameRuns DEF BytesBy
<1>6. MovedBytes' = BytesBy({e \in Elements : UpTo(e, Here, axis)})'
  BY <1>3, <1>4, <1>5
<1>7. \A d \in axis' + 1 .. outer' : indices'[d] = 0
  <2>1. outer \in Int
    BY DEF TypeOK
  <2>2. \A d \in axis' + 1 .. outer' : d = outer
    BY <2>1
  <2> QED BY <2>2 DEF WalkInv
<1> QED BY <1>2, <1>6, <1>7 DEF WalkInv

LEMMA LastRowIsMoved ==
    ASSUME TypeOK, ExtentsInv, RunInv, phase = "row", WalkInv, outer = 1, moves' = moves \cup Row,
           UNCHANGED copy
    PROVE  MovedBytes' = ElementBytes'
<1>1. {e \in Elements : UpTo(e, Here, outer - 1)} = Elements
  BY DEF UpTo, SamePrefix
<1>2. MovedBytes' = BytesBy(Elements)
  BY <1>1, RowIsMoved
<1>3. ElementBytes = BytesBy(Elements)
  BY RunsAreElements DEF BytesBy
<1> QED BY <1>2, <1>3, SameCopy

\* What the odometer is about to pass, while a carry is under way.
LEMMA CarryIs ==
    ASSUME TypeOK, ExtentsInv, phase = "carry", WalkInv
    PROVE  /\ axis \in 1 .. outer - 1 /\ axis \in Axes /\ axis \in 1 .. outer
           /\ outer \in Nat /\ axis \in Nat
           /\ indices[axis] \in Nat /\ indices[axis] < sizes[axis] /\ sizes[axis] \in Nat
           /\ Here[axis] = indices[axis]
           /\ \A e \in Elements : e[axis] \in Nat /\ e[axis] < sizes[axis]
           /\ SrcStep(axis) \in Int /\ DstStep(axis) \in Int
           /\ readIndex \in Int /\ writeIndex \in Int
<1>1. axis \in 1 .. outer - 1 /\ axis \in 1 .. outer /\ outer \in Nat /\ axis \in Nat
  BY DEF TypeOK
<1>2. axis \in Axes /\ Here[axis] = indices[axis]
  BY <1>1, HereIs DEF Walking
<1>3. indices[axis] \in Nat /\ indices[axis] < sizes[axis]
  BY <1>1 DEF TypeOK
<1>4. SrcStep(axis) \in Int /\ DstStep(axis) \in Int /\ sizes[axis] \in Nat
  BY <1>2, StepsAre
<1>5. \A e \in Elements : e[axis] \in Nat /\ e[axis] < sizes[axis]
  BY <1>2, ElementsAre
<1>6. readIndex \in Int /\ writeIndex \in Int
  BY DEF TypeOK
<1> QED BY <1>1, <1>2, <1>3, <1>4, <1>5, <1>6

LEMMA TurnKeepsWalk ==
    ASSUME TypeOK, ExtentsInv, WalkInv, Turn
    PROVE  WalkInv'
<1>1. /\ phase = "carry" /\ indices[axis] + 1 # sizes[axis] /\ phase' = "row"
      /\ UNCHANGED <<copy, run, outer, axis, moves>>
      /\ indices' = [indices EXCEPT ![axis] = indices[axis] + 1]
      /\ readIndex' = readIndex + SrcStep(axis) /\ writeIndex' = writeIndex + DstStep(axis)
  BY DEF Turn
<1> DEFINE v == indices[axis] + 1
<1>2. v \in Nat /\ v < sizes[axis] /\ v - indices[axis] = 1
  BY <1>1, CarryIs
<1>3. /\ readIndex' = readIndex + (v - indices[axis]) * SrcStep(axis)
      /\ writeIndex' = writeIndex + (v - indices[axis]) * DstStep(axis)
  <2>1. 1 * SrcStep(axis) = SrcStep(axis) /\ 1 * DstStep(axis) = DstStep(axis)
    BY <1>1, CarryIs
  <2> HIDE DEF v
  <2> QED BY <1>1, <1>2, <2>1
<1>4. /\ Here' = [Here EXCEPT ![axis] = v] /\ indices'[outer'] = 0
      /\ readIndex' = copy'.elem * SrcPart(Here, outer)'
      /\ writeIndex' = copy'.elem * DstPart(Here, outer)'
  <2>1. indices' = [indices EXCEPT ![axis] = v] /\ Walking /\ axis \in 1 .. outer - 1
    BY <1>1, CarryIs DEF Walking
  <2> HIDE DEF v
  <2> QED BY <1>1, <1>2, <1>3, <2>1, OffsetsFollow
<1>5. ASSUME NEW e \in Elements
      PROVE  Before(e, Here', outer - 1) <=> UpTo(e, Here, axis)
  <2>1. outer \in Nat /\ axis \in Nat /\ outer - 1 \in Nat /\ axis \in 1 .. outer - 1
    BY <1>1, CarryIs
  <2>2. \A d \in 1 .. outer - 1 : d \in Axes /\ d \in 1 .. outer
    BY <1>1, <2>1, HereIs DEF Walking
  <2>3. \A d \in 1 .. outer - 1 : e[d] \in Nat /\ Here[d] \in Nat
    <3>1. Here \in Elements
      BY <1>1, HereIs DEF Walking
    <3> QED BY <2>2, <3>1, ElementsAre
  <2>4. \A d \in axis + 1 .. outer - 1 : Here[d] = 0
    <3> SUFFICES ASSUME NEW d \in axis + 1 .. outer - 1 PROVE Here[d] = 0
      OBVIOUS
    <3>1. d \in axis + 1 .. outer
      BY <2>1
    <3>2. d \in 1 .. outer
      BY <2>1
    <3> QED BY <1>1, <3>1, <3>2, HereIs DEF WalkInv, Walking
  <2>5. Here'[axis] = Here[axis] + 1 /\ \A d \in 1 .. outer - 1 : d # axis => Here'[d] = Here[d]
    <3>1. Here \in [Axes -> Nat] /\ axis \in Axes /\ Here[axis] = indices[axis]
      BY <1>1, HereIs, ElementsAre, CarryIs DEF Walking
    <3> QED BY <1>4, <2>2, <3>1
  <2> QED BY <2>1, <2>3, <2>4, <2>5, TurnsPast
<1>6. {e \in Elements : Before(e, Here, outer - 1)}' = {e \in Elements : UpTo(e, Here, axis)}
  <2>1. {e \in Elements : Before(e, Here, outer - 1)}' = {e \in Elements : Before(e, Here', outer - 1)}
    BY <1>1, SameCopy DEF Before, SamePrefix
  <2> QED BY <1>5, <2>1
<1>7. \A S : BytesBy(S)' = BytesBy(S)
  BY <1>1, SameRuns DEF BytesBy
<1>8. MovedBytes' = BytesBy({e \in Elements : Before(e, Here, outer - 1)})'
  <2>1. MovedBytes' = MovedBytes
    BY <1>1 DEF MovedBytes
  <2> QED BY <1>1, <1>6, <1>7, <2>1 DEF WalkInv
<1> QED BY <1>1, <1>4, <1>8 DEF WalkInv

LEMMA CarryKeepsWalk ==
    ASSUME TypeOK, ExtentsInv, WalkInv, Carry
    PROVE  WalkInv'
<1>1. /\ phase = "carry" /\ axis > 1 /\ indices[axis] + 1 = sizes[axis] /\ phase' = "carry"
      /\ axis' = axis - 1 /\ UNCHANGED <<copy, run, outer, moves>>
      /\ indices' = [indices EXCEPT ![axis] = 0]
      /\ readIndex' = readIndex + SrcStep(axis) - sizes[axis] * SrcStep(axis)
      /\ writeIndex' = writeIndex + DstStep(axis) - sizes[axis] * DstStep(axis)
  BY DEF Carry
<1>2. /\ readIndex' = readIndex + (0 - indices[axis]) * SrcStep(axis)
      /\ writeIndex' = writeIndex + (0 - indices[axis]) * DstStep(axis)
  <2> DEFINE i == indices[axis]
             n == sizes[axis]
             s == SrcStep(axis)
             d == DstStep(axis)
  <2>1. i \in Int /\ n = i + 1 /\ s \in Int /\ d \in Int /\ readIndex \in Int /\ writeIndex \in Int
    BY <1>1, CarryIs
  <2>2. readIndex' = readIndex + s - n * s /\ writeIndex' = writeIndex + d - n * d
    BY <1>1
  <2> HIDE DEF i, n, s, d
  <2>3. /\ readIndex + s - n * s = readIndex + (0 - i) * s
        /\ writeIndex + d - n * d = writeIndex + (0 - i) * d
    BY <2>1, Z3
  <2> QED BY <2>2, <2>3 DEF i, s, d
<1>3. /\ Here' = [Here EXCEPT ![axis] = 0] /\ indices'[outer'] = 0
      /\ readIndex' = copy'.elem * SrcPart(Here, outer)'
      /\ writeIndex' = copy'.elem * DstPart(Here, outer)'
  <2>1. Walking /\ axis \in 1 .. outer - 1 /\ 0 \in Nat /\ 0 < sizes[axis]
    BY <1>1, CarryIs DEF Walking
  <2> QED BY <1>1, <1>2, <2>1, OffsetsFollow
<1>4. \A d \in axis' + 1 .. outer' : indices'[d] = 0
  <2> SUFFICES ASSUME NEW d \in axis .. outer PROVE indices'[d] = 0
    BY <1>1, CarryIs
  <2>0. axis \in 1 .. outer - 1 /\ outer \in Nat
    BY <1>1, CarryIs
  <2>1. indices \in [1 .. outer -> Nat] /\ d \in 1 .. outer
    <3>1. d \in 1 .. outer
      BY <2>0
    <3> QED BY <1>1, <3>1 DEF TypeOK
  <2>2. CASE d = axis
    BY <1>1, <2>1, <2>2
  <2>3. CASE d # axis
    <3>1. d \in axis + 1 .. outer
      BY <1>1, <2>3, CarryIs
    <3> QED BY <1>1, <2>1, <2>3, <3>1 DEF WalkInv
  <2> QED BY <2>2, <2>3
<1>5. ASSUME NEW e \in Elements
      PROVE  UpTo(e, Here', axis - 1) <=> UpTo(e, Here, axis)
  <2>1. /\ axis \in Nat \ {0} /\ e[axis] \in Nat /\ Here[axis] \in Nat /\ e[axis] <= Here[axis]
    BY <1>1, CarryIs
  <2>2. \A d \in 1 .. axis - 1 : Here'[d] = Here[d]
    <3>1. Here \in [Axes -> Nat]
      BY <1>1, HereIs, ElementsAre DEF Walking
    <3>2. \A d \in 1 .. axis - 1 : d \in 1 .. outer /\ d # axis
      BY <1>1, CarryIs
    <3>3. \A d \in 1 .. outer : d \in Axes
      BY <1>1, HereIs DEF Walking
    <3> QED BY <1>3, <3>1, <3>2, <3>3
  <2> QED BY <2>1, <2>2, CarriesPast
<1>6. {e \in Elements : UpTo(e, Here, axis)}' = {e \in Elements : UpTo(e, Here, axis)}
  <2>1. {e \in Elements : UpTo(e, Here, axis)}' = {e \in Elements : UpTo(e, Here', axis - 1)}
    BY <1>1, SameCopy DEF UpTo, Before, SamePrefix
  <2> QED BY <1>5, <2>1
<1>7. \A S : BytesBy(S)' = BytesBy(S)
  BY <1>1, SameRuns DEF BytesBy
<1>8. MovedBytes' = BytesBy({e \in Elements : UpTo(e, Here, axis)})'
  <2>1. MovedBytes' = MovedBytes
    BY <1>1 DEF MovedBytes
  <2> QED BY <1>1, <1>6, <1>7, <2>1 DEF WalkInv
<1> QED BY <1>1, <1>3, <1>4, <1>8 DEF WalkInv

-----------------------------------------------------------------------------
(* What a copy has done. *)

EffectInv ==
    /\ phase \in {"start", "collapse"} => moves = {}
    /\ phase = "collapse" \/ Walking => RunInv
    /\ Walking => WalkInv
    /\ CopiesTheElements

\* A copy that has ended has done it all.
LEMMA EndsDone ==
    ASSUME phase' = "done", MovedBytes' = ElementBytes'
    PROVE  EffectInv'
  BY DEF EffectInv, Walking, CopiesTheElements

LEMMA OneMove ==
    ASSUME NEW to, NEW from, NEW bytes, NEW how, moves' = {Move(to, from, bytes, how)}
    PROVE  MovedBytes' = BytesOf(to, from, bytes)
<1>1. MovedBytes' = UNION {BytesOf(m.to, m.from, m.bytes) : m \in {Move(to, from, bytes, how)}}
  BY DEF MovedBytes
<1>2. MovedBytes' = BytesOf(Move(to, from, bytes, how).to, Move(to, from, bytes, how).from,
                           Move(to, from, bytes, how).bytes)
  BY <1>1
<1> QED BY <1>2 DEF Move

\* A last row leaves no element of a greater first index.
LEMMA LastRowIsLast ==
    ASSUME TypeOK, ExtentsInv, WalkInv, RunInv, LastRow
    PROVE  EffectInv'
<1>1. /\ phase = "carry" /\ axis = 1 /\ indices[axis] + 1 = sizes[axis] /\ phase' = "done"
      /\ UNCHANGED <<copy, moves>>
  BY DEF LastRow
<1>2. ASSUME NEW e \in Elements PROVE UpTo(e, Here, axis)
  <2>1. e[1] \in Nat /\ Here[1] \in Nat /\ e[1] <= Here[1]
    BY <1>1, CarryIs
  <2>2. SamePrefix(e, Here, 1 - 1)
    BY DEF SamePrefix
  <2>3. CASE e[1] < Here[1]
    <3>1. 1 \in 1 .. 1
      OBVIOUS
    <3> QED BY <1>1, <2>2, <2>3, <3>1 DEF UpTo, Before
  <2>4. CASE e[1] = Here[1]
    BY <1>1, <2>4 DEF UpTo, SamePrefix
  <2> QED BY <2>1, <2>3, <2>4
<1>3. MovedBytes = BytesBy(Elements)
  <2>1. {e \in Elements : UpTo(e, Here, axis)} = Elements
    BY <1>2
  <2> QED BY <1>1, <2>1 DEF WalkInv
<1>4. ElementBytes = BytesBy(Elements)
  BY RunsAreElements DEF BytesBy
<1>5. MovedBytes' = MovedBytes
  BY <1>1 DEF MovedBytes
<1> QED BY <1>1, <1>3, <1>4, <1>5, SameCopy, EndsDone

LEMMA EffectKeeps == IInv /\ EffectInv /\ [Next]_vars => EffectInv'
<1> SUFFICES ASSUME IInv, EffectInv, [Next]_vars PROVE EffectInv'
  OBVIOUS
<1>0. TypeOK /\ ExtentsInv
  BY DEF IInv
<1>1. CASE NothingToCopy
  <2>1. phase = "start" /\ phase' = "done" /\ UNCHANGED <<copy, moves>> /\ moves = {}
    BY <1>1 DEF NothingToCopy, EffectInv
  <2>2. PICK d \in Axes : sizes[d] = 0
    BY <1>1 DEF NothingToCopy
  <2>3. MovedBytes' = {}
    BY <2>1 DEF MovedBytes
  <2>4. ElementBytes' = {}
    BY <1>0, <2>1, <2>2, NoElements, SameCopy
  <2> QED BY <2>1, <2>3, <2>4, EndsDone
<1>2. CASE CopyScalar
  <2>1. /\ Rank = 0 /\ phase' = "done" /\ UNCHANGED copy
        /\ moves' = {Move(copy.dst.base, copy.src.base, copy.elem, "memcpy")}
    BY <1>2 DEF CopyScalar
  <2>2. MovedBytes' = BytesOf(copy.dst.base, copy.src.base, copy.elem)
    BY <2>1, OneMove
  <2> QED BY <1>0, <2>1, <2>2, OneElement, SameCopy, EndsDone
<1>3. CASE TooManyAxes
  <2>1. phase' = "exited"
    BY <1>3 DEF TooManyAxes
  <2> QED BY <2>1 DEF EffectInv, Walking, CopiesTheElements
<1>4. CASE Begin
  <2>1. /\ phase = "start" /\ phase' = "collapse" /\ run' = 1 /\ outer' = Rank
        /\ UNCHANGED <<copy, moves>> /\ moves = {}
    BY <1>4 DEF Begin, EffectInv
  <2>2. RunInv'
    BY <1>0, <2>1, RunStarts
  <2> QED BY <2>1, <2>2 DEF EffectInv, Walking, CopiesTheElements
<1>5. CASE Collapse
  <2>1. /\ phase = "collapse" /\ Packed /\ run' = run * sizes[outer] /\ outer' = outer - 1
        /\ UNCHANGED <<copy, phase, moves>> /\ moves = {} /\ RunInv
    BY <1>5 DEF Collapse, EffectInv
  <2>2. sizes[outer] >= 1
    <3>1. outer \in Axes
      BY <1>0, <2>1 DEF Packed, TypeOK, Axes
    <3> QED BY <1>0, <2>1, <3>1 DEF ExtentsInv
  <2>3. RunInv'
    BY <1>0, <2>1, <2>2, RunGrows
  <2> QED BY <2>1, <2>3 DEF EffectInv, Walking, CopiesTheElements
<1>6. CASE AllPacked
  <2>1. /\ phase = "collapse" /\ outer = 0 /\ phase' = "done" /\ UNCHANGED copy /\ RunInv
        /\ moves' = {Move(copy.dst.base, copy.src.base, runBytes, "memcpy")}
    BY <1>6 DEF AllPacked, EffectInv
  <2>2. \A d \in Axes : sizes[d] >= 1
    BY <1>0, <2>1 DEF ExtentsInv
  <2>3. MovedBytes' = BytesOf(copy.dst.base, copy.src.base, runBytes)
    BY <2>1, OneMove
  <2> QED BY <1>0, <2>1, <2>2, <2>3, OneRun, SameCopy, EndsDone
<1>7. CASE StartWalk
  <2>1. /\ phase = "collapse" /\ outer > 0 /\ indices' = [d \in 1 .. outer |-> 0]
        /\ readIndex' = 0 /\ writeIndex' = 0 /\ phase' = "row"
        /\ UNCHANGED <<copy, run, outer, moves>> /\ moves = {} /\ RunInv
    BY <1>7 DEF StartWalk, EffectInv
  <2>2. WalkInv'
    BY <1>0, <2>1, WalkStarts
  <2>3. RunInv'
    BY <2>1, SameRuns
  <2> QED BY <2>1, <2>2, <2>3 DEF EffectInv, CopiesTheElements
<1>8. CASE CopyRow
  <2>1. /\ phase = "row" /\ moves' = moves \cup Row /\ axis' = outer - 1
        /\ UNCHANGED <<copy, run, outer, indices, readIndex, writeIndex>>
        /\ phase' = IF outer = 1 THEN "done" ELSE "carry"
    BY <1>8 DEF CopyRow, inner
  <2>2. WalkInv /\ RunInv
    BY <2>1 DEF EffectInv, Walking
  <2>3. CASE outer = 1
    BY <1>0, <2>1, <2>2, <2>3, LastRowIsMoved, EndsDone
  <2>4. CASE outer # 1
    <3>1. WalkInv'
      BY <1>0, <2>1, <2>2, <2>4, RowKeepsWalk
    <3>2. RunInv'
      BY <2>1, <2>2, SameRuns
    <3> QED BY <2>1, <2>4, <3>1, <3>2 DEF EffectInv, CopiesTheElements
  <2> QED BY <2>3, <2>4
<1>9. CASE Turn \/ Carry
  <2>1. phase = "carry" /\ phase' \in {"row", "carry"} /\ UNCHANGED <<copy, run, outer>>
    BY <1>9 DEF Turn, Carry
  <2>2. WalkInv /\ RunInv
    BY <2>1 DEF EffectInv, Walking
  <2>3. WalkInv'
    BY <1>0, <1>9, <2>2, TurnKeepsWalk, CarryKeepsWalk
  <2>4. RunInv'
    BY <2>1, <2>2, SameRuns
  <2> QED BY <2>1, <2>3, <2>4 DEF EffectInv, CopiesTheElements
<1>10. CASE LastRow
  <2>1. WalkInv /\ RunInv
    BY <1>10 DEF EffectInv, Walking, LastRow
  <2> QED BY <1>0, <1>10, <2>1, LastRowIsLast
<1>11. CASE UNCHANGED vars
  <2>1. UNCHANGED <<copy, phase, run, outer, indices, readIndex, writeIndex, axis, moves>>
    BY <1>11 DEF vars
  <2>2. /\ Here' = Here /\ Elements' = Elements /\ ElementBytes' = ElementBytes
        /\ MovedBytes' = MovedBytes /\ (RunInv' <=> RunInv)
    BY <2>1, SameCopy, SameRuns DEF Here, MovedBytes
  <2>3. \A S : BytesBy(S)' = BytesBy(S)
    BY <2>1, SameRuns DEF BytesBy
  <2>4. WalkInv' <=> WalkInv
    <3>1. /\ SrcPart(Here, outer)' = SrcPart(Here, outer) /\ DstPart(Here, outer)' = DstPart(Here, outer)
      BY <2>1, <2>2, SameCopy DEF SrcPart, DstPart
    <3>2. {e \in Elements : Before(e, Here, outer - 1)}' = {e \in Elements : Before(e, Here, outer - 1)}
      BY <2>1, <2>2 DEF Before, SamePrefix
    <3>3. {e \in Elements : UpTo(e, Here, axis)}' = {e \in Elements : UpTo(e, Here, axis)}
      BY <2>1, <2>2 DEF UpTo, Before, SamePrefix
    <3> QED BY <2>1, <2>2, <2>3, <3>1, <3>2, <3>3 DEF WalkInv
  <2> QED BY <2>1, <2>2, <2>4 DEF EffectInv, Walking, CopiesTheElements
<1> QED BY <1>1, <1>2, <1>3, <1>4, <1>5, <1>6, <1>7, <1>8, <1>9, <1>10, <1>11 DEF Next

\* The copy does what copying element by element does, and nothing else: every
\* byte of every element to its own place, and no byte between or past them,
\* whatever the shape, the strides and the elements' size.
THEOREM CopyIsElementByElement == Spec => []CopiesTheElements
<1>1. Init => EffectInv
  BY DEF Init, EffectInv, Walking, CopiesTheElements
<1>2. EffectInv => CopiesTheElements
  BY DEF EffectInv
<1> QED BY <1>1, <1>2, EffectKeeps, CopyInvariant, PTL DEF Spec
=============================================================================
