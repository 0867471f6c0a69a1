------------------------ MODULE LinalgToGemmlirProofs ------------------------
(***************************************************************************)
(* Every call --convert-linalg-to-gemmlir makes verifies, of any function     *)
(* that is well formed, however long, of memrefs of any shape, in whatever     *)
(* order the patterns match.                                                  *)
(***************************************************************************)
EXTENDS LinalgToGemmlir, LinalgVerifiers, SequenceTheorems, WellFoundedInduction, TLAPS

-----------------------------------------------------------------------------
(* Counting. *)

\* A set of numbers that is not empty has a least element.
LEMMA LeastOf ==
    ASSUME NEW S \in SUBSET Nat, S # {}
    PROVE  \E m \in S : \A k \in S : m <= k
<1> DEFINE R == {p \in Nat \X Nat : p[1] < p[2]}
<1>1. IsWellFoundedOn(R, Nat)
  BY NatLessThanWellFounded, Zenon DEF OpToRel
<1>2. \A k, l \in S : k < l => <<k, l>> \in R
  OBVIOUS
<1> HIDE DEF R
<1>3. PICK m \in S : \A k \in S : ~(<<k, m>> \in R)
  BY <1>1, WFMin
<1>4. \A k \in S : ~(k < m)
  BY <1>2, <1>3, Zenon
<1>5. \A k \in S : m \in Nat /\ k \in Nat
  OBVIOUS
<1> QED BY <1>4, <1>5

\* What holds of none, and of k where it holds of k - 1, holds of n.
LEMMA UpTo ==
    ASSUME NEW n \in Nat, NEW S, 0 \in S, \A k \in 1..n : k - 1 \in S => k \in S
    PROVE  n \in S
<1> DEFINE U == (0..n) \ S
<1>1. U \in SUBSET Nat
  OBVIOUS
<1>2. SUFFICES ASSUME n \notin S PROVE FALSE
  OBVIOUS
<1>3. PICK m \in U : \A k \in U : m <= k
  <2>1. U # {}
    BY <1>2
  <2> HIDE DEF U
  <2> QED BY <1>1, <2>1, LeastOf
<1>4. m \in 1..n /\ m - 1 \in S
  BY <1>3
<1> QED BY <1>3, <1>4

-----------------------------------------------------------------------------
(* Blocks. *)

\* The first i sequences of s, one after the other, are h[i].
Joins(h, s, i) == h[i] = IF i = 1 THEN s[i] ELSE h[i - 1] \o s[i]

LEMMA JoinsExist ==
    ASSUME NEW X, NEW n \in Nat, NEW s \in [1..n -> Seq(X)]
    PROVE  \E h \in [1..n -> Seq(X)] : \A i \in 1..n : Joins(h, s, i)
<1> DEFINE Upto(k, h) == \A i \in 1..k : Joins(h, s, i)
           S == {k \in 0..n : \E h \in [1..n -> Seq(X)] : Upto(k, h)}
<1>1. 0 \in S
  <2>1. s \in [1..n -> Seq(X)] /\ Upto(0, s)
    OBVIOUS
  <2> HIDE DEF Upto
  <2> QED BY <2>1
<1>2. ASSUME NEW k \in 1..n, k - 1 \in S PROVE k \in S
  <2>1. PICK h \in [1..n -> Seq(X)] : Upto(k - 1, h)
    BY <1>2
  <2> DEFINE x == IF k = 1 THEN s[k] ELSE h[k - 1] \o s[k]
             q == [h EXCEPT ![k] = x]
  <2>2. x \in Seq(X)
    <3>1. CASE k = 1
      BY <3>1
    <3>2. CASE k # 1
      <4>1. h[k - 1] \in Seq(X) /\ s[k] \in Seq(X)
        BY <3>2
      <4> QED BY <3>2, <4>1
    <3> QED BY <3>1, <3>2
  <2>3. q \in [1..n -> Seq(X)] /\ q[k] = x /\ \A i \in 1..n : i # k => q[i] = h[i]
    <3> HIDE DEF x
    <3> QED BY <2>2
  <2>4. Upto(k, q)
    <3> SUFFICES ASSUME NEW i \in 1..k PROVE Joins(q, s, i)
      OBVIOUS
    <3>1. i # 1 => q[i - 1] = h[i - 1]
      <4> HIDE DEF q
      <4> QED BY <2>3
    <3>2. CASE i = k
      <4> HIDE DEF q
      <4> QED BY <2>3, <3>1, <3>2 DEF Joins
    <3>3. CASE i # k
      <4>1. q[i] = h[i] /\ i \in 1..k - 1
        <5> HIDE DEF q
        <5> QED BY <2>3, <3>3
      <4>2. Joins(h, s, i)
        BY <2>1, <4>1
      <4> HIDE DEF q
      <4> QED BY <3>1, <4>1, <4>2 DEF Joins
    <3> QED BY <3>2, <3>3
  <2>5. \E r \in [1..n -> Seq(X)] : Upto(k, r)
    <3> HIDE DEF q, Upto
    <3> QED BY <2>3, <2>4
  <2> HIDE DEF Upto
  <2> QED BY <2>5
<1>3. n \in S
  <2> HIDE DEF S
  <2> QED BY <1>1, <1>2, UpTo
<1> QED BY <1>3

\* Sequences of operations one after the other are a sequence of operations.
LEMMA FlattenType ==
    ASSUME NEW X, NEW n \in Nat, NEW s \in [1..n -> Seq(X)]
    PROVE  FlattenSeq(s) \in Seq(X)
<1>1. Len(s) = n /\ DOMAIN s = 1..n
  OBVIOUS
<1>2. CASE n = 0
  <2>1. s = <<>>
    BY <1>2
  <2> QED BY <1>1, <1>2, <2>1 DEF FlattenSeq
<1>3. CASE n # 0
  <2> DEFINE Is(h) == h = [i \in 1..n |-> IF i = 1 THEN s[i] ELSE h[i - 1] \o s[i]]
             any == CHOOSE h : Is(h)
  <2>1. FlattenSeq(s) = any[n]
    BY <1>1, <1>3, Zenon DEF FlattenSeq
  <2>2. \E h : Is(h)
    <3>1. PICK h \in [1..n -> Seq(X)] : \A i \in 1..n : Joins(h, s, i)
      BY JoinsExist
    <3>2. Is(h)
      BY <3>1 DEF Joins
    <3> HIDE DEF Is
    <3> QED BY <3>2
  <2>3. Is(any)
    <3> HIDE DEF Is
    <3> QED BY <2>2
  <2> HIDE DEF any
  <2>4. \A i \in 1..n : any[i] = IF i = 1 THEN s[i] ELSE any[i - 1] \o s[i]
    BY <2>3
  <2> DEFINE S == {k \in 0..n : k # 0 => any[k] \in Seq(X)}
  <2>5. ASSUME NEW k \in 1..n, k - 1 \in S PROVE k \in S
    <3>1. CASE k = 1
      BY <2>4, <3>1
    <3>2. CASE k # 1
      <4>1. any[k] = any[k - 1] \o s[k]
        <5> HIDE DEF Is
        <5> QED BY <2>4, <3>2
      <4>2. any[k - 1] \in Seq(X)
        <5>1. k - 1 # 0
          BY <3>2
        <5> QED BY <2>5, <5>1
      <4>3. s[k] \in Seq(X)
        OBVIOUS
      <4>4. any[k] \in Seq(X)
        BY <4>1, <4>2, <4>3
      <4> QED BY <4>4
    <3> QED BY <3>1, <3>2
  <2>6. 0 \in S
    OBVIOUS
  <2>7. n \in S
    <3> HIDE DEF S
    <3> QED BY <2>5, <2>6, UpTo
  <2> QED BY <1>3, <2>1, <2>7
<1> QED BY <1>2, <1>3

\* An edit puts nothing into a block but what it is told to.
LEMMA EditType ==
    ASSUME NEW X, NEW block \in Seq(X), NEW gone, NEW before,
           \A n \in DOMAIN before : before[n] \in Seq(X)
    PROVE  Edit(block, gone, before) \in Seq(X)
<1> DEFINE piece(n) == (IF n \in DOMAIN before THEN before[n] ELSE <<>>)
                       \o (IF n \in gone THEN <<>> ELSE <<block[n]>>)
<1>1. \A n \in 1..Len(block) : piece(n) \in Seq(X)
  <2> SUFFICES ASSUME NEW n \in 1..Len(block) PROVE piece(n) \in Seq(X)
    OBVIOUS
  <2>1. (IF n \in DOMAIN before THEN before[n] ELSE <<>>) \in Seq(X)
    OBVIOUS
  <2>2. (IF n \in gone THEN <<>> ELSE <<block[n]>>) \in Seq(X)
    OBVIOUS
  <2> QED BY <2>1, <2>2
<1>2. [n \in 1..Len(block) |-> piece(n)] \in [1..Len(block) -> Seq(X)]
  <2> HIDE DEF piece
  <2> QED BY <1>1
<1>3. FlattenSeq([n \in 1..Len(block) |-> piece(n)]) \in Seq(X)
  <2> HIDE DEF piece
  <2> QED BY <1>2, FlattenType
<1> QED BY <1>3 DEF Edit, Positions

LEMMA EditWith ==
    ASSUME NEW X, NEW block \in Seq(X), NEW gone, NEW i, NEW some \in Seq(X)
    PROVE  Edit(block, gone, InFrontOf(i, some)) \in Seq(X)
<1>1. \A n \in DOMAIN InFrontOf(i, some) : InFrontOf(i, some)[n] \in Seq(X)
  BY DEF InFrontOf
<1> QED BY <1>1, EditType

LEMMA EditWithout ==
    ASSUME NEW X, NEW block \in Seq(X), NEW gone
    PROVE  Edit(block, gone, <<>>) \in Seq(X)
<1>1. DOMAIN <<>> = {}
  OBVIOUS
<1> QED BY <1>1, EditType

\* Some of a block's operations, in their order.
LEMMA PickedType ==
    ASSUME NEW X, NEW block \in Seq(X), NEW S
    PROVE  FlattenSeq([n \in Positions(block) |-> IF n \in S THEN <<block[n]>> ELSE <<>>]) \in Seq(X)
<1> DEFINE piece == [n \in 1..Len(block) |-> IF n \in S THEN <<block[n]>> ELSE <<>>]
<1>1. piece \in [1..Len(block) -> Seq(X)]
  OBVIOUS
<1>2. FlattenSeq(piece) \in Seq(X)
  <2> HIDE DEF piece
  <2> QED BY <1>1, FlattenType
<1> QED BY <1>2 DEF Positions
-----------------------------------------------------------------------------
(* Shapes. *)

LEMMA GreatestOf ==
    ASSUME NEW n \in Nat, NEW t \in SUBSET (1..n), t # {}
    PROVE  Max(t) \in t /\ \A k \in t : k <= Max(t)
<1> DEFINE below == {n - k : k \in t}
<1>0. \A k \in t : k \in Nat /\ n - k \in Nat
  OBVIOUS
<1>1. below \in SUBSET Nat /\ below # {}
  BY <1>0
<1>2. PICK m \in below : \A k \in below : m <= k
  <2> HIDE DEF below
  <2> QED BY <1>1, LeastOf
<1>3. PICK x \in t : m = n - x
  BY <1>2
<1>4. \A y \in t : x >= y
  <2> SUFFICES ASSUME NEW y \in t PROVE x >= y
    OBVIOUS
  <2>1. m <= n - y
    BY <1>2
  <2>2. x \in Int /\ y \in Int
    BY <1>0
  <2> QED BY <1>3, <2>1, <2>2
<1>5. Max(t) \in t /\ \A y \in t : Max(t) >= y
  BY <1>4, Zenon DEF Max
<1> DEFINE top == Max(t)
<1>6. top \in t /\ \A y \in t : top >= y
  BY <1>5
<1> HIDE DEF top
<1>7. top \in Nat
  BY <1>0, <1>6
<1>8. \A y \in t : y <= top
  BY <1>0, <1>6, <1>7
<1> QED BY <1>6, <1>8 DEF top

LEMMA ProductPositive ==
    ASSUME NEW a \in Nat \ {0}, NEW b \in Nat \ {0}
    PROVE  a * b \in Nat \ {0}
BY Z3

\* The product over t is h[t], the greatest place last.
Multiplies(h, s, t) == h[t] = IF t = {} THEN 1 ELSE h[t \ {Max(t)}] * s[Max(t)]

LEMMA ProductsExist ==
    ASSUME NEW n \in Nat, NEW s \in [1..n -> Nat \ {0}]
    PROVE  \E h \in [SUBSET (1..n) -> Nat \ {0}] : \A t \in SUBSET (1..n) : Multiplies(h, s, t)
<1> DEFINE H == [SUBSET (1..n) -> Nat \ {0}]
           Upto(k, h) == \A t \in SUBSET (1..k) : Multiplies(h, s, t)
           S == {k \in 0..n : \E h \in H : Upto(k, h)}
<1>1. 0 \in S
  <2> DEFINE h == [t \in SUBSET (1..n) |-> 1]
  <2>1. h \in H
    OBVIOUS
  <2>2. h[{}] = 1
    OBVIOUS
  <2>3. \A t \in SUBSET (1..0) : t = {}
    OBVIOUS
  <2> HIDE DEF h, H
  <2>4. Upto(0, h)
    BY <2>2, <2>3 DEF Multiplies
  <2> HIDE DEF Upto
  <2> QED BY <2>1, <2>4
<1>2. ASSUME NEW k \in 1..n, k - 1 \in S PROVE k \in S
  <2>1. PICK h \in H : Upto(k - 1, h)
    BY <1>2
  <2> DEFINE q == [t \in SUBSET (1..n) |-> IF k \in t THEN h[t \ {k}] * s[k] ELSE h[t]]
  <2>2. \A t \in SUBSET (1..n) : (IF k \in t THEN h[t \ {k}] * s[k] ELSE h[t]) \in Nat \ {0}
    <3> SUFFICES ASSUME NEW t \in SUBSET (1..n)
                 PROVE  (IF k \in t THEN h[t \ {k}] * s[k] ELSE h[t]) \in Nat \ {0}
      OBVIOUS
    <3>1. h[t \ {k}] \in Nat \ {0} /\ h[t] \in Nat \ {0} /\ s[k] \in Nat \ {0}
      OBVIOUS
    <3> QED BY <3>1, ProductPositive
  <2>3. q \in H
    BY <2>2
  <2>4. Upto(k, q)
    <3> SUFFICES ASSUME NEW t \in SUBSET (1..k) PROVE Multiplies(q, s, t)
      OBVIOUS
    <3>1. t \in SUBSET (1..n) /\ k \in Nat
      OBVIOUS
    <3>2. CASE k \in t
      <4>1. Max(t) = k
        <5>1. t # {}
          BY <3>2
        <5>2. Max(t) \in t /\ \A y \in t : y <= Max(t)
          BY <3>1, <5>1, GreatestOf
        <5>3. \A y \in t : y <= k /\ y \in Nat
          OBVIOUS
        <5> DEFINE top == Max(t)
        <5>4. top \in t /\ k <= top
          BY <3>2, <5>2
        <5> HIDE DEF top
        <5>5. top = k
          BY <3>1, <5>3, <5>4
        <5> QED BY <5>5 DEF top
      <4>2. q[t] = h[t \ {k}] * s[k] /\ q[t \ {k}] = h[t \ {k}]
        BY <3>1, <3>2
      <4> HIDE DEF q
      <4> QED BY <3>2, <4>1, <4>2 DEF Multiplies
    <3>3. CASE k \notin t
      <4>1. t \in SUBSET (1..k - 1)
        BY <3>3
      <4>2. q[t] = h[t] /\ q[t \ {Max(t)}] = h[t \ {Max(t)}]
        BY <3>1, <3>3
      <4>3. Multiplies(h, s, t)
        BY <2>1, <4>1
      <4> HIDE DEF q
      <4> QED BY <4>2, <4>3 DEF Multiplies
    <3> QED BY <3>2, <3>3
  <2> HIDE DEF q, Upto, H
  <2> QED BY <2>3, <2>4
<1>3. n \in S
  <2> HIDE DEF S
  <2> QED BY <1>1, <1>2, UpTo
<1> QED BY <1>3

LEMMA TimesUnfolds ==
    ASSUME NEW n \in Nat, NEW s \in [1..n -> Nat \ {0}]
    PROVE  \E h \in [SUBSET (1..n) -> Nat \ {0}] :
               Times(s) = h[1..n] /\ \A t \in SUBSET (1..n) : Multiplies(h, s, t)
<1> DEFINE D == 1..n
           Is(h) == h = [t \in SUBSET D |-> IF t = {} THEN 1 ELSE h[t \ {Max(t)}] * s[Max(t)]]
           any == CHOOSE h : Is(h)
<1>1. Times(s) = any[D]
  <2>1. DOMAIN s = D
    OBVIOUS
  <2> QED BY <2>1, Zenon DEF Times, FoldLeft, MapThenFoldSet
<1>2. PICK g \in [SUBSET D -> Nat \ {0}] : \A t \in SUBSET D : Multiplies(g, s, t)
  BY ProductsExist
<1>3. Is(g)
  <2> HIDE DEF D
  <2> QED BY <1>2 DEF Multiplies
<1>4. Is(any)
  <2> HIDE DEF Is
  <2> QED BY <1>3
<1> HIDE DEF any
<1>5. DOMAIN any = SUBSET D /\ \A t \in SUBSET D : Multiplies(any, s, t)
  <2> HIDE DEF D
  <2> QED BY <1>4 DEF Multiplies
<1>6. \A k \in 0..n : \A t \in SUBSET (1..k) : any[t] = g[t]
  <2> DEFINE S == {k \in 0..n : \A t \in SUBSET (1..k) : any[t] = g[t]}
  <2>1. 0 \in S
    <3>1. \A t \in SUBSET (1..0) : t = {}
      OBVIOUS
    <3>2. any[{}] = 1 /\ g[{}] = 1
      <4> HIDE DEF D
      <4>1. {} \in SUBSET D
        OBVIOUS
      <4> QED BY <1>2, <1>5, <4>1 DEF Multiplies
    <3>3. \A t \in SUBSET (1..0) : any[t] = g[t]
      BY <3>1, <3>2
    <3> QED BY <3>3
  <2>2. ASSUME NEW k \in 1..n, k - 1 \in S PROVE k \in S
    <3> SUFFICES ASSUME NEW t \in SUBSET (1..k) PROVE any[t] = g[t]
      <4> HIDE DEF D
      <4> QED OBVIOUS
    <3>1. t \in SUBSET D
      OBVIOUS
    <3>2. CASE t = {}
      <4> HIDE DEF D
      <4> QED BY <1>2, <1>5, <3>1, <3>2 DEF Multiplies
    <3>3. CASE t # {}
      <4>1. Max(t) \in t /\ \A y \in t : y <= Max(t)
        <5>1. k \in Nat
          OBVIOUS
        <5> QED BY <3>3, <5>1, GreatestOf
      <4>2. t \ {Max(t)} \in SUBSET (1..k - 1)
        <5> DEFINE top == Max(t)
        <5>1. top \in t /\ \A y \in t : y <= top
          BY <4>1
        <5>2. \A y \in t : y \in 1..k
          OBVIOUS
        <5> HIDE DEF top, S, D
        <5>3. \A y \in t \ {top} : y \in 1..k - 1
          BY <5>1, <5>2
        <5>4. t \ {top} \in SUBSET (1..k - 1)
          BY <5>3
        <5> QED BY <5>4 DEF top
      <4>3. any[t \ {Max(t)}] = g[t \ {Max(t)}]
        BY <2>2, <4>2
      <4> HIDE DEF D
      <4> QED BY <1>2, <1>5, <3>1, <3>3, <4>3 DEF Multiplies
    <3> QED BY <3>2, <3>3
  <2>3. n \in S
    <3> HIDE DEF S, D
    <3> QED BY <2>1, <2>2, UpTo
  <2>4. \A k \in 0..n : \A t \in SUBSET (1..k) : t \in SUBSET (1..n)
    OBVIOUS
  <2> QED BY <2>3, <2>4
<1>7. any[D] = g[D]
  BY <1>6
<1> HIDE DEF D
<1> QED BY <1>1, <1>2, <1>7 DEF D
LEMMA TimesFew ==
    ASSUME NEW n \in 0..2, NEW s \in [1..n -> Nat \ {0}]
    PROVE  /\ n = 0 => Times(s) = 1
           /\ n = 1 => Times(s) = s[1]
           /\ n = 2 => Times(s) = s[1] * s[2]
<1>1. n \in Nat
  OBVIOUS
<1>2. PICK h \in [SUBSET (1..n) -> Nat \ {0}] :
          Times(s) = h[1..n] /\ \A t \in SUBSET (1..n) : Multiplies(h, s, t)
  BY <1>1, TimesUnfolds
<1>3. \A k \in 0..n : h[1..k] = IF k = 0 THEN 1 ELSE h[1..k - 1] * s[k]
  <2> SUFFICES ASSUME NEW k \in 0..n PROVE h[1..k] = IF k = 0 THEN 1 ELSE h[1..k - 1] * s[k]
    OBVIOUS
  <2>1. Multiplies(h, s, 1..k)
    <3>1. 1..k \in SUBSET (1..n)
      OBVIOUS
    <3> QED BY <1>2, <3>1
  <2>2. CASE k = 0
    <3>1. 1..k = {}
      BY <2>2
    <3> QED BY <2>1, <2>2, <3>1 DEF Multiplies
  <2>3. CASE k # 0
    <3>1. 1..k # {} /\ 1..k \in SUBSET (1..k) /\ k \in Nat
      BY <2>3
    <3> DEFINE top == Max(1..k)
    <3>2. top \in 1..k /\ \A y \in 1..k : y <= top
      BY <3>1, GreatestOf
    <3>3. h[1..k] = h[(1..k) \ {top}] * s[top]
      BY <2>1, <3>1 DEF Multiplies
    <3> HIDE DEF top
    <3>4. top = k
      <4>1. k \in 1..k
        BY <2>3
      <4> QED BY <3>1, <3>2, <4>1
    <3>5. (1..k) \ {top} = 1..k - 1
      BY <2>3, <3>4
    <3> QED BY <2>3, <3>3, <3>4, <3>5
  <2> QED BY <2>2, <2>3
<1>4. h[1..0] = 1
  BY <1>3
<1>5. CASE n = 0
  BY <1>2, <1>4, <1>5
<1>6. n >= 1 => h[1..1] = s[1]
  <2> SUFFICES ASSUME n >= 1 PROVE h[1..1] = s[1]
    OBVIOUS
  <2>1. s[1] \in Nat
    OBVIOUS
  <2>2. h[1..1] = h[1..1 - 1] * s[1]
    <3>1. 1 \in 0..n /\ 1 # 0
      OBVIOUS
    <3> QED BY <1>3, <3>1
  <2> QED BY <1>4, <2>1, <2>2
<1>7. CASE n = 1
  BY <1>2, <1>6, <1>7
<1>8. CASE n = 2
  <2>1. h[1..2] = h[1..2 - 1] * s[2]
    BY <1>3, <1>8
  <2>2. Times(s) = h[1..2]
    BY <1>2, <1>8
  <2>3. h[1..2 - 1] = s[1]
    BY <1>6, <1>8
  <2> QED BY <1>8, <2>1, <2>2, <2>3
<1> QED BY <1>5, <1>7, <1>8

LEMMA TimesType ==
    ASSUME NEW s \in Seq(Nat \ {0})
    PROVE  Times(s) \in Nat \ {0}
<1>1. s \in [1..Len(s) -> Nat \ {0}] /\ Len(s) \in Nat
  OBVIOUS
<1>2. PICK h \in [SUBSET (1..Len(s)) -> Nat \ {0}] : Times(s) = h[1..Len(s)]
  BY <1>1, TimesUnfolds
<1> QED BY <1>2

\* The rest of a shape, from its place d on.
LEMMA RestOf ==
    ASSUME NEW s \in Seq(Nat \ {0}), NEW d \in 1..Len(s)
    PROVE  /\ SubSeq(s, d + 1, Len(s)) \in Seq(Nat \ {0})
           /\ SubSeq(s, d + 1, Len(s)) \in [1..Len(s) - d -> Nat \ {0}]
           /\ \A k \in 1..Len(s) - d : SubSeq(s, d + 1, Len(s))[k] = s[d + k]
<1> DEFINE r == SubSeq(s, d + 1, Len(s))
<1>1. r \in Seq(Nat \ {0})
  OBVIOUS
<1>2. Len(r) = Len(s) - d
  OBVIOUS
<1>3. r \in [1..Len(s) - d -> Nat \ {0}]
  <2> HIDE DEF r
  <2> QED BY <1>1, <1>2
<1>4. \A k \in 1..Len(s) - d : r[k] = s[d + k]
  OBVIOUS
<1> QED BY <1>1, <1>3, <1>4

LEMMA PackedType ==
    ASSUME NEW s \in Seq(Nat \ {0})
    PROVE  /\ Packed(s) \in Seq(Nat) /\ Len(Packed(s)) = Len(s)
           /\ \A d \in 1..Len(s) : Packed(s)[d] = Times(SubSeq(s, d + 1, Len(s)))
<1>1. \A d \in 1..Len(s) : Times(SubSeq(s, d + 1, Len(s))) \in Nat
  <2> SUFFICES ASSUME NEW d \in 1..Len(s) PROVE Times(SubSeq(s, d + 1, Len(s))) \in Nat
    OBVIOUS
  <2>1. SubSeq(s, d + 1, Len(s)) \in Seq(Nat \ {0})
    BY RestOf
  <2> QED BY <2>1, TimesType
<1> DEFINE p == [d \in 1..Len(s) |-> Times(SubSeq(s, d + 1, Len(s)))]
<1>2. p \in [1..Len(s) -> Nat] /\ Len(s) \in Nat
  BY <1>1
<1>3. p \in Seq(Nat) /\ Len(p) = Len(s)
  <2> HIDE DEF p
  <2> QED BY <1>2
<1> QED BY <1>3 DEF Packed, Positions

LEMMA PackedMatrix ==
    ASSUME NEW s \in Seq(Nat \ {0}), Len(s) = 2
    PROVE  Packed(s)[2] = 1
<1> DEFINE r == SubSeq(s, 2 + 1, Len(s))
<1>1. r \in [1..0 -> Nat \ {0}]
  <2>1. 2 \in 1..Len(s) /\ Len(s) - 2 = 0
    OBVIOUS
  <2> QED BY <2>1, RestOf
<1>2. Packed(s)[2] = Times(r)
  <2>1. 2 \in 1..Len(s)
    OBVIOUS
  <2>2. \A d \in 1..Len(s) : Packed(s)[d] = Times(SubSeq(s, d + 1, Len(s)))
    BY PackedType
  <2> QED BY <2>1, <2>2
<1> HIDE DEF r
<1>3. Times(r) = 1
  <2>1. 0 \in 0..2
    OBVIOUS
  <2> QED BY <1>1, <2>1, TimesFew
<1> QED BY <1>2, <1>3

LEMMA PackedImage ==
    ASSUME NEW s \in Seq(Nat \ {0}), Len(s) = 3
    PROVE  Packed(s)[3] = 1 /\ Packed(s)[1] = s[2] * Packed(s)[2]
<1> DEFINE r(d) == SubSeq(s, d + 1, Len(s))
<1>1. \A d \in 1..3 : Packed(s)[d] = Times(r(d))
  BY PackedType
<1>2. \A d \in 1..3 : r(d) \in [1..3 - d -> Nat \ {0}] /\ \A k \in 1..3 - d : r(d)[k] = s[d + k]
  <2> SUFFICES ASSUME NEW d \in 1..3
               PROVE  r(d) \in [1..3 - d -> Nat \ {0}] /\ \A k \in 1..3 - d : r(d)[k] = s[d + k]
    OBVIOUS
  <2>1. d \in 1..Len(s)
    OBVIOUS
  <2> QED BY <2>1, RestOf
<1> HIDE DEF r
<1>3. Times(r(3)) = 1
  <2>1. r(3) \in [1..0 -> Nat \ {0}]
    BY <1>2
  <2> QED BY <2>1, TimesFew
<1>4. Times(r(2)) = s[3]
  <2>1. r(2) \in [1..1 -> Nat \ {0}] /\ r(2)[1] = s[3]
    BY <1>2
  <2> QED BY <2>1, TimesFew
<1>5. Times(r(1)) = s[2] * s[3]
  <2>1. r(1) \in [1..2 -> Nat \ {0}] /\ r(1)[1] = s[2] /\ r(1)[2] = s[3]
    BY <1>2
  <2> QED BY <2>1, TimesFew
<1> QED BY <1>1, <1>3, <1>4, <1>5
-----------------------------------------------------------------------------
(* What an edit has to show. *)

\* n brings nothing into a function of ops that ops do not have already.
Inherits(n, ops) ==
    /\ Held(n) \subseteq UNION {Held(op) : op \in ops}
    /\ Asked(n) \subseteq UNION {Asked(op) : op \in ops}
    /\ ~IsWindow(n)
    /\ n.op = "copy" => n.out.via # "window"
    /\ n.op \in {"conv8", "dw8"} /\ n.spread = 2 /\ n.pad = 0 => n.ins[1] \in Spread(ops)

LEMMA RangeType ==
    ASSUME NEW X, NEW s \in Seq(X)
    PROVE  /\ s \in Seq(Range(s)) /\ Range(s) \subseteq X
           /\ \A n \in Positions(s) : s[n] \in Range(s) /\ s[n] \in X
<1>1. s \in [1..Len(s) -> X] /\ Len(s) \in Nat
  OBVIOUS
<1>2. \A n \in 1..Len(s) : s[n] \in Range(s)
  BY DEF Range
<1>3. s \in [1..Len(s) -> Range(s)]
  BY <1>1, <1>2
<1>4. s \in Seq(Range(s))
  BY <1>1, <1>3
<1> QED BY <1>1, <1>2, <1>4 DEF Range, Positions

LEMMA SpreadGrows ==
    ASSUME NEW ops, NEW N, \A n \in N : Inherits(n, ops)
    PROVE  Spread(ops \cup N) \subseteq Spread(ops)
<1> SUFFICES ASSUME NEW v \in Spread(ops \cup N) PROVE v \in Spread(ops)
  OBVIOUS
<1>1. \A n \in N : ~Spreads(n) /\ ~IsWindow(n)
  BY DEF Inherits, Spreads
<1>2. CASE \E o \in ops \cup N : o.op \in {"conv8", "dw8"} /\ o.spread = 2 /\ o.pad = 0 /\ v = o.ins[1]
  <2>1. PICK o \in ops \cup N : o.op \in {"conv8", "dw8"} /\ o.spread = 2 /\ o.pad = 0 /\ v = o.ins[1]
    BY <1>2
  <2>2. CASE o \in ops
    BY <2>1, <2>2 DEF Spread
  <2>3. CASE o \in N
    BY <2>1, <2>3 DEF Inherits
  <2> QED BY <2>2, <2>3
<1>3. CASE \E o \in ops \cup N : /\ o.op = "copy" /\ v = o.ins[1]
                                 /\ \E w \in ops \cup N : Spreads(w) /\ w.out = o.out
  <2>1. PICK o \in ops \cup N : /\ o.op = "copy" /\ v = o.ins[1]
                                /\ \E w \in ops \cup N : Spreads(w) /\ w.out = o.out
    BY <1>3
  <2>2. PICK w \in ops \cup N : Spreads(w) /\ w.out = o.out
    BY <2>1
  <2>3. w \in ops
    BY <1>1, <2>2
  <2>4. o \in ops
    BY <2>1, <2>2 DEF Spreads, IsWindow, Inherits
  <2> QED BY <2>1, <2>2, <2>3, <2>4 DEF Spread
<1> QED BY <1>2, <1>3 DEF Spread

LEMMA Grows ==
    ASSUME NEW ops, WellFormedOps(ops), NEW N, \A n \in N : Fits(n) /\ Inherits(n, ops)
    PROVE  WellFormedOps(ops \cup N)
<1>1. \A op \in ops \cup N : Fits(op)
  BY DEF WellFormedOps
<1>2. UNION {Held(op) : op \in ops \cup N} \subseteq UNION {Held(op) : op \in ops}
  BY DEF Inherits
<1>3. UNION {Asked(op) : op \in ops \cup N} \subseteq UNION {Asked(op) : op \in ops}
  BY DEF Inherits
<1>4. UNION {Padded(op) : op \in ops \cup N} \subseteq UNION {Padded(op) : op \in ops}
  BY DEF Inherits, Padded
<1>5. Spread(ops \cup N) \subseteq Spread(ops)
  BY SpreadGrows
<1>6. \A held \in UNION {Held(op) : op \in ops \cup N}, asked \in UNION {Asked(op) : op \in ops \cup N} :
          ReadAsWritten(held, asked)
  BY <1>2, <1>3 DEF WellFormedOps
<1>7. Spread(ops \cup N) \cap UNION {Padded(op) : op \in ops \cup N} = {}
  BY <1>4, <1>5 DEF WellFormedOps
<1> QED BY <1>1, <1>6, <1>7 DEF WellFormedOps

LEMMA SpreadFewer ==
    ASSUME NEW ops, NEW some \in SUBSET ops
    PROVE  Spread(some) \subseteq Spread(ops)
BY DEF Spread

LEMMA Fewer ==
    ASSUME NEW ops, WellFormedOps(ops), NEW some \in SUBSET ops
    PROVE  WellFormedOps(some)
<1>1. Spread(some) \subseteq Spread(ops)
  BY SpreadFewer
<1>2. UNION {Padded(op) : op \in some} \subseteq UNION {Padded(op) : op \in ops}
  OBVIOUS
<1>3. Spread(some) \cap UNION {Padded(op) : op \in some} = {}
  BY <1>1, <1>2 DEF WellFormedOps
<1>4. \A held \in UNION {Held(op) : op \in some}, asked \in UNION {Asked(op) : op \in some} :
          ReadAsWritten(held, asked)
  BY DEF WellFormedOps
<1>5. \A op \in some : Fits(op)
  BY DEF WellFormedOps
<1> QED BY <1>3, <1>4, <1>5 DEF WellFormedOps

\* A function made of the operations of f and of N.
LEMMA MadeOf ==
    ASSUME NEW f, WellFormed(f),
           NEW N, \A n \in N : Fits(n) /\ Inherits(n, Range(f.block)),
           NEW g, Has(g, {"block", "failed"}), g.block \in Seq(Range(f.block) \cup N)
    PROVE  WellFormed(g)
<1>1. WellFormedOps(Range(f.block) \cup N)
  BY Grows DEF WellFormed
<1>2. g.block \in Seq(Range(g.block)) /\ Range(g.block) \in SUBSET (Range(f.block) \cup N)
  BY RangeType
<1>3. WellFormedOps(Range(g.block))
  BY <1>1, <1>2, Fewer
<1> QED BY <1>2, <1>3 DEF WellFormed

\* Its operations, one by one.
LEMMA OpOf ==
    ASSUME NEW f, WellFormed(f), NEW i \in Positions(f.block)
    PROVE  f.block[i] \in Range(f.block) /\ Fits(f.block[i])
<1>1. f.block[i] \in Range(f.block)
  BY RangeType DEF WellFormed
<1> QED BY <1>1 DEF WellFormed, WellFormedOps
-----------------------------------------------------------------------------
(* Views. *)

LEMMA PairIs ==
    ASSUME NEW X, NEW s \in Seq(X), Len(s) = 2
    PROVE  s = <<s[1], s[2]>>
OBVIOUS

\* Something in front of a sequence of one, and after it.
LEMMA Beside ==
    ASSUME NEW X, NEW x \in Seq(X), Len(x) = 1, NEW a \in X
    PROVE  /\ <<a>> \o x = <<a, x[1]>> /\ <<a, x[1]>> \in Seq(X)
           /\ x \o <<a>> = <<x[1], a>> /\ <<x[1], a>> \in Seq(X)
<1>1. 1 \in 1..Len(x) /\ x \in [1..Len(x) -> X] /\ x[1] \in X
  <2>1. x \in [1..Len(x) -> X] /\ 1 \in 1..Len(x)
    OBVIOUS
  <2> QED BY <2>1
<1>2. <<a, x[1]>> \in Seq(X) /\ <<x[1], a>> \in Seq(X)
  BY <1>1
<1>3. (<<a>> \o x) \in Seq(X) /\ Len(<<a>> \o x) = 2 /\ (<<a>> \o x)[1] = a /\ (<<a>> \o x)[2] = x[1]
  OBVIOUS
<1>4. (x \o <<a>>) \in Seq(X) /\ Len(x \o <<a>>) = 2 /\ (x \o <<a>>)[1] = x[1] /\ (x \o <<a>>)[2] = a
  <2>1. <<a>> \in Seq(X) /\ Len(<<a>>) = 1 /\ <<a>>[1] = a
    OBVIOUS
  <2> QED BY <1>1, <2>1, ConcatProperties
<1>5. <<a>> \o x = <<a, x[1]>>
  BY <1>3, PairIs
<1>6. x \o <<a>> = <<x[1], a>>
  BY <1>4, PairIs
<1> QED BY <1>2, <1>5, <1>6

LEMMA RowIs ==
    ASSUME NEW v, IsView(v), Len(v.size) = 1
    PROVE  /\ IsView(Row(v)) /\ Row(v).via = "reshape" /\ Row(v).buf = v.buf
           /\ Row(v).size = <<1, v.size[1]>> /\ Row(v).step = <<v.size[1], v.step[1]>>
           /\ Row(v).size = <<1>> \o v.size
<1> DEFINE r == Row(v)
<1>1. /\ r.size = <<1>> \o v.size /\ r.step = <<v.size[1]>> \o v.step /\ r.via = "reshape"
      /\ r.buf = v.buf /\ r.off = v.off /\ Has(r, {"buf", "off", "size", "step", "via"})
  BY DEF IsView, Has, Row
<1>2. v.size \in Seq(Nat \ {0}) /\ v.step \in Seq(Nat) /\ Len(v.step) = 1 /\ v.size[1] \in Nat
  BY DEF IsView
<1> HIDE DEF r
<1>3. r.size = <<1, v.size[1]>> /\ r.size \in Seq(Nat \ {0})
  <2> DEFINE P == Nat \ {0}
  <2>1. Len(v.size) = 1 /\ 1 \in P /\ v.size \in Seq(P)
    BY <1>2
  <2> HIDE DEF P
  <2>2. r.size = <<1, v.size[1]>> /\ r.size \in Seq(P)
    BY <1>1, <2>1, Beside
  <2> QED BY <2>2 DEF P
<1>4. r.step = <<v.size[1], v.step[1]>> /\ r.step \in Seq(Nat)
  <2>1. 1 \in Nat
    OBVIOUS
  <2> QED BY <1>1, <1>2, <2>1, Beside
<1>5. Len(r.size) = Len(r.step)
  BY <1>3, <1>4
<1> QED BY <1>1, <1>3, <1>4, <1>5 DEF r, IsView

LEMMA ColumnIs ==
    ASSUME NEW v, IsView(v), Len(v.size) = 1
    PROVE  /\ IsView(Column(v)) /\ Column(v).via = "reshape" /\ Column(v).buf = v.buf
           /\ Column(v).size = <<v.size[1], 1>> /\ Column(v).step = <<v.step[1], 1>>
           /\ Column(v).size = v.size \o <<1>>
<1> DEFINE r == Column(v)
<1>1. /\ r.size = v.size \o <<1>> /\ r.step = v.step \o <<1>> /\ r.via = "reshape"
      /\ r.buf = v.buf /\ r.off = v.off /\ Has(r, {"buf", "off", "size", "step", "via"})
  BY DEF IsView, Has, Column
<1>2. v.size \in Seq(Nat \ {0}) /\ v.step \in Seq(Nat) /\ Len(v.step) = 1 /\ v.size[1] \in Nat
  BY DEF IsView
<1> HIDE DEF r
<1>3. r.size = <<v.size[1], 1>> /\ r.size \in Seq(Nat \ {0})
  <2> DEFINE P == Nat \ {0}
  <2>1. Len(v.size) = 1 /\ 1 \in P /\ v.size \in Seq(P)
    BY <1>2
  <2> HIDE DEF P
  <2>2. r.size = <<v.size[1], 1>> /\ r.size \in Seq(P)
    BY <1>1, <2>1, Beside
  <2> QED BY <2>2 DEF P
<1>4. r.step = <<v.step[1], 1>> /\ r.step \in Seq(Nat)
  <2>1. 1 \in Nat
    OBVIOUS
  <2> QED BY <1>1, <1>2, <2>1, Beside
<1>5. Len(r.size) = Len(r.step)
  BY <1>3, <1>4
<1> QED BY <1>1, <1>3, <1>4, <1>5 DEF r, IsView

LEMMA ReshapedIs ==
    ASSUME NEW v, IsView(v), NEW shape \in Seq(Nat \ {0})
    PROVE  /\ IsView(Reshaped(v, shape)) /\ Reshaped(v, shape).via = "reshape"
           /\ Reshaped(v, shape).size = shape /\ Reshaped(v, shape).step = Packed(shape)
<1> DEFINE r == Reshaped(v, shape)
<1>1. /\ r.size = shape /\ r.step = Packed(shape) /\ r.via = "reshape"
      /\ Has(r, {"buf", "off", "size", "step", "via"})
  BY DEF IsView, Has, Reshaped
<1>2. Packed(shape) \in Seq(Nat) /\ Len(Packed(shape)) = Len(shape)
  BY PackedType
<1> HIDE DEF r
<1> QED BY <1>1, <1>2 DEF r, IsView

LEMMA BufferIs ==
    ASSUME NEW b, NEW shape \in Seq(Nat \ {0})
    PROVE  /\ IsView(Buffer(b, shape)) /\ Buffer(b, shape).via = "buffer" /\ Buffer(b, shape).buf = b
           /\ Buffer(b, shape).size = shape /\ Buffer(b, shape).step = Packed(shape)
<1> DEFINE r == Buffer(b, shape)
<1>1. /\ r.size = shape /\ r.step = Packed(shape) /\ r.via = "buffer" /\ r.buf = b
      /\ Has(r, {"buf", "off", "size", "step", "via"})
  BY DEF Has, Buffer
<1>2. Packed(shape) \in Seq(Nat) /\ Len(Packed(shape)) = Len(shape)
  BY PackedType
<1> HIDE DEF r
<1> QED BY <1>1, <1>2 DEF r, IsView

\* The views an operation reads and the one it writes.
LEMMA ViewsOf ==
    ASSUME NEW op, IsOp(op)
    PROVE  /\ op.ins \in Seq(Range(op.ins)) /\ Len(op.ins) \in Nat /\ IsView(op.out)
           /\ \A n \in 1..Len(op.ins) : IsView(op.ins[n]) /\ op.ins[n] \in Range(op.ins)
<1>1. op.ins \in Seq(Range(op.ins))
  BY DEF IsOp
<1>2. \A n \in 1..Len(op.ins) : op.ins[n] \in Range(op.ins)
  BY <1>1, RangeType DEF Positions
<1> QED BY <1>1, <1>2 DEF IsOp

LEMMA IsOpOf ==
    ASSUME NEW op, Has(op, {"op", "ins", "out"}), NEW X, op.ins \in Seq(X), \A v \in X : IsView(v), IsView(op.out)
    PROVE  IsOp(op)
<1>1. op.ins \in Seq(Range(op.ins)) /\ Range(op.ins) \subseteq X
  BY RangeType
<1> QED BY <1>1 DEF IsOp

\* A view of the same bytes in another shape.
LEMMA NewViewFits ==
    ASSUME NEW src, IsView(src), NEW v, IsView(v), v.via # "window", NEW ops
    PROVE  Fits(NewView(src, v)) /\ Inherits(NewView(src, v), ops)
<1> DEFINE n == NewView(src, v)
<1>1. n.op = "view" /\ n.ins = <<src>> /\ n.out = v /\ Has(n, {"op", "ins", "out"})
  BY DEF NewView, Has
<1> HIDE DEF n
<1>2. n.ins \in Seq({src})
  BY <1>1
<1>3. IsOp(n)
  <2>1. \A x \in {src} : IsView(x)
    OBVIOUS
  <2>2. IsView(n.out) /\ Has(n, {"op", "ins", "out"})
    BY <1>1
  <2> QED BY <1>2, <2>1, <2>2, IsOpOf
<1>4. ~IsWindow(n)
  BY <1>1 DEF IsWindow
<1>5. Fits(n)
  BY <1>1, <1>3, <1>4 DEF Fits
<1>6. Held(n) = {} /\ Asked(n) = {}
  BY <1>1 DEF Held, Asked
<1>7. Inherits(n, ops)
  BY <1>1, <1>4, <1>6 DEF Inherits
<1> QED BY <1>5, <1>7 DEF n
-----------------------------------------------------------------------------
(* Contractions become calls. *)

LEMMA CallFits ==
    ASSUME NEW n, n.op \in {"mm", "mm8"}, IsOp(n), MatmulFits(n)
    PROVE  Fits(n)
BY DEF Fits, IsWindow

\* A call that leaves what an operation of the function left where it was.
LEMMA CallInherits ==
    ASSUME NEW n, NEW ops, n.op \in {"mm", "mm8", "loop", "add"}, NEW op \in ops,
           n.op = "mm" => Held(n) \subseteq Held(op)
    PROVE  Inherits(n, ops)
<1>1. Asked(n) = {} /\ ~IsWindow(n)
  BY DEF Asked, IsWindow
<1>2. Held(n) \subseteq Held(op)
  BY DEF Held
<1> QED BY <1>1, <1>2 DEF Inherits

LEMMA CallIs ==
    ASSUME NEW op, NEW ins, NEW out, NEW zero
    PROVE  LET c == Call(op, ins, out, zero)
           IN /\ c.op = "mm" /\ c.ins = ins /\ c.out = out /\ c.trL = op.trL /\ c.trR = op.trR
              /\ Has(c, {"op", "ins", "out", "accumulate", "trL", "trR"})
BY DEF Call, Has

LEMMA SameProduct ==
    ASSUME NEW op, Len(op.ins) = 2, VerifiesMatmul(op),
           NEW n, n.ins = op.ins, n.out = op.out, n.trL = op.trL, n.trR = op.trR
    PROVE  VerifiesMatmul(n)
BY DEF VerifiesMatmul

LEMMA OfMatmul ==
    ASSUME NEW op, Fits(op), op.op = "matmul", op.maps = "plain", NEW zero, NEW ops, op \in ops
    PROVE  LET c == Call(op, op.ins, op.out, zero) IN Fits(c) /\ Inherits(c, ops)
<1> DEFINE c == Call(op, op.ins, op.out, zero)
<1>1. /\ c.op = "mm" /\ c.ins = op.ins /\ c.out = op.out /\ c.trL = op.trL /\ c.trR = op.trR
      /\ Has(c, {"op", "ins", "out", "accumulate", "trL", "trR"})
  BY CallIs
<1>2. IsOp(op) /\ Len(op.ins) = 2 /\ VerifiesMatmul(op)
  BY DEF Fits, ContractionFits
<1> HIDE DEF c
<1>3. VerifiesMatmul(c)
  BY <1>1, <1>2, SameProduct
<1>4. IsOp(c)
  BY <1>1, <1>2 DEF IsOp, Has
<1>5. MatmulFits(c)
  BY <1>1, <1>2, <1>3 DEF MatmulFits, Has
<1>6. Fits(c)
  BY <1>1, <1>4, <1>5, CallFits
<1>7. Held(c) \subseteq Held(op)
  BY <1>1 DEF Held, WrittenAs
<1>8. Inherits(c, ops)
  BY <1>1, <1>7, CallInherits
<1> QED BY <1>6, <1>8 DEF c

LEMMA OfMatvec ==
    ASSUME NEW op, Fits(op), op.op = "matvec", op.maps = "plain", NEW zero, NEW ops, op \in ops
    PROVE  LET v == NewView(op.ins[2], Column(op.ins[2]))
               w == NewView(op.out, Column(op.out))
               c == Call(op, <<op.ins[1], Column(op.ins[2])>>, Column(op.out), zero)
           IN \A n \in {v, w, c} : Fits(n) /\ Inherits(n, ops)
<1> DEFINE a == op.ins[1]
           b == Column(op.ins[2])
           out == Column(op.out)
           c == Call(op, <<a, b>>, out, zero)
<1>1. /\ IsOp(op) /\ Len(op.ins) = 2 /\ ~op.trL /\ ~op.trR /\ IsMatrix(a)
      /\ op.ins[2].size = <<a.size[2]>> /\ op.out.size = <<a.size[1]>>
  BY DEF Fits, ContractionFits
<1>2. IsView(a) /\ IsView(op.ins[2]) /\ IsView(op.out)
  BY <1>1, ViewsOf
<1>3. Len(op.ins[2].size) = 1 /\ op.ins[2].size[1] = a.size[2]
      /\ Len(op.out.size) = 1 /\ op.out.size[1] = a.size[1]
  BY <1>1
<1>4. IsView(b) /\ b.via = "reshape" /\ b.size = <<a.size[2], 1>> /\ b.step[2] = 1
  BY <1>2, <1>3, ColumnIs
<1>5. /\ IsView(out) /\ out.via = "reshape" /\ out.size = <<a.size[1], 1>> /\ out.step[2] = 1
      /\ out.buf = op.out.buf /\ out.size = op.out.size \o <<1>>
  BY <1>2, <1>3, ColumnIs
<1>6. /\ c.op = "mm" /\ c.ins = <<a, b>> /\ c.out = out /\ c.trL = op.trL /\ c.trR = op.trR
      /\ Has(c, {"op", "ins", "out", "accumulate", "trL", "trR"})
  BY CallIs
<1>7. \A n \in {NewView(op.ins[2], b), NewView(op.out, out)} : Fits(n) /\ Inherits(n, ops)
  <2> HIDE DEF b, out
  <2> QED BY <1>2, <1>4, <1>5, NewViewFits
<1> HIDE DEF b, out, c
<1>8. VerifiesMatmul(c)
  BY <1>1, <1>4, <1>5, <1>6 DEF VerifiesMatmul, IsMatrix, HasRowStride
<1>9. IsOp(c)
  <2>1. c.ins \in Seq({a, b})
    BY <1>6
  <2>2. \A v \in {a, b} : IsView(v)
    BY <1>2, <1>4
  <2>3. Has(c, {"op", "ins", "out"}) /\ IsView(c.out)
    BY <1>5, <1>6 DEF Has
  <2> QED BY <2>1, <2>2, <2>3, IsOpOf
<1>10. MatmulFits(c)
  BY <1>6, <1>8 DEF MatmulFits, Has
<1>11. Fits(c)
  BY <1>6, <1>9, <1>10, CallFits
<1>12. Held(c) \subseteq Held(op)
  BY <1>5, <1>6 DEF Held, WrittenAs
<1>13. Inherits(c, ops)
  BY <1>6, <1>12, CallInherits
<1> QED BY <1>7, <1>11, <1>13 DEF b, out, c

LEMMA OfVecmat ==
    ASSUME NEW op, Fits(op), op.op = "vecmat", op.maps = "plain", NEW zero, NEW ops, op \in ops
    PROVE  LET v == NewView(op.ins[1], Row(op.ins[1]))
               w == NewView(op.out, Row(op.out))
               c == Call(op, <<Row(op.ins[1]), op.ins[2]>>, Row(op.out), zero)
           IN \A n \in {v, w, c} : Fits(n) /\ Inherits(n, ops)
<1> DEFINE a == Row(op.ins[1])
           b == op.ins[2]
           out == Row(op.out)
           c == Call(op, <<a, b>>, out, zero)
<1>1. /\ IsOp(op) /\ Len(op.ins) = 2 /\ ~op.trL /\ ~op.trR /\ IsMatrix(b)
      /\ op.ins[1].size = <<b.size[1]>> /\ op.out.size = <<b.size[2]>>
      /\ op.ins[1].step = <<1>> /\ op.out.step = <<1>>
  BY DEF Fits, ContractionFits
<1>2. IsView(b) /\ IsView(op.ins[1]) /\ IsView(op.out)
  BY <1>1, ViewsOf
<1>3. /\ Len(op.ins[1].size) = 1 /\ op.ins[1].size[1] = b.size[1] /\ op.ins[1].step[1] = 1
      /\ Len(op.out.size) = 1 /\ op.out.size[1] = b.size[2] /\ op.out.step[1] = 1
  BY <1>1
<1>4. IsView(a) /\ a.via = "reshape" /\ a.size = <<1, b.size[1]>> /\ a.step[2] = 1
  BY <1>2, <1>3, RowIs
<1>5. /\ IsView(out) /\ out.via = "reshape" /\ out.size = <<1, b.size[2]>> /\ out.step[2] = 1
      /\ out.buf = op.out.buf /\ out.size = <<1>> \o op.out.size
  BY <1>2, <1>3, RowIs
<1>6. /\ c.op = "mm" /\ c.ins = <<a, b>> /\ c.out = out /\ c.trL = op.trL /\ c.trR = op.trR
      /\ Has(c, {"op", "ins", "out", "accumulate", "trL", "trR"})
  BY CallIs
<1>7. \A n \in {NewView(op.ins[1], a), NewView(op.out, out)} : Fits(n) /\ Inherits(n, ops)
  <2> HIDE DEF a, out
  <2> QED BY <1>2, <1>4, <1>5, NewViewFits
<1> HIDE DEF a, out, c
<1>8. VerifiesMatmul(c)
  BY <1>1, <1>4, <1>5, <1>6 DEF VerifiesMatmul, IsMatrix, HasRowStride
<1>9. IsOp(c)
  <2>1. c.ins \in Seq({a, b})
    BY <1>6
  <2>2. \A v \in {a, b} : IsView(v)
    BY <1>2, <1>4
  <2>3. Has(c, {"op", "ins", "out"}) /\ IsView(c.out)
    BY <1>5, <1>6 DEF Has
  <2> QED BY <2>1, <2>2, <2>3, IsOpOf
<1>10. MatmulFits(c)
  BY <1>6, <1>8 DEF MatmulFits, Has
<1>11. Fits(c)
  BY <1>6, <1>9, <1>10, CallFits
<1>12. Held(c) \subseteq Held(op)
  BY <1>5, <1>6 DEF Held, WrittenAs
<1>13. Inherits(c, ops)
  BY <1>6, <1>12, CallInherits
<1> QED BY <1>7, <1>11, <1>13 DEF a, out, c
\* One slice of a batch.
Sliced(ins, i) == [n \in DOMAIN ins |-> IF Len(ins[n].size) = 3 THEN SliceOf(ins[n], i) ELSE ins[n]]

LEMMA LenOf ==
    ASSUME NEW k \in Nat, NEW s, DOMAIN s = 1..k, s = [n \in DOMAIN s |-> s[n]]
    PROVE  Len(s) = k
<1> DEFINE X == {s[n] : n \in 1..k}
<1>1. \A n \in 1..k : s[n] \in X
  OBVIOUS
<1> HIDE DEF X
<1>2. s \in [1..k -> X]
  BY <1>1
<1> QED BY <1>2

LEMMA OnSliceIs ==
    ASSUME NEW op, Has(op, {"op", "ins", "out", "trL", "trR"}), NEW i
    PROVE  /\ OnSlice(op, i).ins = Sliced(op.ins, i) /\ OnSlice(op, i).out = SliceOf(op.out, i)
           /\ OnSlice(op, i).op = op.op /\ OnSlice(op, i).trL = op.trL /\ OnSlice(op, i).trR = op.trR
           /\ "accumulate" \in DOMAIN op => OnSlice(op, i).accumulate = op.accumulate
BY DEF OnSlice, Sliced, Has

LEMMA SlicedIs ==
    ASSUME NEW X, NEW ins \in Seq(X), NEW i
    PROVE  /\ Len(Sliced(ins, i)) = Len(ins)
           /\ \A n \in 1..Len(ins) :
                 Sliced(ins, i)[n] = IF Len(ins[n].size) = 3 THEN SliceOf(ins[n], i) ELSE ins[n]
<1> DEFINE s == Sliced(ins, i)
<1>1. DOMAIN ins = 1..Len(ins) /\ Len(ins) \in Nat
  OBVIOUS
<1>2. DOMAIN s = 1..Len(ins) /\ s = [n \in DOMAIN s |-> s[n]]
  BY <1>1 DEF Sliced
<1>3. \A n \in 1..Len(ins) : s[n] = IF Len(ins[n].size) = 3 THEN SliceOf(ins[n], i) ELSE ins[n]
  BY <1>1 DEF Sliced
<1> HIDE DEF s
<1>4. Len(s) = Len(ins)
  BY <1>1, <1>2, LenOf
<1> QED BY <1>3, <1>4 DEF s

LEMMA LoopIs ==
    ASSUME NEW n, n.op = "loop", Has(n, {"op", "call"}), NEW ops, NEW op \in ops, LoopFits(n)
    PROVE  Fits(n) /\ Inherits(n, ops)
<1>1. Fits(n)
  BY DEF Fits
<1>2. Inherits(n, ops)
  BY CallInherits
<1> QED BY <1>1, <1>2

LEMMA OfBatch ==
    ASSUME NEW op, Fits(op), op.op = "batch", op.maps = "plain", NEW zero, NEW ops, op \in ops
    PROVE  LET n == [op |-> "loop", call |-> Call(op, op.ins, op.out, zero)]
           IN Fits(n) /\ Inherits(n, ops)
<1> DEFINE c == Call(op, op.ins, op.out, zero)
           n == [op |-> "loop", call |-> c]
           m == [op EXCEPT !.op = "matmul"]
<1>1. /\ c.op = "mm" /\ c.ins = op.ins /\ c.out = op.out /\ c.trL = op.trL /\ c.trR = op.trR
      /\ Has(c, {"op", "ins", "out", "accumulate", "trL", "trR"})
  BY CallIs
<1>2. /\ IsOp(op) /\ Len(op.ins) = 2 /\ Has(op, {"trL", "trR"})
      /\ IsImage(op.ins[1]) /\ IsImage(op.ins[2]) /\ IsImage(op.out)
      /\ VerifiesMatmul(OnSlice(m, 0))
  <2>1. IsOp(op) /\ ContractionFits(op)
    BY DEF Fits
  <2>2. Len(op.ins) = 2 /\ Has(op, {"trL", "trR"})
    BY <2>1 DEF ContractionFits, Has
  <2>3. /\ IsImage(op.ins[1]) /\ IsImage(op.ins[2]) /\ IsImage(op.out)
        /\ VerifiesMatmul(OnSlice(m, 0))
    BY <2>1, Zenon DEF ContractionFits
  <2> QED BY <2>1, <2>2, <2>3
<1>3. /\ m.ins = op.ins /\ m.out = op.out /\ m.trL = op.trL /\ m.trR = op.trR
      /\ Has(m, {"op", "ins", "out", "trL", "trR"})
  BY <1>2 DEF IsOp, Has
<1>4. n.op = "loop" /\ n.call = c /\ Has(n, {"op", "call"})
  BY DEF Has
<1> HIDE DEF c, n, m
<1>5. /\ OnSlice(m, 0).ins = Sliced(op.ins, 0) /\ OnSlice(m, 0).out = SliceOf(op.out, 0)
      /\ OnSlice(m, 0).trL = op.trL /\ OnSlice(m, 0).trR = op.trR
  BY <1>3, OnSliceIs
<1>6. /\ OnSlice(c, 0).ins = Sliced(op.ins, 0) /\ OnSlice(c, 0).out = SliceOf(op.out, 0)
      /\ OnSlice(c, 0).trL = op.trL /\ OnSlice(c, 0).trR = op.trR
  <2>1. Has(c, {"op", "ins", "out", "trL", "trR"})
    BY <1>1 DEF Has
  <2> QED BY <1>1, <2>1, OnSliceIs
<1>7. Len(Sliced(op.ins, 0)) = 2
  BY <1>2, SlicedIs DEF IsOp
<1>8. VerifiesMatmul(OnSlice(c, 0))
  BY <1>2, <1>5, <1>6, <1>7, SameProduct
<1>9. IsOp(c)
  BY <1>1, <1>2 DEF IsOp, Has
<1>10. LoopFits(n)
  BY <1>1, <1>2, <1>4, <1>8, <1>9 DEF LoopFits, Has, IsImage
<1>11. Fits(n) /\ Inherits(n, ops)
  BY <1>4, <1>10, LoopIs
<1> QED BY <1>11 DEF n, c

-----------------------------------------------------------------------------
(* Sums. *)

LEMMA AsMatrixType ==
    ASSUME NEW shape \in Seq(Nat \ {0}), Len(shape) >= 2
    PROVE  AsMatrix(shape) \in Seq(Nat \ {0}) /\ Len(AsMatrix(shape)) = 2
<1> DEFINE even == {k \in 2..Len(shape) : Times(SubSeq(shape, k, Len(shape))) % 16 = 0}
           split == IF even = {} THEN Len(shape) ELSE Max(even)
           left == SubSeq(shape, 1, split - 1)
           right == SubSeq(shape, split, Len(shape))
<1>1. split \in 2..Len(shape)
  <2>1. CASE even = {}
    BY <2>1
  <2>2. CASE even # {}
    <3>1. even \in SUBSET (1..Len(shape)) /\ Len(shape) \in Nat
      OBVIOUS
    <3>2. \A k \in even : k \in 2..Len(shape)
      OBVIOUS
    <3> HIDE DEF even
    <3>3. Max(even) \in even
      BY <2>2, <3>1, GreatestOf
    <3> QED BY <2>2, <3>2, <3>3
  <2> QED BY <2>1, <2>2
<1> HIDE DEF split
<1>2. left \in Seq(Nat \ {0}) /\ right \in Seq(Nat \ {0})
  BY <1>1
<1> HIDE DEF left, right
<1>3. Times(left) \in Nat \ {0} /\ Times(right) \in Nat \ {0}
  BY <1>2, TimesType
<1>4. AsMatrix(shape) = <<Times(left), Times(right)>>
  BY DEF AsMatrix, split, left, right
<1>5. <<Times(left), Times(right)>> \in Seq(Nat \ {0}) /\ Len(<<Times(left), Times(right)>>) = 2
  BY <1>3
<1> QED BY <1>4, <1>5
\* The add, and the views it needs of values that are not matrices.
LEMMA AddCallIs ==
    ASSUME NEW op, IsOp(op), Len(op.ins) = 2, Len(op.out.size) >= 2,
           \A v \in Range(op.ins) \cup {op.out} : v.size = op.out.size,
           NEW scale, NEW act, NEW ops, op \in ops
    PROVE  \E N : /\ \A n \in N : Fits(n) /\ Inherits(n, ops)
                  /\ AddCall(op, scale, act) \in Seq(N)
<1> DEFINE flat(v) == IF Len(v.size) = 2 THEN v ELSE Reshaped(v, AsMatrix(v.size))
           V == Range(op.ins) \cup {op.out}
           all == op.ins \o <<op.out>>
           views == IF Len(op.out.size) = 2 THEN <<>> ELSE [n \in 1..3 |-> NewView(all[n], flat(all[n]))]
           add == [op |-> "add", ins |-> <<flat(op.ins[1]), flat(op.ins[2])>>, out |-> flat(op.out),
                   scale |-> scale, act |-> act]
           side == IF Len(op.out.size) = 2 THEN op.out.size ELSE AsMatrix(op.out.size)
           reads == IF Len(op.out.size) = 2 THEN {} ELSE {NewView(v, flat(v)) : v \in V}
           N == reads \cup {add}
<1>1. op.ins[1] \in V /\ op.ins[2] \in V /\ op.out \in V
  BY ViewsOf
<1>2. \A v \in V : IsView(v) /\ v.size = op.out.size
  BY DEF IsOp
<1>3. ASSUME NEW v \in V
      PROVE  /\ IsView(flat(v)) /\ flat(v).size = side
             /\ Len(op.out.size) # 2 => flat(v).via # "window"
  <2>1. IsView(v) /\ v.size = op.out.size
    BY <1>2
  <2>2. CASE Len(op.out.size) = 2
    BY <2>1, <2>2
  <2>3. CASE Len(op.out.size) # 2
    <3>1. AsMatrix(v.size) \in Seq(Nat \ {0})
      <4>1. v.size \in Seq(Nat \ {0}) /\ Len(v.size) >= 2
        BY <2>1 DEF IsView
      <4> QED BY <4>1, AsMatrixType
    <3>2. flat(v) = Reshaped(v, AsMatrix(v.size)) /\ side = AsMatrix(v.size)
      BY <2>1, <2>3
    <3> HIDE DEF flat, side
    <3>3. /\ IsView(Reshaped(v, AsMatrix(v.size))) /\ Reshaped(v, AsMatrix(v.size)).via = "reshape"
          /\ Reshaped(v, AsMatrix(v.size)).size = AsMatrix(v.size)
      BY <2>1, <3>1, ReshapedIs
    <3> QED BY <3>2, <3>3
  <2> QED BY <2>2, <2>3
<1>4. /\ add.op = "add" /\ add.ins = <<flat(op.ins[1]), flat(op.ins[2])>> /\ add.out = flat(op.out)
      /\ Has(add, {"op", "ins", "out", "act"})
  BY DEF Has
<1>5. \A n \in reads : Fits(n) /\ Inherits(n, ops)
  <2>1. CASE Len(op.out.size) = 2
    BY <2>1
  <2>2. CASE Len(op.out.size) # 2
    <3> SUFFICES ASSUME NEW v \in V PROVE Fits(NewView(v, flat(v))) /\ Inherits(NewView(v, flat(v)), ops)
      BY <2>2
    <3>1. IsView(v) /\ IsView(flat(v)) /\ flat(v).via # "window"
      <4> HIDE DEF flat, V, side
      <4> QED BY <1>2, <1>3, <2>2
    <3> HIDE DEF flat
    <3> QED BY <3>1, NewViewFits
  <2> QED BY <2>1, <2>2
<1> HIDE DEF flat, add, side, V
<1>6. Fits(add) /\ Inherits(add, ops)
  <2> DEFINE a == flat(op.ins[1])
             b == flat(op.ins[2])
  <2>1. /\ IsView(a) /\ IsView(b) /\ IsView(add.out)
        /\ a.size = side /\ b.size = side /\ add.out.size = side
    BY <1>1, <1>3, <1>4
  <2>2. add.ins = <<a, b>>
    BY <1>4
  <2> HIDE DEF a, b
  <2>3. add.ins \in Seq({a, b}) /\ \A v \in {a, b} : IsView(v)
    BY <2>1, <2>2
  <2>4. IsOp(add)
    <3>1. Has(add, {"op", "ins", "out"})
      BY <1>4 DEF Has
    <3> QED BY <2>1, <2>3, <3>1, IsOpOf
  <2>5. Verifies(add)
    BY <1>4, <2>1, <2>2 DEF Verifies
  <2>6. Fits(add)
    BY <1>4, <2>4, <2>5 DEF Fits, IsWindow, Has
  <2>7. Inherits(add, ops)
    BY <1>4, CallInherits
  <2> QED BY <2>6, <2>7
<1>7. \A n \in 1..3 : all[n] \in V
  <2>1. op.ins \in Seq(V) /\ <<op.out>> \in Seq(V) /\ Len(<<op.out>>) = 1
    <3>1. op.ins \in Seq(Range(op.ins))
      BY DEF IsOp
    <3>2. op.ins \in Seq(V)
      <4>1. Range(op.ins) \subseteq V
        BY DEF V
      <4> QED BY <3>1, <4>1, SeqMonotonic
    <3> QED BY <1>1, <3>2
  <2> DEFINE last == <<op.out>>
  <2>2. all \in Seq(V) /\ Len(all) = 3
    <3>1. last \in Seq(V) /\ Len(last) = 1
      BY <2>1
    <3> HIDE DEF last
    <3>2. op.ins \o last \in Seq(V) /\ Len(op.ins \o last) = Len(op.ins) + Len(last)
      BY <2>1, <3>1, ConcatProperties
    <3>3. op.ins \o last \in Seq(V) /\ Len(op.ins \o last) = 3
      BY <3>1, <3>2
    <3> QED BY <3>3 DEF last
  <2> HIDE DEF all
  <2>3. \A n \in 1..Len(all) : all[n] \in V
    BY <2>2, ElementOfSeq
  <2> QED BY <2>2, <2>3
<1>8. views \in Seq(N)
  <2>1. CASE Len(op.out.size) = 2
    BY <2>1
  <2>2. CASE Len(op.out.size) # 2
    <3>1. \A n \in 1..3 : NewView(all[n], flat(all[n])) \in reads
      BY <1>7, <2>2
    <3> DEFINE w == [n \in 1..3 |-> NewView(all[n], flat(all[n]))]
    <3>2. views = w
      BY <2>2
    <3> HIDE DEF all, reads
    <3>3. w \in [1..3 -> N]
      BY <3>1
    <3> HIDE DEF w, views, N
    <3>4. w \in Seq(N)
      <4>1. 3 \in Nat
        OBVIOUS
      <4> QED BY <3>3, <4>1, SeqDef
    <3> QED BY <3>2, <3>4
  <2> QED BY <2>1, <2>2
<1>9. AddCall(op, scale, act) = views \o <<add>>
  BY DEF AddCall, flat, add
<1>10. \A n \in N : Fits(n) /\ Inherits(n, ops)
  <2> HIDE DEF reads
  <2> QED BY <1>5, <1>6
<1>11. add \in N
  OBVIOUS
<1> HIDE DEF N, views
<1>12. views \o <<add>> \in Seq(N)
  <2>1. <<add>> \in Seq(N)
    BY <1>11
  <2> QED BY <1>8, <2>1, ConcatProperties
<1> QED BY <1>9, <1>10, <1>12
-----------------------------------------------------------------------------
(* A function with its block edited. *)

LEMMA EditedWith ==
    ASSUME NEW f, WellFormed(f),
           NEW N, \A n \in N : Fits(n) /\ Inherits(n, Range(f.block)),
           NEW block \in Seq(Range(f.block) \cup N), NEW some \in Seq(Range(f.block) \cup N), NEW gone, NEW i
    PROVE  WellFormed([f EXCEPT !.block = Edit(block, gone, InFrontOf(i, some))])
<1> DEFINE b == Edit(block, gone, InFrontOf(i, some))
           g == [f EXCEPT !.block = b]
<1>1. b \in Seq(Range(f.block) \cup N)
  BY EditWith
<1> HIDE DEF b
<1>2. g.block = b /\ Has(g, {"block", "failed"})
  BY DEF WellFormed, Has
<1> HIDE DEF g
<1>3. WellFormed(g)
  BY <1>1, <1>2, MadeOf
<1> QED BY <1>3 DEF g, b

LEMMA EditedWithout ==
    ASSUME NEW f, WellFormed(f),
           NEW N, \A n \in N : Fits(n) /\ Inherits(n, Range(f.block)),
           NEW block \in Seq(Range(f.block) \cup N), NEW gone
    PROVE  WellFormed([f EXCEPT !.block = Edit(block, gone, <<>>)])
<1> DEFINE b == Edit(block, gone, <<>>)
           g == [f EXCEPT !.block = b]
<1>1. b \in Seq(Range(f.block) \cup N)
  BY EditWithout
<1> HIDE DEF b
<1>2. g.block = b /\ Has(g, {"block", "failed"})
  BY DEF WellFormed, Has
<1> HIDE DEF g
<1>3. WellFormed(g)
  BY <1>1, <1>2, MadeOf
<1> QED BY <1>3 DEF g, b

\* The block itself, and the block with one operation in another's place.
LEMMA BlockType ==
    ASSUME NEW f, WellFormed(f), NEW N
    PROVE  /\ f.block \in Seq(Range(f.block) \cup N)
           /\ \A i \in Positions(f.block), n \in N :
                 [f.block EXCEPT ![i] = n] \in Seq(Range(f.block) \cup N)
<1> DEFINE X == Range(f.block) \cup N
<1>1. f.block \in Seq(Range(f.block))
  BY DEF WellFormed
<1>2. f.block \in Seq(X)
  BY <1>1, SeqMonotonic
<1>3. \A n \in N : n \in X
  OBVIOUS
<1> HIDE DEF X
<1>4. ASSUME NEW i \in Positions(f.block), NEW n \in N PROVE [f.block EXCEPT ![i] = n] \in Seq(X)
  BY <1>2, <1>3, <1>4, ExceptSeq DEF Positions
<1>5. \A i \in Positions(f.block), n \in N : [f.block EXCEPT ![i] = n] \in Seq(X)
  BY <1>4
<1> QED BY <1>2, <1>5 DEF X

LEMMA FailedKeeps ==
    ASSUME NEW f, WellFormed(f)
    PROVE  WellFormed([f EXCEPT !.failed = TRUE])
<1> DEFINE g == [f EXCEPT !.failed = TRUE]
<1>1. g.block = f.block /\ Has(g, {"block", "failed"})
  BY DEF WellFormed, Has
<1> HIDE DEF g
<1>2. WellFormed(g)
  BY <1>1 DEF WellFormed
<1> QED BY <1>2 DEF g

-----------------------------------------------------------------------------
(* Conversion. *)

LEMMA AsCallKeeps ==
    ASSUME NEW f, WellFormed(f), NEW i \in Positions(f.block),
           IsContraction(f.block[i]), f.block[i].maps = "plain"
    PROVE  WellFormed([f EXCEPT !.block = AsCall(f, i)])
<1> DEFINE op == f.block[i]
           ops == Range(f.block)
           zero == ZeroFillFor(f.block, i, op.out)
           gone == {i} \cup zero
           g(some) == [f EXCEPT !.block = Edit(f.block, gone, InFrontOf(i, some))]
<1>1. Fits(op) /\ op \in ops
  BY OpOf
<1>2. ASSUME NEW N, \A n \in N : Fits(n) /\ Inherits(n, ops), NEW some \in Seq(N)
      PROVE  WellFormed(g(some))
  <2>1. some \in Seq(ops \cup N)
    <3>1. N \subseteq ops \cup N
      OBVIOUS
    <3> HIDE DEF ops
    <3> QED BY <1>2, <3>1, SeqMonotonic
  <2>2. f.block \in Seq(ops \cup N)
    BY BlockType
  <2> HIDE DEF gone
  <2> QED BY <1>2, <2>1, <2>2, EditedWith
<1> HIDE DEF g, ops
<1>3. CASE op.op = "matmul"
  <2> DEFINE c == Call(op, op.ins, op.out, zero)
  <2>1. [f EXCEPT !.block = AsCall(f, i)] = g(Append(<<>>, c))
    BY <1>3 DEF AsCall, g
  <2>2. Fits(c) /\ Inherits(c, ops)
    <3> HIDE DEF op, zero
    <3> QED BY <1>1, <1>3, OfMatmul DEF op
  <2>3. Append(<<>>, c) \in Seq({c})
    <3> HIDE DEF c
    <3> QED OBVIOUS
  <2> HIDE DEF c, op
  <2>4. \A n \in {c} : Fits(n) /\ Inherits(n, ops)
    BY <2>2
  <2> QED BY <1>2, <2>1, <2>3, <2>4
<1>4. CASE op.op = "matvec"
  <2> DEFINE v == NewView(op.ins[2], Column(op.ins[2]))
             w == NewView(op.out, Column(op.out))
             c == Call(op, <<op.ins[1], Column(op.ins[2])>>, Column(op.out), zero)
  <2>1. [f EXCEPT !.block = AsCall(f, i)] = g(Append(<<v, w>>, c))
    BY <1>4 DEF AsCall, g
  <2>2. \A n \in {v, w, c} : Fits(n) /\ Inherits(n, ops)
    <3> HIDE DEF op, zero
    <3>1. op.maps = "plain"
      BY DEF op
    <3> QED BY <1>1, <1>4, <3>1, OfMatvec
  <2> HIDE DEF v, w, c, op
  <2>3. Append(<<v, w>>, c) \in Seq({v, w, c})
    OBVIOUS
  <2> QED BY <1>2, <2>1, <2>2, <2>3
<1>5. CASE op.op = "vecmat"
  <2> DEFINE v == NewView(op.ins[1], Row(op.ins[1]))
             w == NewView(op.out, Row(op.out))
             c == Call(op, <<Row(op.ins[1]), op.ins[2]>>, Row(op.out), zero)
  <2>1. [f EXCEPT !.block = AsCall(f, i)] = g(Append(<<v, w>>, c))
    BY <1>5 DEF AsCall, g
  <2>2. \A n \in {v, w, c} : Fits(n) /\ Inherits(n, ops)
    <3> HIDE DEF op, zero
    <3>1. op.maps = "plain"
      BY DEF op
    <3> QED BY <1>1, <1>5, <3>1, OfVecmat
  <2> HIDE DEF v, w, c, op
  <2>3. Append(<<v, w>>, c) \in Seq({v, w, c})
    OBVIOUS
  <2> QED BY <1>2, <2>1, <2>2, <2>3
<1>6. CASE op.op = "batch"
  <2> DEFINE n == [op |-> "loop", call |-> Call(op, op.ins, op.out, zero)]
  <2>1. [f EXCEPT !.block = AsCall(f, i)] = g(<<n>>)
    BY <1>6 DEF AsCall, g
  <2>2. Fits(n) /\ Inherits(n, ops)
    <3> HIDE DEF op, zero
    <3>1. op.maps = "plain"
      BY DEF op
    <3> QED BY <1>1, <1>6, <3>1, OfBatch
  <2> HIDE DEF n, op
  <2>3. <<n>> \in Seq({n}) /\ \A m \in {n} : Fits(m) /\ Inherits(m, ops)
    BY <2>2
  <2> QED BY <1>2, <2>1, <2>3
<1> QED BY <1>3, <1>4, <1>5, <1>6 DEF IsContraction

LEMMA AddKeeps ==
    ASSUME NEW f, WellFormed(f), NEW i \in Positions(f.block),
           IsSaturatingAdd(f, f.block[i]) \/ IsScaledAdd(f, f.block[i]), NEW scale, NEW act
    PROVE  WellFormed([f EXCEPT !.block = Edit(f.block, {i}, InFrontOf(i, AddCall(f.block[i], scale, act)))])
<1> DEFINE op == f.block[i]
           ops == Range(f.block)
<1>1. Fits(op) /\ op \in ops
  BY OpOf
<1>2. /\ op.op = "generic" /\ Len(op.ins) = 2
      /\ \A v \in Range(op.ins) \cup {op.out} : v.size = op.out.size
      /\ Len(op.out.size) >= 2
  <2>1. op.op = "generic" /\ Len(op.ins) = 2 /\ \A v \in Operands(op) : v.size = op.out.size
    BY DEF IsSaturatingAdd, IsScaledAdd
  <2>2. Operands(op) = Range(op.ins) \cup {op.out}
    BY <2>1 DEF Operands
  <2>3. CASE IsSaturatingAdd(f, op)
    <3>1. Len(op.out.size) = 2
      BY <2>2, <2>3 DEF IsSaturatingAdd
    <3> QED BY <2>1, <2>2, <3>1
  <2>4. CASE IsScaledAdd(f, op)
    BY <2>1, <2>2, <2>4 DEF IsScaledAdd
  <2> QED BY <2>3, <2>4
<1>3. IsOp(op)
  BY <1>1, <1>2 DEF Fits
<1> HIDE DEF op, ops
<1>4. PICK N : /\ \A n \in N : Fits(n) /\ Inherits(n, ops)
               /\ AddCall(op, scale, act) \in Seq(N)
  BY <1>1, <1>2, <1>3, AddCallIs
<1>5. AddCall(op, scale, act) \in Seq(ops \cup N) /\ f.block \in Seq(ops \cup N)
  BY <1>4, SeqMonotonic, BlockType DEF ops
<1> QED BY <1>4, <1>5, EditedWith DEF ops, op

LEMMA ConvertKeeps ==
    ASSUME NEW f, WellFormed(f), NEW i \in BlockOf(f), NEW g \in Convert(f, i)
    PROVE  WellFormed(g)
<1> DEFINE op == f.block[i]
           add(scale, act) == [f EXCEPT !.block = Edit(f.block, {i}, InFrontOf(i, AddCall(op, scale, act)))]
<1>1. i \in Positions(f.block)
  BY DEF BlockOf
<1>2. /\ IsContraction(op) => op.op # "generic"
      /\ IsSaturatingAdd(f, op) => op.op = "generic" /\ op.body = "add8" /\ op.body # "scaled add"
      /\ IsScaledAdd(f, op) => op.op = "generic" /\ op.body = "scaled add"
  BY DEF IsContraction, IsSaturatingAdd, IsScaledAdd
<1>3. CASE IsContraction(op) /\ Offloads(f, op)
  <2>1. g = [f EXCEPT !.block = AsCall(f, i)]
    BY <1>2, <1>3, Zenon DEF Convert
  <2>2. op.maps = "plain"
    BY <1>3 DEF Offloads
  <2> QED BY <1>1, <1>3, <2>1, <2>2, AsCallKeeps
<1>4. CASE IsContraction(op) /\ ~Offloads(f, op)
  <2>1. g = [f EXCEPT !.failed = TRUE]
    BY <1>2, <1>4, Zenon DEF Convert
  <2> QED BY <2>1, FailedKeeps
<1>5. CASE ~IsContraction(op)
  <2>1. /\ IsSaturatingAdd(f, op) \/ IsScaledAdd(f, op)
        /\ \E scale, act : g = add(scale, act)
    BY <1>2, <1>5, Zenon DEF Convert
  <2> QED BY <1>1, <2>1, AddKeeps
<1> QED BY <1>3, <1>4, <1>5
-----------------------------------------------------------------------------
(* What comes next. *)

LEMMA FirstIs ==
    ASSUME NEW S \in SUBSET Nat, NEW x \in First(S)
    PROVE  x \in S /\ First(S) = {x}
<1>1. S # {} /\ First(S) = {Min(S)}
  BY DEF First
<1>2. PICK m \in S : \A k \in S : m <= k
  BY <1>1, LeastOf
<1>3. Min(S) \in S
  BY <1>2, Zenon DEF Min
<1> QED BY <1>1, <1>3

LEMMA NextUseIs ==
    ASSUME NEW X, NEW block \in Seq(X), NEW i \in Positions(block), NEW v, NEW n \in NextUse(block, i, v)
    PROVE  n \in Positions(block) /\ n \in Nat /\ n > i /\ NextUse(block, i, v) = {n}
<1> DEFINE S == {j \in (i + 1)..Len(block) : Names(block[j], v)}
<1>1. \A j \in (i + 1)..Len(block) : j \in Nat /\ j \in Positions(block) /\ j > i
  BY DEF Positions
<1>2. S \in SUBSET Nat
  BY <1>1
<1>3. n \in S /\ First(S) = {n}
  <2>1. n \in First(S)
    BY DEF NextUse
  <2> HIDE DEF S
  <2> QED BY <1>2, <2>1, FirstIs
<1> QED BY <1>1, <1>3 DEF NextUse

LEMMA NextUseOfBufferIs ==
    ASSUME NEW f, WellFormed(f), NEW i \in Positions(f.block), NEW base, NEW n \in NextUseOfBuffer(f, i, base)
    PROVE  n \in Positions(f.block) /\ n \in Nat /\ n > i
<1> DEFINE S == {j \in (i + 1)..Len(f.block) :
                    ~IsReshape(f.block[j]) /\ \E v \in Operands(f.block[j]) : ReshapeBase(v, f) = base}
<1>1. \A j \in (i + 1)..Len(f.block) : j \in Nat /\ j \in Positions(f.block) /\ j > i
  <2>1. i \in Nat /\ i >= 1 /\ Len(f.block) \in Nat
    BY DEF Positions, WellFormed
  <2> QED BY <2>1 DEF Positions
<1>2. S \in SUBSET Nat
  BY <1>1
<1>3. n \in S
  <2>1. n \in First(S)
    BY DEF NextUseOfBuffer
  <2> HIDE DEF S
  <2> QED BY <1>2, <2>1, FirstIs
<1> QED BY <1>1, <1>3

-----------------------------------------------------------------------------
(* A bias. *)

LEMMA Appended ==
    ASSUME NEW X, NEW s \in Seq(X), NEW a \in X
    PROVE  Len(s) = 2 => /\ Append(s, a) \in Seq(X) /\ Len(Append(s, a)) = 3
                         /\ Append(s, a)[1] = s[1] /\ Append(s, a)[2] = s[2] /\ Append(s, a)[3] = a
<1> DEFINE t == Append(s, a)
           n == Len(s)
<1>1. t \in Seq(X) /\ Len(t) = n + 1 /\ t[n + 1] = a /\ \A k \in 1..n : t[k] = s[k]
  BY AppendProperties
<1> HIDE DEF t, n
<1>2. n = 2 => t \in Seq(X) /\ Len(t) = 3 /\ t[1] = s[1] /\ t[2] = s[2] /\ t[3] = a
  BY <1>1
<1> QED BY <1>2 DEF t, n

LEMMA BiasedIs ==
    ASSUME NEW op, Fits(op), op.op = "mm", Len(op.ins) = 2, ~op.accumulate,
           NEW d, IsView(d), d.size[1] \in {op.out.size[1], 1}, d.size[2] = op.out.size[2],
           NEW ops, op \in ops
    PROVE  LET c == [op EXCEPT !.ins = Append(@, d)] IN Fits(c) /\ Inherits(c, ops)
<1> DEFINE c == [op EXCEPT !.ins = Append(@, d)]
           X == Range(op.ins) \cup {d}
<1>1. IsOp(op) /\ MatmulFits(op)
  BY DEF Fits
<1>2. Has(op, {"op", "ins", "out", "accumulate", "trL", "trR"})
  BY <1>1 DEF IsOp, MatmulFits, Has
<1>3. /\ c.op = "mm" /\ c.ins = Append(op.ins, d) /\ c.out = op.out /\ c.trL = op.trL /\ c.trR = op.trR
      /\ c.accumulate = op.accumulate
      /\ Has(c, {"op", "ins", "out", "accumulate", "trL", "trR"})
  BY <1>2 DEF Has
<1>4. op.ins \in Seq(X) /\ d \in X /\ \A v \in X : IsView(v)
  <2>1. op.ins \in Seq(Range(op.ins))
    BY <1>1 DEF IsOp
  <2>2. op.ins \in Seq(X)
    BY <2>1, SeqMonotonic
  <2> QED BY <1>1, <2>2 DEF IsOp
<1> HIDE DEF X, c
<1>5. c.ins \in Seq(X) /\ Len(c.ins) = 3 /\ c.ins[1] = op.ins[1] /\ c.ins[2] = op.ins[2] /\ c.ins[3] = d
  <2>1. /\ Append(op.ins, d) \in Seq(X) /\ Len(Append(op.ins, d)) = 3
        /\ Append(op.ins, d)[1] = op.ins[1] /\ Append(op.ins, d)[2] = op.ins[2]
        /\ Append(op.ins, d)[3] = d
    BY <1>4, Appended
  <2> QED BY <1>3, <2>1
<1>6. VerifiesMatmul(c)
  BY <1>1, <1>3, <1>5 DEF VerifiesMatmul, MatmulFits
<1>7. IsOp(c)
  <2>1. Has(c, {"op", "ins", "out"}) /\ IsView(c.out)
    BY <1>1, <1>3 DEF Has, IsOp
  <2> QED BY <1>4, <1>5, <2>1, IsOpOf
<1>8. Fits(c)
  <2>1. MatmulFits(c)
    BY <1>3, <1>5, <1>6 DEF MatmulFits, Has
  <2> QED BY <1>3, <1>7, <2>1, CallFits
<1>9. Inherits(c, ops)
  <2>1. Held(c) \subseteq Held(op)
    BY <1>3 DEF Held, WrittenAs
  <2> QED BY <1>3, <2>1, CallInherits
<1> QED BY <1>8, <1>9 DEF c

LEMMA FoldBiasKeeps ==
    ASSUME NEW f, WellFormed(f), NEW i \in BlockOf(f), NEW g \in FoldBiasIntoMatmul(f, i)
    PROVE  WellFormed(g)
<1> DEFINE op == f.block[i]
           ops == Range(f.block)
           D(n) == f.block[n].ins[1]
           folded(n) == IF Len(D(n).size) = 2 THEN <<[op EXCEPT !.ins = Append(@, D(n))]>>
                        ELSE <<NewView(D(n), Row(D(n))), [op EXCEPT !.ins = Append(@, Row(D(n)))]>>
<1>1. /\ op.op = "mm" /\ Len(op.ins) = 2 /\ ~op.accumulate
      /\ \E n \in NextUse(f.block, i, op.out) :
            /\ IsBiasAdd(f.block[n], op.out) /\ Len(D(n).size) \in {1, 2}
            /\ g = [f EXCEPT !.block = Edit(f.block, {i, n}, InFrontOf(i, folded(n)))]
  BY Zenon DEF FoldBiasIntoMatmul
<1>2. PICK n \in NextUse(f.block, i, op.out) :
            /\ IsBiasAdd(f.block[n], op.out) /\ Len(D(n).size) \in {1, 2}
            /\ g = [f EXCEPT !.block = Edit(f.block, {i, n}, InFrontOf(i, folded(n)))]
  BY <1>1
<1>3. i \in Positions(f.block) /\ n \in Positions(f.block)
  BY NextUseIs DEF BlockOf, WellFormed
<1>4. Fits(op) /\ op \in ops /\ Fits(f.block[n])
  BY <1>3, OpOf
<1>5. IsOp(op) /\ Len(op.out.size) = 2
  BY <1>1, <1>4 DEF Fits, MatmulFits, VerifiesMatmul
<1>6. /\ Len(f.block[n].ins) = 1 /\ IsOp(f.block[n])
      /\ D(n).size = op.out.size \/ D(n).size = <<op.out.size[2]>>
  BY <1>2, <1>4, <1>5 DEF Fits, GenericFits, IsBiasAdd, LastOf
<1>7. IsView(D(n))
  BY <1>6, ViewsOf
<1> HIDE DEF op, ops, D
<1>8. CASE Len(D(n).size) = 2
  <2> DEFINE c == [op EXCEPT !.ins = Append(@, D(n))]
  <2>1. D(n).size = op.out.size
    BY <1>6, <1>8
  <2>2. Fits(c) /\ Inherits(c, ops)
    BY <1>1, <1>4, <1>7, <2>1, BiasedIs
  <2>3. folded(n) = <<c>>
    BY <1>8
  <2> HIDE DEF c, folded
  <2>4. f.block \in Seq(ops \cup {c}) /\ folded(n) \in Seq(ops \cup {c})
    BY <2>3, BlockType DEF ops
  <2> QED BY <1>2, <2>2, <2>4, EditedWith DEF ops
<1>9. CASE Len(D(n).size) = 1
  <2> DEFINE r == Row(D(n))
             v == NewView(D(n), r)
             c == [op EXCEPT !.ins = Append(@, r)]
  <2>1. D(n).size[1] = op.out.size[2]
    BY <1>5, <1>6, <1>9
  <2>2. IsView(r) /\ r.via = "reshape" /\ r.size = <<1, D(n).size[1]>>
    BY <1>7, <1>9, RowIs
  <2>3. folded(n) = <<v, c>>
    BY <1>9
  <2> HIDE DEF r
  <2>4. Fits(c) /\ Inherits(c, ops)
    <3>1. r.size[1] \in {op.out.size[1], 1} /\ r.size[2] = op.out.size[2]
      BY <2>1, <2>2
    <3> QED BY <1>1, <1>4, <2>2, <3>1, BiasedIs
  <2>5. Fits(v) /\ Inherits(v, ops)
    BY <1>7, <2>2, NewViewFits
  <2> HIDE DEF c, v, folded
  <2>6. f.block \in Seq(ops \cup {v, c}) /\ folded(n) \in Seq(ops \cup {v, c})
    <3>1. f.block \in Seq(ops \cup {v, c})
      BY BlockType DEF ops
    <3>2. <<v, c>> \in Seq(ops \cup {v, c})
      OBVIOUS
    <3> QED BY <2>3, <3>1, <3>2
  <2>7. \A m \in {v, c} : Fits(m) /\ Inherits(m, ops)
    BY <2>4, <2>5
  <2> QED BY <1>2, <2>6, <2>7, EditedWith DEF ops
<1> QED BY <1>2, <1>8, <1>9
-----------------------------------------------------------------------------
(* A requantization. *)

LEMMA Tailed ==
    ASSUME NEW X, NEW s \in Seq(X)
    PROVE  /\ Len(s) = 1 => SubSeq(s, 2, Len(s)) = <<>>
           /\ Len(s) = 2 => SubSeq(s, 2, Len(s)) = <<s[2]>>
<1>1. ASSUME Len(s) = 1 PROVE SubSeq(s, 2, Len(s)) = <<>>
  BY <1>1
<1>2. ASSUME Len(s) = 2 PROVE SubSeq(s, 2, Len(s)) = <<s[2]>>
  <2> DEFINE t == SubSeq(s, 2, Len(s))
  <2>1. t \in Seq(X) /\ Len(t) = 1 /\ t[1] = s[2]
    BY <1>2
  <2> HIDE DEF t
  <2>2. t = <<t[1]>>
    BY <2>1
  <2> QED BY <2>1, <2>2 DEF t
<1> QED BY <1>1, <1>2

\* What a requantization that can be read is.
LEMMA RequantizeIs ==
    ASSUME NEW f, NEW x, Fits(x), NEW acc, NEW q \in Requantize(f, x, acc)
    PROVE  /\ IsOp(x) /\ x.op = "generic" /\ x.body = "requant" /\ x.ins[1] = acc
           /\ acc.size = x.out.size /\ IsView(x.out)
           /\ Len(x.out.size) = 2 => HasRowStride(x.out)
           /\ q.bias = SubSeq(x.ins, 2, Len(x.ins))
           /\ \/ q.bias = <<>>
              \/ /\ q.bias = <<x.ins[2]>> /\ IsView(x.ins[2])
                 /\ x.ins[2].size = LastOf(x.out) /\ Len(x.ins[2].size) = 1
<1>1. /\ x.op = "generic" /\ x.body = "requant" /\ x.ins[1] = acc /\ x.whole
      /\ \E s, a : q = [scale |-> s, bias |-> SubSeq(x.ins, 2, Len(x.ins)), act |-> a]
  <2> DEFINE p == [scale |-> ChainScale(x.chain).scale, bias |-> SubSeq(x.ins, 2, Len(x.ins)),
                   act |-> IF x.lo = 0 \/ ChainScale(x.chain).relu THEN "relu" ELSE "none"]
  <2>1. x.op = "generic" /\ x.body = "requant" /\ x.ins[1] = acc /\ x.whole
    BY Zenon DEF Requantize
  <2>2. q = p
    BY Zenon DEF Requantize
  <2> QED BY <2>1, <2>2, Zenon
<1>2. IsOp(x) /\ GenericFits(x)
  BY <1>1 DEF Fits
<1>3. q.bias = SubSeq(x.ins, 2, Len(x.ins))
  BY <1>1
<1>4. /\ Len(x.ins) \in {1, 2} /\ x.ins[1].size = x.out.size
      /\ Len(x.ins) = 2 => x.ins[2].size = LastOf(x.out)
      /\ Len(x.out.size) = 2 => HasRowStride(x.out)
  BY <1>1, <1>2 DEF GenericFits
<1>5. IsView(x.out) /\ x.ins \in Seq(Range(x.ins)) /\ \A n \in 1..Len(x.ins) : IsView(x.ins[n])
  BY <1>2, ViewsOf
<1>6. CASE Len(x.ins) = 1
  <2>1. q.bias = <<>>
    BY <1>3, <1>5, <1>6, Tailed
  <2> QED BY <1>1, <1>2, <1>3, <1>4, <1>5, <2>1
<1>7. CASE Len(x.ins) = 2
  <2>1. q.bias = <<x.ins[2]>>
    BY <1>3, <1>5, <1>7, Tailed
  <2>2. IsView(x.ins[2]) /\ x.ins[2].size = LastOf(x.out)
    BY <1>4, <1>5, <1>7
  <2>3. Len(x.ins[2].size) = 1
    BY <2>2 DEF LastOf
  <2> QED BY <1>1, <1>2, <1>3, <1>4, <1>5, <2>1, <2>2, <2>3
<1> QED BY <1>4, <1>6, <1>7

\* A scaled call instead of a call of the same operands.
LEMMA ScaledIs ==
    ASSUME NEW op, Fits(op), op.op = "mm", NEW ops, op \in ops,
           NEW c, c.op = "mm8", Has(c, {"op", "ins", "out", "trL", "trR", "act"}),
           NEW X, c.ins \in Seq(X), \A v \in X : IsView(v), IsView(c.out),
           Len(c.ins) \in {2, 3}, c.ins[1] = op.ins[1], c.ins[2] = op.ins[2],
           c.trL = op.trL, c.trR = op.trR, c.out.size = op.out.size, HasRowStride(c.out),
           Len(c.ins) = 3 => c.ins[3].size[1] \in {op.out.size[1], 1} /\ c.ins[3].size[2] = op.out.size[2]
    PROVE  Fits(c) /\ Inherits(c, ops)
<1>1. VerifiesMatmul(op)
  BY DEF Fits, MatmulFits
<1>2. VerifiesMatmul(c)
  BY <1>1 DEF VerifiesMatmul
<1>3. IsOp(c)
  <2>1. Has(c, {"op", "ins", "out"})
    BY DEF Has
  <2> QED BY <2>1, IsOpOf
<1>4. Fits(c)
  <2>1. MatmulFits(c)
    BY <1>2 DEF MatmulFits, Has
  <2> QED BY <1>3, <2>1, CallFits
<1>5. Inherits(c, ops)
  BY CallInherits
<1> QED BY <1>4, <1>5

\* A call's output that a requantization of the same buffer reads was written in
\* the shape it is read in, and a bias has an element for each of its columns.
LEMMA ReadAsWrittenBy ==
    ASSUME NEW f, WellFormed(f), NEW op \in Range(f.block), op.op = "mm",
           Len(op.out.size) = 2, IsLocal(ReshapeBase(op.out, f), f),
           NEW x \in Range(f.block), x.op = "generic", x.body = "requant",
           ReshapeBase(x.ins[1], f) = ReshapeBase(op.out, f)
    PROVE  /\ Len(x.out.size) = 2 => x.out.size = op.out.size
           /\ \A v : SubSeq(x.ins, 2, Len(x.ins)) = <<v>> => v.size = <<op.out.size[2]>>
<1> DEFINE held == [buf |-> op.out.buf, size |-> op.out.size]
           asked == [buf |-> x.ins[1].buf, size |-> x.out.size, bias |-> SubSeq(x.ins, 2, Len(x.ins))]
<1>1. op.out.via # "window"
  BY DEF ReshapeBase, IsLocal
<1>2. held \in Held(op)
  BY <1>1 DEF Held, WrittenAs
<1>3. asked \in Asked(x)
  BY DEF Asked
<1>4. \A v : ReshapeBase(v, f).buf = v.buf
  BY DEF ReshapeBase, BaseOf, Buffer
<1>5. x.ins[1].buf = op.out.buf
  <2>1. ReshapeBase(x.ins[1], f).buf = ReshapeBase(op.out, f).buf
    OBVIOUS
  <2> QED BY <1>4, <2>1
<1>6. /\ held.buf = op.out.buf /\ held.size = op.out.size
      /\ asked.buf = x.ins[1].buf /\ asked.size = x.out.size /\ asked.bias = SubSeq(x.ins, 2, Len(x.ins))
  OBVIOUS
<1> HIDE DEF held, asked
<1>7. ReadAsWritten(held, asked)
  BY <1>2, <1>3 DEF WellFormed, WellFormedOps
<1>8. ASSUME NEW v, SubSeq(x.ins, 2, Len(x.ins)) = <<v>> PROVE v.size = <<op.out.size[2]>>
  <2>1. asked.bias = <<v>>
    BY <1>6, <1>8, Zenon
  <2>2. Len(asked.bias) = 1 /\ asked.bias[1] = v
    BY <2>1
  <2> QED BY <1>5, <1>6, <1>7, <2>2 DEF ReadAsWritten
<1> QED BY <1>5, <1>6, <1>7, <1>8 DEF ReadAsWritten
LEMMA Parted ==
    ASSUME NEW X, NEW s \in Seq(X), Len(s) \in {2, 3}
    PROVE  /\ SubSeq(s, 1, 2) = <<s[1], s[2]>>
           /\ SubSeq(s, 1, 2) \o SubSeq(s, 3, Len(s)) = s
<1>1. 2 \in 1..Len(s) /\ Len(s) \in Nat /\ 1 \in 1..Len(s) + 1 /\ 2 \in 1 - 1..Len(s) /\ Len(s) \in 2..Len(s)
  OBVIOUS
<1>2. SubSeq(s, 1, 2) = <<s[1], s[2]>>
  <2> DEFINE t == SubSeq(s, 1, 2)
  <2>1. t \in Seq(X) /\ Len(t) = 2 /\ t[1] = s[1] /\ t[2] = s[2]
    BY <1>1
  <2> HIDE DEF t
  <2>2. t = <<t[1], t[2]>>
    BY <2>1, PairIs
  <2> QED BY <2>1, <2>2 DEF t
<1>3. SubSeq(s, 1, 2) \o SubSeq(s, 2 + 1, Len(s)) = SubSeq(s, 1, Len(s))
  BY <1>1, ConcatAdjacentSubSeq
<1>4. SubSeq(s, 1, Len(s)) = s
  OBVIOUS
<1> QED BY <1>2, <1>3, <1>4

LEMMA Three ==
    ASSUME NEW a, NEW b, NEW c
    PROVE  <<a, b>> \o <<c>> = <<a, b, c>>
<1> DEFINE X == {a, b, c}
           s == <<a, b>>
           t == <<c>>
           u == <<a, b, c>>
<1>1. s \in Seq(X) /\ t \in Seq(X) /\ u \in Seq(X)
  OBVIOUS
<1>2. Len(s) = 2 /\ s[1] = a /\ s[2] = b /\ Len(t) = 1 /\ t[1] = c
  OBVIOUS
<1>3. Len(u) = 3 /\ u[1] = a /\ u[2] = b /\ u[3] = c
  OBVIOUS
<1> HIDE DEF s, t, u, X
<1>4. /\ s \o t \in Seq(X) /\ Len(s \o t) = Len(s) + Len(t)
      /\ \A i \in 1..Len(s) + Len(t) : (s \o t)[i] = IF i <= Len(s) THEN s[i] ELSE t[i - Len(s)]
  BY <1>1, ConcatProperties
<1> DEFINE w == s \o t
<1>5. /\ w \in Seq(X) /\ Len(w) = 3
      /\ \A i \in 1..3 : w[i] = IF i <= 2 THEN s[i] ELSE t[i - 2]
  BY <1>2, <1>4
<1> HIDE DEF w
<1>6. w[1] = a /\ w[2] = b /\ w[3] = c
  BY <1>2, <1>5
<1>7. \A i \in 1..Len(w) : w[i] = u[i]
  BY <1>3, <1>5, <1>6
<1>8. w = u
  BY <1>1, <1>3, <1>5, <1>7, SeqEqual
<1> QED BY <1>8 DEF w, s, t, u

LEMMA FoldRequantizeKeeps ==
    ASSUME NEW f, WellFormed(f), NEW i \in BlockOf(f), NEW g \in FoldRequantizeIntoMatmul(f, i)
    PROVE  WellFormed(g)
<1> DEFINE op == f.block[i]
           ops == Range(f.block)
           base == ReshapeBase(op.out, f)
           out(n) == f.block[n].out
           flat(n) == IF Len(out(n).size) = 2 THEN out(n) ELSE Reshaped(out(n), AsMatrix(out(n).size))
           bias(q) == IF q.bias = <<>> THEN SubSeq(op.ins, 3, Len(op.ins)) ELSE <<Row(q.bias[1])>>
           views(n, q) == (IF flat(n) = out(n) THEN <<>> ELSE <<NewView(out(n), flat(n))>>)
                          \o (IF q.bias = <<>> THEN <<>> ELSE <<NewView(q.bias[1], bias(q)[1])>>)
           call(n, q) == [op |-> "mm8", ins |-> SubSeq(op.ins, 1, 2) \o bias(q), out |-> flat(n), trL |-> op.trL,
                          trR |-> op.trR, scale |-> q.scale, act |-> q.act]
           asks(n, q) == /\ flat(n) = out(n) \/ (IsIdentity(out(n)) /\ flat(n).size = op.out.size)
                         /\ Len(op.ins) = 3 => q.bias = <<>>
           made(n, q) == [f EXCEPT !.block = Edit(f.block, {i, n}, InFrontOf(n, Append(views(n, q), call(n, q))))]
<1>1. /\ op.op = "mm" /\ ~op.accumulate /\ IsLocal(base, f) /\ Len(op.out.size) = 2
  BY Zenon DEF FoldRequantizeIntoMatmul
<1> DEFINE S == {n \in NextUseOfBuffer(f, i, base) :
                    /\ f.block[n].op = "generic" /\ ReshapeBase(f.block[n].ins[1], f) = base
                    /\ UntouchedBetween(f.block, i, n, {op.ins[1], op.ins[2]})
                    /\ UnreadAfter(f, n, base)}
           scaled(n, q) == IF asks(n, q) THEN {made(n, q)} ELSE {}
           R(n) == Requantize(f, f.block[n], f.block[n].ins[1])
<1>a. g \in UNION {UNION {scaled(n, q) : q \in R(n)} : n \in S}
  BY Zenon DEF FoldRequantizeIntoMatmul
<1>b. \E n \in S : \E q \in R(n) : g \in scaled(n, q)
  <2> HIDE DEF S, scaled, R
  <2> QED BY <1>a
<1>2. PICK n \in NextUseOfBuffer(f, i, base) :
            /\ f.block[n].op = "generic" /\ ReshapeBase(f.block[n].ins[1], f) = base
            /\ \E q \in Requantize(f, f.block[n], f.block[n].ins[1]) : asks(n, q) /\ g = made(n, q)
  <2>1. PICK n \in S : \E q \in R(n) : g \in scaled(n, q)
    BY <1>b
  <2>2. PICK q \in R(n) : g \in scaled(n, q)
    BY <2>1
  <2>3. asks(n, q) /\ g = made(n, q)
    <3> HIDE DEF asks, made
    <3> QED BY <2>2
  <2> HIDE DEF asks, made
  <2> QED BY <2>3
<1>3. PICK q \in Requantize(f, f.block[n], f.block[n].ins[1]) : asks(n, q) /\ g = made(n, q)
  BY <1>2, Zenon
<1> DEFINE x == f.block[n]
<1>4. i \in Positions(f.block) /\ n \in Positions(f.block)
  BY NextUseOfBufferIs DEF BlockOf
<1>5. Fits(op) /\ op \in ops /\ Fits(x) /\ x \in ops
  BY <1>4, OpOf
<1>6. /\ IsOp(x) /\ x.op = "generic" /\ x.body = "requant"
      /\ x.ins[1].size = x.out.size /\ IsView(x.out)
      /\ Len(x.out.size) = 2 => HasRowStride(x.out)
      /\ q.bias = SubSeq(x.ins, 2, Len(x.ins))
      /\ \/ q.bias = <<>>
         \/ /\ q.bias = <<x.ins[2]>> /\ IsView(x.ins[2])
            /\ x.ins[2].size = LastOf(x.out) /\ Len(x.ins[2].size) = 1
  <2> DEFINE acc == x.ins[1]
  <2>1. q \in Requantize(f, x, acc) /\ Fits(x)
    BY <1>5
  <2> HIDE DEF x, acc
  <2>2. /\ IsOp(x) /\ x.op = "generic" /\ x.body = "requant" /\ x.ins[1] = acc
        /\ acc.size = x.out.size /\ IsView(x.out)
        /\ Len(x.out.size) = 2 => HasRowStride(x.out)
        /\ q.bias = SubSeq(x.ins, 2, Len(x.ins))
        /\ \/ q.bias = <<>>
           \/ /\ q.bias = <<x.ins[2]>> /\ IsView(x.ins[2])
              /\ x.ins[2].size = LastOf(x.out) /\ Len(x.ins[2].size) = 1
    BY <2>1, RequantizeIs
  <2> QED BY <2>2, Zenon
<1>7. /\ Len(x.out.size) = 2 => x.out.size = op.out.size
      /\ \A v : SubSeq(x.ins, 2, Len(x.ins)) = <<v>> => v.size = <<op.out.size[2]>>
  <2>1. /\ op \in Range(f.block) /\ op.op = "mm" /\ Len(op.out.size) = 2
        /\ x \in Range(f.block) /\ x.op = "generic" /\ x.body = "requant"
        /\ IsLocal(ReshapeBase(op.out, f), f) /\ ReshapeBase(x.ins[1], f) = ReshapeBase(op.out, f)
    BY <1>1, <1>2, <1>5, <1>6
  <2> HIDE DEF x, op
  <2> QED BY <2>1, ReadAsWrittenBy
<1>8. IsOp(op) /\ MatmulFits(op)
  BY <1>1, <1>5 DEF Fits
<1> DEFINE m == flat(n)
           t == bias(q)
           c == call(n, q)
<1>9. IsView(m) /\ m.size = op.out.size /\ HasRowStride(m) /\ (m # x.out => m.via # "window")
  <2>1. CASE Len(x.out.size) = 2
    BY <1>6, <1>7, <2>1
  <2>2. CASE Len(x.out.size) # 2
    <3>1. m = Reshaped(x.out, AsMatrix(x.out.size))
      BY <2>2
    <3> DEFINE r == Reshaped(x.out, AsMatrix(x.out.size))
    <3>2. Has(x.out, {"size"}) /\ r.size = AsMatrix(x.out.size)
      BY <1>6 DEF IsView, Has, Reshaped
    <3>3. Len(r.size) = 2
      BY <3>2 DEF AsMatrix
    <3>4. r # x.out
      BY <2>2, <3>3
    <3>5. r.size = op.out.size
      BY <1>3, <3>1, <3>4
    <3> HIDE DEF m, r, x, op
    <3>6. AsMatrix(x.out.size) \in Seq(Nat \ {0}) /\ Len(AsMatrix(x.out.size)) = 2
      <4>1. IsView(op.out)
        BY <1>8 DEF IsOp
      <4> QED BY <3>2, <3>3, <3>5, <4>1 DEF IsView
    <3>7. IsView(r) /\ r.via = "reshape" /\ r.step = Packed(AsMatrix(x.out.size))
      BY <1>6, <3>6, ReshapedIs DEF r
    <3>8. HasRowStride(r)
      BY <3>6, <3>7, PackedMatrix DEF HasRowStride
    <3> QED BY <3>1, <3>5, <3>7, <3>8 DEF r
  <2> QED BY <2>1, <2>2
<1>10. /\ c.op = "mm8" /\ c.ins = SubSeq(op.ins, 1, 2) \o t /\ c.out = m /\ c.trL = op.trL /\ c.trR = op.trR
       /\ Has(c, {"op", "ins", "out", "trL", "trR", "act"})
  BY DEF Has
<1>11. op.ins \in Seq(Range(op.ins)) /\ Len(op.ins) \in {2, 3} /\ \A v \in Range(op.ins) : IsView(v)
  BY <1>1, <1>8 DEF IsOp, MatmulFits
<1>12. SubSeq(op.ins, 1, 2) = <<op.ins[1], op.ins[2]>>
       /\ SubSeq(op.ins, 1, 2) \o SubSeq(op.ins, 3, Len(op.ins)) = op.ins
  BY <1>11, Parted
<1>13. asks(n, q)
  BY <1>3
<1> DEFINE d == x.ins[2]
           first == IF m = x.out THEN <<>> ELSE <<NewView(x.out, m)>>
           second == IF q.bias = <<>> THEN <<>> ELSE <<NewView(d, Row(d))>>
           N == {c} \cup (IF m = x.out THEN {} ELSE {NewView(x.out, m)})
                    \cup (IF q.bias = <<>> THEN {} ELSE {NewView(d, Row(d))})
<1>14. views(n, q) = first \o second
  <2>1. CASE q.bias = <<>>
    BY <2>1
  <2>2. CASE q.bias # <<>>
    <3>1. q.bias[1] = d /\ bias(q)[1] = Row(q.bias[1])
      BY <1>6, <2>2
    <3> QED BY <2>2, <3>1
  <2> QED BY <2>1, <2>2
<1> HIDE DEF c, m, t, op, ops, x, views, call, flat, bias, asks, made
<1>15. ASSUME q.bias = <<>> PROVE Fits(c) /\ Inherits(c, ops)
  <2>1. c.ins = op.ins
    BY <1>10, <1>12, <1>15 DEF t, bias
  <2>2. Len(c.ins) = 3 => c.ins[3].size[1] \in {op.out.size[1], 1} /\ c.ins[3].size[2] = op.out.size[2]
    BY <1>8, <2>1 DEF MatmulFits, VerifiesMatmul
  <2>3. Fits(c) /\ Inherits(c, ops)
    <3>1. c.ins \in Seq(Range(op.ins)) /\ Len(c.ins) \in {2, 3} /\ c.ins[1] = op.ins[1] /\ c.ins[2] = op.ins[2]
      BY <1>11, <2>1
    <3>2. IsView(c.out) /\ c.out.size = op.out.size /\ HasRowStride(c.out)
      BY <1>9, <1>10
    <3> QED BY <1>1, <1>5, <1>10, <1>11, <2>2, <3>1, <3>2, ScaledIs
  <2> QED BY <2>3
<1>16. ASSUME q.bias # <<>>
       PROVE  /\ Fits(c) /\ Inherits(c, ops)
              /\ Fits(NewView(d, Row(d))) /\ Inherits(NewView(d, Row(d)), ops)
  <2> DEFINE r == Row(d)
  <2>1. q.bias = <<d>> /\ IsView(d) /\ Len(d.size) = 1
    BY <1>6, <1>16
  <2>2. d.size = <<op.out.size[2]>>
    BY <1>6, <1>7, <2>1, Zenon
  <2>3. Len(op.ins) = 2
    BY <1>11, <1>13, <1>16 DEF asks
  <2>4. t = <<r>>
    BY <1>16, <2>1 DEF t, bias
  <2>5. IsView(r) /\ r.via = "reshape" /\ r.size = <<1, d.size[1]>>
    BY <2>1, RowIs
  <2> HIDE DEF r, d
  <2>6. r.size[1] = 1 /\ r.size[2] = op.out.size[2]
    BY <2>2, <2>5
  <2>7. c.ins = <<op.ins[1], op.ins[2], r>>
    <3>1. <<op.ins[1], op.ins[2]>> \o <<r>> = <<op.ins[1], op.ins[2], r>>
      BY Three
    <3> QED BY <1>10, <1>12, <2>4, <3>1, Zenon
  <2>8. Fits(c) /\ Inherits(c, ops)
    <3> DEFINE X == Range(op.ins) \cup {r}
    <3>1. op.ins[1] \in X /\ op.ins[2] \in X /\ r \in X
      BY <1>8, <2>3, ViewsOf
    <3>2. \A v \in X : IsView(v)
      BY <1>11, <2>5
    <3> HIDE DEF X
    <3>3. c.ins \in Seq(X) /\ Len(c.ins) = 3 /\ c.ins[1] = op.ins[1] /\ c.ins[2] = op.ins[2] /\ c.ins[3] = r
      BY <2>7, <3>1
    <3>4. IsView(c.out) /\ c.out.size = op.out.size /\ HasRowStride(c.out)
      BY <1>9, <1>10
    <3>5. Len(c.ins) \in {2, 3} /\ c.ins[3].size[1] \in {op.out.size[1], 1} /\ c.ins[3].size[2] = op.out.size[2]
      BY <2>6, <3>3
    <3> QED BY <1>1, <1>5, <1>10, <3>2, <3>3, <3>4, <3>5, ScaledIs
  <2>9. Fits(NewView(d, r)) /\ Inherits(NewView(d, r), ops)
    BY <2>1, <2>5, NewViewFits
  <2> QED BY <2>8, <2>9 DEF r
<1>17. Fits(c) /\ Inherits(c, ops) /\ (q.bias # <<>> => Fits(NewView(d, Row(d))) /\ Inherits(NewView(d, Row(d)), ops))
  BY <1>15, <1>16
<1>18. m # x.out => Fits(NewView(x.out, m)) /\ Inherits(NewView(x.out, m), ops)
  BY <1>6, <1>9, NewViewFits
<1>19. \A k \in N : Fits(k) /\ Inherits(k, ops)
  <2> HIDE DEF d
  <2> QED BY <1>17, <1>18
<1>20. first \in Seq(ops \cup N) /\ second \in Seq(ops \cup N) /\ c \in ops \cup N
  <2> DEFINE Y == ops \cup N
             v == NewView(x.out, m)
             w == NewView(d, Row(d))
  <2>1. (m # x.out => v \in Y) /\ (q.bias # <<>> => w \in Y) /\ c \in Y
    <3> HIDE DEF d
    <3>1. m # x.out => v \in N
      <4> HIDE DEF w
      <4> QED OBVIOUS
    <3>2. q.bias # <<>> => w \in N
      <4> HIDE DEF v
      <4> QED OBVIOUS
    <3>3. c \in N
      OBVIOUS
    <3> HIDE DEF N, v, w
    <3> QED BY <3>1, <3>2, <3>3
  <2> HIDE DEF Y, v, w, d, N
  <2>2. <<>> \in Seq(Y)
    OBVIOUS
  <2>3. (m # x.out => <<v>> \in Seq(Y)) /\ (q.bias # <<>> => <<w>> \in Seq(Y))
    BY <2>1
  <2>4. first \in Seq(Y)
    BY <2>2, <2>3, Zenon DEF v
  <2>5. second \in Seq(Y)
    BY <2>2, <2>3, Zenon DEF w
  <2> QED BY <2>1, <2>4, <2>5 DEF Y
<1> HIDE DEF first, second, N
<1>21. Append(views(n, q), c) \in Seq(ops \cup N)
  <2>1. first \o second \in Seq(ops \cup N)
    BY <1>20, ConcatProperties
  <2> QED BY <1>14, <1>20, <2>1, AppendProperties
<1>22. f.block \in Seq(ops \cup N)
  BY BlockType DEF ops
<1>23. g = made(n, q)
  BY <1>3
<1> QED BY <1>19, <1>21, <1>22, <1>23, EditedWith DEF ops, c, made
-----------------------------------------------------------------------------
(* A requantization of a batch. *)

LEMMA SliceIs ==
    ASSUME NEW v, IsView(v), Len(v.size) = 3, NEW i
    PROVE  /\ SliceOf(v, i).size = Tail(v.size) /\ SliceOf(v, i).step = Tail(v.step)
           /\ Tail(v.size)[2] = v.size[3] /\ Tail(v.step)[2] = v.step[3]
<1>1. SliceOf(v, i).size = Tail(v.size) /\ SliceOf(v, i).step = Tail(v.step)
  BY DEF SliceOf, IsView, Has
<1>2. v.size \in Seq(Nat \ {0}) /\ v.step \in Seq(Nat) /\ Len(v.step) = 3
  BY DEF IsView
<1>3. Tail(v.size)[2] = v.size[3]
  BY <1>2
<1>4. Tail(v.step)[2] = v.step[3]
  BY <1>2
<1> QED BY <1>1, <1>3, <1>4

LEMMA SlicesScaled ==
    ASSUME NEW op, LoopFits(op), op.call.op = "mm", Len(op.call.ins) = 2,
           NEW c, c.op = "mm8", Has(c, {"op", "ins", "out", "trL", "trR", "act"}),
           NEW X, c.ins \in Seq(X), \A v \in X : IsView(v), IsView(c.out),
           Len(c.ins) \in {2, 3}, c.ins[1] = op.call.ins[1], c.ins[2] = op.call.ins[2],
           c.trL = op.call.trL, c.trR = op.call.trR,
           c.out.size = op.call.out.size, c.out.step = Packed(c.out.size),
           Len(c.ins) = 3 => c.ins[3].size = <<1, c.out.size[3]>>
    PROVE  VerifiesMatmul(OnSlice(c, 0)) /\ IsImage(c.out)
<1> DEFINE call == op.call
           s == OnSlice(call, 0)
           t == OnSlice(c, 0)
<1>1. /\ IsOp(call) /\ IsImage(call.ins[1]) /\ IsImage(call.ins[2]) /\ IsImage(call.out)
      /\ VerifiesMatmul(s) /\ Has(call, {"op", "ins", "out", "trL", "trR", "accumulate"})
  BY DEF LoopFits, IsOp, Has
<1>2. /\ s.ins = Sliced(call.ins, 0) /\ s.out = SliceOf(call.out, 0) /\ s.trL = call.trL /\ s.trR = call.trR
      /\ s.op = "mm"
  <2>1. Has(call, {"op", "ins", "out", "trL", "trR"})
    BY <1>1 DEF Has
  <2> QED BY <2>1, OnSliceIs
<1>3. /\ t.ins = Sliced(c.ins, 0) /\ t.out = SliceOf(c.out, 0) /\ t.trL = call.trL /\ t.trR = call.trR
      /\ t.op = "mm8"
  <2>1. Has(c, {"op", "ins", "out", "trL", "trR"})
    BY DEF Has
  <2> QED BY <2>1, OnSliceIs
<1>4. call.ins \in Seq(Range(call.ins)) /\ IsView(call.out)
  BY <1>1, ViewsOf
<1> HIDE DEF s, t, call
<1>5. Len(s.ins) = 2 /\ s.ins[1] = SliceOf(call.ins[1], 0) /\ s.ins[2] = SliceOf(call.ins[2], 0)
  <2>1. Len(Sliced(call.ins, 0)) = Len(call.ins)
        /\ \A n \in 1..Len(call.ins) : Sliced(call.ins, 0)[n] =
              IF Len(call.ins[n].size) = 3 THEN SliceOf(call.ins[n], 0) ELSE call.ins[n]
    BY <1>4, SlicedIs
  <2>2. Len(call.ins) = 2
    BY DEF call
  <2> QED BY <1>1, <1>2, <2>1, <2>2 DEF IsImage
<1>6. /\ Len(t.ins) = Len(c.ins) /\ t.ins[1] = SliceOf(call.ins[1], 0) /\ t.ins[2] = SliceOf(call.ins[2], 0)
      /\ Len(c.ins) = 3 => t.ins[3] = c.ins[3]
  <2>1. Len(Sliced(c.ins, 0)) = Len(c.ins)
        /\ \A n \in 1..Len(c.ins) : Sliced(c.ins, 0)[n] =
              IF Len(c.ins[n].size) = 3 THEN SliceOf(c.ins[n], 0) ELSE c.ins[n]
    BY SlicedIs
  <2>2. 1 \in 1..Len(c.ins) /\ 2 \in 1..Len(c.ins) /\ (Len(c.ins) = 3 => 3 \in 1..Len(c.ins))
    OBVIOUS
  <2>3. c.ins[1] = call.ins[1] /\ c.ins[2] = call.ins[2]
    BY DEF call
  <2>4. Len(c.ins) = 3 => Len(c.ins[3].size) = 2
    OBVIOUS
  <2> DEFINE y == Sliced(c.ins, 0)
             at(k) == IF Len(c.ins[k].size) = 3 THEN SliceOf(c.ins[k], 0) ELSE c.ins[k]
  <2>5. Len(y) = Len(c.ins) /\ y[1] = at(1) /\ y[2] = at(2) /\ (Len(c.ins) = 3 => y[3] = at(3))
    <3> HIDE DEF y, at
    <3>1. \A k \in 1..Len(c.ins) : y[k] = at(k)
      BY <2>1 DEF y, at
    <3>2. Len(y) = Len(c.ins)
      BY <2>1 DEF y
    <3> QED BY <2>2, <3>1, <3>2
  <2>6. at(1) = SliceOf(call.ins[1], 0) /\ at(2) = SliceOf(call.ins[2], 0)
    BY <1>1, <2>3 DEF IsImage
  <2>7. Len(c.ins) = 3 => at(3) = c.ins[3]
    BY <2>4
  <2> HIDE DEF at, y
  <2> QED BY <1>3, <2>5, <2>6, <2>7 DEF y
<1>7. c.out.size = call.out.size
  BY DEF call
<1>8. Len(c.out.size) = 3 /\ Len(call.out.size) = 3
  BY <1>1, <1>7 DEF IsImage
<1>9. t.out.size = s.out.size /\ s.out.size[2] = c.out.size[3] /\ t.out.step[2] = c.out.step[3]
  <2> DEFINE v == c.out
             w == call.out
  <2>1. IsView(v) /\ IsView(w) /\ Len(v.size) = 3 /\ Len(w.size) = 3 /\ v.size = w.size
    BY <1>4, <1>7, <1>8
  <2> HIDE DEF v, w
  <2>2. SliceOf(v, 0).size = Tail(v.size) /\ SliceOf(v, 0).step = Tail(v.step) /\ Tail(v.step)[2] = v.step[3]
    BY <2>1, SliceIs
  <2>3. SliceOf(w, 0).size = Tail(w.size) /\ Tail(w.size)[2] = w.size[3]
    BY <2>1, SliceIs
  <2> QED BY <1>2, <1>3, <2>1, <2>2, <2>3 DEF v, w
<1>10. c.out.step[3] = 1
  <2>1. c.out.size \in Seq(Nat \ {0})
    BY DEF IsView
  <2> QED BY <1>8, <2>1, PackedImage
<1>11. HasRowStride(t.out)
  BY <1>9, <1>10 DEF HasRowStride
<1>12. VerifiesMatmul(t)
  <2>1. Len(t.ins) = 3 => t.ins[3].size[1] = 1 /\ t.ins[3].size[2] = s.out.size[2]
    BY <1>6, <1>9
  <2> QED BY <1>1, <1>2, <1>3, <1>5, <1>6, <1>9, <1>11, <2>1 DEF VerifiesMatmul
<1> QED BY <1>8, <1>12 DEF t, IsImage

LEMMA LoopScaledIs ==
    ASSUME NEW op, LoopFits(op), op.call.op = "mm", Len(op.call.ins) = 2, NEW ops, op \in ops,
           NEW n, n.op = "loop", Has(n, {"op", "call"}),
           n.call.op = "mm8", Has(n.call, {"op", "ins", "out", "trL", "trR", "act"}),
           NEW X, n.call.ins \in Seq(X), \A v \in X : IsView(v), IsView(n.call.out),
           Len(n.call.ins) \in {2, 3}, n.call.ins[1] = op.call.ins[1], n.call.ins[2] = op.call.ins[2],
           n.call.trL = op.call.trL, n.call.trR = op.call.trR,
           n.call.out.size = op.call.out.size, n.call.out.step = Packed(n.call.out.size),
           Len(n.call.ins) = 3 => n.call.ins[3].size = <<1, n.call.out.size[3]>>
    PROVE  Fits(n) /\ Inherits(n, ops)
<1> DEFINE c == n.call
<1>1. VerifiesMatmul(OnSlice(c, 0)) /\ IsImage(c.out)
  BY SlicesScaled
<1>2. IsOp(c)
  <2>1. Has(c, {"op", "ins", "out"})
    BY DEF Has
  <2> QED BY <2>1, IsOpOf
<1>3. IsImage(c.ins[1]) /\ IsImage(c.ins[2])
  BY DEF LoopFits
<1>4. Has(c, {"trL", "trR", "act"})
  BY DEF Has
<1>5. LoopFits(n)
  BY <1>1, <1>2, <1>3, <1>4 DEF LoopFits
<1> QED BY <1>5, LoopIs
LEMMA AllocOfIs ==
    ASSUME NEW f, WellFormed(f), NEW v, IsLocal(v, f)
    PROVE  /\ AllocOf(v, f) \in Positions(f.block) /\ f.block[AllocOf(v, f)].op = "alloc"
           /\ f.block[AllocOf(v, f)].out = v /\ f.block[AllocOf(v, f)] \in Range(f.block)
<1>1. \E j \in Positions(f.block) : f.block[j].op = "alloc" /\ f.block[j].out = v
  BY DEF IsLocal
<1>2. /\ AllocOf(v, f) \in Positions(f.block)
      /\ f.block[AllocOf(v, f)].op = "alloc" /\ f.block[AllocOf(v, f)].out = v
  BY <1>1, Zenon DEF AllocOf
<1> QED BY <1>2, OpOf

LEMMA Joined ==
    ASSUME NEW X, NEW s \in Seq(X), NEW t \in Seq(X)
    PROVE  /\ s \o t \in Seq(X)
           /\ Len(s) = 2 /\ Len(t) \in {0, 1} =>
                 /\ Len(s \o t) = 2 + Len(t) /\ (s \o t)[1] = s[1] /\ (s \o t)[2] = s[2]
                 /\ Len(t) = 1 => (s \o t)[3] = t[1]
<1> DEFINE w == s \o t
           n == Len(s)
           k == Len(t)
<1>1. n \in Nat /\ k \in Nat
  OBVIOUS
<1>2. w \in Seq(X) /\ Len(w) = n + k /\ \A j \in 1..n + k : w[j] = IF j <= n THEN s[j] ELSE t[j - n]
  BY ConcatProperties
<1> HIDE DEF w, n, k
<1>3. ASSUME n = 2, k \in {0, 1}
      PROVE  /\ Len(w) = 2 + k /\ w[1] = s[1] /\ w[2] = s[2]
             /\ k = 1 => w[3] = t[1]
  <2>1. Len(w) = 2 + k
    BY <1>2, <1>3
  <2>2. \A j \in 1..2 + k : w[j] = IF j <= 2 THEN s[j] ELSE t[j - 2]
    BY <1>2, <1>3
  <2>3. w[1] = s[1] /\ w[2] = s[2]
    <3>1. 1 \in 1..2 + k /\ 2 \in 1..2 + k
      BY <1>1, <1>3
    <3> QED BY <2>2, <3>1
  <2>4. k = 1 => w[3] = t[1]
    BY <2>2
  <2> QED BY <2>1, <2>3, <2>4
<1> QED BY <1>2, <1>3 DEF w, n, k

LEMMA FoldRequantizeIntoBatchKeeps ==
    ASSUME NEW f, WellFormed(f), NEW i \in BlockOf(f), NEW g \in FoldRequantizeIntoBatchMatmul(f, i)
    PROVE  WellFormed(g)
<1> DEFINE op == f.block[i]
           ops == Range(f.block)
           call == op.call
           acc == call.out
           out(n) == f.block[n].out
           row(q) == IF q.bias = <<>> THEN <<>> ELSE <<Row(q.bias[1])>>
           moves(n) == IsLocal(out(n), f) /\ AllocOf(out(n), f) > i
           before(n, q) == (IF moves(n) THEN <<f.block[AllocOf(out(n), f)]>> ELSE <<>>)
                           \o (IF row(q) = <<>> THEN <<>> ELSE <<NewView(q.bias[1], row(q)[1])>>)
           loop(n, q) == [op |-> "loop", call |->
                            [op |-> "mm8", ins |-> call.ins \o row(q), out |-> out(n), trL |-> call.trL,
                             trR |-> call.trR, scale |-> q.scale, act |-> q.act]]
           asks(n, q) == /\ out(n).size = acc.size /\ IsIdentity(out(n))
                         /\ \/ out(n).via = "buffer"
                            \/ \E j \in 1..(i - 1) : f.block[j].op = "view" /\ f.block[j].out = out(n)
           gone(n) == {i, n} \cup (IF moves(n) THEN {AllocOf(out(n), f)} ELSE {})
           made(n, q) == [f EXCEPT !.block =
                             Edit(f.block, gone(n), InFrontOf(i, Append(before(n, q), loop(n, q))))]
           scaled(n, q) == IF asks(n, q) THEN {made(n, q)} ELSE {}
           R(n) == Requantize(f, f.block[n], acc)
           S == {n \in NextUseOfBuffer(f, i, acc) :
                    UntouchedBetween(f.block, i, n, Range(call.ins)) /\ UnreadAfter(f, n, acc)}
<1>1. op.op = "loop" /\ call.op = "mm" /\ ~call.accumulate /\ Len(call.ins) = 2 /\ IsLocal(acc, f)
  BY Zenon DEF FoldRequantizeIntoBatchMatmul
<1>2. g \in UNION {UNION {scaled(n, q) : q \in R(n)} : n \in S}
  BY Zenon DEF FoldRequantizeIntoBatchMatmul
<1>3. \E n \in S : \E q \in R(n) : g \in scaled(n, q)
  <2> HIDE DEF S, scaled, R
  <2> QED BY <1>2
<1>4. PICK n \in NextUseOfBuffer(f, i, acc) :
            \E q \in Requantize(f, f.block[n], acc) : asks(n, q) /\ g = made(n, q)
  <2>1. PICK n \in S : \E q \in R(n) : g \in scaled(n, q)
    BY <1>3
  <2>2. PICK q \in R(n) : g \in scaled(n, q)
    BY <2>1
  <2>3. asks(n, q) /\ g = made(n, q)
    <3> HIDE DEF asks, made
    <3> QED BY <2>2
  <2> HIDE DEF asks, made
  <2> QED BY <2>3
<1>5. PICK q \in Requantize(f, f.block[n], acc) : asks(n, q) /\ g = made(n, q)
  BY <1>4, Zenon
<1> DEFINE x == f.block[n]
           o == x.out
           d == x.ins[2]
           r == Row(d)
           v == NewView(d, r)
           l == loop(n, q)
           c == l.call
           a == f.block[AllocOf(o, f)]
           N == {l} \cup (IF q.bias = <<>> THEN {} ELSE {v})
<1>6. i \in Positions(f.block) /\ n \in Positions(f.block)
  BY NextUseOfBufferIs DEF BlockOf
<1>7. LoopFits(op) /\ op \in ops /\ Fits(x) /\ x \in ops
  BY <1>1, <1>6, OpOf DEF Fits
<1>8. q \in Requantize(f, x, acc) /\ Fits(x) /\ o.size = acc.size /\ o.step = Packed(o.size)
  BY <1>5, <1>7 DEF IsIdentity
<1>9. /\ IsOp(x) /\ IsView(o)
      /\ q.bias = <<>> \/ (q.bias = <<d>> /\ IsView(d) /\ d.size = LastOf(o) /\ Len(d.size) = 1)
  <2> HIDE DEF x, acc
  <2> QED BY <1>8, RequantizeIs
<1>10. IsImage(acc) /\ IsOp(call)
  BY <1>7 DEF LoopFits
<1>11. q.bias # <<>> => IsView(r) /\ r.via = "reshape" /\ r.size = <<1, o.size[3]>>
  <2> SUFFICES ASSUME q.bias # <<>> PROVE IsView(r) /\ r.via = "reshape" /\ r.size = <<1, o.size[3]>>
    OBVIOUS
  <2>1. IsView(d) /\ Len(d.size) = 1 /\ d.size = LastOf(o)
    BY <1>9
  <2>2. d.size[1] = o.size[3]
    <3>1. LastOf(o) = <<o.size[3]>>
      BY <1>8, <1>10 DEF LastOf, IsImage
    <3> HIDE DEF d, o
    <3> QED BY <2>1, <3>1
  <2> HIDE DEF d
  <2>3. IsView(r) /\ r.via = "reshape" /\ r.size = <<1, d.size[1]>>
    BY <2>1, RowIs
  <2> QED BY <2>2, <2>3
<1>12. row(q) = IF q.bias = <<>> THEN <<>> ELSE <<r>>
  BY <1>9
<1>13. row(q) = <<>> <=> q.bias = <<>>
  OBVIOUS
<1>14. /\ l.op = "loop" /\ Has(l, {"op", "call"}) /\ l.call = c /\ c.op = "mm8"
       /\ c.ins = call.ins \o row(q) /\ c.out = o /\ c.trL = call.trL /\ c.trR = call.trR
       /\ Has(c, {"op", "ins", "out", "trL", "trR", "act"})
  BY DEF Has
<1>15. before(n, q) = (IF moves(n) THEN <<a>> ELSE <<>>) \o (IF q.bias = <<>> THEN <<>> ELSE <<v>>)
  <2>1. q.bias # <<>> => q.bias[1] = d /\ row(q)[1] = r
    BY <1>9
  <2> HIDE DEF d, r, moves
  <2> QED BY <1>13, <2>1
<1>16. moves(n) => a \in ops
  <2> HIDE DEF ops
  <2> QED BY AllocOfIs DEF ops
<1>17. g = [f EXCEPT !.block = Edit(f.block, gone(n), InFrontOf(i, Append(before(n, q), l)))]
  BY <1>5
<1> HIDE DEF l, c, r, v, row, before, moves, gone, o, d, a, x, asks, made, acc
<1>18. Fits(l) /\ Inherits(l, ops)
  <2> DEFINE X == Range(call.ins) \cup (IF q.bias = <<>> THEN {} ELSE {r})
             t == row(q)
  <2>1. \A w \in X : IsView(w)
    BY <1>10, <1>11 DEF IsOp
  <2>2. call.ins \in Seq(X) /\ t \in Seq(X) /\ Len(t) \in {0, 1} /\ (Len(t) = 1 => q.bias # <<>> /\ t[1] = r)
    <3>1. call.ins \in Seq(Range(call.ins))
      BY <1>10 DEF IsOp
    <3>2. Range(call.ins) \subseteq X
      OBVIOUS
    <3>3. q.bias # <<>> => r \in X
      OBVIOUS
    <3> HIDE DEF X, call
    <3>4. call.ins \in Seq(X)
      BY <3>1, <3>2, SeqMonotonic
    <3>5. CASE q.bias = <<>>
      BY <1>12, <3>4, <3>5
    <3>6. CASE q.bias # <<>>
      BY <1>12, <3>3, <3>4, <3>6
    <3> QED BY <3>5, <3>6
  <2> HIDE DEF X, t
  <2>3. /\ c.ins \in Seq(X) /\ Len(c.ins) = 2 + Len(t) /\ c.ins[1] = call.ins[1] /\ c.ins[2] = call.ins[2]
        /\ Len(t) = 1 => c.ins[3] = r
    <3> DEFINE s == call.ins
    <3>1. Len(s) = 2 /\ s \in Seq(X)
      BY <1>1, <2>2
    <3>2. c.ins = s \o t
      BY <1>14 DEF t
    <3> HIDE DEF s
    <3>3. /\ s \o t \in Seq(X) /\ Len(s \o t) = 2 + Len(t) /\ (s \o t)[1] = s[1] /\ (s \o t)[2] = s[2]
          /\ Len(t) = 1 => (s \o t)[3] = t[1]
      BY <2>2, <3>1, Joined
    <3> QED BY <2>2, <3>2, <3>3 DEF s
  <2>4. Len(c.ins) \in {2, 3} /\ (Len(c.ins) = 3 => c.ins[3].size = <<1, c.out.size[3]>>)
    <3> DEFINE all == Len(c.ins)
               few == Len(t)
    <3>1. all \in {2, 3} /\ (all = 3 => few = 1)
      <4>1. all = 2 + few /\ few \in {0, 1}
        BY <2>2, <2>3
      <4> HIDE DEF all, few
      <4> QED BY <4>1
    <3>2. Len(c.ins) = 3 => Len(t) = 1
      BY <3>1
    <3>3. Len(t) = 1 => c.ins[3].size = <<1, c.out.size[3]>>
      BY <1>11, <1>14, <2>2, <2>3
    <3> QED BY <3>1, <3>2, <3>3
  <2>5. c.out.size = call.out.size /\ c.out.step = Packed(c.out.size) /\ IsView(c.out)
    BY <1>8, <1>9, <1>14 DEF acc
  <2> HIDE DEF ops, op
  <2> QED BY <1>1, <1>7, <1>14, <2>1, <2>3, <2>4, <2>5, LoopScaledIs DEF call
<1>19. q.bias # <<>> => Fits(v) /\ Inherits(v, ops)
  BY <1>9, <1>11, NewViewFits DEF v
<1>20. \A k \in N : Fits(k) /\ Inherits(k, ops)
  BY <1>18, <1>19
<1>21. Append(before(n, q), l) \in Seq(ops \cup N)
  <2> DEFINE Y == ops \cup N
             first == IF moves(n) THEN <<a>> ELSE <<>>
             second == IF q.bias = <<>> THEN <<>> ELSE <<v>>
  <2>1. (moves(n) => a \in Y) /\ (q.bias # <<>> => v \in Y) /\ l \in Y
    BY <1>16
  <2> HIDE DEF Y
  <2>2. first \in Seq(Y)
    BY <2>1
  <2>3. second \in Seq(Y)
    BY <2>1
  <2> HIDE DEF first, second
  <2>4. first \o second \in Seq(Y)
    BY <2>2, <2>3, ConcatProperties
  <2> QED BY <1>15, <2>1, <2>4, AppendProperties DEF Y, first, second
<1>22. f.block \in Seq(ops \cup N)
  BY BlockType DEF ops
<1> HIDE DEF N
<1> QED BY <1>17, <1>20, <1>21, <1>22, EditedWith DEF ops
-----------------------------------------------------------------------------
(* A quantized convolution. *)

LEMMA QuadIs ==
    ASSUME NEW X, NEW s \in Seq(X), Len(s) = 4
    PROVE  s = <<s[1], s[2], s[3], s[4]>>
OBVIOUS

LEMMA AtMostOne ==
    ASSUME NEW X, NEW s \in Seq(X), Len(s) <= 1
    PROVE  s = <<>> \/ (Len(s) = 1 /\ s = <<s[1]>> /\ s[1] \in X /\ s[1] \in Range(s))
<1>1. Len(s) \in Nat /\ s \in [1..Len(s) -> X]
  OBVIOUS
<1>2. CASE Len(s) = 0
  BY <1>2
<1>3. CASE Len(s) = 1
  <2>1. s[1] \in X /\ s = <<s[1]>>
    BY <1>1, <1>3
  <2>2. s[1] \in Range(s)
    BY <1>3, RangeType DEF Positions
  <2> QED BY <1>3, <2>1, <2>2
<1> QED BY <1>1, <1>2, <1>3

LEMMA TailsAre ==
    ASSUME NEW f, WellFormed(f), NEW i \in Positions(f.block), NEW t \in Tails(f, i)
    PROVE  LET op == f.block[i]
               x == f.block[t.at]
           IN /\ t.at \in Positions(f.block) /\ IsView(x.out) /\ x.out.size = op.out.size
              /\ RowsFollowTheStride(op.ins[1]) /\ RowsFollowTheStride(x.out)
              /\ \/ t.bias = <<>>
                 \/ t.bias = <<t.bias[1]>> /\ IsView(t.bias[1]) /\ t.bias[1].size = <<op.out.size[3]>>
<1> DEFINE op == f.block[i]
           next == NextUse(f.block, i, op.out)
           biased == {n \in next : IsBiasAdd(f.block[n], op.out) /\ Len(f.block[n].ins[1].size) = 1}
           ends == IF biased = {} THEN next ELSE NextUse(f.block, Max(biased), op.out)
           bias == IF biased = {} THEN <<>> ELSE f.block[Max(biased)].ins
           R(n) == Requantize(f, f.block[n], op.out)
           U == UNION {{n} \X R(n) : n \in ends}
           channel(v) == v.size = <<op.out.size[3]>> /\ Type(f, v) = "i32"
           P(y) == /\ Len(bias \o y[2].bias) <= 1
                   /\ \A v \in Range(bias \o y[2].bias) : channel(v)
                   /\ UntouchedBetween(f.block, i, y[1], Range(op.ins))
                   /\ f.block[y[1]].out.size = op.out.size
                   /\ OnlyFreedAfter(f.block, y[1], op.out)
                   /\ RowsFollowTheStride(op.ins[1]) /\ RowsFollowTheStride(f.block[y[1]].out)
           tail(y) == [adds |-> biased, at |-> y[1], q |-> y[2], bias |-> bias \o y[2].bias]
<1>1. \E y \in U : P(y) /\ t = tail(y)
  <2>1. t \in {tail(y) : y \in {z \in U : P(z)}}
    BY Zenon DEF Tails
  <2> HIDE DEF tail, U, P
  <2> QED BY <2>1
<1>2. PICK y \in U : P(y) /\ t = tail(y)
  BY <1>1, Zenon
<1>3. \E n \in ends : y[1] = n /\ y[2] \in R(n)
  <2>1. PICK n \in ends : y \in {n} \X R(n)
    <3> HIDE DEF ends, R
    <3> QED BY <1>2
  <2> HIDE DEF R, ends
  <2> QED BY <2>1
<1> DEFINE n == y[1]
           q == y[2]
           x == f.block[n]
<1>4. n \in ends /\ q \in R(n)
  BY <1>3
<1>5. t.at = n /\ t.bias = bias \o q.bias
  BY <1>2
<1>6. P(y)
  BY <1>2
<1>7. f.block \in Seq(Range(f.block))
  BY DEF WellFormed
<1>8. ASSUME biased # {}
      PROVE  /\ Max(biased) \in Positions(f.block) /\ Max(biased) \in biased
  <2>1. PICK m : m \in next /\ next = {m} /\ m \in Positions(f.block)
    <3>1. PICK m : m \in next
      BY <1>8
    <3> QED BY <1>7, <3>1, NextUseIs
  <2>2. biased = {m}
    <3> HIDE DEF next
    <3> QED BY <1>8, <2>1
  <2>3. {m} \in SUBSET (1..Len(f.block)) /\ {m} # {} /\ Len(f.block) \in Nat
    BY <1>7, <2>1 DEF Positions
  <2> HIDE DEF biased
  <2>4. Max({m}) \in {m}
    BY <2>3, GreatestOf
  <2> QED BY <2>1, <2>2, <2>4
<1>9. n \in Positions(f.block)
  <2>1. CASE biased = {}
    <3>1. n \in next
      BY <1>4, <2>1
    <3> HIDE DEF biased, n
    <3> QED BY <1>7, <3>1, NextUseIs
  <2>2. CASE biased # {}
    <3>1. n \in NextUse(f.block, Max(biased), op.out)
      BY <1>4, <2>2
    <3>2. Max(biased) \in Positions(f.block)
      BY <1>8, <2>2
    <3> HIDE DEF biased, n, op
    <3> QED BY <1>7, <3>1, <3>2, NextUseIs
  <2> QED BY <2>1, <2>2
<1>10. Fits(x)
  BY <1>9, OpOf
<1> DEFINE V == {v \in Range(bias) \cup Range(q.bias) : IsView(v)}
<1>11. bias \in Seq(V)
  <2>1. CASE biased = {}
    <3>1. bias = <<>>
      BY <2>1
    <3> HIDE DEF bias, V
    <3> QED BY <3>1
  <2>2. CASE biased # {}
    <3> DEFINE m == Max(biased)
               b == f.block[m]
    <3>1. m \in Positions(f.block) /\ IsBiasAdd(b, op.out)
      BY <1>8, <2>2
    <3> HIDE DEF m
    <3>2. Fits(b) /\ b.op = "generic"
      BY <3>1, OpOf DEF IsBiasAdd
    <3>3. IsOp(b)
      BY <3>2 DEF Fits
    <3>4. b.ins \in Seq(Range(b.ins)) /\ \A v \in Range(b.ins) : IsView(v)
      BY <3>3 DEF IsOp
    <3>5. bias = b.ins
      BY <2>2 DEF m
    <3> HIDE DEF b, bias
    <3>6. Range(b.ins) \subseteq V
      BY <3>4, <3>5
    <3> HIDE DEF V
    <3> QED BY <3>4, <3>5, <3>6, SeqMonotonic
  <2> QED BY <2>1, <2>2
<1>12. q.bias \in Seq(V) /\ IsView(x.out)
  <2> DEFINE acc == op.out
             w == x.ins[2]
  <2>1. q \in Requantize(f, x, acc)
    BY <1>4
  <2> HIDE DEF x, acc, q
  <2>2. IsView(x.out) /\ (q.bias = <<>> \/ (q.bias = <<w>> /\ IsView(w)))
    <3>1. Fits(x)
      BY <1>10
    <3> HIDE DEF w
    <3>2. /\ IsOp(x) /\ IsView(x.out)
          /\ \/ q.bias = <<>>
             \/ /\ q.bias = <<x.ins[2]>> /\ IsView(x.ins[2])
                /\ x.ins[2].size = LastOf(x.out) /\ Len(x.ins[2].size) = 1
      BY <2>1, <3>1, RequantizeIs
    <3> QED BY <3>2 DEF w
  <2> HIDE DEF bias, w
  <2>3. CASE q.bias = <<>>
    BY <2>2, <2>3
  <2>4. CASE q.bias = <<w>> /\ IsView(w)
    <3>1. w \in Range(q.bias)
      <4>1. q.bias \in Seq({w}) /\ Len(q.bias) = 1 /\ q.bias[1] = w
        BY <2>4
      <4> QED BY <4>1, RangeType DEF Positions
    <3>2. w \in V
      BY <2>4, <3>1
    <3> HIDE DEF V
    <3> QED BY <2>2, <2>4, <3>2
  <2> QED BY <2>2, <2>3, <2>4
<1> DEFINE all == bias \o q.bias
<1>13. all \in Seq(V)
  <2> HIDE DEF bias, V, q
  <2> QED BY <1>11, <1>12, ConcatProperties
<1>14. /\ Len(all) <= 1 /\ \A v \in Range(all) : v.size = <<op.out.size[3]>>
       /\ x.out.size = op.out.size /\ RowsFollowTheStride(op.ins[1]) /\ RowsFollowTheStride(x.out)
  BY <1>6, Zenon
<1>15. \A v \in V : IsView(v)
  OBVIOUS
<1> HIDE DEF all, V
<1>16. all = <<>> \/ (all = <<all[1]>> /\ IsView(all[1]) /\ all[1].size = <<op.out.size[3]>>)
  <2>1. all = <<>> \/ (Len(all) = 1 /\ all = <<all[1]>> /\ all[1] \in V /\ all[1] \in Range(all))
    BY <1>13, <1>14, AtMostOne
  <2> QED BY <1>14, <1>15, <2>1, Zenon
<1>17. t.bias = all /\ t.at = n
  BY <1>5 DEF all
<1> HIDE DEF n
<1> QED BY <1>9, <1>12, <1>14, <1>16, <1>17
\* A convolution call that reads a dense image, without a pool.
LEMMA ConvCallIs ==
    ASSUME NEW c, c.op \in {"conv8", "dw8"}, NEW X, Has(c, {"op", "ins", "out"}),
           c.ins \in Seq(X), \A v \in X : IsView(v), IsView(c.out), ConvCallFits(c), NEW ops,
           c.spread = 2 /\ c.pad = 0 => c.ins[1] \in Spread(ops)
    PROVE  Fits(c) /\ Inherits(c, ops)
<1>1. IsOp(c)
  BY IsOpOf
<1>2. Fits(c)
  BY <1>1 DEF Fits, IsWindow
<1>3. Held(c) = {} /\ Asked(c) = {}
  BY DEF Held, Asked
<1>4. Inherits(c, ops)
  BY <1>3 DEF Inherits, IsWindow
<1> QED BY <1>2, <1>4

\* What stands for a convolution of the host.
StandsFor(c, op) ==
    /\ c.op = (IF op.op = "conv" THEN "conv8" ELSE "dw8")
    /\ Has(c, {"op", "ins", "out", "stride", "dilation", "pad", "spread", "pool", "act"})
    /\ Len(c.ins) \in {2, 3} /\ c.ins[1] = op.ins[1]
    /\ IF op.op = "conv" THEN c.ins[2] = op.ins[2]
       ELSE /\ c.ins[2].size = <<op.ins[2].size[3], op.ins[2].size[1], op.ins[2].size[2]>>
            /\ op.ins[1].size[3] = op.ins[2].size[3] /\ op.out.size[3] = op.ins[2].size[3]
    /\ Len(c.ins) = 3 => c.ins[3].size = <<op.out.size[3]>>
    /\ c.stride = op.stride /\ c.dilation = op.dilation /\ c.pad = 0 /\ c.spread = 1 /\ c.pool = NoPool
    /\ c.out.size = op.out.size /\ RowsFollowTheStride(c.ins[1]) /\ RowsFollowTheStride(c.out)

LEMMA OfConvolution ==
    ASSUME NEW op, Fits(op), op.op \in {"conv", "dw"}, Square(op.ins[2].size),
           NEW c, StandsFor(c, op), NEW X, c.ins \in Seq(X), \A v \in X : IsView(v), IsView(c.out), NEW ops
    PROVE  Fits(c) /\ Inherits(c, ops)
<1> USE DEF StandsFor
<1> DEFINE x == op.ins[1]
           w == op.ins[2]
           k == w.size[1]
<1>1. IsOp(op) /\ WindowsFit(op)
  BY DEF Fits
<1>2. /\ Len(op.ins) = 2 /\ op.stride \in Pair /\ op.dilation \in Pair /\ IsImage(x) /\ IsImage(op.out)
      /\ IF op.op = "dw" THEN Len(w.size) = 3
         ELSE Len(w.size) = 4 /\ w.size[3] = x.size[3] /\ w.size[4] = op.out.size[3]
      /\ \A e \in 1..2 : op.out.size[e] = Extent(x.size[e], w.size[e], op.stride[e], 0, op.dilation[e])
  BY <1>1 DEF WindowsFit
<1>3. IsView(x) /\ IsView(w) /\ IsView(op.out)
  BY <1>1, <1>2, ViewsOf
<1>4. w.size[1] = w.size[2] /\ k \in Nat \ {0}
  <2>1. w.size \in Seq(Nat \ {0}) /\ Len(w.size) >= 1
    <3>1. IsView(w) /\ (IF op.op = "dw" THEN Len(w.size) = 3 ELSE Len(w.size) = 4)
      BY <1>2, <1>3, Zenon
    <3> HIDE DEF w
    <3>2. w.size \in Seq(Nat \ {0})
      BY <3>1 DEF IsView
    <3>3. Len(w.size) >= 1
      <4> DEFINE n == Len(w.size)
      <4>1. n = 3 \/ n = 4
        BY <3>1
      <4> HIDE DEF n
      <4>2. n >= 1
        BY <4>1
      <4> QED BY <4>2 DEF n
    <3> QED BY <3>2, <3>3
  <2>2. k \in Nat \ {0}
    BY <2>1, ElementOfSeq
  <2> QED BY <2>2 DEF Square
<1>5. FilterSide(c) = k
  <2>1. CASE op.op = "conv"
    BY <2>1 DEF FilterSide
  <2>2. CASE op.op = "dw"
    BY <2>2, <1>4 DEF FilterSide
  <2> QED BY <2>1, <2>2
<1>6. \A e \in 1..2 : x.size[e] \in Nat \ {0} /\ op.out.size[e] \in Nat \ {0}
  <2>1. x.size \in Seq(Nat \ {0}) /\ op.out.size \in Seq(Nat \ {0}) /\ Len(x.size) = 3 /\ Len(op.out.size) = 3
    BY <1>2, <1>3 DEF IsView, IsImage
  <2> HIDE DEF x
  <2> QED BY <2>1
<1>7. \A e \in 1..2 : w.size[e] = k
  BY <1>4
<1>8. \A e \in 1..2 : ConvExtent(c, e) = op.out.size[e]
  <2> SUFFICES ASSUME NEW e \in 1..2 PROVE ConvExtent(c, e) = op.out.size[e]
    OBVIOUS
  <2>1. 1 * (x.size[e] - 1) + 1 = x.size[e]
    <3> DEFINE n == x.size[e]
    <3>1. n \in Nat
      BY <1>6
    <3> HIDE DEF n
    <3>2. 1 * (n - 1) + 1 = n
      BY <3>1
    <3> QED BY <3>2 DEF n
  <2>2. ConvExtent(c, e) = Extent(c.spread * (c.ins[1].size[e] - 1) + 1, k, c.stride[e], c.pad, c.dilation[e])
    BY <1>5 DEF ConvExtent
  <2>3. c.spread = 1 /\ c.pad = 0 /\ c.ins[1] = x /\ c.stride = op.stride /\ c.dilation = op.dilation
    OBVIOUS
  <2>4. op.out.size[e] = Extent(x.size[e], k, op.stride[e], 0, op.dilation[e])
    BY <1>2, <1>7, Zenon
  <2> HIDE DEF x, k
  <2> QED BY <2>1, <2>2, <2>3, <2>4, Zenon
<1>9. c.pool.s = 0 /\ c.pool \in [k : Nat, s : Nat, p : Nat]
  BY DEF NoPool
<1>10. c.ins[2].size = IF c.op = "dw8" THEN <<x.size[3], k, k>> ELSE <<k, k, x.size[3], c.out.size[3]>>
  <2>1. CASE op.op = "conv"
    <3>1. w.size \in Seq(Nat \ {0}) /\ Len(w.size) = 4
      BY <1>2, <1>3, <2>1 DEF IsView
    <3> DEFINE s == w.size
    <3>2. s = <<s[1], s[2], s[3], s[4]>>
      <4> HIDE DEF s
      <4>1. s \in Seq(Nat \ {0}) /\ Len(s) = 4
        BY <3>1 DEF s
      <4> QED BY <4>1, QuadIs
    <3>3. s[2] = s[1] /\ s[3] = x.size[3] /\ s[4] = c.out.size[3] /\ c.ins[2].size = s
      BY <1>2, <1>4, <2>1
    <3> HIDE DEF s, x
    <3>4. c.ins[2].size = <<s[1], s[1], x.size[3], c.out.size[3]>>
      BY <3>2, <3>3
    <3>5. c.op # "dw8"
      BY <2>1
    <3> QED BY <3>4, <3>5, Zenon DEF s
  <2>2. CASE op.op = "dw"
    BY <1>4, <2>2
  <2> QED BY <2>1, <2>2
<1>11. VerifiesConv(c)
  <2>1. c.op = "dw8" => c.out.size[3] = c.ins[1].size[3]
    OBVIOUS
  <2>2. c.pad \in 0..(k - 1)
    BY <1>4
  <2>3. \A e \in 1..2 : ConvExtent(c, e) >= 1 /\ c.out.size[e] = PoolExtent(c, e)
    <3> SUFFICES ASSUME NEW e \in 1..2 PROVE ConvExtent(c, e) >= 1 /\ c.out.size[e] = PoolExtent(c, e)
      OBVIOUS
    <3>1. ConvExtent(c, e) = op.out.size[e] /\ op.out.size[e] \in Nat \ {0}
      BY <1>6, <1>8
    <3>2. PoolExtent(c, e) = ConvExtent(c, e)
      BY <1>9 DEF PoolExtent
    <3> QED BY <3>1, <3>2
  <2>4. c.ins[2].size = IF c.op = "dw8" THEN <<c.ins[1].size[3], FilterSide(c), FilterSide(c)>>
                        ELSE <<FilterSide(c), FilterSide(c), c.ins[1].size[3], c.out.size[3]>>
    <3> HIDE DEF x, k
    <3> QED BY <1>5, <1>10, Zenon DEF x
  <2>5. Len(c.ins) = 3 => c.ins[3].size = <<c.out.size[3]>>
    OBVIOUS
  <2>6. c.spread \in 1..2 /\ ~(c.spread > 1)
    OBVIOUS
  <2> HIDE DEF x, w, k
  <2> QED BY <1>5, <1>9, <2>1, <2>2, <2>3, <2>4, <2>5, <2>6 DEF VerifiesConv
<1>12. ConvCallFits(c)
  <2>1. Has(c, {"stride", "dilation", "pad", "spread", "pool", "act"})
    BY DEF Has
  <2>2. Len(c.ins[2].size) = (IF c.op = "dw8" THEN 3 ELSE 4)
    <3>1. CASE op.op = "conv"
      BY <1>2, <3>1
    <3>2. CASE op.op = "dw"
      <4> DEFINE a == w.size[3]
                 b == w.size[1]
                 d == w.size[2]
      <4>1. c.ins[2].size = <<a, b, d>> /\ c.op = "dw8"
        BY <3>2
      <4> HIDE DEF a, b, d
      <4>2. Len(<<a, b, d>>) = 3
        OBVIOUS
      <4> QED BY <4>1, <4>2
    <3> QED BY <3>1, <3>2
  <2>3. IsImage(c.ins[1]) /\ IsImage(c.out)
    BY <1>2 DEF IsImage
  <2> QED BY <1>2, <1>9, <1>11, <2>1, <2>2, <2>3 DEF ConvCallFits
<1>13. Has(c, {"op", "ins", "out"}) /\ c.op \in {"conv8", "dw8"} /\ c.spread # 2
  BY DEF Has
<1> HIDE DEF StandsFor
<1>14. c.spread = 2 /\ c.pad = 0 => c.ins[1] \in Spread(ops)
  BY <1>13
<1> QED BY <1>12, <1>13, <1>14, ConvCallIs
\* One value behind two.
LEMMA PairAnd ==
    ASSUME NEW X, NEW a \in X, NEW b \in X, NEW t, t = <<>> \/ (t = <<t[1]>> /\ t[1] \in X)
    PROVE  /\ <<a, b>> \o t \in Seq(X) /\ Len(<<a, b>> \o t) \in {2, 3}
           /\ (<<a, b>> \o t)[1] = a /\ (<<a, b>> \o t)[2] = b
           /\ Len(<<a, b>> \o t) = 3 => t # <<>> /\ (<<a, b>> \o t)[3] = t[1]
<1> DEFINE s == <<a, b>>
<1>1. s \in Seq(X) /\ Len(s) = 2 /\ s[1] = a /\ s[2] = b
  OBVIOUS
<1>2. t \in Seq(X) /\ Len(t) \in {0, 1} /\ (Len(t) = 1 => t # <<>>)
  <2>1. CASE t = <<>>
    BY <2>1
  <2>2. CASE t = <<t[1]>> /\ t[1] \in X
    <3> DEFINE z == t[1]
    <3>1. t = <<z>> /\ z \in X
      BY <2>2
    <3> HIDE DEF z
    <3> QED BY <3>1
  <2> QED BY <2>1, <2>2
<1> HIDE DEF s
<1>3. /\ s \o t \in Seq(X) /\ Len(s \o t) = 2 + Len(t) /\ (s \o t)[1] = s[1] /\ (s \o t)[2] = s[2]
      /\ Len(t) = 1 => (s \o t)[3] = t[1]
  BY <1>1, <1>2, Joined
<1> DEFINE all == Len(s \o t)
           few == Len(t)
<1>4. all = 2 + few /\ few \in {0, 1}
  BY <1>2, <1>3
<1>5. all \in {2, 3} /\ (all = 3 => few = 1)
  <2> HIDE DEF all, few
  <2> QED BY <1>4
<1> HIDE DEF all, few
<1>6. all = 3 => (s \o t)[3] = t[1] /\ t # <<>>
  BY <1>2, <1>3, <1>5 DEF few
<1>7. (s \o t)[1] = a /\ (s \o t)[2] = b
  BY <1>1, <1>3
<1> QED BY <1>3, <1>5, <1>6, <1>7 DEF s, all

LEMMA RelaidKeeps ==
    ASSUME NEW f, WellFormed(f), NEW w
    PROVE  WellFormed(WithRelaid(f, w)) /\ WithRelaid(f, w).block = f.block
<1> DEFINE g == WithRelaid(f, w)
<1>1. g.block = f.block /\ Has(g, {"block", "failed"})
  BY DEF WithRelaid, WellFormed, Has
<1> HIDE DEF g
<1>2. WellFormed(g)
  BY <1>1 DEF WellFormed
<1> QED BY <1>1, <1>2 DEF g

LEMMA FuseKeeps ==
    ASSUME NEW f, WellFormed(f), NEW i \in BlockOf(f), NEW g \in FuseQuantizedConv(f, i)
    PROVE  WellFormed(g)
<1> DEFINE op == f.block[i]
           ops == Range(f.block)
           w == op.ins[2]
           zero == ZeroFillFor(f.block, i, op.out)
           call(t, filter) ==
               [op |-> IF op.op = "conv" THEN "conv8" ELSE "dw8", ins |-> <<op.ins[1], filter>> \o t.bias,
                out |-> f.block[t.at].out, stride |-> op.stride, dilation |-> op.dilation, pad |-> 0,
                spread |-> 1, pool |-> NoPool, scale |-> t.q.scale, act |-> t.q.act]
           from == IF op.op = "dw" THEN WithRelaid(f, w) ELSE f
           filter == IF op.op = "dw" THEN Relaid(f, w) ELSE w
           made(t) == [from EXCEPT !.block = Edit(@, {i, t.at} \cup zero \cup t.adds,
                                                  InFrontOf(t.at, <<call(t, filter)>>))]
<1>1. /\ op.op \in {"conv", "dw"} /\ Square(w.size)
      /\ op.op = "dw" => op.ins[1].size[3] = w.size[3] /\ op.out.size[3] = w.size[3]
      /\ \E t \in Tails(f, i) : g = made(t)
  <2>1. /\ op.op \in {"conv", "dw"} /\ Square(w.size)
        /\ op.op = "dw" => op.ins[1].size[3] = w.size[3] /\ op.out.size[3] = w.size[3]
    BY Zenon DEF FuseQuantizedConv
  <2>2. g \in {made(t) : t \in Tails(f, i)}
    BY Zenon DEF FuseQuantizedConv
  <2> HIDE DEF made
  <2> QED BY <2>1, <2>2
<1>2. PICK t \in Tails(f, i) : g = made(t)
  BY <1>1
<1> DEFINE x == f.block[t.at]
           c == call(t, filter)
<1>3. i \in Positions(f.block)
  BY DEF BlockOf
<1>4. /\ IsView(x.out) /\ x.out.size = op.out.size
      /\ RowsFollowTheStride(op.ins[1]) /\ RowsFollowTheStride(x.out)
      /\ \/ t.bias = <<>>
         \/ t.bias = <<t.bias[1]>> /\ IsView(t.bias[1]) /\ t.bias[1].size = <<op.out.size[3]>>
  BY <1>3, TailsAre
<1>5. Fits(op)
  BY <1>3, OpOf
<1>6. IsView(op.ins[1]) /\ IsView(w)
  <2>1. IsOp(op) /\ Len(op.ins) = 2
    BY <1>1, <1>5 DEF Fits, WindowsFit
  <2> QED BY <2>1, ViewsOf
<1>7. IsView(filter) /\ (op.op = "dw" => filter.size = <<w.size[3], w.size[1], w.size[2]>>)
  <2>1. CASE op.op = "dw"
    <3> DEFINE s == <<w.size[3], w.size[1], w.size[2]>>
    <3>1. w.size \in Seq(Nat \ {0}) /\ Len(w.size) = 3
      BY <1>5, <1>6, <2>1 DEF Fits, WindowsFit, IsView
    <3>2. s \in Seq(Nat \ {0})
      <4> HIDE DEF w
      <4> QED BY <3>1
    <3>3. filter = Buffer(w.buf \o "_chw", s)
      BY <2>1 DEF Relaid
    <3> HIDE DEF s, filter
    <3>4. IsView(filter) /\ filter.size = s
      BY <3>2, <3>3, BufferIs
    <3> QED BY <3>4 DEF s
  <2>2. CASE op.op # "dw"
    BY <1>6, <2>2
  <2> QED BY <2>1, <2>2
<1>8. WellFormed(from) /\ from.block = f.block
  <2> HIDE DEF w
  <2> QED BY RelaidKeeps
<1>9. /\ c.op = (IF op.op = "conv" THEN "conv8" ELSE "dw8")
      /\ Has(c, {"op", "ins", "out", "stride", "dilation", "pad", "spread", "pool", "act"})
      /\ c.ins = <<op.ins[1], filter>> \o t.bias /\ c.out = x.out
      /\ c.stride = op.stride /\ c.dilation = op.dilation /\ c.pad = 0 /\ c.spread = 1 /\ c.pool = NoPool
  BY DEF Has
<1>10. op.op = "conv" => filter = w
  OBVIOUS
<1> HIDE DEF c, x, filter
<1> DEFINE X == {v \in {op.ins[1], filter, t.bias[1]} : IsView(v)}
<1>11. /\ c.ins \in Seq(X) /\ Len(c.ins) \in {2, 3} /\ c.ins[1] = op.ins[1] /\ c.ins[2] = filter
       /\ Len(c.ins) = 3 => t.bias # <<>> /\ c.ins[3] = t.bias[1]
  <2> DEFINE a == op.ins[1]
             b == t.bias
  <2>1. a \in X /\ filter \in X /\ (b = <<>> \/ (b = <<b[1]>> /\ b[1] \in X))
    <3>1. a \in X /\ filter \in X
      BY <1>6, <1>7
    <3>2. b = <<>> \/ (b = <<b[1]>> /\ IsView(b[1]))
      BY <1>4, Zenon
    <3>3. IsView(b[1]) => b[1] \in X
      OBVIOUS
    <3> HIDE DEF X, b
    <3> QED BY <3>1, <3>2, <3>3, Zenon
  <2>2. c.ins = <<a, filter>> \o b
    BY <1>9
  <2> HIDE DEF a, b, X
  <2>3. /\ <<a, filter>> \o b \in Seq(X) /\ Len(<<a, filter>> \o b) \in {2, 3}
        /\ (<<a, filter>> \o b)[1] = a /\ (<<a, filter>> \o b)[2] = filter
        /\ Len(<<a, filter>> \o b) = 3 => b # <<>> /\ (<<a, filter>> \o b)[3] = b[1]
    BY <2>1, PairAnd
  <2> QED BY <2>2, <2>3 DEF a, b
<1>12. \A v \in X : IsView(v)
  OBVIOUS
<1> HIDE DEF X
<1>13. Fits(c) /\ Inherits(c, ops)
  <2>1. IF op.op = "conv" THEN c.ins[2] = op.ins[2]
        ELSE /\ c.ins[2].size = <<op.ins[2].size[3], op.ins[2].size[1], op.ins[2].size[2]>>
             /\ op.ins[1].size[3] = op.ins[2].size[3] /\ op.out.size[3] = op.ins[2].size[3]
    BY <1>1, <1>7, <1>10, <1>11
  <2>2. Len(c.ins) = 3 => c.ins[3].size = <<op.out.size[3]>>
    BY <1>4, <1>11
  <2>3. c.out.size = op.out.size /\ RowsFollowTheStride(c.ins[1]) /\ RowsFollowTheStride(c.out) /\ IsView(c.out)
    BY <1>4, <1>9, <1>11
  <2>4. StandsFor(c, op)
    <3> HIDE DEF op
    <3> QED BY <1>9, <1>11, <2>1, <2>2, <2>3 DEF StandsFor
  <2> HIDE DEF op, ops
  <2> QED BY <1>1, <1>5, <1>11, <1>12, <2>3, <2>4, OfConvolution DEF w
<1>14. g = [from EXCEPT !.block = Edit(from.block, {i, t.at} \cup zero \cup t.adds, InFrontOf(t.at, <<c>>))]
  BY <1>2 DEF c
<1> DEFINE gone == {i, t.at} \cup zero \cup t.adds
           N == {c}
<1> HIDE DEF from, ops, op
<1>15. from.block \in Seq(Range(from.block) \cup N) /\ <<c>> \in Seq(Range(from.block) \cup N)
  <2>1. from.block \in Seq(Range(from.block) \cup N)
    BY <1>8, BlockType
  <2>2. <<c>> \in Seq(Range(from.block) \cup N)
    OBVIOUS
  <2> QED BY <2>1, <2>2
<1>16. \A n \in N : Fits(n) /\ Inherits(n, Range(from.block))
  BY <1>8, <1>13 DEF ops
<1> HIDE DEF gone, N
<1> QED BY <1>8, <1>14, <1>15, <1>16, EditedWith DEF gone
-----------------------------------------------------------------------------
(* A padding. *)

\* What the fold of a padding asks of the window and of the copy through it.
Pads(op, window, copy) ==
    LET size == window.out.size
        pad == window.lo[1]
        spread == window.spread[1]
    IN /\ size = copy.ins[1].size
       /\ window.spread = <<spread, spread, 1>> /\ window.lo = <<pad, pad, 0>>
       /\ op.ins[1].size[3] = size[3]
       /\ \A d \in 1..2 : op.ins[1].size[d] = spread * (size[d] - 1) + 1 + 2 * pad
       /\ spread # 1 => op.op = "conv8" /\ spread = 2 /\ op.stride = <<1, 1>> /\ op.spread = 1
       /\ pad < FilterSide(op)

LEMMA FirstReplaced ==
    ASSUME NEW X, NEW s \in Seq(X), Len(s) \in {2, 3}, NEW v \in X
    PROVE  /\ [s EXCEPT ![1] = v] \in Seq(X) /\ Len([s EXCEPT ![1] = v]) = Len(s)
           /\ [s EXCEPT ![1] = v][1] = v /\ [s EXCEPT ![1] = v][2] = s[2]
           /\ Len(s) = 3 => [s EXCEPT ![1] = v][3] = s[3]
<1>1. 1 \in 1..Len(s) /\ 2 \in 1..Len(s) /\ (Len(s) = 3 => 3 \in 1..Len(s))
  OBVIOUS
<1> DEFINE t == [s EXCEPT ![1] = v]
<1>2. t \in Seq(X) /\ Len(t) = Len(s) /\ \A j \in 1..Len(s) : t[j] = IF j = 1 THEN v ELSE s[j]
  BY <1>1, ExceptSeq
<1> HIDE DEF t
<1> QED BY <1>1, <1>2 DEF t

LEMMA FirstViews ==
    ASSUME NEW op, IsOp(op), Len(op.ins) \in {2, 3}
    PROVE  IsView(op.ins[1]) /\ IsView(op.ins[2])
<1> DEFINE n == Len(op.ins)
<1>1. n \in {2, 3} /\ \A j \in 1..n : IsView(op.ins[j])
  BY ViewsOf
<1> HIDE DEF n
<1>2. 1 \in 1..n /\ 2 \in 1..n
  BY <1>1
<1> QED BY <1>1, <1>2

LEMMA PaddingIs ==
    ASSUME NEW ops, WellFormedOps(ops), NEW op \in ops, op.op \in {"conv8", "dw8"}, op.pad = 0,
           NEW window \in ops, IsWindow(window), window.ins = <<op.ins[1]>>,
           NEW copy \in ops, copy.op = "copy", copy.out = window.out, Pads(op, window, copy)
    PROVE  LET c == [op EXCEPT !.ins[1] = copy.ins[1], !.pad = window.lo[1], !.spread = window.spread[1]]
           IN Fits(c) /\ Inherits(c, ops)
<1> DEFINE v == copy.ins[1]
           x == op.ins[1]
           pad == window.lo[1]
           spread == window.spread[1]
           k == FilterSide(op)
           c == [op EXCEPT !.ins[1] = v, !.pad = pad, !.spread = spread]
           X == Range(op.ins) \cup {v}
<1>1. /\ IsOp(op) /\ ConvCallFits(op) /\ IsOp(window) /\ WindowFits(window) /\ IsOp(copy) /\ CopyFits(copy)
      /\ window.op = "view"
  BY DEF WellFormedOps, Fits, IsWindow
<1>2. /\ Has(op, {"op", "ins", "out", "stride", "dilation", "pad", "spread", "pool", "act"})
      /\ Len(op.ins) \in {2, 3} /\ op.ins \in Seq(Range(op.ins))
      /\ op.stride \in Pair /\ op.dilation \in Pair /\ op.pool \in [k : Nat, s : Nat, p : Nat]
      /\ IsImage(x) /\ IsImage(op.out) /\ Len(op.ins[2].size) = (IF op.op = "dw8" THEN 3 ELSE 4)
      /\ VerifiesConv(op)
  BY <1>1 DEF ConvCallFits, IsOp, Has
<1>3. IsView(v) /\ RowsFollowTheStride(v) /\ IsImage(v)
  <2>1. Len(copy.ins) = 1 /\ copy.ins[1].size = copy.out.size
        /\ (IsImage(copy.out) => RowsFollowTheStride(copy.ins[1]))
    BY <1>1 DEF CopyFits
  <2>2. IsView(v)
    BY <1>1, <2>1, ViewsOf
  <2>3. Len(window.out.size) = Len(x.size)
    BY <1>1 DEF WindowFits
  <2>4. IsImage(copy.out)
    BY <1>2, <2>3 DEF IsImage
  <2> QED BY <2>1, <2>2, <2>4 DEF IsImage
<1>4. op.spread = 1
  <2>1. op.spread \in 1..2
    BY <1>2 DEF VerifiesConv
  <2>2. ASSUME op.spread = 2 PROVE FALSE
    <3>1. x \in Spread(ops)
      BY <2>2 DEF Spread
    <3>2. x \in Padded(window)
      BY DEF Padded
    <3> QED BY <3>1, <3>2 DEF WellFormedOps
  <2> QED BY <2>1, <2>2
<1>5. pad \in Nat /\ spread \in 1..2 /\ (spread > 1 => op.stride = <<1, 1>>)
  <2>1. window.lo \in [1..Len(x.size) -> Nat] /\ Len(x.size) = 3
    <3>1. window.ins[1] = x
      OBVIOUS
    <3>2. window.lo \in [Positions(window.ins[1].size) -> Nat]
      BY <1>1 DEF WindowFits
    <3> HIDE DEF x
    <3> QED BY <1>2, <3>1, <3>2 DEF Positions, IsImage
  <2>2. pad \in Nat
    BY <2>1
  <2>3. spread = 1 \/ (spread = 2 /\ op.stride = <<1, 1>>)
    BY DEF Pads
  <2> HIDE DEF pad, spread
  <2> QED BY <2>2, <2>3
<1>6. /\ c.op = op.op /\ c.ins = [op.ins EXCEPT ![1] = v] /\ c.out = op.out /\ c.stride = op.stride
      /\ c.dilation = op.dilation /\ c.pad = pad /\ c.spread = spread /\ c.pool = op.pool
      /\ Has(c, {"op", "ins", "out", "stride", "dilation", "pad", "spread", "pool", "act"})
  BY <1>2 DEF Has
<1> HIDE DEF c
<1>7. /\ c.ins \in Seq(X) /\ Len(c.ins) = Len(op.ins) /\ c.ins[1] = v /\ c.ins[2] = op.ins[2]
      /\ Len(c.ins) = 3 => c.ins[3] = op.ins[3]
  <2> DEFINE s == op.ins
  <2>1. s \in Seq(X) /\ v \in X /\ Len(s) \in {2, 3}
    <3>1. Range(op.ins) \subseteq X /\ v \in X
      OBVIOUS
    <3> HIDE DEF X, v
    <3> QED BY <1>2, <3>1, SeqMonotonic
  <2> HIDE DEF s, v, X
  <2>2. /\ [s EXCEPT ![1] = v] \in Seq(X) /\ Len([s EXCEPT ![1] = v]) = Len(s)
        /\ [s EXCEPT ![1] = v][1] = v /\ [s EXCEPT ![1] = v][2] = s[2]
        /\ Len(s) = 3 => [s EXCEPT ![1] = v][3] = s[3]
    BY <2>1, FirstReplaced
  <2> QED BY <1>6, <2>2 DEF s
<1>8. \A w \in X : IsView(w)
  BY <1>1, <1>3 DEF IsOp
<1>9. FilterSide(c) = k /\ k \in Nat
  <2>1. IsView(op.ins[2])
    BY <1>1, <1>2, ViewsOf
  <2> DEFINE w == op.ins[2]
  <2>2. w.size \in Seq(Nat) /\ Len(w.size) = (IF op.op = "dw8" THEN 3 ELSE 4)
    BY <1>2, <2>1 DEF IsView
  <2>3. k = IF op.op = "dw8" THEN w.size[2] ELSE w.size[1]
    BY DEF FilterSide
  <2>4. FilterSide(c) = k
    BY <1>6, <1>7 DEF FilterSide
  <2> HIDE DEF w, k
  <2>5. CASE op.op = "dw8"
    BY <2>2, <2>3, <2>4, <2>5
  <2>6. CASE op.op # "dw8"
    BY <2>2, <2>3, <2>4, <2>6
  <2> QED BY <2>5, <2>6
<1>10. \A e \in 1..2 : ConvExtent(c, e) = ConvExtent(op, e)
  <2> SUFFICES ASSUME NEW e \in 1..2 PROVE ConvExtent(c, e) = ConvExtent(op, e)
    OBVIOUS
  <2>1. x.size[e] = spread * (v.size[e] - 1) + 1 + 2 * pad
    BY DEF Pads
  <2>2. x.size[e] \in Nat /\ v.size[e] \in Nat
    <3>1. IsView(x)
      BY <1>1, <1>2, FirstViews
    <3>2. x.size \in Seq(Nat) /\ v.size \in Seq(Nat) /\ Len(x.size) = 3 /\ Len(v.size) = 3
      BY <1>2, <1>3, <3>1 DEF IsView, IsImage
    <3> HIDE DEF x, v
    <3> QED BY <3>2
  <2> DEFINE a == x.size[e]
             b == spread * (v.size[e] - 1) + 1
  <2>3. b \in Int /\ a = b + 2 * pad
    <3>1. spread = 1 \/ spread = 2
      BY <1>5
    <3> DEFINE n == v.size[e]
    <3>2. n \in Nat /\ a = spread * (n - 1) + 1 + 2 * pad /\ b = spread * (n - 1) + 1
      BY <2>1, <2>2
    <3> HIDE DEF spread, pad, n, a, b
    <3> QED BY <1>5, <3>1, <3>2
  <2>4. ConvExtent(c, e) = Extent(b, k, op.stride[e], pad, op.dilation[e])
    BY <1>6, <1>7, <1>9 DEF ConvExtent
  <2>5. ConvExtent(op, e) = Extent(1 * (a - 1) + 1, k, op.stride[e], 0, op.dilation[e])
    BY <1>4 DEF ConvExtent
  <2>6. 1 * (a - 1) + 1 + 2 * 0 = b + 2 * pad
    <3>1. a \in Nat /\ pad \in Nat
      BY <1>5, <2>2
    <3> HIDE DEF a, b, pad
    <3> QED BY <2>3, <3>1
  <2> DEFINE z == 1 * (a - 1) + 1
             d == op.dilation[e]
             s == op.stride[e]
  <2>7. d \in Int
    BY <1>2 DEF Pair
  <2>8. z \in Int
    BY <2>2
  <2> HIDE DEF a, b, pad, k, z, d
  <2>9. Extent(b, k, s, pad, d) = Extent(z, k, s, 0, d)
    <3> DEFINE r == d * (k - 1) + 1
               n == b + (2 * pad - r)
               m == z + (2 * 0 - r)
    <3>1. n = m
      <4>1. r \in Int
        BY <1>9, <2>7
      <4>2. z + 2 * 0 = b + 2 * pad
        BY <2>6 DEF z
      <4> HIDE DEF r
      <4> QED BY <1>5, <2>3, <2>8, <4>1, <4>2
    <3>2. Extent(b, k, s, pad, d) = n \div s + 1
      BY DEF Extent
    <3>3. Extent(z, k, s, 0, d) = m \div s + 1
      BY DEF Extent
    <3> HIDE DEF n, m, s
    <3> QED BY <3>1, <3>2, <3>3
  <2> QED BY <2>4, <2>5, <2>9 DEF z, d
<1>11. \A e \in 1..2 : ConvExtent(c, e) >= 1 /\ c.out.size[e] = PoolExtent(c, e)
  <2> SUFFICES ASSUME NEW e \in 1..2 PROVE ConvExtent(c, e) >= 1 /\ c.out.size[e] = PoolExtent(c, e)
    OBVIOUS
  <2>1. ConvExtent(op, e) >= 1 /\ op.out.size[e] = PoolExtent(op, e)
    BY <1>2 DEF VerifiesConv
  <2>2. PoolExtent(c, e) = PoolExtent(op, e)
    BY <1>6, <1>10, Zenon DEF PoolExtent
  <2> QED BY <1>6, <1>10, <2>1, <2>2
<1>12. VerifiesConv(c)
  <2>1. v.size[3] = x.size[3]
    BY DEF Pads
  <2>2. op.ins[2].size = IF op.op = "dw8" THEN <<x.size[3], k, k>> ELSE <<k, k, x.size[3], op.out.size[3]>>
    BY <1>2, Zenon DEF VerifiesConv
  <2>3. c.ins[2].size = IF c.op = "dw8" THEN <<c.ins[1].size[3], k, k>> ELSE <<k, k, c.ins[1].size[3], c.out.size[3]>>
    BY <1>6, <1>7, <2>1, <2>2
  <2>4. c.op = "dw8" => c.out.size[3] = c.ins[1].size[3]
    BY <1>2, <1>6, <1>7, <2>1 DEF VerifiesConv
  <2>5. RowsFollowTheStride(c.ins[1]) /\ RowsFollowTheStride(c.out)
    BY <1>2, <1>3, <1>6, <1>7 DEF VerifiesConv
  <2>6. c.pad \in 0..(k - 1)
    <3>1. 0 \in 0..(k - 1)
      BY <1>2 DEF VerifiesConv
    <3>2. pad < k
      BY DEF Pads
    <3> HIDE DEF pad, k
    <3> QED BY <1>5, <1>6, <1>9, <3>2
  <2>7. c.spread \in 1..2 /\ (c.spread > 1 => c.stride = <<1, 1>>)
    BY <1>5, <1>6
  <2>8. /\ c.pool.s # 0 => c.pool.k >= 1
        /\ Len(c.ins) = 3 => c.ins[3].size = <<c.out.size[3]>>
    BY <1>2, <1>6, <1>7 DEF VerifiesConv
  <2> HIDE DEF k, v, x, pad, spread
  <2> QED BY <1>9, <1>11, <2>3, <2>4, <2>5, <2>6, <2>7, <2>8, Zenon DEF VerifiesConv
<1>13. ConvCallFits(c)
  <2>1. Has(c, {"stride", "dilation", "pad", "spread", "pool", "act"})
    BY <1>6 DEF Has
  <2>2. Len(c.ins) \in {2, 3} /\ IsImage(c.ins[1]) /\ IsImage(c.out)
        /\ Len(c.ins[2].size) = (IF c.op = "dw8" THEN 3 ELSE 4)
    BY <1>2, <1>3, <1>6, <1>7
  <2> QED BY <1>2, <1>6, <1>12, <2>1, <2>2 DEF ConvCallFits
<1>14. c.spread = 2 /\ c.pad = 0 => c.ins[1] \in Spread(ops)
  <2> SUFFICES ASSUME c.spread = 2, c.pad = 0 PROVE c.ins[1] \in Spread(ops)
    OBVIOUS
  <2>1. Spreads(window)
    BY <1>6 DEF Spreads
  <2>2. v \in Spread(ops)
    BY <2>1 DEF Spread
  <2> QED BY <1>7, <2>2
<1>15. Has(c, {"op", "ins", "out"}) /\ c.op \in {"conv8", "dw8"} /\ IsView(c.out)
  BY <1>1, <1>6 DEF Has, IsOp
<1>16. Fits(c) /\ Inherits(c, ops)
  <2> HIDE DEF X
  <2> QED BY <1>7, <1>8, <1>13, <1>14, <1>15, ConvCallIs
<1> QED BY <1>16 DEF c
LEMMA PaddingOfIs ==
    ASSUME NEW f, WellFormed(f), NEW i \in Positions(f.block), NEW padded, NEW p \in PaddingOf(f, i, padded)
    PROVE  /\ p.window \in Positions(f.block) /\ IsWindow(f.block[p.window])
           /\ f.block[p.window].ins = <<padded>>
           /\ p.copy \in Positions(f.block) /\ f.block[p.copy].op = "copy"
           /\ f.block[p.copy].out = f.block[p.window].out
<1> DEFINE between == IF IsLocal(padded, f) THEN (AllocOf(padded, f) + 1)..(i - 1) ELSE {}
           windows == {n \in between : f.block[n].op = "view" /\ f.block[n].out.via = "window"
                                        /\ f.block[n].ins = <<padded>>}
           others == {n \in between \ windows : Names(f.block[n], padded)}
           inside == {n \in between : \E x \in windows : n > x /\ Names(f.block[n], f.block[x].out)}
           P(y) == /\ others = {y[1]} /\ windows = {y[2]} /\ inside = {y[3]}
                   /\ f.block[y[1]].op = "fill" /\ f.block[y[1]].val = 0
                   /\ f.block[y[3]].op = "copy" /\ f.block[y[3]].out = f.block[y[2]].out
                   /\ {n \in Positions(f.block) : Names(f.block[n], f.block[y[2]].out)} = {y[3]}
           made(y) == [fill |-> y[1], window |-> y[2], copy |-> y[3]]
<1>1. \A n \in between : n \in Positions(f.block)
  <2>1. CASE IsLocal(padded, f)
    <3> DEFINE a == AllocOf(padded, f)
    <3>1. a \in Positions(f.block)
      BY <2>1, AllocOfIs
    <3>2. between = (a + 1)..(i - 1)
      BY <2>1
    <3>3. Len(f.block) \in Nat
      BY DEF WellFormed
    <3> HIDE DEF a, between
    <3> QED BY <3>1, <3>2, <3>3 DEF Positions
  <2>2. CASE ~IsLocal(padded, f)
    BY <2>2
  <2> QED BY <2>1, <2>2
<1>2. p \in {made(y) : y \in {z \in others \X windows \X inside : P(z)}}
  BY Zenon DEF PaddingOf
<1>3. \E y \in others \X windows \X inside : P(y) /\ p = made(y)
  <2> HIDE DEF made, P, others, windows, inside
  <2> QED BY <1>2
<1>4. PICK y \in others \X windows \X inside : P(y) /\ p = made(y)
  BY <1>3, Zenon
<1>5. y[2] \in windows /\ y[3] \in inside
  <2> HIDE DEF others, windows, inside, P, made
  <2> QED BY <1>4
<1>6. p.window = y[2] /\ p.copy = y[3]
  BY <1>4
<1>7. f.block[y[3]].op = "copy" /\ f.block[y[3]].out = f.block[y[2]].out
  BY <1>4
<1>8. y[2] \in between /\ y[3] \in between
      /\ f.block[y[2]].op = "view" /\ f.block[y[2]].out.via = "window" /\ f.block[y[2]].ins = <<padded>>
  <2> HIDE DEF between
  <2> QED BY <1>5
<1> HIDE DEF between
<1> QED BY <1>1, <1>6, <1>7, <1>8 DEF IsWindow

LEMMA FoldPaddingKeeps ==
    ASSUME NEW f, WellFormed(f), NEW i \in BlockOf(f), NEW g \in FoldPaddingIntoConv(f, i)
    PROVE  WellFormed(g)
<1> DEFINE op == f.block[i]
           ops == Range(f.block)
           padded == op.ins[1]
           folded(p) == [op EXCEPT !.ins[1] = f.block[p.copy].ins[1], !.pad = f.block[p.window].lo[1],
                                   !.spread = f.block[p.window].spread[1]]
           made(p) == [f EXCEPT !.block = Edit([@ EXCEPT ![i] = folded(p)], {p.fill, p.window, p.copy}, <<>>)]
           size(p) == f.block[p.window].out.size
           Folds(p) ==
             /\ size(p) = f.block[p.copy].ins[1].size
             /\ f.block[p.window].spread = <<f.block[p.window].spread[1], f.block[p.window].spread[1], 1>>
             /\ f.block[p.window].lo = <<f.block[p.window].lo[1], f.block[p.window].lo[1], 0>>
             /\ padded.size[3] = size(p)[3]
             /\ ~(f.block[p.window].spread[1] = 1 /\ f.block[p.window].lo[1] = 0)
             /\ \A d \in 1..2 : padded.size[d] = f.block[p.window].spread[1] * (size(p)[d] - 1) + 1
                                                 + 2 * f.block[p.window].lo[1]
             /\ f.block[p.window].spread[1] # 1 =>
                    op.op = "conv8" /\ f.block[p.window].spread[1] = 2 /\ op.stride = <<1, 1>> /\ op.spread = 1
             /\ f.block[p.window].lo[1] < FilterSide(op)
<1>1. op.op \in {"conv8", "dw8"} /\ op.pad = 0
  BY Zenon DEF FoldPaddingIntoConv
<1>2. g \in {made(p) : p \in {x \in PaddingOf(f, i, padded) : Folds(x)}}
  BY Zenon DEF FoldPaddingIntoConv
<1>3. \E p \in PaddingOf(f, i, padded) : Folds(p) /\ g = made(p)
  <2> HIDE DEF made, Folds, padded
  <2> QED BY <1>2
<1>4. PICK p \in PaddingOf(f, i, padded) : Folds(p) /\ g = made(p)
  BY <1>3, Zenon
<1> DEFINE window == f.block[p.window]
           copy == f.block[p.copy]
           c == folded(p)
<1>5. i \in Positions(f.block)
  BY DEF BlockOf
<1>6. /\ p.window \in Positions(f.block) /\ IsWindow(window) /\ window.ins = <<padded>>
      /\ p.copy \in Positions(f.block) /\ copy.op = "copy" /\ copy.out = window.out
  <2> HIDE DEF padded
  <2> QED BY <1>5, PaddingOfIs
<1>7. op \in ops /\ window \in ops /\ copy \in ops /\ WellFormedOps(ops)
  BY <1>5, <1>6, OpOf DEF WellFormed
<1>8. Pads(op, window, copy)
  BY <1>4, Zenon DEF Pads
<1>9. c = [op EXCEPT !.ins[1] = copy.ins[1], !.pad = window.lo[1], !.spread = window.spread[1]]
  OBVIOUS
<1>10. g = [f EXCEPT !.block = Edit([f.block EXCEPT ![i] = c], {p.fill, p.window, p.copy}, <<>>)]
  BY <1>4
<1> DEFINE gone == {p.fill, p.window, p.copy}
           N == {c}
<1>11. Fits(c) /\ Inherits(c, ops)
  <2> HIDE DEF c, op, window, copy, ops
  <2> QED BY <1>1, <1>6, <1>7, <1>8, <1>9, PaddingIs DEF padded
<1> HIDE DEF c
<1>12. [f.block EXCEPT ![i] = c] \in Seq(ops \cup N)
  <2>1. c \in N
    OBVIOUS
  <2> HIDE DEF N, op
  <2> QED BY <1>5, <2>1, BlockType
<1>13. \A n \in N : Fits(n) /\ Inherits(n, ops)
  BY <1>11
<1> HIDE DEF gone, N
<1> QED BY <1>10, <1>12, <1>13, EditedWithout DEF ops, gone
-----------------------------------------------------------------------------
(* A copy that the producer can do without. *)

\* What writes its output without reading it can write another of its shape.
LEMMA Redirected ==
    ASSUME NEW ops, NEW op \in ops, Fits(op),
           op.op \notin {"loop", "alloc", "view", "matmul", "matvec", "vecmat", "batch", "conv", "dw", "pool"},
           op.op = "generic" => op.body # "bias",
           NEW v, IsView(v), v.size = op.out.size, Len(v.size) = 2 => HasRowStride(v),
           op.op \in {"conv8", "dw8"} => RowsFollowTheStride(v),
           op.op = "copy" => v.via # "window",
           op.op \in {"mm", "copy"} /\ Len(v.size) = 2 =>
               [buf |-> v.buf, size |-> v.size] \in UNION {Held(o) : o \in ops}
    PROVE  LET n == [op EXCEPT !.out = v] IN Fits(n) /\ Inherits(n, ops)
<1> DEFINE n == [op EXCEPT !.out = v]
<1>1. IsOp(op)
  BY DEF Fits
<1>2. DOMAIN n = DOMAIN op /\ n.out = v /\ \A field \in DOMAIN op : field # "out" => n[field] = op[field]
  BY <1>1 DEF IsOp, Has
<1> HIDE DEF n
<1>3. n.op = op.op /\ n.ins = op.ins /\ Has(n, {"op", "ins", "out"}) /\ Has(op, {"op", "ins", "out"})
  BY <1>1, <1>2 DEF IsOp, Has
<1>4. IsOp(n)
  BY <1>1, <1>2, <1>3 DEF IsOp
<1>5. ~IsWindow(n)
  BY <1>3 DEF IsWindow
<1>6. op.op = "generic" => GenericFits(n)
  <2> SUFFICES ASSUME op.op = "generic" PROVE GenericFits(n)
    OBVIOUS
  <2>1. GenericFits(op)
    BY DEF Fits
  <2>2. "body" \in DOMAIN op /\ n.body = op.body
    BY <1>2, <2>1 DEF GenericFits, Has
  <2>3. n.body # "bias" /\ Has(n, {"body"})
    BY <1>2, <2>2 DEF Has
  <2>4. ASSUME n.body = "requant"
        PROVE  /\ Has(n, {"whole"}) /\ Len(n.ins) \in {1, 2}
               /\ Len(n.ins) = 2 => n.ins[2].size = LastOf(n.out)
               /\ Len(n.out.size) = 2 => HasRowStride(n.out)
    BY <1>2, <1>3, <2>1, <2>2, <2>4 DEF GenericFits, LastOf, Has
  <2>5. ASSUME n.body = "requant" PROVE n.whole => n.ins[1].size = n.out.size
    <3>1. Has(op, {"whole"})
      BY <2>1, <2>2, <2>5 DEF GenericFits
    <3>2. n.whole = op.whole
      BY <1>2, <3>1 DEF Has
    <3> QED BY <1>2, <1>3, <2>1, <2>2, <2>5, <3>2 DEF GenericFits
  <2> QED BY <2>3, <2>4, <2>5 DEF GenericFits
<1>7. op.op = "copy" => CopyFits(n)
  <2> SUFFICES ASSUME op.op = "copy" PROVE CopyFits(n)
    OBVIOUS
  <2>1. CopyFits(op)
    BY DEF Fits
  <2> QED BY <1>2, <1>3, <2>1 DEF CopyFits, IsImage
<1>8. op.op \in {"mm", "mm8"} => MatmulFits(n)
  <2> SUFFICES ASSUME op.op \in {"mm", "mm8"} PROVE MatmulFits(n)
    OBVIOUS
  <2>1. MatmulFits(op)
    BY DEF Fits
  <2>2. Has(n, {"trL", "trR", IF n.op = "mm" THEN "accumulate" ELSE "act"})
    BY <1>2, <1>3, <2>1 DEF MatmulFits, Has
  <2>3. n.trL = op.trL /\ n.trR = op.trR /\ (op.op = "mm" => n.accumulate = op.accumulate)
    <3>1. Has(op, {"trL", "trR", IF op.op = "mm" THEN "accumulate" ELSE "act"})
      BY <2>1 DEF MatmulFits
    <3> QED BY <1>2, <3>1 DEF Has
  <2>4. Len(v.size) = 2
    BY <2>1 DEF MatmulFits, VerifiesMatmul
  <2>5. VerifiesMatmul(n)
    BY <1>2, <1>3, <2>1, <2>3, <2>4 DEF MatmulFits, VerifiesMatmul
  <2> QED BY <1>3, <2>1, <2>2, <2>5 DEF MatmulFits
<1>9. op.op \in {"conv8", "dw8"} =>
        /\ ConvCallFits(n) /\ Has(op, {"spread", "pad"})
        /\ n.spread = op.spread /\ n.pad = op.pad
  <2> SUFFICES ASSUME op.op \in {"conv8", "dw8"}
               PROVE  ConvCallFits(n) /\ Has(op, {"spread", "pad"}) /\ n.spread = op.spread /\ n.pad = op.pad
    OBVIOUS
  <2>1. ConvCallFits(op)
    BY DEF Fits
  <2>2. Has(op, {"stride", "dilation", "pad", "spread", "pool", "act"})
    BY <2>1 DEF ConvCallFits
  <2>3. /\ n.stride = op.stride /\ n.dilation = op.dilation /\ n.pad = op.pad /\ n.spread = op.spread
        /\ n.pool = op.pool /\ Has(n, {"stride", "dilation", "pad", "spread", "pool", "act"})
    BY <1>2, <2>2 DEF Has
  <2>4. FilterSide(n) = FilterSide(op)
    BY <1>3 DEF FilterSide
  <2>5. \A e \in 1..2 : ConvExtent(n, e) = ConvExtent(op, e)
    BY <1>3, <2>3, <2>4, Zenon DEF ConvExtent
  <2>6. \A e \in 1..2 : PoolExtent(n, e) = PoolExtent(op, e)
    BY <2>3, <2>5, Zenon DEF PoolExtent
  <2>7. RowsFollowTheStride(n.out) /\ n.out.size = op.out.size
    BY <1>2
  <2>8. VerifiesConv(op)
    BY <2>1 DEF ConvCallFits
  <2>9. VerifiesConv(n)
    BY <1>3, <2>3, <2>4, <2>5, <2>6, <2>7, <2>8 DEF VerifiesConv
  <2>10. ConvCallFits(n)
    BY <1>3, <2>1, <2>3, <2>7, <2>9 DEF ConvCallFits, IsImage
  <2>11. Has(op, {"spread", "pad"})
    BY <2>2 DEF Has
  <2> QED BY <2>3, <2>10, <2>11
<1>10. op.op = "add" => Has(n, {"act"}) /\ Verifies(n)
  <2> SUFFICES ASSUME op.op = "add" PROVE Has(n, {"act"}) /\ Verifies(n)
    OBVIOUS
  <2>1. Has(op, {"act"}) /\ Verifies(op)
    BY DEF Fits
  <2>2. op.ins[1].size = op.ins[2].size /\ op.ins[1].size = op.out.size
    BY <2>1 DEF Verifies
  <2>3. Verifies(n)
    BY <1>2, <1>3, <2>2 DEF Verifies
  <2> QED BY <1>2, <2>1, <2>3 DEF Has
<1>11. Fits(n)
  BY <1>3, <1>4, <1>5, <1>6, <1>7, <1>8, <1>9, <1>10 DEF Fits
<1>12. Held(n) \subseteq UNION {Held(o) : o \in ops}
  BY <1>2, <1>3 DEF Held, WrittenAs
<1>13. Asked(n) \subseteq Asked(op)
  <2>1. CASE op.op = "generic"
    <3>1. n.body = op.body
      BY <1>2, <2>1 DEF Fits, GenericFits, Has
    <3> QED BY <1>2, <1>3, <3>1 DEF Asked
  <2>2. CASE op.op # "generic"
    BY <1>3, <2>2 DEF Asked
  <2> QED BY <2>1, <2>2
<1>14. n.op \in {"conv8", "dw8"} /\ n.spread = 2 /\ n.pad = 0 => n.ins[1] \in Spread(ops)
  BY <1>3, <1>9 DEF Spread
<1>15. Inherits(n, ops)
  BY <1>2, <1>3, <1>5, <1>12, <1>13, <1>14 DEF Inherits
<1> QED BY <1>11, <1>15 DEF n
\* A buffer has the layout its shape gives it.
LEMMA LocalIs ==
    ASSUME NEW f, WellFormed(f), NEW v, IsLocal(v, f)
    PROVE  /\ IsView(v) /\ v.via = "buffer"
           /\ Len(v.size) = 2 => HasRowStride(v)
           /\ Len(v.size) = 3 => RowsFollowTheStride(v)
<1> DEFINE a == f.block[AllocOf(v, f)]
<1>1. a.op = "alloc" /\ a.out = v /\ a \in Range(f.block)
  BY AllocOfIs
<1>2. Fits(a)
  BY <1>1 DEF WellFormed, WellFormedOps
<1>3. IsView(v) /\ v = Buffer(v.buf, v.size)
  BY <1>1, <1>2 DEF Fits, IsOp
<1>4. v.size \in Seq(Nat \ {0})
  BY <1>3 DEF IsView
<1>5. v.step = Packed(v.size) /\ v.via = "buffer"
  <2> DEFINE b == Buffer(v.buf, v.size)
  <2>1. b.step = Packed(v.size) /\ b.via = "buffer"
    BY DEF Buffer
  <2> HIDE DEF b
  <2>2. v = b
    BY <1>3 DEF b
  <2> QED BY <2>1, <2>2
<1>6. Len(v.size) = 2 => HasRowStride(v)
  BY <1>4, <1>5, PackedMatrix DEF HasRowStride
<1>7. Len(v.size) = 3 => RowsFollowTheStride(v)
  BY <1>4, <1>5, PackedImage DEF RowsFollowTheStride
<1> QED BY <1>3, <1>5, <1>6, <1>7

LEMMA ElideKeeps ==
    ASSUME NEW f, WellFormed(f), NEW i \in BlockOf(f), NEW g \in ElideRedundantBufferCopy(f, i)
    PROVE  WellFormed(g)
<1> DEFINE op == f.block[i]
           ops == Range(f.block)
           src == op.ins[1]
           dst == op.out
           users(v) == {n \in Positions(f.block) \ {i} : Names(f.block[n], v) /\ f.block[n].op # "dealloc"}
           to(w) == [f.block[w] EXCEPT !.out = dst]
           late(w) == AllocOf(dst, f) > w
           gone(w) == {i} \cup (IF late(w) THEN {AllocOf(dst, f)} ELSE {})
           made(w) == [f EXCEPT !.block = Edit([@ EXCEPT ![w] = to(w)], gone(w),
                                      IF late(w) THEN InFrontOf(w, <<f.block[AllocOf(dst, f)]>>) ELSE <<>>)]
<1>1. op.op = "copy" /\ src.size = dst.size /\ IsLocal(dst, f)
  BY Zenon DEF ElideRedundantBufferCopy
<1>2. g \in {made(w) : w \in {x \in users(src) : users(src) = {x} /\ x < i /\ WritesOnly(f.block[x], src)}}
  BY Zenon DEF ElideRedundantBufferCopy
<1>3. \E w \in users(src) : WritesOnly(f.block[w], src) /\ g = made(w)
  <2> HIDE DEF made, users, src
  <2> QED BY <1>2
<1>4. PICK w \in users(src) : WritesOnly(f.block[w], src) /\ g = made(w)
  BY <1>3, Zenon
<1> DEFINE x == f.block[w]
           n == to(w)
           alloc == f.block[AllocOf(dst, f)]
<1>5. i \in Positions(f.block) /\ w \in Positions(f.block) /\ Names(x, src)
  BY DEF BlockOf
<1>6. Fits(op) /\ op \in ops /\ Fits(x) /\ x \in ops
  BY <1>5, OpOf
<1>7. /\ IsView(dst) /\ dst.via = "buffer"
      /\ Len(dst.size) = 2 => HasRowStride(dst)
      /\ Len(dst.size) = 3 => RowsFollowTheStride(dst)
  <2> HIDE DEF dst
  <2> QED BY <1>1, LocalIs
<1>8. alloc \in ops
  <2> HIDE DEF dst
  <2> QED BY <1>1, AllocOfIs
<1>9. g = [f EXCEPT !.block = Edit([f.block EXCEPT ![w] = n], gone(w),
                                   IF late(w) THEN InFrontOf(w, <<alloc>>) ELSE <<>>)]
  BY <1>4
<1>10. x.out = src /\ x.out.size = dst.size
  BY <1>1, <1>4 DEF WritesOnly
<1>11. /\ x.op \notin {"loop", "alloc", "view", "matmul", "matvec", "vecmat", "batch", "conv", "dw", "pool"}
       /\ x.op = "generic" => x.body # "bias"
  <2>1. x.op \notin {"loop", "alloc"}
    BY <1>5 DEF Names, Operands
  <2>2. /\ x.op \notin {"view", "matmul", "matvec", "vecmat", "batch", "conv", "dw", "pool"}
        /\ x.op = "generic" => x.body # "bias"
    BY <1>4 DEF WritesOnly, ReadsItsOutput
  <2> QED BY <2>1, <2>2
<1>12. Len(dst.size) = 2 => [buf |-> dst.buf, size |-> dst.size] \in UNION {Held(o) : o \in ops}
  <2>1. Len(dst.size) = 2 => [buf |-> dst.buf, size |-> dst.size] \in Held(op)
    BY <1>1, <1>7 DEF Held, WrittenAs
  <2> HIDE DEF dst, op
  <2> QED BY <1>6, <2>1
<1>13. x.op \in {"conv8", "dw8"} => RowsFollowTheStride(dst)
  BY <1>6, <1>7, <1>10 DEF Fits, ConvCallFits, IsImage
<1>14. n = [x EXCEPT !.out = dst]
  OBVIOUS
<1> HIDE DEF n, x, dst, op, src, ops
<1>15. Fits(n) /\ Inherits(n, ops)
  <2>1. dst.via # "window" /\ dst.size = x.out.size
    BY <1>7, <1>10
  <2> QED BY <1>6, <1>7, <1>11, <1>12, <1>13, <1>14, <2>1, Redirected
<1> DEFINE N == {n}
           block == [f.block EXCEPT ![w] = n]
<1>16. block \in Seq(ops \cup N)
  <2>1. n \in N
    OBVIOUS
  <2> HIDE DEF N
  <2> QED BY <1>5, <2>1, BlockType DEF ops
<1>17. <<alloc>> \in Seq(ops \cup N)
  <2> HIDE DEF alloc
  <2> QED BY <1>8
<1>18. \A m \in N : Fits(m) /\ Inherits(m, ops)
  BY <1>15
<1>19. CASE late(w)
  <2>1. g = [f EXCEPT !.block = Edit(block, gone(w), InFrontOf(w, <<alloc>>))]
    BY <1>9, <1>19
  <2> HIDE DEF block, gone, alloc, N
  <2> QED BY <1>16, <1>17, <1>18, <2>1, EditedWith DEF ops
<1>20. CASE ~late(w)
  <2>1. g = [f EXCEPT !.block = Edit(block, gone(w), <<>>)]
    BY <1>9, <1>20
  <2> HIDE DEF block, gone, alloc, N
  <2> QED BY <1>16, <1>18, <2>1, EditedWithout DEF ops
<1> QED BY <1>19, <1>20
-----------------------------------------------------------------------------
(* A concatenation. *)

\* A window without gaps of a whole buffer has the buffer's steps.
LEMMA WindowOfIs ==
    ASSUME NEW f, WellFormed(f), NEW v, NEW w \in WindowOf(f, v)
    PROVE  LET join == f.block[w].ins[1]
           IN /\ w \in Positions(f.block) /\ f.block[w].op = "view" /\ f.block[w].out = v
              /\ IsView(v) /\ v.via = "window" /\ Len(join.size) = Len(v.size)
              /\ Len(v.size) = 2 => HasRowStride(v)
              /\ Len(v.size) = 3 => v.step[3] = 1 /\ v.step[1] = join.size[2] * v.step[2]
              /\ join.size \in Seq(Nat \ {0})
<1> DEFINE win == f.block[w]
           join == win.ins[1]
<1>1. /\ w \in Positions(f.block) /\ win.op = "view" /\ win.out = v /\ v.via = "window"
      /\ IsIdentity(join) /\ \A d \in Positions(win.spread) : win.spread[d] = 1
  BY DEF WindowOf
<1>2. Fits(win) /\ IsWindow(win)
  BY <1>1, OpOf DEF IsWindow
<1>3. IsOp(win) /\ WindowFits(win)
  BY <1>1, <1>2 DEF Fits
<1>4. /\ Len(win.ins) = 1 /\ Len(v.size) = Len(join.size)
      /\ win.spread \in [Positions(join.size) -> Nat]
      /\ v.step = [d \in Positions(join.size) |-> join.step[d] * win.spread[d]]
  BY <1>1, <1>3 DEF WindowFits
<1>5. IsView(join) /\ IsView(v)
  BY <1>1, <1>3, <1>4, ViewsOf
<1>6. join.size \in Seq(Nat \ {0}) /\ join.step \in Seq(Nat) /\ Len(join.step) = Len(join.size)
      /\ join.step = Packed(join.size)
  BY <1>1, <1>5 DEF IsView, IsIdentity
<1> HIDE DEF join
<1>7. \A d \in 1..Len(join.size) : win.spread[d] = 1
  <2> DEFINE n == Len(join.size)
             s == win.spread
  <2>1. n \in Nat /\ s \in [1..n -> Nat] /\ \A d \in 1..Len(s) : s[d] = 1
    BY <1>1, <1>4, <1>6 DEF Positions
  <2> HIDE DEF n, s
  <2>2. Len(s) = n
    BY <2>1
  <2> QED BY <2>1, <2>2 DEF n, s
<1>8. \A d \in 1..Len(join.size) : v.step[d] = join.step[d]
  <2> SUFFICES ASSUME NEW d \in 1..Len(join.size) PROVE v.step[d] = join.step[d]
    OBVIOUS
  <2>1. v.step[d] = join.step[d] * win.spread[d]
    BY <1>4 DEF Positions
  <2>2. join.step[d] \in Nat /\ win.spread[d] = 1
    BY <1>6, <1>7
  <2> DEFINE a == join.step[d]
  <2> HIDE DEF a
  <2>3. a \in Nat => a * 1 = a
    OBVIOUS
  <2> QED BY <2>1, <2>2, <2>3 DEF a
<1>9. Len(v.size) = 2 => HasRowStride(v)
  <2> SUFFICES ASSUME Len(v.size) = 2 PROVE HasRowStride(v)
    OBVIOUS
  <2>1. Len(join.size) = 2
    BY <1>4
  <2>2. Packed(join.size)[2] = 1
    BY <1>6, <2>1, PackedMatrix
  <2>3. v.step[2] = join.step[2]
    BY <1>8, <2>1
  <2> QED BY <1>6, <2>2, <2>3 DEF HasRowStride
<1>10. Len(v.size) = 3 => v.step[3] = 1 /\ v.step[1] = join.size[2] * v.step[2]
  <2> SUFFICES ASSUME Len(v.size) = 3 PROVE v.step[3] = 1 /\ v.step[1] = join.size[2] * v.step[2]
    OBVIOUS
  <2>1. Len(join.size) = 3
    BY <1>4
  <2>2. Packed(join.size)[3] = 1 /\ Packed(join.size)[1] = join.size[2] * Packed(join.size)[2]
    BY <1>6, <2>1, PackedImage
  <2>3. v.step[1] = join.step[1] /\ v.step[2] = join.step[2] /\ v.step[3] = join.step[3]
    BY <1>8, <2>1
  <2> QED BY <1>6, <2>2, <2>3
<1> QED BY <1>1, <1>4, <1>5, <1>6, <1>9, <1>10 DEF join

LEMMA IntoTheJoinKeeps ==
    ASSUME NEW f, WellFormed(f), NEW i \in Positions(f.block), NEW copy,
           WindowOf(f, f.block[copy].out) # {},
           NEW n, n = [f.block[i] EXCEPT !.out = f.block[copy].out], Fits(n), Inherits(n, Range(f.block)),
           NEW g \in IntoTheJoin(f, i, copy)
    PROVE  WellFormed(g)
<1> DEFINE ops == Range(f.block)
           target == f.block[copy].out
           window == CHOOSE k \in Positions(f.block) : f.block[k].op = "view" /\ f.block[k].out = target
           join == f.block[window].ins[1]
           base == BaseOf(join, f)
           late == IsLocal(join, f) /\ AllocOf(join, f) > i
           first == InTheWay(f, i, copy, base)
           alloc == IF late THEN {AllocOf(join, f)} ELSE {}
           there == IF late THEN <<f.block[AllocOf(join, f)]>> ELSE <<>>
           those == FlattenSeq([k \in Positions(f.block) |-> IF k \in first THEN <<f.block[k]>> ELSE <<>>])
           moved == there \o those \o <<f.block[window]>>
           block == [f.block EXCEPT ![i].out = target]
           gone == {copy, window} \cup first \cup alloc
           joined == [f EXCEPT !.block = Edit([@ EXCEPT ![i].out = target], gone, InFrontOf(i, moved))]
           kept == [f EXCEPT !.block = Edit(@, alloc, InFrontOf(i, there))]
           N == {n}
<1>1. g = joined \/ g = kept
  <2> DEFINE A == {joined}
             B == {kept}
  <2>1. \/ g \in A
        \/ g \in B
    BY Zenon DEF IntoTheJoin
  <2> HIDE DEF joined, kept
  <2> QED BY <2>1
<1>2. window \in Positions(f.block)
  <2>1. PICK w : w \in WindowOf(f, target)
    OBVIOUS
  <2>2. \E k \in Positions(f.block) : f.block[k].op = "view" /\ f.block[k].out = target
    BY <2>1, WindowOfIs
  <2> QED BY <2>2, Zenon
<1>3. f.block[window] \in ops
  <2> HIDE DEF window
  <2> QED BY <1>2, OpOf
<1>4. late => f.block[AllocOf(join, f)] \in ops
  <2> HIDE DEF join
  <2> QED BY AllocOfIs
<1>5. f.block \in Seq(ops)
  BY DEF WellFormed
<1>6. there \in Seq(ops)
  <2> DEFINE a == f.block[AllocOf(join, f)]
  <2>1. late => a \in ops
    BY <1>4
  <2>2. there = IF late THEN <<a>> ELSE <<>>
    OBVIOUS
  <2> HIDE DEF a, ops, late, there
  <2> QED BY <2>1, <2>2
<1>7. those \in Seq(ops)
  <2> HIDE DEF ops, first
  <2> QED BY <1>5, PickedType
<1>8. moved \in Seq(ops)
  <2> DEFINE last == <<f.block[window]>>
  <2>1. last \in Seq(ops)
    <3> DEFINE k == f.block[window]
    <3>1. k \in ops
      BY <1>3
    <3> HIDE DEF k, ops
    <3> QED BY <3>1 DEF k
  <2> HIDE DEF there, those, last, ops
  <2>2. there \o those \in Seq(ops)
    BY <1>6, <1>7, ConcatProperties
  <2>3. (there \o those) \o last \in Seq(ops)
    BY <2>1, <2>2, ConcatProperties
  <2> QED BY <2>3 DEF last
<1>9. block = [f.block EXCEPT ![i] = n]
  OBVIOUS
<1>10. joined = [f EXCEPT !.block = Edit(block, gone, InFrontOf(i, moved))]
  OBVIOUS
<1>11. kept = [f EXCEPT !.block = Edit(f.block, alloc, InFrontOf(i, there))]
  OBVIOUS
<1>12. \A m \in N : Fits(m) /\ Inherits(m, ops)
  OBVIOUS
<1>13. ops \subseteq ops \cup N /\ n \in N
  OBVIOUS
<1> HIDE DEF there, moved, block, gone, alloc, joined, kept, N
<1>14. f.block \in Seq(ops \cup N) /\ [f.block EXCEPT ![i] = n] \in Seq(ops \cup N)
  BY <1>13, BlockType
<1> HIDE DEF ops
<1>15. moved \in Seq(ops \cup N) /\ there \in Seq(ops \cup N)
  BY <1>6, <1>8, <1>13, SeqMonotonic
<1>16. WellFormed(joined)
  BY <1>9, <1>10, <1>12, <1>14, <1>15, EditedWith DEF ops
<1>17. WellFormed(kept)
  BY <1>11, <1>12, <1>14, <1>15, EditedWith DEF ops
<1> QED BY <1>1, <1>16, <1>17
LEMMA FoldConcatIntoConvKeeps ==
    ASSUME NEW f, WellFormed(f), NEW i \in BlockOf(f), NEW g \in FoldConcatIntoConv(f, i)
    PROVE  WellFormed(g)
<1> DEFINE op == f.block[i]
           ops == Range(f.block)
           buf == op.out
           later == {n \in (i + 1)..Len(f.block) : Names(f.block[n], buf) /\ f.block[n].op # "dealloc"}
           IsJoin(n) ==
               LET join == f.block[n].ins[1].size
                   lo == f.block[n].lo
                   size == f.block[n].out.size
               IN lo[1] = 0 /\ lo[2] = 0 /\ size = buf.size /\ SubSeq(size, 1, 2) = SubSeq(join, 1, 2)
                  /\ lo[3] + size[3] <= join[3]
           C == {n \in later : /\ later = {n} /\ f.block[n].op = "copy" /\ f.block[n].ins = <<buf>>
                                /\ \E w \in WindowOf(f, f.block[n].out) : IsJoin(w)}
           into(c) == IntoTheJoin(f, i, c)
<1>1. op.op = "conv8" /\ g \in UNION {into(c) : c \in C}
  BY Zenon DEF FoldConcatIntoConv
<1>2. \E c \in C : g \in into(c)
  <2> HIDE DEF C, into
  <2> QED BY <1>1
<1>3. PICK c \in C : g \in IntoTheJoin(f, i, c)
  BY <1>2
<1>4. PICK w \in WindowOf(f, f.block[c].out) : IsJoin(w)
  BY <1>3
<1> DEFINE v == f.block[c].out
           win == f.block[w]
           join == win.ins[1]
           n == [op EXCEPT !.out = v]
<1>5. /\ win.out = v /\ IsView(v) /\ v.via = "window" /\ Len(join.size) = Len(v.size)
      /\ Len(v.size) = 2 => HasRowStride(v)
      /\ Len(v.size) = 3 => v.step[3] = 1 /\ v.step[1] = join.size[2] * v.step[2]
      /\ join.size \in Seq(Nat \ {0})
  <2>1. w \in WindowOf(f, v)
    BY <1>4
  <2> HIDE DEF v
  <2> QED BY <2>1, WindowOfIs
<1>6. v.size = buf.size /\ SubSeq(v.size, 1, 2) = SubSeq(join.size, 1, 2)
  BY <1>4, <1>5, Zenon
<1>7. i \in Positions(f.block)
  BY DEF BlockOf
<1>8. Fits(op) /\ op \in ops
  BY <1>7, OpOf
<1>9. Len(v.size) = 3
  BY <1>1, <1>6, <1>8 DEF Fits, ConvCallFits, IsImage
<1>10. v.size[2] = join.size[2]
  <2> DEFINE s == v.size
             t == join.size
             P == Nat \ {0}
  <2>1. s \in Seq(P) /\ t \in Seq(P) /\ Len(s) = 3 /\ Len(t) = 3 /\ SubSeq(s, 1, 2) = SubSeq(t, 1, 2)
    <3>1. IsView(v) /\ Len(join.size) = Len(v.size)
      BY <1>5
    <3> HIDE DEF v, join
    <3>2. v.size \in Seq(P)
      BY <3>1 DEF IsView
    <3> HIDE DEF P
    <3> QED BY <1>5, <1>6, <1>9, <3>1, <3>2 DEF P
  <2> HIDE DEF s, t, P
  <2>2. SubSeq(s, 1, 2)[2] = s[2]
    BY <2>1
  <2>3. SubSeq(t, 1, 2)[2] = t[2]
    BY <2>1
  <2> QED BY <2>1, <2>2, <2>3 DEF s, t
<1>11. RowsFollowTheStride(v)
  BY <1>5, <1>9, <1>10 DEF RowsFollowTheStride
<1> HIDE DEF n, v, ops, buf
<1>12. Fits(n) /\ Inherits(n, ops)
  <2>1. n = [op EXCEPT !.out = v] /\ v.size = op.out.size /\ op.op = "conv8"
    BY <1>1, <1>6 DEF n, buf
  <2> HIDE DEF op
  <2> QED BY <1>5, <1>8, <1>9, <1>11, <2>1, Redirected
<1>13. WindowOf(f, f.block[c].out) # {}
  BY <1>4
<1>14. n = [f.block[i] EXCEPT !.out = f.block[c].out]
  BY DEF n, v
<1> HIDE DEF op
<1> QED BY <1>3, <1>7, <1>12, <1>13, <1>14, IntoTheJoinKeeps DEF ops

LEMMA FoldConcatIntoElementwiseKeeps ==
    ASSUME NEW f, WellFormed(f), NEW c \in BlockOf(f), NEW g \in FoldConcatIntoElementwise(f, c)
    PROVE  WellFormed(g)
<1> DEFINE ops == Range(f.block)
           copy == f.block[c]
           buf == copy.ins[1]
           users == {n \in Positions(f.block) \ {c} : Names(f.block[n], buf) /\ f.block[n].op # "dealloc"}
           I == {n \in users : /\ users = {n} /\ n < c
                                /\ f.block[n].op = "generic" /\ f.block[n].out = buf
                                /\ ~ReadsItsOutput(f.block[n])}
           into(i) == IntoTheJoin(f, i, c)
<1>1. copy.op = "copy" /\ WindowOf(f, copy.out) # {} /\ g \in UNION {into(i) : i \in I}
  BY Zenon DEF FoldConcatIntoElementwise
<1>2. \E i \in I : g \in into(i)
  <2> HIDE DEF I, into
  <2> QED BY <1>1
<1>3. PICK i \in I : g \in IntoTheJoin(f, i, c)
  BY <1>2
<1> DEFINE op == f.block[i]
           v == copy.out
           n == [op EXCEPT !.out = v]
<1>4. /\ i \in Positions(f.block) /\ op.op = "generic" /\ op.out = buf /\ ~ReadsItsOutput(op)
  BY <1>3
<1>5. PICK w : w \in WindowOf(f, v)
  BY <1>1
<1>6. IsView(v) /\ (Len(v.size) = 2 => HasRowStride(v))
  <2> HIDE DEF v
  <2> QED BY <1>5, WindowOfIs DEF v
<1>7. Fits(op) /\ op \in ops /\ Fits(copy)
  <2>1. c \in Positions(f.block)
    BY DEF BlockOf
  <2> QED BY <1>4, <2>1, OpOf
<1>8. v.size = op.out.size
  BY <1>1, <1>4, <1>7 DEF Fits, CopyFits
<1>9. op.body # "bias"
  BY <1>4 DEF ReadsItsOutput
<1> HIDE DEF n, v, ops, buf, op
<1>10. n = [op EXCEPT !.out = v]
  BY DEF n
<1>11. Fits(n) /\ Inherits(n, ops)
  BY <1>4, <1>6, <1>7, <1>8, <1>9, <1>10, Redirected
<1>12. n = [f.block[i] EXCEPT !.out = f.block[c].out]
  BY DEF n, v, op
<1> HIDE DEF copy
<1>13. WindowOf(f, f.block[c].out) # {}
  BY <1>1 DEF copy
<1> QED BY <1>3, <1>4, <1>11, <1>12, <1>13, IntoTheJoinKeeps DEF ops
-----------------------------------------------------------------------------
(* A pool. *)

\* A pool that reads a convolution's output does so as it is, or in the middle
\* of a border of zeros.
LEMMA PoolsOfIs ==
    ASSUME NEW f, WellFormed(f), NEW i \in Positions(f.block),
           IsView(f.block[i].out), Len(f.block[i].out.size) = 3, NEW t \in PoolsOf(f, i)
    PROVE  /\ t.at \in Positions(f.block) /\ f.block[t.at].op = "pool" /\ t.p \in Nat
           /\ t.in.size[3] = f.block[i].out.size[3]
           /\ \A e \in 1..2 : t.in.size[e] = f.block[i].out.size[e] + 2 * t.p
<1> DEFINE out == f.block[i].out
           next == NextUse(f.block, i, out)
           padded(n) == f.block[n].op = "copy" /\ f.block[n].ins = <<out>>
           Centred(w) ==
             LET p == f.block[w].lo[1]
                 full == f.block[w].ins[1].size
             IN /\ f.block[w].lo = <<p, p, 0>> /\ p >= 1 /\ f.block[w].out.size = out.size
                /\ full = <<out.size[1] + 2 * p, out.size[2] + 2 * p, out.size[3]>>
                /\ IsLocal(f.block[w].ins[1], f)
           plain(n) == [at |-> n, in |-> out, p |-> 0, gone |-> {}]
           P == {x \in next : f.block[x].op = "pool"}
           S(c, w) == PoolsOfWindow(f, c, w)
           W(c) == {x \in WindowOf(f, f.block[c].out) : Centred(x)}
           C == {x \in next : padded(x)}
           A == {plain(n) : n \in P}
           B == UNION {UNION {S(c, w) : w \in W(c)} : c \in C}
<1>1. f.block \in Seq(Range(f.block))
  BY DEF WellFormed
<1>2. out.size \in Seq(Nat \ {0}) /\ \A e \in 1..3 : out.size[e] \in Nat
  <2> DEFINE s == out.size
             T == Nat \ {0}
  <2>1. s \in Seq(T) /\ Len(s) = 3 /\ T \subseteq Nat
    BY DEF IsView
  <2> HIDE DEF s, T
  <2>2. \A e \in 1..3 : s[e] \in T
    BY <2>1, s \in [1..Len(s) -> T]
  <2> QED BY <2>1, <2>2 DEF s, T
<1>3. \/ t \in A
      \/ t \in B
  BY Zenon DEF PoolsOf
<1>4. CASE t \in A
  <2>1. \E n \in P : t = plain(n)
    <3> HIDE DEF P, plain
    <3> QED BY <1>4
  <2>2. PICK n \in next : f.block[n].op = "pool" /\ t = plain(n)
    BY <2>1
  <2>3. n \in Positions(f.block)
    <3> HIDE DEF out
    <3> QED BY <1>1, NextUseIs
  <2>4. t.at = n /\ t.in = out /\ t.p = 0
    BY <2>2
  <2>5. \A e \in 1..2 : out.size[e] = out.size[e] + 2 * 0
    BY <1>2
  <2> HIDE DEF out
  <2> QED BY <2>2, <2>3, <2>4, <2>5 DEF out
<1>5. CASE t \in B
  <2>1. \E c \in C : \E w \in W(c) : t \in S(c, w)
    <3> HIDE DEF C, W, S
    <3> QED BY <1>5
  <2>2. PICK c \in next : \E w \in W(c) : t \in S(c, w)
    BY <2>1, Zenon
  <2>3. PICK w \in WindowOf(f, f.block[c].out) : Centred(w) /\ t \in S(c, w)
    BY <2>2, Zenon
  <2>4. PICK n \in NextUseOfBuffer(f, c, f.block[w].ins[1]) :
            /\ f.block[n].op = "pool"
            /\ \E gone : t = [at |-> n, in |-> f.block[w].ins[1], p |-> f.block[w].lo[1], gone |-> gone]
    BY <2>3 DEF PoolsOfWindow
  <2> DEFINE p == f.block[w].lo[1]
             full == f.block[w].ins[1].size
  <2>5. t.at = n /\ t.in = f.block[w].ins[1] /\ t.p = p
    BY <2>4
  <2>6. c \in Positions(f.block)
    <3> HIDE DEF out
    <3> QED BY <1>1, NextUseIs
  <2>7. n \in Positions(f.block)
    BY <2>6, NextUseOfBufferIs
  <2>8. full = <<out.size[1] + 2 * p, out.size[2] + 2 * p, out.size[3]>>
    BY <2>3, Zenon
  <2>9. p \in Nat
    <3> DEFINE v == f.block[c].out
    <3>1. w \in WindowOf(f, v)
      OBVIOUS
    <3> HIDE DEF v
    <3>2. /\ w \in Positions(f.block) /\ f.block[w].op = "view" /\ f.block[w].out = v /\ v.via = "window"
          /\ Len(full) = Len(v.size)
      BY <3>1, WindowOfIs
    <3>3. Fits(f.block[w]) /\ IsWindow(f.block[w])
      BY <3>2, OpOf DEF IsWindow
    <3>4. f.block[w].lo \in [Positions(full) -> Nat]
      <4>1. f.block[w].op # "loop"
        BY <3>2
      <4>2. WindowFits(f.block[w])
        BY <3>3, <4>1, Zenon DEF Fits
      <4> QED BY <4>2 DEF WindowFits
    <3> DEFINE x == out.size[1] + 2 * f.block[w].lo[1]
               y == out.size[2] + 2 * f.block[w].lo[1]
               z == out.size[3]
    <3>5. full = <<x, y, z>>
      BY <2>8
    <3> HIDE DEF x, y, z, full
    <3>6. 1 \in Positions(full)
      BY <3>5 DEF Positions
    <3> QED BY <3>4, <3>6
  <2>10. full[1] = out.size[1] + 2 * p /\ full[2] = out.size[2] + 2 * p /\ full[3] = out.size[3]
    BY <2>8
  <2>11. \A e \in 1..2 : full[e] = out.size[e] + 2 * p
    BY <2>10
  <2>12. t.in.size[3] = out.size[3]
    BY <2>5, <2>10
  <2>13. \A e \in 1..2 : t.in.size[e] = out.size[e] + 2 * t.p
    BY <2>5, <2>11
  <2>14. t.at \in Positions(f.block) /\ f.block[t.at].op = "pool" /\ t.p \in Nat
    BY <2>4, <2>5, <2>7, <2>9
  <2> HIDE DEF full, p, out
  <2> QED BY <2>12, <2>13, <2>14, Zenon DEF out
<1> QED BY <1>3, <1>4, <1>5
LEMMA FoldMaxPoolKeeps ==
    ASSUME NEW f, WellFormed(f), NEW i \in BlockOf(f), NEW g \in FoldMaxPoolIntoConv(f, i)
    PROVE  WellFormed(g)
<1> DEFINE op == f.block[i]
           ops == Range(f.block)
           Identity(n) ==
             LET named == {j \in 1..(n - 1) : Names(f.block[j], f.block[n].out)}
             IN {j \in named : j = Max(named) /\ f.block[j].op = "fill" /\ f.block[j].out = f.block[n].out}
           Folds(t) ==
             LET pool == f.block[t.at]
             IN /\ pool.ins[1] = t.in
                /\ Square(pool.k) /\ Square(pool.stride) /\ pool.dilation = <<1, 1>>
                /\ OnlyFreedAfter(f.block, t.at, op.out) /\ OnlyFreedAfter(f.block, t.at, t.in)
                /\ UntouchedBetween(f.block, i, t.at, Range(op.ins))
                /\ t.p # 0 => /\ pool.k[1] - 1 >= t.p
                              /\ \A e \in 1..2 : (pool.out.size[e] - 1) * pool.stride[1]
                                                  <= t.p + op.out.size[e] - 1
           pooled(t) == [op EXCEPT !.out = f.block[t.at].out,
                          !.pool = [k |-> f.block[t.at].k[1], s |-> f.block[t.at].stride[1], p |-> t.p]]
           made(t) == [f EXCEPT !.block = Edit(@, {i, t.at} \cup t.gone \cup Identity(t.at),
                                               InFrontOf(t.at, <<pooled(t)>>))]
           T == {x \in PoolsOf(f, i) : Folds(x)}
<1>1. op.op = "conv8" /\ op.pool.s = 0 /\ IsLocal(op.out, f)
  BY Zenon DEF FoldMaxPoolIntoConv
<1>2. g \in {made(t) : t \in T}
  BY Zenon DEF FoldMaxPoolIntoConv
<1>3. \E t \in T : g = made(t)
  <2> HIDE DEF made, T
  <2> QED BY <1>2
<1>4. PICK t \in PoolsOf(f, i) : Folds(t) /\ g = made(t)
  BY <1>3, Zenon
<1> DEFINE pool == f.block[t.at]
           c == pooled(t)
           gone == {i, t.at} \cup t.gone \cup Identity(t.at)
<1>5. g = [f EXCEPT !.block = Edit(f.block, gone, InFrontOf(t.at, <<c>>))]
  BY <1>4
<1>6. i \in Positions(f.block) /\ Fits(op) /\ op \in ops
  BY OpOf DEF BlockOf
<1>7. /\ Has(op, {"op", "ins", "out"}) /\ op.ins \in Seq(Range(op.ins))
      /\ \A v \in Range(op.ins) : IsView(v)
      /\ IsView(op.out) /\ ConvCallFits(op)
  <2>1. IsOp(op) /\ ConvCallFits(op)
    BY <1>1, <1>6 DEF Fits
  <2> QED BY <2>1 DEF IsOp
<1>8. Len(op.out.size) = 3
  BY <1>7 DEF ConvCallFits, IsImage
<1>9. /\ t.at \in Positions(f.block) /\ pool.op = "pool" /\ t.p \in Nat
      /\ t.in.size[3] = op.out.size[3]
      /\ \A e \in 1..2 : t.in.size[e] = op.out.size[e] + 2 * t.p
  BY <1>6, <1>7, <1>8, PoolsOfIs
<1>10. IsOp(pool) /\ PoolFits(pool)
  BY <1>9, OpOf DEF Fits
<1>11. /\ pool.ins[1] = t.in /\ Square(pool.k) /\ Square(pool.stride) /\ pool.dilation = <<1, 1>>
  BY <1>4
<1>12. IsView(pool.out)
  BY <1>10 DEF IsOp
<1>13. c = [op EXCEPT !.out = pool.out, !.pool = [k |-> pool.k[1], s |-> pool.stride[1], p |-> t.p]]
  OBVIOUS
<1> HIDE DEF op, pool, c, ops, gone
<1>14. /\ pool.k[1] \in Nat \ {0} /\ pool.k[2] = pool.k[1]
       /\ pool.stride[1] \in Nat \ {0} /\ pool.stride[2] = pool.stride[1]
  BY <1>10, <1>11 DEF PoolFits, Pair, Square
<1>15. Has(op, {"stride", "dilation", "pad", "spread", "pool", "act"})
  BY <1>7 DEF ConvCallFits
<1>16. /\ c.out = pool.out /\ c.pool = [k |-> pool.k[1], s |-> pool.stride[1], p |-> t.p]
       /\ c.op = op.op /\ c.ins = op.ins /\ c.stride = op.stride /\ c.dilation = op.dilation
       /\ c.pad = op.pad /\ c.spread = op.spread
       /\ DOMAIN c = DOMAIN op
  BY <1>7, <1>13, <1>15 DEF Has
<1>17. \A e \in 1..2 : ConvExtent(c, e) = ConvExtent(op, e)
  BY <1>16 DEF ConvExtent, FilterSide
<1>18. \A e \in 1..2 : ConvExtent(op, e) >= 1 /\ op.out.size[e] = ConvExtent(op, e)
  BY <1>1, <1>7 DEF ConvCallFits, VerifiesConv, PoolExtent
<1>19. \A e \in 1..2 : pool.out.size[e] = PoolExtent(c, e)
  <2> SUFFICES ASSUME NEW e \in 1..2 PROVE pool.out.size[e] = PoolExtent(c, e)
    OBVIOUS
  <2> DEFINE k == pool.k[1]
             s == pool.stride[1]
             q == t.p
             m == op.out.size[e]
  <2> DEFINE x == pool.ins[1].size[e]
             d == pool.dilation[e]
             ke == pool.k[e]
             se == pool.stride[e]
             r == pool.out.size[e]
             z == PoolExtent(c, e)
  <2>1. r = (x - (d * (ke - 1) + 1)) \div se + 1
    BY <1>10 DEF PoolFits
  <2>2. x = m + 2 * q /\ d = 1 /\ ke = k /\ se = s
    BY <1>9, <1>11, <1>14
  <2>3. z = (m + 2 * q - k) \div s + 1
    <3>1. c.pool.s = s /\ c.pool.k = k /\ c.pool.p = q /\ s # 0
      BY <1>14, <1>16
    <3>2. ConvExtent(c, e) = m
      BY <1>17, <1>18
    <3> HIDE DEF k, s, q, m
    <3> QED BY <3>1, <3>2 DEF PoolExtent
  <2>4. k \in Nat /\ q \in Nat /\ m \in Nat
    <3> DEFINE P == Nat \ {0}
               y == op.out.size
    <3>1. y \in Seq(P) /\ Len(y) = 3 /\ P \subseteq Nat
      BY <1>7, <1>8 DEF IsView
    <3> HIDE DEF P, y
    <3>2. y[e] \in P
      <4>1. e \in 1..Len(y)
        BY <3>1
      <4> QED BY <3>1, <4>1, ElementOfSeq
    <3>3. m \in Nat
      BY <3>1, <3>2 DEF y
    <3> QED BY <1>9, <1>14, <3>3
  <2>5. r = ((m + 2 * q) - (1 * (k - 1) + 1)) \div s + 1
    <3> HIDE DEF k, s, q, m, x, d, ke, se, r
    <3> QED BY <2>1, <2>2
  <2>6. (m + 2 * q) - (1 * (k - 1) + 1) = m + 2 * q - k
    BY <2>4
  <2>7. r = z
    <3> HIDE DEF k, s, q, m, r, z
    <3> QED BY <2>3, <2>5, <2>6
  <2> QED BY <2>7
<1>20. RowsFollowTheStride(pool.out) /\ pool.out.size[3] = op.out.size[3] /\ Len(pool.out.size) = 3
  BY <1>9, <1>10, <1>11 DEF PoolFits, IsImage
<1>21. VerifiesConv(c)
  BY <1>1, <1>7, <1>14, <1>16, <1>17, <1>18, <1>19, <1>20 DEF ConvCallFits, VerifiesConv, FilterSide
<1>22. ConvCallFits(c)
  BY <1>7, <1>14, <1>16, <1>20, <1>21, <1>9 DEF ConvCallFits, Has, IsImage
<1>23. c.spread = 2 /\ c.pad = 0 => c.ins[1] \in Spread(ops)
  BY <1>1, <1>6, <1>16 DEF Spread
<1>24. Fits(c) /\ Inherits(c, ops)
  <2> DEFINE X == Range(op.ins)
  <2>1. c.ins \in Seq(X) /\ \A v \in X : IsView(v)
    BY <1>7, <1>16
  <2>2. Has(c, {"op", "ins", "out"}) /\ IsView(c.out) /\ c.op \in {"conv8", "dw8"}
    BY <1>1, <1>7, <1>12, <1>16 DEF Has
  <2> HIDE DEF X
  <2> QED BY <1>22, <1>23, <2>1, <2>2, ConvCallIs
<1> DEFINE N == {c}
<1>25. \A n \in N : Fits(n) /\ Inherits(n, ops)
  BY <1>24
<1>26. f.block \in Seq(ops \cup N) /\ <<c>> \in Seq(ops \cup N)
  <2>1. c \in N
    OBVIOUS
  <2> HIDE DEF N
  <2>2. f.block \in Seq(ops \cup N)
    BY BlockType DEF ops
  <2> QED BY <2>1, <2>2
<1> HIDE DEF N
<1> QED BY <1>5, <1>25, <1>26, EditedWith DEF ops
-----------------------------------------------------------------------------
(* A relu, and the check at the end. *)

LEMMA FoldReluKeeps ==
    ASSUME NEW f, WellFormed(f), NEW i \in BlockOf(f), NEW g \in FoldReluIntoAct(f, i)
    PROVE  WellFormed(g)
<1> DEFINE op == f.block[i]
           ops == Range(f.block)
           c == [op EXCEPT !.act = "relu"]
           block == [f.block EXCEPT ![i] = c]
<1>1. op.op \in {"mm8", "add"}
  BY Zenon DEF FoldReluIntoAct
<1>2. g \in {[f EXCEPT !.block = Edit([@ EXCEPT ![i].act = "relu"], {i + 1}, <<>>)]}
  BY Zenon DEF FoldReluIntoAct
<1>3. g = [f EXCEPT !.block = Edit([f.block EXCEPT ![i].act = "relu"], {i + 1}, <<>>)]
  BY <1>2
<1>4. i \in Positions(f.block) /\ Fits(op) /\ op \in ops
  BY OpOf DEF BlockOf
<1>5. g = [f EXCEPT !.block = Edit(block, {i + 1}, <<>>)]
  BY <1>3
<1> HIDE DEF op, c
<1>6. Has(op, {"op", "ins", "out", "act"})
  <2>1. IsOp(op)
    BY <1>1, <1>4 DEF Fits
  <2>2. op.op = "mm8" => MatmulFits(op)
    BY <1>4 DEF Fits
  <2>3. op.op = "add" => Has(op, {"act"})
    BY <1>4 DEF Fits
  <2> QED BY <1>1, <2>1, <2>2, <2>3 DEF IsOp, MatmulFits, Has
<1>7. c.op = op.op /\ c.ins = op.ins /\ c.out = op.out /\ DOMAIN c = DOMAIN op
  BY <1>6 DEF c, Has
<1>8. c.op = "mm8" => c.trL = op.trL /\ c.trR = op.trR /\ Has(op, {"trL", "trR"})
  BY <1>4, <1>6, <1>7 DEF c, Has, Fits, MatmulFits
<1>9. IsOp(c)
  BY <1>1, <1>4, <1>6, <1>7 DEF Fits, IsOp, Has
<1>10. Fits(c)
  <2>1. CASE op.op = "mm8"
    <3>1. MatmulFits(op)
      BY <1>4, <2>1 DEF Fits
    <3>2. VerifiesMatmul(c)
      BY <1>7, <1>8, <2>1, <3>1 DEF MatmulFits, VerifiesMatmul
    <3>3. MatmulFits(c)
      BY <1>7, <2>1, <3>1, <3>2 DEF MatmulFits, Has
    <3> QED BY <1>7, <1>9, <2>1, <3>3 DEF Fits, IsWindow
  <2>2. CASE op.op = "add"
    <3>1. Verifies(c)
      BY <1>4, <1>7, <2>2 DEF Fits, Verifies
    <3> QED BY <1>6, <1>7, <1>9, <2>2, <3>1 DEF Fits, IsWindow, Has
  <2> QED BY <1>1, <2>1, <2>2
<1>11. Inherits(c, ops)
  BY <1>1, <1>7 DEF Inherits, Held, Asked, IsWindow
<1> DEFINE N == {c}
<1>12. block \in Seq(ops \cup N)
  <2>1. c \in N
    OBVIOUS
  <2> HIDE DEF N
  <2> QED BY <1>4, <2>1, BlockType DEF ops
<1>13. \A n \in N : Fits(n) /\ Inherits(n, ops)
  BY <1>10, <1>11
<1> HIDE DEF N, block
<1> QED BY <1>5, <1>12, <1>13, EditedWithout DEF ops
LEMMA CheckKeeps ==
    ASSUME NEW f, WellFormed(f), NEW i \in BlockOf(f), NEW g \in CheckHostWrites(f, i)
    PROVE  WellFormed(g)
<1>1. g \in {[f EXCEPT !.failed = TRUE]}
  BY Zenon DEF CheckHostWrites
<1> QED BY <1>1, FailedKeeps

LEMMA FoldKeeps ==
    ASSUME NEW f, WellFormed(f), NEW i \in BlockOf(f), NEW g \in Fold(f, i)
    PROVE  WellFormed(g)
<1>1. \/ g \in FoldBiasIntoMatmul(f, i)
      \/ g \in FoldRequantizeIntoMatmul(f, i)
      \/ g \in FoldRequantizeIntoBatchMatmul(f, i)
      \/ g \in FuseQuantizedConv(f, i)
      \/ g \in FoldConcatIntoConv(f, i)
      \/ g \in FoldConcatIntoElementwise(f, i)
      \/ g \in ElideRedundantBufferCopy(f, i)
      \/ g \in FoldPaddingIntoConv(f, i)
      \/ g \in FoldReluIntoAct(f, i)
      \/ g \in FoldMaxPoolIntoConv(f, i)
  BY Zenon DEF Fold
<1>2. /\ g \in FoldBiasIntoMatmul(f, i) => WellFormed(g)
      /\ g \in FoldRequantizeIntoMatmul(f, i) => WellFormed(g)
      /\ g \in FoldRequantizeIntoBatchMatmul(f, i) => WellFormed(g)
      /\ g \in FuseQuantizedConv(f, i) => WellFormed(g)
  BY FoldBiasKeeps, FoldRequantizeKeeps, FoldRequantizeIntoBatchKeeps, FuseKeeps
<1>3. /\ g \in FoldConcatIntoConv(f, i) => WellFormed(g)
      /\ g \in FoldConcatIntoElementwise(f, i) => WellFormed(g)
      /\ g \in ElideRedundantBufferCopy(f, i) => WellFormed(g)
  BY FoldConcatIntoConvKeeps, FoldConcatIntoElementwiseKeeps, ElideKeeps
<1>4. /\ g \in FoldPaddingIntoConv(f, i) => WellFormed(g)
      /\ g \in FoldReluIntoAct(f, i) => WellFormed(g)
      /\ g \in FoldMaxPoolIntoConv(f, i) => WellFormed(g)
  BY FoldPaddingKeeps, FoldReluKeeps, FoldMaxPoolKeeps
<1> QED BY <1>1, <1>2, <1>3, <1>4
-----------------------------------------------------------------------------
(* The pass. *)

\* An operation that is in order passes the verifier of its kind.
LEMMA FitsVerifies ==
    ASSUME NEW op, Fits(op)
    PROVE  Verifies(op)
<1>1. op.op \in {"mm", "mm8"} => VerifiesMatmul(op)
  BY DEF Fits, MatmulFits
<1>2. op.op = "loop" => VerifiesMatmul(OnSlice(op.call, 0))
  BY DEF Fits, LoopFits
<1>3. op.op \in {"conv8", "dw8"} => VerifiesConv(op)
  BY DEF Fits, ConvCallFits
<1>4. op.op = "add" => op.ins[1].size = op.ins[2].size /\ op.ins[1].size = op.out.size
  BY DEF Fits, Verifies
<1> HIDE DEF Fits
<1> QED BY <1>1, <1>2, <1>3, <1>4 DEF Verifies

\* What the function at work is throughout the pass.
Offloading == group = "offload" /\ WellFormed(now)

LEMMA OffloadingInductive ==
    ASSUME Offloading, [OffloadStep]_rewriting
    PROVE  Offloading'
<1>1. CASE rewriting' = rewriting
  BY <1>1 DEF Offloading, rewriting, WellFormed, WellFormedOps
<1>2. CASE OffloadStep
  <2>1. group' = group
    BY <1>2 DEF OffloadStep, Pass
  <2>2. \/ now' = now
        \/ \E i \in BlockOf(now) : now' \in Convert(now, i)
        \/ \E i \in BlockOf(now) : now' \in Fold(now, i)
        \/ \E i \in BlockOf(now) : now' \in CheckHostWrites(now, i)
    BY <1>2, Zenon DEF OffloadStep, Pass
  <2>3. WellFormed(now')
    BY <2>2, ConvertKeeps, FoldKeeps, CheckKeeps DEF Offloading
  <2> QED BY <2>1, <2>3 DEF Offloading
<1> QED BY <1>1, <1>2

\* However long the function the pass is given, whatever the shapes of its
\* memrefs and whichever of the matches the driver takes next, every call there
\* is after any of the rewrites passes the verifier of its operation: the folds
\* never leave an accelerator call behind that the compiler would then refuse.
THEOREM CallsVerify ==
    ASSUME NEW given, \A f \in given : WellFormed(f)
    PROVE  OffloadSpec(given) => []EveryCallVerifies
<1>1. OffloadInit(given) => Offloading
  BY DEF OffloadInit, Offloading
<1>2. Offloading /\ [OffloadStep]_rewriting => Offloading'
  BY OffloadingInductive
<1>3. Offloading => EveryCallVerifies
  BY OpOf, FitsVerifies DEF Offloading, EveryCallVerifies, BlockOf
<1> QED BY <1>1, <1>2, <1>3, PTL DEF OffloadSpec
=============================================================================
