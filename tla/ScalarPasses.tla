----------------------------- MODULE ScalarPasses -----------------------------
(***************************************************************************)
(* The passes over single operations of an elementwise body, in the order of  *)
(* scripts/compile.sh:                                                        *)
(*   --round-quantized-casts, --saturate-constant-casts,                      *)
(*   --reciprocal-for-division, --combine-constant-scales,                    *)
(*   --fuse-multiply-add, --select-to-minmax, --drop-clamp-below-relu and     *)
(*   --clamp-as-range-check.                                                  *)
(* Most are licensed by where a value goes: what ends in a conversion to an    *)
(* integer may differ where the conversion has no value.                      *)
(***************************************************************************)
EXTENDS ScalarBodies

\* Where a value goes: through some operations, to end in others.
Reached(b, i, through) ==
    FoldLeft(LAMBDA s, n : s \cup {j \in Ids(b) : b.ops[j].k \in through /\ s \cap Range(b.ops[j].a) # {}},
             {i}, [n \in 1..Cardinality(Ids(b)) |-> n])
OnlyDirectlyInto(b, i, through, ends) ==
    i \notin Range(b.out) /\ \A j \in Users(b, i) : b.ops[j].k \in through \cup ends
OnlyInto(b, i, through, ends) ==
    \A v \in Reached(b, i, through) :
        v \notin Range(b.out) /\ \A j \in Users(b, v) : b.ops[j].k \in through \cup ends

Arithmetic == {"add", "sub", "mul", "div", "neg", "maximum", "select", "round", "fma"}
MinMax == {"maxnum", "minnum"}

(***************************************************************************)
(* --round-quantized-casts: a conversion of a quotient rounds and saturates. *)
(***************************************************************************)
RoundBeforeConversion(b, i) ==
    LET in == Arg(b, i, 1)
        rounds == Kind(b, in) = "round"
        narrow == b.ops[i].c[1] < WideBits
        w == b.ops[i].c[1]
        n == NextId(b)
        \* the numbers of the new operations; a value already rounded is there
        value == IF rounds THEN in ELSE n
        first == IF rounds THEN <<>> ELSE <<Op("round", <<in>>)>>
        m == n + Len(first)
    IN IF Kind(b, i) # "fptosi" \/ Kind(b, IF rounds THEN Arg(b, in, 1) ELSE in) # "div" THEN {}
       ELSE IF narrow
       THEN {Rewritten(b, i, first \o
                <<Cast("fptosi", value, WideBits), Const(Whole(Least(w))), Op("maxsi", <<m, m + 1>>),
                  Const(Whole(Most(w))), Op("minsi", <<m + 2, m + 3>>), Cast("trunci", m + 4, w)>>)}
       ELSE IF rounds THEN {} ELSE {Rewritten(b, i, first \o <<Cast("fptosi", value, w)>>)}

(***************************************************************************)
(* --saturate-constant-casts                                                 *)
(***************************************************************************)
SaturateConstantCast(b, i) ==
    LET w == b.ops[i].c[1]
        v == ConstOf(b, Arg(b, i, 1))
        n == CASE v = NaN \/ Less(Whole(Most(w)), v) -> Most(w)
               [] Less(v, Whole(Least(w))) -> Least(w)
               [] OTHER -> TowardZero(v)
    IN IF Kind(b, i) = "fptosi" /\ IsConst(b, Arg(b, i, 1))
       THEN {Rewritten(b, i, <<Const(Whole(n))>>)} ELSE {}

(***************************************************************************)
(* --reciprocal-for-division                                                 *)
(***************************************************************************)
DivideByConstant(b, i) ==
    LET c == ConstOf(b, Arg(b, i, 2))
        inverse == Over(Whole(1), c)
    IN IF /\ Kind(b, i) = "div" /\ IsConst(b, Arg(b, i, 2))
          /\ IsFinite(c) /\ c[1] > 0
          /\ inverse[1] # 0     \* neither zero nor denormal
       THEN {Rewritten(b, i, <<Const(inverse), Op("mul", <<Arg(b, i, 1), NextId(b)>>)>>)} ELSE {}

(***************************************************************************)
(* --combine-constant-scales: a chain of steps a*x + b is one of them.        *)
(***************************************************************************)
\* The operand a step is applied to.
StepOn(b, i) ==
    LET k(n) == IsConst(b, Arg(b, i, n))
    IN CASE Kind(b, i) = "neg" -> {Arg(b, i, 1)}
         [] Kind(b, i) \in {"mul", "add", "sub"} ->
                IF k(2) THEN {Arg(b, i, 1)} ELSE IF k(1) THEN {Arg(b, i, 2)} ELSE {}
         [] Kind(b, i) = "div" -> IF k(2) THEN {Arg(b, i, 1)} ELSE {}
         [] Kind(b, i) = "fma" ->
                IF ~k(3) THEN {} ELSE IF k(2) THEN {Arg(b, i, 1)} ELSE IF k(1) THEN {Arg(b, i, 2)} ELSE {}
         [] OTHER -> {}

Applied(b, i, t) ==
    LET second == IsConst(b, Arg(b, i, 2))
        k == ConstOf(b, Arg(b, i, IF second THEN 2 ELSE 1))
        Scaled(F(_, _)) == [t EXCEPT !.a = F(@, k), !.b = F(@, k)]
    IN CASE Kind(b, i) = "neg" -> [t EXCEPT !.a = Neg(@), !.b = Neg(@)]
         [] Kind(b, i) = "mul" -> Scaled(Times)
         [] Kind(b, i) = "div" -> Scaled(Over)
         [] Kind(b, i) = "add" -> [t EXCEPT !.b = Plus(@, k)]
         [] Kind(b, i) = "sub" -> IF second THEN [t EXCEPT !.b = Plus(@, Neg(k))]
                                  ELSE [t EXCEPT !.a = Neg(@), !.b = Plus(Neg(@), k)]
         [] Kind(b, i) = "fma" -> [Scaled(Times) EXCEPT !.b = Plus(@, ConstOf(b, Arg(b, i, 3)))]

ChainCountingItsRoot(b, i) ==
    LET chain[j \in Ids(b)] ==
            LET x == Max(StepOn(b, j))
            IN Applied(b, j, IF x \in Ids(b) /\ HasOneUse(b, x) /\ StepOn(b, x) # {} THEN [chain[x] EXCEPT !.n = @ + 1]
                             ELSE [root |-> x, a |-> Whole(1), b |-> Whole(0), n |-> 2])
    IN chain[i]

\* The whole chain that ends at i, as a*root + b.
ChainTo(b, i) ==
    LET chain[j \in Ids(b)] ==
            LET x == Max(StepOn(b, j))
            IN Applied(b, j, IF x \in Ids(b) /\ HasOneUse(b, x) /\ StepOn(b, x) # {} THEN [chain[x] EXCEPT !.n = @ + 1]
                             ELSE [root |-> x, a |-> Whole(1), b |-> Whole(0), n |-> 1])
    IN chain[i]

CombineConstantScales(b, i) ==
    LET t == Settled(ChainTo(b, i))
        n == NextId(b)
    IN IF /\ StepOn(b, i) # {}
          /\ ~(HasOneUse(b, i) /\ \E j \in Users(b, i) : StepOn(b, j) = {i})   \* the last step
          /\ t.n >= 2
          /\ \A v \in Reached(b, i, MinMax \cup {"round", "maximum"}) : Users(b, v) # {}
          /\ OnlyInto(b, i, MinMax \cup {"round", "maximum"}, {"fptosi"})
          /\ IsFinite(t.a) /\ IsFinite(t.b) /\ ~IsZero(t.a)
       THEN {Rewritten(b, i, IF IsZero(t.b) THEN <<Const(t.a), Op("mul", <<t.root, n>>)>>
                             ELSE <<Const(t.a), Const(t.b), Op("fma", <<t.root, n, n + 1>>)>>)}
       ELSE {}

(***************************************************************************)
(* --fuse-multiply-add                                                       *)
(***************************************************************************)
MultiplyThenAdd(b, i) ==
    LET usable(n) == Kind(b, Arg(b, i, n)) = "mul" /\ HasOneUse(b, Arg(b, i, n))
        fused(n) == Rewritten(b, i, <<Op("fma", b.ops[Arg(b, i, n)].a \o <<Arg(b, i, 3 - n)>>)>>)
    IN IF Kind(b, i) # "add" THEN {}
       ELSE IF usable(1) THEN {fused(1)} ELSE IF usable(2) THEN {fused(2)} ELSE {}

(***************************************************************************)
(* --select-to-minmax                                                        *)
(***************************************************************************)
Depth == 8

\* b.finite has the arguments that come from constant globals of finite values.
AlwaysFinite(b, i, depth) ==
    LET finite[d \in 0..Depth, j \in Ids(b) \cup b.args] ==
            /\ d > 0
            /\ CASE Kind(b, j) = "argument" -> j \in b.finite
                 [] Kind(b, j) = "const" -> IsFinite(ConstOf(b, j))
                 [] Kind(b, j) = "sitofp" -> 2 ^ WideBits <= Largest
                 [] Kind(b, j) \in MinMax \cup {"maximum"} ->
                        finite[d - 1, Arg(b, j, 1)] /\ finite[d - 1, Arg(b, j, 2)]
                 [] OTHER -> FALSE
    IN finite[depth, i]

NeverNaN(b, i) ==
    LET never[d \in 0..Depth, j \in Ids(b) \cup b.args] ==
            LET N(n) == never[d - 1, Arg(b, j, n)]
                F(n) == AlwaysFinite(b, Arg(b, j, n), d - 1)
            IN /\ d > 0
               /\ \/ AlwaysFinite(b, j, d)
                  \/ Kind(b, j) = "mul" /\ F(1) /\ F(2)
                  \/ Kind(b, j) \in {"add", "sub"} /\ ((F(1) /\ N(2)) \/ (N(1) /\ F(2)))
                  \/ Kind(b, j) = "fma" /\ F(1) /\ F(2) /\ N(3)
                  \/ Kind(b, j) \in MinMax /\ (N(1) \/ N(2))
    IN never[Depth, i]

\* A select of the operands of its own comparison.  On a NaN the ordered form
\* yields the second and the unordered the first; a minimum or a maximum picks
\* a zero by its sign, which a comparison does not see.
CompareAndSelect(b, i) ==
    LET cmp == b.ops[Arg(b, i, 1)]
        straight == <<Arg(b, i, 2), Arg(b, i, 3)>> = cmp.a
        swapped == <<Arg(b, i, 3), Arg(b, i, 2)>> = cmp.a
        greater == cmp.p[2] \in {"gt", "ge"}
        on == IF cmp.p[1] = "o" THEN Arg(b, i, 3) ELSE Arg(b, i, 2)
        isMax == greater = straight
    IN IF /\ Kind(b, i) = "select" /\ Kind(b, Arg(b, i, 1)) = "cmpf" /\ HasOneUse(b, Arg(b, i, 1))
          /\ straight \/ swapped
          /\ NeverNaN(b, on) \/ OnlyInto(b, i, Arithmetic \cup MinMax, {"fptosi", "cmpf"})
          /\ \A x \in Range(cmp.a) : IsConst(b, x) => ConstOf(b, x) # Zero(isMax)
       THEN {Rewritten(b, i, <<Op(IF isMax THEN "maxnum" ELSE "minnum", cmp.a)>>)}
       ELSE {}

(***************************************************************************)
(* --drop-clamp-below-relu                                                   *)
(***************************************************************************)
AtLeastZero(b, i) == IsConst(b, i) /\ ConstOf(b, i) # NaN /\ ~Negative(ConstOf(b, i))
Positive(b, i) == AtLeastZero(b, i) /\ ~IsZero(ConstOf(b, i))
NonNegative(b, i) ==
    LET from[d \in 0..(Depth + 1), j \in Ids(b) \cup b.args] ==
            LET N(n) == from[d - 1, Arg(b, j, n)]
                P(n) == Positive(b, Arg(b, j, n))
            IN /\ d > 0
               /\ CASE Kind(b, j) = "round" -> N(1)
                    [] Kind(b, j) = "maxnum" -> \E n \in 1..2 : AtLeastZero(b, Arg(b, j, n))
                    [] Kind(b, j) = "mul" -> IF P(2) THEN N(1) ELSE P(1) /\ N(2)
                    [] Kind(b, j) = "div" -> P(2) /\ N(1)
                    [] OTHER -> FALSE
    IN from[Depth + 1, i]

DropLowerClamp(b, i) ==
    LET n == IF IsConst(b, Arg(b, i, 2)) THEN 2 ELSE 1
        value == Arg(b, i, 3 - n)
    IN IF /\ Kind(b, i) = "maxsi" /\ IsConst(b, Arg(b, i, n))
          /\ ConstOf(b, Arg(b, i, n))[1] <= 0
          /\ Kind(b, value) = "fptosi" /\ NonNegative(b, Arg(b, value, 1))
       THEN {Redirected(b, i, value)} ELSE {}

(***************************************************************************)
(* --clamp-as-range-check                                                    *)
(***************************************************************************)
ClampAsRangeCheck(b, i) ==
    LET inner == Arg(b, i, 1)
        v == Arg(b, inner, 1)
        lo == ConstOf(b, Arg(b, inner, 2))[1]
        hi == ConstOf(b, Arg(b, i, 2))[1]
        w == WideBits
        n == NextId(b)
        shift == IF lo = 0 THEN <<>> ELSE <<Const(Whole(lo)), [Op("subi", <<v, n>>) EXCEPT !.c = Whole(w)]>>
        m == n + Len(shift)
        shifted == IF lo = 0 THEN v ELSE m - 1
    IN IF /\ Kind(b, i) = "minsi" /\ Kind(b, inner) = "maxsi"
          /\ IsConst(b, Arg(b, i, 2)) /\ IsConst(b, Arg(b, inner, 2))
          /\ hi > lo /\ hi - lo + 1 < 2 ^ w
       THEN {Rewritten(b, i, shift \o
                <<Const(Whole(hi - lo + 1)), [Op("below", <<shifted, m>>) EXCEPT !.c = Whole(w)],
                  Const(Whole(lo)), Const(Whole(hi)), Op("less", <<v, m + 2>>),
                  Op("select", <<m + 4, m + 2, m + 3>>), Op("select", <<m + 1, v, m + 5>>)>>)}
       ELSE {}

(***************************************************************************)
(* The passes                                                                *)
(***************************************************************************)
ScalarOrder ==
    <<"round-quantized-casts", "saturate-constant-casts", "reciprocal-for-division",
      "combine-constant-scales", "fuse-multiply-add", "select-to-minmax", "drop-clamp-below-relu",
      "clamp-as-range-check">>

ScalarStep ==
    \/ Pass("round-quantized-casts", Ids, RoundBeforeConversion)
    \/ Pass("saturate-constant-casts", Ids, SaturateConstantCast)
    \/ Pass("reciprocal-for-division", Ids, DivideByConstant)
    \/ Pass("combine-constant-scales", Ids, CombineConstantScales)
    \/ Pass("fuse-multiply-add", Ids, MultiplyThenAdd)
    \/ Pass("select-to-minmax", Ids, CompareAndSelect)
    \/ Pass("drop-clamp-below-relu", Ids, DropLowerClamp)
    \/ Pass("clamp-as-range-check", Ids, ClampAsRangeCheck)

(***************************************************************************)
(* What a body computes, for each of its inputs                              *)
(***************************************************************************)
Table(b) == Values(b, b.inputs, LAMBDA x : x)
\* A conversion of a quotient is a quantization, which it does not say.
Quotient(b, i) == Kind(b, i) = "div" \/ (Kind(b, i) = "round" /\ Kind(b, Arg(b, i, 1)) = "div")
Meant(b) ==
    Table([b EXCEPT !.ops = [i \in Ids(b) |-> IF Kind(b, i) = "fptosi" /\ Quotient(b, Arg(b, i, 1))
                                              THEN [b.ops[i] EXCEPT !.k = "quantize"] ELSE b.ops[i]]])
\* Where the given body has no value any other may stand.
Refines(after, given) ==
    \A x \in DOMAIN given : \A n \in DOMAIN given[x] : given[x][n] # Poison => after[x][n] = given[x][n]
=============================================================================
