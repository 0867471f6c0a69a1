----------------------------- MODULE ScalarBodies -----------------------------
(***************************************************************************)
(* The body of an elementwise loop: operations on floats and integers, each   *)
(* naming the operations whose results it reads, down to the loop's arguments. *)
(*                                                                           *)
(* A number is a ratio <<n, d>> in lowest terms, an integer one over 1, and a  *)
(* negative zero one apart.  The floats round nothing but what leaves their    *)
(* range: above Largest they are infinite, below 1 / OverSmallest zero.        *)
(***************************************************************************)
EXTENDS Rewriting, SequencesExt

CONSTANTS
    Largest,       \* the largest float
    OverSmallest,  \* one over the smallest normal float
    WideBits       \* the width of an i32; an i8 has eight bits

Poison == <<2, 0>>
NaN == <<0, 0>>
Inf(sign) == <<sign, 0>>
Whole(n) == <<n, 1>>
MinusZero == <<0, 2>>

Sign(n) == IF n > 0 THEN 1 ELSE IF n < 0 THEN -1 ELSE 0
Size(n) == IF n < 0 THEN -n ELSE n
IsFinite(v) == v[2] > 0
IsZero(v) == v[1] = 0 /\ IsFinite(v)
Negative(v) == v[1] < 0 \/ v = MinusZero
Zero(negative) == IF negative THEN MinusZero ELSE Whole(0)
Divisor(a, b) ==
    LET gcd[x \in Nat, y \in Nat] == IF y = 0 THEN x ELSE gcd[y, x % y] IN gcd[a, b]
Ratio(n, d) == LET g == Divisor(Size(n), d) IN <<Sign(n) * (Size(n) \div g), d \div g>>
Rounded(n, d) ==
    CASE (Size(n) - 1) \div d >= Largest -> Inf(Sign(n))
      [] Size(n) <= (d - 1) \div OverSmallest -> Zero(n < 0)
      [] OTHER -> Ratio(n, d)

Summed(m, c, n, d) ==
    LET g == Divisor(c, d) IN Rounded(m * (d \div g) + n * (c \div g), c * (d \div g))

(***************************************************************************)
(* Floats                                                                    *)
(***************************************************************************)
Neg(a) == IF IsZero(a) THEN Zero(~Negative(a)) ELSE <<-a[1], a[2]>>
Plus(a, b) ==
    CASE NaN \in {a, b} -> NaN
      [] IsFinite(a) /\ IsFinite(b) ->
             IF a = MinusZero /\ b = MinusZero THEN a ELSE Summed(a[1], a[2], b[1], b[2])
      [] IsFinite(b) \/ a = b -> a
      [] IsFinite(a) -> b
      [] OTHER -> NaN
Times(a, b) ==
    CASE NaN \in {a, b} -> NaN
      [] IsFinite(a) /\ IsFinite(b) ->
             IF IsZero(a) \/ IsZero(b) THEN Zero(Negative(a) # Negative(b)) ELSE Rounded(a[1] * b[1], a[2] * b[2])
      [] OTHER -> LET s == Sign(a[1]) * Sign(b[1]) IN IF s = 0 THEN NaN ELSE Inf(s)
Over(a, b) ==
    CASE NaN \in {a, b} \/ (a[1] = 0 /\ b[1] = 0) \/ ~(IsFinite(a) \/ IsFinite(b)) -> NaN
      [] ~IsFinite(b) \/ IsZero(a) -> Zero(Negative(a) # Negative(b))
      [] ~IsFinite(a) \/ IsZero(b) -> Inf(IF Negative(a) # Negative(b) THEN -1 ELSE 1)
      [] OTHER -> Rounded(a[1] * b[2] * Sign(b[1]), a[2] * Size(b[1]))
\* Rounded once.
Fma(a, b, c) ==
    IF IsFinite(a) /\ IsFinite(b) /\ IsFinite(c) /\ a[1] * b[1] # 0
    THEN Summed(a[1] * b[1], a[2] * b[2], c[1], c[2])
    ELSE Plus(Times(a, b), c)

Less(a, b) == IF a[2] = 0 /\ b[2] = 0 THEN a[1] < b[1] ELSE a[1] * b[2] < b[1] * a[2]
\* maxnumf, which keeps the operand that is a number, and maximumf, which does
\* not.  Both take a negative zero for less than a positive one.
Precedes(a, b) == Less(a, b) \/ (a = MinusZero /\ b = Whole(0))
MaxNum(a, b) == CASE a = NaN -> b [] b = NaN -> a [] OTHER -> IF Precedes(a, b) THEN b ELSE a
MinNum(a, b) == CASE a = NaN -> b [] b = NaN -> a [] OTHER -> IF Precedes(a, b) THEN a ELSE b
Maximum(a, b) == IF NaN \in {a, b} THEN NaN ELSE MaxNum(a, b)

Nearest(v) ==
    IF ~IsFinite(v) THEN v
    ELSE LET q == v[1] \div v[2]
             twice == 2 * (v[1] % v[2])
             n == IF twice < v[2] \/ (twice = v[2] /\ q % 2 = 0) THEN q ELSE q + 1
         IN IF n = 0 THEN Zero(Negative(v)) ELSE Whole(n)
TowardZero(v) == IF v[1] >= 0 THEN v[1] \div v[2] ELSE -((-v[1]) \div v[2])

(***************************************************************************)
(* Integers                                                                  *)
(***************************************************************************)
Least(w) == -(2 ^ (w - 1))
Most(w) == 2 ^ (w - 1) - 1
Wrapped(n, w) == LET u == n % (2 ^ w) IN IF u > Most(w) THEN u - 2 ^ w ELSE u
\* fptosi: what no integer is near has no value.
ToInt(v, w) ==
    IF IsFinite(v) /\ TowardZero(v) \in Least(w)..Most(w) THEN Whole(TowardZero(v)) ELSE Poison
\* What a quantization means: the nearest integer, saturated to its type; what
\* is too large for an i32 has no value.
Quantized(v, w) ==
    LET n == ToInt(Nearest(v), WideBits)
    IN IF n = Poison THEN n ELSE MaxNum(Whole(Least(w)), MinNum(Whole(Most(w)), n))

(***************************************************************************)
(* Bodies: operations by number, and the arguments by negative number.  An   *)
(* operation has a kind k, operands a, a constant c and a predicate p.        *)
(***************************************************************************)
Op(k, a) == [k |-> k, a |-> a, c |-> Whole(0), p |-> <<>>]
Const(v) == [Op("const", <<>>) EXCEPT !.c = v]
Compare(p, a, b) == [Op("cmpf", <<a, b>>) EXCEPT !.p = p]
Cast(k, a, w) == [Op(k, <<a>>) EXCEPT !.c = Whole(w)]
OnInts(k, a, b) == [Op(k, <<a, b>>) EXCEPT !.c = Whole(WideBits)]

Holds(p, a, b) ==
    LET of(q) == CASE q = "gt" -> Less(b, a) [] q = "lt" -> Less(a, b)
                   [] q = "ge" -> ~Less(a, b) [] q = "le" -> ~Less(b, a)
    IN IF NaN \in {a, b} THEN p[1] = "u" ELSE of(p[2])

Computed(op, v) ==
    LET w == op.c[1]
    IN CASE op.k = "const" -> op.c
         [] op.k = "select" -> IF v[1] = Poison THEN Poison ELSE IF v[1] = Whole(1) THEN v[2] ELSE v[3]
         [] op.k # "select" /\ Poison \in Range(v) -> Poison
         [] OTHER ->
              CASE op.k \in {"sitofp", "extsi"} -> v[1]
                [] op.k = "fptosi" -> ToInt(v[1], w)
                [] op.k = "quantize" -> Quantized(v[1], w)
                [] op.k = "neg" -> Neg(v[1])
                [] op.k = "add" -> Plus(v[1], v[2])
                [] op.k = "sub" -> Plus(v[1], Neg(v[2]))
                [] op.k = "mul" -> Times(v[1], v[2])
                [] op.k = "div" -> Over(v[1], v[2])
                [] op.k = "fma" -> Fma(v[1], v[2], v[3])
                [] op.k \in {"maxnum", "maxsi"} -> MaxNum(v[1], v[2])
                [] op.k \in {"minnum", "minsi"} -> MinNum(v[1], v[2])
                [] op.k = "maximum" -> Maximum(v[1], v[2])
                [] op.k = "cmpf" -> Whole(IF Holds(op.p, v[1], v[2]) THEN 1 ELSE 0)
                [] op.k = "round" -> Nearest(v[1])
                [] op.k = "trunci" -> Whole(Wrapped(v[1][1], w))
                [] op.k = "subi" -> Whole(Wrapped(v[1][1] - v[2][1], w))
                [] op.k = "addi" -> Whole(Wrapped(v[1][1] + v[2][1], w))
                [] op.k = "muli" -> Whole(Wrapped(v[1][1] * v[2][1], w))
                [] op.k = "shri" -> Whole(v[1][1] \div (2 ^ v[2][1]))
                [] op.k = "below" ->     \* cmpi ult
                       Whole(IF v[1][1] % (2 ^ w) < v[2][1] % (2 ^ w) THEN 1 ELSE 0)
                [] op.k = "less" -> Whole(IF v[1][1] < v[2][1] THEN 1 ELSE 0)
                \* math.exp and its like: all that matters is that it is one function.
                [] op.k = "exp" -> Plus(Times(v[1], v[1]), Whole(1))
                \* an infinite or missing value is the largest of its sign
                [] op.k = "finite" -> IF IsFinite(v[1]) THEN v[1] ELSE Whole(IF v[1][1] < 0 THEN -Largest ELSE Largest)
                [] op.k = "lookup" -> op.p[v[1][1] + 129]
                [] op.k = "rsqrt" ->
                       IF IsFinite(v[1]) /\ v[1][1] > 0
                       THEN Over(Whole(1), Fma(v[1], Ratio(1, 4), Whole(1))) ELSE NaN

Ids(b) == DOMAIN b.ops
IsConst(b, i) == i \in Ids(b) /\ b.ops[i].k = "const"
ConstOf(b, i) == b.ops[i].c
Kind(b, i) == IF i \in Ids(b) THEN b.ops[i].k ELSE "argument"
Arg(b, i, n) == b.ops[i].a[n]

\* The operations, each after those it reads.
InOrder(b) ==
    LET ready(s) == {i \in Ids(b) \ Range(s) : \A x \in Range(b.ops[i].a) : x < 0 \/ x \in Range(s)}
        ordered[n \in Nat] == IF n = 0 THEN <<>> ELSE LET s == ordered[n - 1] IN Append(s, Min(ready(s)))
    IN ordered[Cardinality(Ids(b))]
\* The results of those operations, and what they were worked out from.
WorkedOut(order, ops, x, Of(_, _)) ==
    LET v[n \in 0..Len(order)] ==
            IF n = 0 THEN x
            ELSE LET w == v[n - 1]
                     op == ops[order[n]]
                 IN w @@ (order[n] :> Of(op, [m \in DOMAIN op.a |-> w[op.a[m]]]))
    IN v[Len(order)]
\* The results for each of some sets of arguments.
Values(b, xs, ArgsOf(_)) ==
    LET order == Settled(InOrder(b))
        Results(all) == [n \in DOMAIN b.out |-> all[b.out[n]]]
    IN Settled([x \in xs |-> Results(Settled(WorkedOut(order, b.ops, ArgsOf(x), Computed)))])

Users(b, i) == {j \in Ids(b) : i \in Range(b.ops[j].a)}
Uses(b, i) == Cardinality({<<j, n>> \in Ids(b) \X (1..3) : n \in DOMAIN b.ops[j].a /\ b.ops[j].a[n] = i})
              + Cardinality({n \in DOMAIN b.out : b.out[n] = i})
HasOneUse(b, i) == Uses(b, i) = 1

\* What the results depend on.
Below(b, roots) ==
    FoldLeft(LAMBDA s, n : s \cup UNION {Range(b.ops[i].a) : i \in s \cap Ids(b)},
             roots, [n \in 1..Cardinality(Ids(b)) |-> n])
Alive(b) == LET live == Below(b, Range(b.out))
            IN [b EXCEPT !.ops = [i \in Ids(b) \cap live |-> b.ops[i]]]

\* i is computed as new does, one operation after another, the last of them
\* standing for i; what nothing reads any more goes.
NextId(b) == Max({0} \cup Ids(b)) + 1
Swap(b, i, j) ==
    LET to(x) == IF x = i THEN j ELSE x
    IN [b EXCEPT !.ops = [n \in Ids(b) |-> [b.ops[n] EXCEPT !.a = [m \in DOMAIN @ |-> to(@[m])]]],
                 !.out = [m \in DOMAIN @ |-> to(@[m])]]
Appended(b, new) ==
    [b EXCEPT !.ops = @ @@ [n \in (NextId(b)..(NextId(b) + Len(new) - 1)) |-> new[n - NextId(b) + 1]]]
Rewritten(b, i, new) ==
    LET last == NextId(b) + Len(new) - 1
    IN Alive(Appended(Swap(b, i, last), new))
\* i is the value j already there.
Redirected(b, i, j) == Alive(Swap(b, i, j))
=============================================================================
