----------------------------- MODULE ChannelPasses ----------------------------
(***************************************************************************)
(* What a loop works out again for every element though it depends on less:   *)
(*   --table-for-i8-elementwise, --hoist-invariant-reciprocal,                *)
(*   --combine-channel-affine, --fold-scales-into-broadcast,                  *)
(*   --pack-int8-table-lookup and --relax-float-max-pool.                     *)
(***************************************************************************)
EXTENDS ElementLoops

(***************************************************************************)
(* --table-for-i8-elementwise: whatever hangs on one byte has 256 values.     *)
(***************************************************************************)
\* The compiler's own arithmetic.  A NaN compares as false, and converts to zero.
Evaluated(op, v) ==
    CASE op.k = "fptosi" ->
             IF v[1] = NaN THEN Whole(0)
             ELSE Whole(CASE Less(v[1], Whole(Least(WideBits))) -> Least(WideBits)
                          [] Less(Whole(Most(WideBits)), v[1]) -> Most(WideBits)
                          [] OTHER -> TowardZero(v[1]))
      [] op.k \in {"maxnum", "maximum"} -> IF NaN \notin Range(v) /\ Less(v[2], v[1]) THEN v[1] ELSE v[2]
      [] op.k = "minnum" -> IF NaN \notin Range(v) /\ Less(v[1], v[2]) THEN v[1] ELSE v[2]
      [] op.k = "cmpf" -> Computed([op EXCEPT !.p[1] = "o"], v)
      [] OTHER -> Computed(op, v)
Evaluable == {"const", "sitofp", "fptosi", "extsi", "trunci", "neg", "exp", "round", "add", "sub", "mul", "div",
              "maxnum", "minnum", "maximum", "subi", "maxsi", "minsi", "cmpf", "select"}

\* What a value is worked out from, down to the byte; constants stand outside.
Chain(b, v, anchor) ==
    FoldLeft(LAMBDA s, n : s \cup UNION {Range(b.ops[i].a) \ {anchor} : i \in s \cap Ids(b)},
             {v}, [n \in 1..Cardinality(Ids(b)) |-> n])
IsByte(f, op, i) ==
    IF i < 0 THEN i >= -Len(op.ins) /\ f.type[op.ins[-i].buf] = "i8" ELSE Kind(op.body, i) = "trunci"

OnOneByte(f, op) ==
    LET b == op.body
        Hangs(v, anchor) ==
            LET chain == Chain(b, v, anchor)
            IN chain \subseteq Ids(b) /\ \A i \in chain : b.ops[i].k \in Evaluable
        work(x) == Cardinality({i \in Chain(b, x.target, x.anchor) : ~IsConst(b, i)})
        found == {x \in [anchor : {i \in Ids(b) \cup -Len(op.ins)..-1 : IsByte(f, op, i)}, target : Ids(b)] :
                    /\ x.anchor # x.target /\ ~IsConst(b, x.target)
                    /\ b.ops[x.target].k # "cmpf" /\ Uses(b, x.target) > 0
                    /\ Hangs(x.target, x.anchor) /\ work(x) >= 3
                    /\ \E i \in Chain(b, x.target, x.anchor) : b.ops[i].k = "exp"}
    IN {x \in found : \A y \in found : work(y) <= work(x)}

\* The result is as wide as its type.
AsEntry(b, target, v) == IF b.ops[target].k = "trunci" THEN Whole(Wrapped(v[1], 8)) ELSE v
TableOfOneByte(f, i) ==
    LET op == f.block[i]
        b == op.body
        order(x) == SelectSeq(InOrder(b), LAMBDA j : j \in Chain(b, x.target, x.anchor))
        entries(x, inOrder) ==
            [n \in 1..256 |-> AsEntry(b, x.target,
                                WorkedOut(inOrder, b.ops, x.anchor :> Whole(n - 129), Evaluated)[x.target])]
        Tabled(x, t) ==
            IF \A n \in 1..256 : IsFinite(t[n])
            THEN {[f EXCEPT !.block[i].body =
                       Rewritten(b, x.target, <<[Op("lookup", <<x.anchor>>) EXCEPT !.p = t]>>)]} ELSE {}
    IN IF IsLoop(f, i) /\ Len(op.outs) = 1
       THEN UNION {Tabled(x, Settled(entries(x, Settled(order(x))))) : x \in OnOneByte(f, op)} ELSE {}

(***************************************************************************)
(* --hoist-invariant-reciprocal                                              *)
(***************************************************************************)
Rounding == {"add", "sub", "mul", "div", "neg", "maximum", "maxnum", "minnum", "round"}

Invariants(f, i) ==
    {n \in DOMAIN f.block[i].ins : /\ f.type[f.block[i].ins[n].buf] = "f32" /\ Narrow(f.block[i], n)
                                   /\ Users(f.block[i].body, -n) # {}}
\* The loop reads a buffer made for it instead of its n-th operand.
Hoisted(f, i, n, body, change) ==
    LET op == f.block[i]
        name == NameFor(f, "hoisted")
    IN Around(Fresh(f, name, op.ins[n].buf, "f32"), i,
              Over1(f, name, <<op.ins[n].buf>>, body),
              [op EXCEPT !.ins[n].buf = name, !.body = change],
              <<Simple("dealloc", <<On(name, <<>>)>>, <<>>)>>)

DivideByRowInvariant(f, i) ==
    LET b == f.block[i].body
        Divides(n) == \A d \in Users(b, -n) :
            /\ Kind(b, d) = "div" /\ Arg(b, d, 2) = -n /\ Arg(b, d, 1) # -n
            /\ OnlyInto(b, d, Rounding, {"fptosi"})
        inverse == [ops |-> <<Const(Whole(1)), Op("div", <<1, -1>>), Op("finite", <<2>>)>>, out |-> <<3>>]
        multiplied(n) == [b EXCEPT !.ops = [d \in Ids(b) |-> IF d \in Users(b, -n) THEN [b.ops[d] EXCEPT !.k = "mul"]
                                                             ELSE b.ops[d]]]
    IN IF IsLoop(f, i)
       THEN {Hoisted(f, i, n, inverse, multiplied(n)) : n \in {m \in Invariants(f, i) : Divides(m)}} ELSE {}

RsqrtOfInvariant(f, i) ==
    LET b == f.block[i].body
        added(d, n) == IF Arg(b, d, 1) = -n THEN Arg(b, d, 2) ELSE Arg(b, d, 1)
        \* the roots of an operand, each with the constant added below it
        rootOf(d, n) == IF Kind(b, d) = "rsqrt" THEN {[root |-> d, with |-> {}]}
                        ELSE IF Kind(b, d) = "add" /\ HasOneUse(b, d) /\ IsConst(b, added(d, n))
                        THEN {[root |-> j, with |-> {added(d, n)}] : j \in {x \in Users(b, d) : Kind(b, x) = "rsqrt"}}
                        ELSE {}
        roots(n) == UNION {rootOf(d, n) : d \in Users(b, -n)}
        Rooted(n) == \A d \in Users(b, -n) : rootOf(d, n) # {}
        root(first) == IF first.with = {} THEN [ops |-> <<Op("rsqrt", <<-1>>)>>, out |-> <<1>>]
                       ELSE [ops |-> <<b.ops[Max(first.with)], Op("add", <<-1, 1>>), Op("rsqrt", <<2>>)>>, out |-> <<3>>]
        read(n) == Alive(FoldSet(LAMBDA r, acc : Swap(acc, r.root, -n), b, roots(n)))
    IN IF IsLoop(f, i)
       THEN UNION {{Hoisted(f, i, n, root(r), read(n)) : r \in roots(n)} :
                      n \in {m \in Invariants(f, i) : Rooted(m)}}
       ELSE {}

HoistInvariantReciprocal(f, i) == DivideByRowInvariant(f, i) \cup RsqrtOfInvariant(f, i)

(***************************************************************************)
(* --combine-channel-affine: (relu((x - m) * r + beta)) * s, or / s, is        *)
(* relu(x * A + B) with A and B worked out per channel.                       *)
(***************************************************************************)
ReluInput(b, i) ==
    LET zero(n) == IsConst(b, Arg(b, i, n)) /\ ConstOf(b, Arg(b, i, n)) = Whole(0)
        cmp == b.ops[Arg(b, i, 1)]
    IN CASE Kind(b, i) = "select" ->
                IF /\ Kind(b, Arg(b, i, 1)) = "cmpf" /\ cmp.p[2] = "gt"
                   /\ cmp.a = <<Arg(b, i, 2), Arg(b, i, 3)>> /\ zero(3)
                THEN {Arg(b, i, 2)} ELSE {}
         [] Kind(b, i) \in {"maxnum", "maximum"} ->
                IF zero(2) THEN {Arg(b, i, 1)} ELSE IF zero(1) THEN {Arg(b, i, 2)} ELSE {}
         [] OTHER -> {}

\* The parts of such an expression whose last operation is at last.
AffineParts(op, last) ==
    LET b == op.body
        relu == Arg(b, last, 1)
        add == Max(ReluInput(b, relu))
        mul == Arg(b, add, 1)
        sub == Arg(b, mul, 1)
        m == -Arg(b, sub, 2)
        r == -Arg(b, mul, 2)
    IN IF /\ Kind(b, last) \in {"mul", "div"} /\ Positive(b, Arg(b, last, 2))
          /\ relu \in Ids(b) /\ HasOneUse(b, relu) /\ ReluInput(b, relu) # {}
          /\ Users(b, add) \subseteq {relu, Arg(b, relu, 1)} /\ add \notin Range(b.out)
          /\ Kind(b, add) = "add" /\ IsConst(b, Arg(b, add, 2)) /\ ConstOf(b, Arg(b, add, 2)) # NaN
          /\ HasOneUse(b, mul) /\ Kind(b, mul) = "mul" /\ r > 0
          /\ HasOneUse(b, sub) /\ Kind(b, sub) = "sub" /\ Arg(b, sub, 1) = -1 /\ m > 0
          /\ m # r /\ HasOneUse(b, -m) /\ HasOneUse(b, -r)
          /\ OnlyInto(b, last, (Arithmetic \cup MinMax) \ {"fma"}, {"fptosi", "cmpf"})
       THEN {[last |-> last, relu |-> relu, add |-> add, m |-> m, r |-> r]} ELSE {}

CombineChannelAffine(f, i) ==
    LET op == f.block[i]
        b == op.body
        parts == {x \in UNION {AffineParts(op, last) : last \in Ids(b)} :
                    /\ x.m <= Len(op.ins) /\ x.r <= Len(op.ins)
                    /\ op.ins[x.m].map = op.ins[x.r].map /\ Narrow(op, x.r)
                    /\ f.shape[op.ins[x.m].buf] = f.shape[op.ins[x.r].buf]
                    /\ f.type[op.ins[x.m].buf] = "f32" /\ f.type[op.ins[x.r].buf] = "f32"}
        \* one loop for the two coefficients, over the two channel buffers
        coefficients(x) ==
            [ops |-> <<b.ops[Arg(b, x.last, 2)], b.ops[Arg(b, x.add, 2)], Op(Kind(b, x.last), <<-2, 1>>),
                       Op("mul", <<-1, -2>>), Op("sub", <<2, 4>>), Op(Kind(b, x.last), <<5, 1>>)>>,
             out |-> <<3, 6>>]
        affine(x) == Redirected(Rewritten(b, x.add, <<Op("mul", <<-1, -x.r>>), Op("add", <<NextId(b), -x.m>>)>>),
                                x.last, x.relu)
        Combined(x) ==
            LET A == NameFor(f, "scale")
                B == NameFor(f, "shift")
                shape == f.shape[op.ins[x.m].buf]
                to(name) == On(name, Identity(shape))
            IN Around(Fresh(Fresh(f, A, op.ins[x.m].buf, "f32"), B, op.ins[x.m].buf, "f32"), i,
                      <<Simple("alloc", <<>>, <<to(A)>>), Simple("alloc", <<>>, <<to(B)>>),
                        Loop(shape, <<to(op.ins[x.m].buf), to(op.ins[x.r].buf)>>, <<to(A), to(B)>>, coefficients(x))>>,
                      [op EXCEPT !.ins[x.m].buf = B, !.ins[x.r].buf = A, !.body = affine(x)], <<>>)
    IN IF IsLoop(f, i) /\ Len(op.ins) >= 3 THEN {Combined(x) : x \in parts} ELSE {}

(***************************************************************************)
(* --fold-scales-into-broadcast: the constants around a product with a        *)
(* narrower operand are multiplied into that operand once.                    *)
(***************************************************************************)
ScaleSteps == {"neg", "mul", "div"}
\* Down from the other operand, through scalings.
RootOf(b, x) ==
    LET root[y \in Ids(b) \cup {z \in UNION {Range(b.ops[i].a) : i \in Ids(b)} : z < 0}] ==
            IF /\ y \in Ids(b) /\ HasOneUse(b, y) /\ Kind(b, y) \in ScaleSteps /\ StepOn(b, y) # {}
            THEN LET r == root[Max(StepOn(b, y))] IN Applied(b, y, r)
            ELSE [root |-> y, a |-> Whole(1), b |-> Whole(0)]
    IN root[x]
\* Up from the product, through x*a + b.
AffineStep(b, j, x) ==
    /\ Kind(b, j) \in ScaleSteps \cup {"add", "sub"} /\ StepOn(b, j) = {x}
    /\ Kind(b, j) = "sub" => Arg(b, j, 1) = x
    /\ Kind(b, j) = "div" => ~IsZero(ConstOf(b, Arg(b, j, 2)))
TopOf(b, x, from) ==
    LET up[y \in Ids(b)] ==
            LET next == {j \in Users(b, y) : HasOneUse(b, y) /\ AffineStep(b, j, y)}
            IN IF next = {} THEN <<>> ELSE <<Max(next)>> \o up[Max(next)]
        steps == up[x]
        scaled == FoldLeft(LAMBDA t, j : Applied(b, j, t), from, steps)
    IN [a |-> scaled.a, b |-> scaled.b, root |-> from.root, top |-> IF steps = <<>> THEN x ELSE Last(steps)]

FoldScalesIntoBroadcast(f, i) ==
    LET op == f.block[i]
        b == op.body
        products == {x \in Ids(b) \X (1..2) :
                       /\ Kind(b, x[1]) = "mul" /\ Arg(b, x[1], x[2]) \in -Len(op.ins)..-1
                       /\ LET buf == op.ins[-Arg(b, x[1], x[2])].buf
                          IN Volume(f.shape[buf]) < Volume(f.shape[op.outs[1].buf]) /\ f.type[buf] = "f32"}
        chain(x) == TopOf(b, x[1], RootOf(b, Arg(b, x[1], 3 - x[2])))
        Folds(c) == /\ c.a # Whole(1) /\ IsFinite(c.a) /\ ~IsZero(c.a) /\ IsFinite(c.b)
                    /\ \A v \in Reached(b, c.top, MinMax \cup {"round", "maximum"}) : Users(b, v) # {}
                    /\ OnlyInto(b, c.top, MinMax \cup {"round", "maximum"}, {"fptosi"})
        n == NextId(b)
        Scaled(c, arg) ==
            LET product == <<Op("mul", <<c.root, arg>>)>>
                name == NameFor(f, "scaled")
                body == Rewritten(b, c.top, IF IsZero(c.b) THEN product
                                            ELSE product \o <<Const(c.b), Op("add", <<n, n + 1>>)>>)
            IN Around(Fresh(f, name, op.ins[-arg].buf, "f32"), i,
                      Over1(f, name, <<op.ins[-arg].buf>>, [ops |-> <<Const(c.a), Op("mul", <<-1, 1>>)>>, out |-> <<2>>]),
                      [op EXCEPT !.ins[-arg].buf = name, !.body = body], <<>>)
    IN IF IsLoop(f, i) /\ Len(op.outs) = 1
       THEN {Scaled(Settled(chain(x)), Arg(b, x[1], x[2])) : x \in {y \in products : Folds(Settled(chain(y)))}} ELSE {}

(***************************************************************************)
(* --pack-int8-table-lookup: a table is read for eight bytes at a time.       *)
(***************************************************************************)
IdentityOverUnitAxes(f, x) ==
    /\ Len(x.map) = Len(f.shape[x.buf])
    /\ \A d \in DOMAIN x.map : x.map[d] = d \/ (x.map[d] = 0 /\ f.shape[x.buf][d] = 1)

PackInt8TableLookup(f, i) ==
    LET op == f.block[i]
        b == op.body
        src == op.ins[1]
        dst == op.outs[1]
        load == b.out[1]
    IN IF /\ IsLoop(f, i) /\ Len(op.ins) = 1 /\ Len(op.outs) = 1 /\ src.buf # dst.buf
          /\ f.type[src.buf] = "i8" /\ f.type[dst.buf] = "i8" /\ f.shape[src.buf] = f.shape[dst.buf]
          /\ IdentityOverUnitAxes(f, src) /\ IdentityOverUnitAxes(f, dst)
          /\ Volume(f.shape[src.buf]) % 8 = 0
          /\ Kind(b, load) = "lookup" /\ Arg(b, load, 1) = -1
       THEN {[f EXCEPT !.block[i] = Simple("words", <<src>>, <<dst>>) @@ [table |-> b.ops[load].p]]}
       ELSE {}

(***************************************************************************)
(* --relax-float-max-pool: a NaN may be lost where it ends in a conversion.   *)
(***************************************************************************)
RelaxFloatMaxPool(f, i) ==
    LET op == f.block[i]
        out == op.outs[1].buf
        Converts(j) ==
            \/ f.block[j].op \in {"dealloc", "fill"}
            \/ /\ IsLoop(f, j) /\ out \notin Writes(f.block[j])
               /\ \A n \in DOMAIN f.block[j].ins :
                      f.block[j].ins[n].buf = out => OnlyInto(f.block[j].body, -n, Arithmetic, {"fptosi"})
    IN IF /\ op.op = "pool" /\ op.best = "maximum" /\ f.type[out] = "f32"
          /\ \A j \in UsersOf(f, out) \ {i} : Converts(j)
       THEN {[f EXCEPT !.block[i].best = "maxnum"]} ELSE {}
=============================================================================
