------------------------------ MODULE LoopPasses ------------------------------
(***************************************************************************)
(* Elementwise loops turned into constants and into integers:                 *)
(*   --fold-constant-elementwise and --batch-norm-in-fixed-point.             *)
(***************************************************************************)
EXTENDS ChannelPasses

CONSTANTS
    MaxElements,           \* of a buffer that may become a constant
    MostShift, LeastShift  \* of the fixed point

\* What a loop was given in its output is not among what it computes from.
IgnoresOutputs(op) == \A n \in Len(op.ins) + 1..Len(op.ins) + Len(op.outs) : Uses(op.body, -n) = 0

(***************************************************************************)
(* --fold-constant-elementwise: a loop whose inputs are constants is one.      *)
(***************************************************************************)
Foldable == {"const", "add", "sub", "mul", "div", "neg", "rsqrt"}

FoldConstantElementwise(f, i) ==
    LET op == f.block[i]
        outs == Writes(op)
        OnlyRead(b) == \A j \in UsersOf(f, b) \ {i} :
            f.block[j].op = "dealloc" \/ (f.block[j].op # "view" /\ b \notin Writes(f.block[j]))
        dropped == {i} \cup {j \in Places(f) : f.block[j].op \in {"alloc", "dealloc"} /\ Named(f.block[j]) \subseteq outs}
    IN IF /\ IsLoop(f, i) /\ op.ins # <<>>
          /\ \A x \in Range(op.ins \o op.outs) : x.map = Identity(op.dims) /\ f.shape[x.buf] = op.dims
          /\ Reads(op) \subseteq f.const /\ Volume(op.dims) <= MaxElements
          /\ Cardinality(outs) = Len(op.outs) /\ outs \cap f.outputs = {}
          /\ \A b \in outs : Allocated(f, b) /\ OnlyRead(b)
          /\ IgnoresOutputs(op)
          /\ \A j \in Ids(op.body) : Kind(op.body, j) \in Foldable
       THEN {[Without(f, dropped) EXCEPT !.const = @ \cup outs, !.mem = Settled(Ran(f, f.mem, op))]}
       ELSE {}

(***************************************************************************)
(* --batch-norm-in-fixed-point: a byte's affine in whole numbers, where the    *)
(* two agree on every channel and every byte.                                 *)
(***************************************************************************)
OnlyUser(b, i) == IF HasOneUse(b, i) THEN Users(b, i) ELSE {}
\* The relu on a value, if there is one, and what comes out.
ReluOn(b, v) ==
    LET by(k) == {j \in Users(b, v) : Kind(b, j) = k}
        zero(j) == IsConst(b, Arg(b, j, 2)) /\ IsZero(ConstOf(b, Arg(b, j, 2)))
    IN IF by("cmpf") # {}
       THEN {[relu |-> TRUE, out |-> s] : s \in UNION {
                {s \in OnlyUser(b, c) : Kind(b, s) = "select" /\ Arg(b, s, 2) = v /\ HasOneUse(b, s)} :
                c \in {c \in by("cmpf") : Uses(b, v) = 2 /\ b.ops[c].p = <<"u", "gt">> /\ Arg(b, c, 1) = v /\ zero(c)}}}
       ELSE IF ~HasOneUse(b, v) THEN {}
       ELSE IF by("maxnum") # {}
       THEN {[relu |-> TRUE, out |-> m] : m \in {m \in by("maxnum") : zero(m) /\ Arg(b, m, 1) = v /\ HasOneUse(b, m)}}
       ELSE {[relu |-> FALSE, out |-> v]}

\* The parts of round(relu(x * a + b)) clamped to a byte.
FixedTails(b) ==
    LET other(i, x) == IF Arg(b, i, 1) = x THEN Arg(b, i, 2) ELSE Arg(b, i, 1)
        one(v, k) == {j \in OnlyUser(b, v) : Kind(b, j) = k}
        bound(j) == ConstOf(b, Arg(b, j, 2))[1]
        Bounded(j) == IsConst(b, Arg(b, j, 2)) /\ HasOneUse(b, j)
        lower(t) == IF one(t, "maxsi") = {} THEN {[at |-> t, lo |-> -128]}
                    ELSE {[at |-> j, lo |-> bound(j)] : j \in {k \in one(t, "maxsi") : Bounded(k)}}
        upper(t) == {j \in one(t, "minsi") : Bounded(j) /\ \E y \in Users(b, j) : Kind(b, y) = "trunci" /\ b.out = <<y>>}
        scaled == {m \in one(-1, "mul") : HasOneUse(b, m) /\ other(m, -1) \in {-2, -3}}
        added == {x \in scaled \X Ids(b) : x[2] \in one(x[1], "add") /\ other(x[2], x[1]) \in {-2, -3}}
        conversions(v) == UNION {one(y, "fptosi") : y \in one(v, "round")}
        rounded(x) == UNION {{[a |-> other(x[1], -1), b |-> other(x[2], x[1]), relu |-> r.relu, to |-> t] :
                                 t \in conversions(r.out)} : r \in ReluOn(b, x[2])}
    IN UNION {UNION {{[a |-> -t.a, b |-> -t.b, relu |-> t.relu, lo |-> l.lo, hi |-> bound(h)] : h \in upper(l.at)} :
                     l \in lower(t.to)} : t \in UNION {rounded(x) : x \in added}}

Clamped(t, v) == MaxNum(Whole(t.lo), MinNum(Whole(t.hi), v))
FloatAnswer(t, q, s, a, b) ==
    LET v == Plus(Times(Times(Whole(q), s), a), b)
        n == ToInt(Nearest(IF t.relu THEN MaxNum(v, Whole(0)) ELSE v), WideBits)
    IN IF n = Poison THEN n ELSE Clamped(t, n)
FixedRaw(q, m, n, k) == (m * q + n) \div (2 ^ k)
FixedAnswer(t, q, m, n, k) ==
    LET v == FixedRaw(q, m, n, k) IN Clamped(t, Whole(IF t.relu /\ v < 0 THEN 0 ELSE v))

InFixed(a, s, k) == Nearest(<<a[1] * s[1] * 2 ^ k, a[2] * s[2]>>)[1]
HalfUp(b, k) == Nearest(<<(2 * b[1] + b[2]) * 2 ^ k, 2 * b[2]>>)[1]
Bytes == -128..127
ShiftsThatFit(t, s, A, B) ==
    {k \in LeastShift..MostShift : \A c \in DOMAIN A :
        Size(InFixed(A[c], s, k)) * 128 + Size(HalfUp(B[c], k)) <= Most(WideBits)}
\* The shifts at which the products fit and every channel and byte agrees.
ExactShifts(t, s, A, B) ==
    {k \in LeastShift..MostShift : \A c \in DOMAIN A :
        LET m == InFixed(A[c], s, k)
            n == HalfUp(B[c], k)
        IN /\ Size(m) * 128 + Size(n) <= Most(WideBits)
           /\ \A q \in Bytes : FloatAnswer(t, q, s, A[c], B[c]) = FixedAnswer(t, q, m, n, k)}

\* The loops that write a buffer as a byte times a constant: the byte's buffer and it.
Dequantized(f, buf, reader) ==
    LET scale(b) == LET last == b.out[1] IN
            {n \in 1..2 : /\ Kind(b, last) = "mul" /\ IsConst(b, Arg(b, last, n))
                          /\ Kind(b, Arg(b, last, 3 - n)) = "sitofp" /\ Arg(b, Arg(b, last, 3 - n), 1) = -1}
    IN {[src |-> f.block[j].ins[1].buf,
         scale |-> LET b == f.block[j].body IN ConstOf(b, Arg(b, b.out[1], Max(scale(b))))] :
           j \in {j \in UsersOf(f, buf) \ {reader} :
                    /\ IsLoop(f, j) /\ Len(f.block[j].ins) = 1 /\ Len(f.block[j].outs) = 1 /\ buf \in Writes(f.block[j])
                    /\ \A x \in Range(f.block[j].ins \o f.block[j].outs) : x.map = Identity(f.block[j].dims)
                    /\ f.type[f.block[j].ins[1].buf] = "i8" /\ f.shape[f.block[j].ins[1].buf] = f.shape[buf]
                    /\ scale(f.block[j].body) # {}}}

InFixedPoint(f, i) ==
    LET op == f.block[i]
        in == op.ins[1].buf
        table(t) == [a |-> op.ins[t.a].buf, b |-> op.ins[t.b].buf]
        Coefficients(buf) == [c \in 1..f.shape[buf][1] |-> f.mem[buf][<<c - 1>>]]
        cases == {[tail |-> t, deq |-> d] : t \in FixedTails(op.body), d \in Dequantized(f, in, i)}
        sites == {c \in cases : /\ {table(c.tail).a, table(c.tail).b} \subseteq f.const
                                /\ f.shape[table(c.tail).a] = f.shape[table(c.tail).b]}
        fixed(c, k) ==
            LET t == c.tail
                low == IF t.relu /\ t.lo < 0 THEN 0 ELSE t.lo
                A == Coefficients(table(t).a)
                B == Coefficients(table(t).b)
                M == [n \in DOMAIN A |-> InFixed(A[n], c.deq.scale, k)]
                N == [n \in DOMAIN A |-> HalfUp(B[n], k)]
                raw == {FixedRaw(q, M[n], N[n], k) : q \in Bytes, n \in DOMAIN A}
                product == <<Op("extsi", <<-1>>), OnInts("muli", 1, -3), OnInts("addi", 2, -2), Const(Whole(k)), Op("shri", <<3, 4>>)>>
                below == product \o (IF Min(raw) < low THEN <<Const(Whole(low)), Op("maxsi", <<5, 6>>)>> ELSE <<>>)
                n == Len(below)
                above == below \o (IF Max(raw) > t.hi THEN <<Const(Whole(t.hi)), Op("minsi", <<n, n + 1>>)>> ELSE <<>>)
                mName == NameFor(f, "fixed")
                with == Fresh(f, mName, table(t).a, "i32")
                nName == NameFor(with, "fixed")
                Values1(x) == [p \in DOMAIN f.mem[table(t).a] |-> Whole(x[p[1] + 1])]
            IN [Fresh(with, nName, table(t).b, "i32") EXCEPT
                    !.const = @ \cup {mName, nName}, !.mem[mName] = Values1(M), !.mem[nName] = Values1(N),
                    !.block[i] = [op EXCEPT !.ins = <<On(c.deq.src, op.ins[1].map), On(nName, op.ins[t.b].map),
                                                      On(mName, op.ins[t.a].map)>>,
                                            !.body = [ops |-> above \o <<Cast("trunci", Len(above), 8)>>,
                                                      out |-> <<Len(above) + 1>>]]]
        shifts(c) == ExactShifts(c.tail, c.deq.scale, Coefficients(table(c.tail).a), Coefficients(table(c.tail).b))
        largest(ks) == {k \in ks : \A j \in ks : j <= k}
    IN IF /\ IsLoop(f, i) /\ Len(op.ins) = 3 /\ Len(op.outs) = 1
          /\ f.type[op.outs[1].buf] = "i8" /\ f.type[in] = "f32"
       THEN UNION {{fixed(c, k) : k \in largest(Settled(shifts(c)))} : c \in sites} ELSE {}

DropUnreadElementwise(f, i) ==
    LET out == f.block[i].outs[1].buf
        about == {j \in Places(f) : out \in Named(f.block[j])}
    IN IF /\ IsLoop(f, i) /\ Len(f.block[i].outs) = 1 /\ Allocated(f, out) /\ out \notin f.outputs
          /\ \A j \in about \ {i} : f.block[j].op \in {"alloc", "dealloc"}
       THEN {Without(f, about)} ELSE {}

BatchNormInFixedPoint(f, i) == InFixedPoint(f, i) \cup DropUnreadElementwise(f, i)
=============================================================================
