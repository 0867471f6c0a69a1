------------------------------ MODULE GemmlirOps -----------------------------
(***************************************************************************)
(* Operations on memrefs: the host's linalg ones and the accelerator's, what *)
(* each computes, and what the accelerator's verifiers ask of their operands *)
(* (lib/Gemmlir/GemmlirOps.cpp; the runtime is read through its reference,    *)
(* runtime/gemmlir_rt_cpu.c).                                                *)
(*                                                                           *)
(* A value is a strided view of a buffer.  Images are rows, columns and      *)
(* channels; the batch is one and left out.  A scale is a ratio <<n, d>>.    *)
(***************************************************************************)
EXTENDS Rewriting, SequencesExt

Positions(x) == 1..Len(x)
Times(s) == FoldLeft(LAMBDA a, b : a * b, 1, s)
Packed(shape) == [d \in Positions(shape) |-> Times(SubSeq(shape, d + 1, Len(shape)))]

\* A buffer, and its views: the same bytes in another shape, or some of them.
Buffer(b, shape) == [buf |-> b, off |-> 0, size |-> shape, step |-> Packed(shape), via |-> "buffer"]
Reshaped(v, shape) == [v EXCEPT !.size = shape, !.step = Packed(shape), !.via = "reshape"]
Subview(v, lo, size, spread) ==
    [v EXCEPT !.off = @ + FoldSet(LAMBDA d, a : a + lo[d] * v.step[d], 0, Positions(lo)),
              !.size = size, !.step = [d \in Positions(size) |-> @[d] * spread[d]],
              !.via = "window"]
ColumnAsRow(v) == [v EXCEPT !.size = <<1>> \o @, !.step = <<1>> \o @, !.via = "reshape"]
Column(v) == [v EXCEPT !.size = @ \o <<1>>, !.step = @ \o <<1>>, !.via = "reshape"]
Row(v) == [v EXCEPT !.size = <<1>> \o @, !.step = <<v.size[1]>> \o @, !.via = "reshape"]
\* One matrix of a batch.
SliceOf(v, i) == [v EXCEPT !.off = @ + i * v.step[1], !.size = Tail(@), !.step = Tail(@), !.via = "window"]
IsIdentity(v) == v.off = 0 /\ v.step = Packed(v.size)

Indices(size) ==
    Settled({i \in [Positions(size) -> 0..(Max({size[d] : d \in Positions(size)}) - 1)] :
                \A d \in Positions(size) : i[d] < size[d]})
Address(v, i) ==
    v.off + CASE Len(i) = 1 -> i[1] * v.step[1]
              [] Len(i) = 2 -> i[1] * v.step[1] + i[2] * v.step[2]
              [] OTHER -> i[1] * v.step[1] + i[2] * v.step[2] + i[3] * v.step[3]
Elem(mem, v, i) == mem[v.buf][Address(v, i)]
\* The only index of a view that can have an address: steps never increase.
IndexAt(v, a) ==
    [d \in Positions(v.size) |-> (IF d = 1 THEN a - v.off ELSE (a - v.off) % v.step[d - 1]) \div v.step[d]]
Holds(v, i, a) == (\A d \in Positions(i) : i[d] \in 0..(v.size[d] - 1)) /\ Address(v, i) = a
Stored(mem, v, Val(_)) ==
    [mem EXCEPT ![v.buf] =
        [a \in DOMAIN @ |-> LET i == IndexAt(v, a) IN IF Holds(v, i, a) THEN Val(i) ELSE @[a]]]

SumTo(n, Term(_)) ==
    LET sum[k \in 0..n] == IF k = 0 THEN 0 ELSE sum[k - 1] + Term(k - 1) IN sum[n]

(***************************************************************************)
(* Arithmetic on the way out of the accumulator                              *)
(***************************************************************************)
\* n / d, rounded half to even.
RoundEven(n, d) ==
    LET q == n \div d
        twice == 2 * (n % d)
    IN IF twice < d \/ (twice = d /\ q % 2 = 0) THEN q ELSE q + 1
Clamp(x, lo, hi) == IF x < lo THEN lo ELSE IF x > hi THEN hi ELSE x
Out8(x, scale, act) ==
    Clamp(RoundEven(x * scale[1], scale[2]), IF act = "relu" THEN 0 ELSE -128, 127)

\* What a requantization's float chain makes of an integer, as a ratio.
Least(a, b) == IF a[1] * b[2] <= b[1] * a[2] THEN a ELSE b
Most(a, b) == IF a[1] * b[2] >= b[1] * a[2] THEN a ELSE b
Through(chain, x) ==
    FoldLeft(LAMBDA v, s :
                CASE s.k = "mul" -> <<v[1] * s.c[1], v[2] * s.c[2]>>
                  [] s.k = "div" -> <<v[1] * s.c[2], v[2] * s.c[1]>>
                  [] s.k = "relu" -> Most(v, <<0, 1>>)
                  [] s.k = "below" -> Least(v, s.c)
                  [] s.k = "above" -> Most(v, s.c)
                  [] s.k = "add" -> <<v[1] * s.c[2] + s.c[1] * v[2], v[2] * s.c[2]>>,
             <<x, 1>>, chain)

(***************************************************************************)
(* Contractions and windows                                                  *)
(***************************************************************************)
Dot(mem, op, i, j) ==
    LET a == op.ins[1]
        b == op.ins[2]
        depth == IF op.trL THEN a.size[1] ELSE a.size[2]
    IN SumTo(depth, LAMBDA k : Elem(mem, a, IF op.trL THEN <<k, i>> ELSE <<i, k>>)
                               * Elem(mem, b, IF op.trR THEN <<j, k>> ELSE <<k, j>>))

\* A pixel of an image seen with zeros between its pixels and around them.
Pixel(mem, x, at, ch, spread) ==
    IF \A e \in 1..2 : at[e] \in 0..(spread * (x.size[e] - 1)) /\ at[e] % spread = 0
    THEN Elem(mem, x, <<at[1] \div spread, at[2] \div spread, ch>>) ELSE 0
Tap(o, stride, t, dilation, pad) == [e \in 1..2 |-> o[e] * stride[e] + t[e] * dilation[e] - pad]

\* The filter is rows, columns, channels and filters; a depthwise one has no
\* fourth axis, and the accelerator's has its channel first.
Window(mem, op, o, ch, pad, spread) ==
    LET w == op.ins[2]
        depthwise == op.op \in {"dw", "dw8"}
        Weight(t, c) == CASE op.op = "dw" -> Elem(mem, w, <<t[1], t[2], ch>>)
                          [] op.op = "dw8" -> Elem(mem, w, <<ch, t[1], t[2]>>)
                          [] OTHER -> Elem(mem, w, <<t[1], t[2], c, ch>>)
        side == IF op.op = "dw8" THEN <<w.size[2], w.size[3]>> ELSE <<w.size[1], w.size[2]>>
        Term(t, c) == Weight(t, c) * Pixel(mem, op.ins[1], Tap(o, op.stride, t, op.dilation, pad), c, spread)
    IN SumTo(side[1], LAMBDA r : SumTo(side[2], LAMBDA q :
           IF depthwise THEN Term(<<r, q>>, ch)
           ELSE SumTo(op.ins[1].size[3], LAMBDA c : Term(<<r, q>>, c))))

Extent(n, k, stride, pad, dilation) == (n + 2 * pad - (dilation * (k - 1) + 1)) \div stride + 1
FilterSide(op) == IF op.op = "dw8" THEN op.ins[2].size[2] ELSE op.ins[2].size[1]
ConvExtent(op, e) == Extent(op.spread * (op.ins[1].size[e] - 1) + 1, FilterSide(op),
                            op.stride[e], op.pad, op.dilation[e])

Bias(mem, op, i) ==
    IF Len(op.ins) < 3 THEN 0
    ELSE LET d == op.ins[3]
         IN CASE Len(d.size) = 1 -> Elem(mem, d, <<i[Len(i)]>>)
              [] OTHER -> Elem(mem, d, IF d.size[1] = 1 THEN <<0, i[2]>> ELSE i)

Convolved(mem, op, i) ==
    LET At(o) == Out8(Window(mem, op, o, i[3], op.pad, op.spread) + Bias(mem, op, i), op.scale, op.act)
        Pooled(q) == IF \A e \in 1..2 : q[e] \in 0..(ConvExtent(op, e) - 1) THEN At(q) ELSE 0
    IN IF op.pool.s = 0 THEN At(<<i[1], i[2]>>)
       ELSE Max({Pooled(Tap(i, <<op.pool.s, op.pool.s>>, t, <<1, 1>>, op.pool.p)) :
                    t \in Indices(<<op.pool.k, op.pool.k>>)})

(***************************************************************************)
(* What one operation does to the memory                                     *)
(***************************************************************************)
HostElement(mem, op, i) ==
    LET in(n) == Elem(mem, op.ins[n], i)
        acc == Elem(mem, op.out, i)
    IN CASE op.body = "bias" -> acc + (IF Len(op.ins[1].size) = 1 THEN Elem(mem, op.ins[1], <<i[Len(i)]>>)
                                       ELSE in(1))
         [] op.body = "requant" ->
                LET x == Elem(mem, op.ins[1], i)
                         + (IF Len(op.ins) = 2 THEN Elem(mem, op.ins[2], <<i[Len(i)]>>) ELSE 0)
                    v == Through(op.chain, x)
                IN Clamp(RoundEven(v[1], v[2]), op.lo, 127)
         [] op.body = "relu" -> IF in(1) > 0 THEN in(1) ELSE 0
         [] op.body = "add8" -> Clamp(in(1) + in(2), op.lo, 127)
         [] op.body = "scaled add" ->
                LET a == op.scale[1]
                    b == op.scale[2]
                    v == Through(op.chain, in(1) * a[1] * b[2] + in(2) * b[1] * a[2])
                IN Clamp(RoundEven(v[1], v[2] * a[2] * b[2]), op.lo, 127)
         [] op.body = "copy" -> in(1)

Did(op, mem) ==
    LET To(Val(_)) == Stored(mem, op.out, Val)
        Acc(i) == Elem(mem, op.out, i)
    IN CASE op.op \in {"view", "dealloc"} -> mem
         [] op.op = "alloc" -> To(LAMBDA i : 99)
         [] op.op = "fill" -> To(LAMBDA i : op.val)
         [] op.op = "copy" -> To(LAMBDA i : Elem(mem, op.ins[1], i))
         [] op.op = "generic" -> To(LAMBDA i : HostElement(mem, op, i))
         [] op.op = "matmul" -> To(LAMBDA i : Acc(i) + Dot(mem, op, i[1], i[2]))
         [] op.op = "matvec" -> To(LAMBDA i : Acc(i) + SumTo(op.ins[2].size[1], LAMBDA k :
                Elem(mem, op.ins[1], <<i[1], k>>) * Elem(mem, op.ins[2], <<k>>)))
         [] op.op = "vecmat" -> To(LAMBDA i : Acc(i) + SumTo(op.ins[1].size[1], LAMBDA k :
                Elem(mem, op.ins[1], <<k>>) * Elem(mem, op.ins[2], <<k, i[1]>>)))
         [] op.op = "mm" -> To(LAMBDA i : (IF op.accumulate THEN Acc(i) ELSE 0)
                                           + Dot(mem, op, i[1], i[2]) + Bias(mem, op, i))
         [] op.op = "mm8" -> To(LAMBDA i : Out8(Dot(mem, op, i[1], i[2]) + Bias(mem, op, i),
                                                op.scale, op.act))
         [] op.op \in {"conv", "dw"} ->
                To(LAMBDA i : Acc(i) + Window(mem, op, i, i[3], 0, 1))
         [] op.op = "pool" ->
                To(LAMBDA i : Max({Acc(i)} \cup
                       {Elem(mem, op.ins[1], Tap(i, op.stride, t, op.dilation, 0) \o <<i[3]>>) :
                           t \in Indices(op.k)}))
         [] op.op \in {"conv8", "dw8"} -> To(LAMBDA i : Convolved(mem, op, i))
         [] op.op = "add" -> To(LAMBDA i : Out8(Out8(Elem(mem, op.ins[1], i), op.scale[1], "none")
                                                + Out8(Elem(mem, op.ins[2], i), op.scale[2], "none"),
                                                <<1, 1>>, op.act))

\* A loop over a batch runs its one call on each of its slices.
OnSlice(op, i) == [op EXCEPT !.ins = [n \in DOMAIN @ |-> IF Len(@[n].size) = 3 THEN SliceOf(@[n], i) ELSE @[n]],
                             !.out = SliceOf(@, i)]
Steps(op) == CASE op.op = "batch" -> [i \in 1..op.out.size[1] |-> OnSlice([op EXCEPT !.op = "matmul"], i - 1)]
               [] op.op = "loop" -> [i \in 1..op.call.out.size[1] |-> OnSlice(op.call, i - 1)]
               [] OTHER -> <<op>>

After(block, mem) ==
    LET all == FlattenSeq([n \in Positions(block) |-> Steps(block[n])])
        after[n \in 0..Len(all)] == IF n = 0 THEN mem ELSE Settled(Did(all[n], after[n - 1]))
    IN after[Len(all)]

(***************************************************************************)
(* The verifiers                                                             *)
(***************************************************************************)
HasRowStride(v) == v.step[2] = 1
VerifiesMatmul(op) ==
    LET a == op.ins[1].size
        b == op.ins[2].size
        m == IF op.trL THEN a[2] ELSE a[1]
        n == IF op.trR THEN b[1] ELSE b[2]
    IN /\ (IF op.trL THEN a[1] ELSE a[2]) = (IF op.trR THEN b[2] ELSE b[1])
       /\ op.out.size = <<m, n>>
       /\ \A v \in {op.ins[1], op.ins[2], op.out} : HasRowStride(v)
       /\ Len(op.ins) = 3 => op.ins[3].size[1] \in {m, 1} /\ op.ins[3].size[2] = n
       /\ op.op = "mm" => ~(op.accumulate /\ Len(op.ins) = 3)

RowsFollowTheStride(v) == v.step[3] = 1 /\ v.step[1] = v.size[2] * v.step[2]
PoolExtent(op, e) ==
    IF op.pool.s = 0 THEN ConvExtent(op, e)
    ELSE (ConvExtent(op, e) + 2 * op.pool.p - op.pool.k) \div op.pool.s + 1
VerifiesConv(op) ==
    LET x == op.ins[1]
        w == op.ins[2].size
        k == FilterSide(op)
    IN /\ w = IF op.op = "dw8" THEN <<x.size[3], k, k>> ELSE <<k, k, x.size[3], op.out.size[3]>>
       /\ op.op = "dw8" => op.out.size[3] = x.size[3]
       /\ RowsFollowTheStride(x) /\ RowsFollowTheStride(op.out)
       /\ op.pad \in 0..(k - 1)
       /\ op.spread \in 1..2 /\ (op.spread > 1 => op.stride = <<1, 1>>)
       /\ op.pool.s # 0 => op.pool.k >= 1
       /\ \A e \in 1..2 : ConvExtent(op, e) >= 1 /\ op.out.size[e] = PoolExtent(op, e)
       /\ Len(op.ins) = 3 => op.ins[3].size = <<op.out.size[3]>>

Verifies(op) ==
    CASE op.op \in {"mm", "mm8"} -> VerifiesMatmul(op)
      [] op.op = "loop" -> VerifiesMatmul(OnSlice(op.call, 0))
      [] op.op \in {"conv8", "dw8"} -> VerifiesConv(op)
      [] op.op = "add" -> op.ins[1].size = op.ins[2].size /\ op.ins[1].size = op.out.size
      [] OTHER -> TRUE
=============================================================================
