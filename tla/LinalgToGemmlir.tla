---------------------------- MODULE LinalgToGemmlir --------------------------
(***************************************************************************)
(* --convert-linalg-to-gemmlir: contractions become accelerator calls, then   *)
(* what surrounds a call is folded into it -- a bias, a requantization, a     *)
(* padding, a relu, a pool, a copy into a concatenation -- and at the end the *)
(* host writes an accelerator call would overwrite are refused.               *)
(*                                                                           *)
(* A function is a block of operations; each names the values it reads, ins,  *)
(* and the one it writes, out.  What is moved, and past what, is the matter.  *)
(***************************************************************************)
EXTENDS GemmlirOps

Operands(op) ==
    CASE op.op = "alloc" -> {}
      [] op.op = "loop" -> {}        \* its slices are inside
      [] op.op \in {"view", "dealloc"} -> Range(op.ins)
      [] OTHER -> Range(op.ins) \cup {op.out}
Names(op, v) == v \in Operands(op)
IsLinalg(op) == op.op \in {"fill", "generic", "matmul", "matvec", "vecmat", "batch", "conv", "dw", "pool"}
IsCall(op) == op.op \in {"mm", "mm8", "conv8", "dw8", "add"}
IsReshape(op) == op.op = "view" /\ op.out.via = "reshape"

BaseOf(v, f) == Buffer(v.buf, f.shape[v.buf])
ReshapeBase(v, f) == IF v.via = "reshape" THEN BaseOf(v, f) ELSE v
IsLocal(v, f) == v.via = "buffer" /\ \E i \in Positions(f.block) : f.block[i].op = "alloc" /\ f.block[i].out = v
AllocOf(v, f) == CHOOSE i \in Positions(f.block) : f.block[i].op = "alloc" /\ f.block[i].out = v

First(S) == IF S = {} THEN {} ELSE {Min(S)}
NextUse(block, i, v) == First({j \in (i + 1)..Len(block) : Names(block[j], v)})
NextUseOfBuffer(f, i, base) ==
    First({j \in (i + 1)..Len(f.block) :
              ~IsReshape(f.block[j]) /\ \E v \in Operands(f.block[j]) : ReshapeBase(v, f) = base})

\* The values still hold at j what they held at i.
UntouchedBetween(block, i, j, values) ==
    \A n \in (i + 1)..(j - 1) : \A v \in values \cap Operands(block[n]) :
        (IsLinalg(block[n]) \/ IsCall(block[n]) \/ block[n].op = "copy") /\ v # block[n].out
\* No view of the buffer is read after i.
UnreadAfter(f, i, base) ==
    \A j \in (i + 1)..Len(f.block) :
        \/ f.block[j].op = "dealloc" \/ IsReshape(f.block[j])
        \/ \A v \in Operands(f.block[j]) : ReshapeBase(v, f) # base
OnlyFreedAfter(block, i, v) ==
    \A j \in (i + 1)..Len(block) : Names(block[j], v) => block[j].op = "dealloc"

\* The fill that proves a buffer holds zeros at i: the last to name it.
ZeroFillFor(block, i, v) ==
    LET named == {j \in 1..(i - 1) : Names(block[j], v)}
    IN {j \in named : j = Max(named) /\ block[j].op = "fill" /\ ~block[j].map /\ block[j].val = 0}

\* Erase some operations, put sequences in front of others.
Edit(block, gone, before) ==
    FlattenSeq([n \in Positions(block) |->
        (IF n \in DOMAIN before THEN before[n] ELSE <<>>) \o (IF n \in gone THEN <<>> ELSE <<block[n]>>)])
InFrontOf(i, ops) == [n \in {i} |-> ops]
NewView(src, v) == [op |-> "view", ins |-> <<src>>, out |-> v]

Type(f, v) == f.type[v.buf]
One == <<1, 1>>
NoPool == [k |-> 0, s |-> 0, p |-> 0]

(***************************************************************************)
(* Conversion: every contraction, or the pass fails                          *)
(***************************************************************************)
Call(op, ins, out, zero) ==
    [op |-> "mm", ins |-> ins, out |-> out, accumulate |-> (zero = {}), trL |-> op.trL, trR |-> op.trR]

IsContraction(op) == op.op \in {"matmul", "matvec", "vecmat", "batch"}
Offloads(f, op) ==
    /\ op.maps = "plain"
    /\ Type(f, op.ins[1]) = "i8" /\ Type(f, op.ins[2]) = "i8" /\ Type(f, op.out) = "i32"
    /\ op.op = "batch" => \A v \in Range(op.ins) : v.size[1] = op.out.size[1]

\* A vector is a matrix with one column, or with one row.
AsCall(f, i) ==
    LET op == f.block[i]
        zero == ZeroFillFor(f.block, i, op.out)
        By(views, ins, out) ==
            Edit(f.block, {i} \cup zero, InFrontOf(i, Append(views, Call(op, ins, out, zero))))
        out == IF op.op = "matvec" THEN Column(op.out) ELSE Row(op.out)
    IN CASE op.op = "matmul" -> By(<<>>, op.ins, op.out)
         [] op.op = "matvec" -> By(<<NewView(op.ins[2], Column(op.ins[2])), NewView(op.out, out)>>,
                                   <<op.ins[1], Column(op.ins[2])>>, out)
         [] op.op = "vecmat" -> By(<<NewView(op.ins[1], Row(op.ins[1])), NewView(op.out, out)>>,
                                   <<Row(op.ins[1]), op.ins[2]>>, out)
         [] OTHER -> Edit(f.block, {i} \cup zero,
                          InFrontOf(i, <<[op |-> "loop", call |-> Call(op, op.ins, op.out, zero)]>>))

\* min and max around a sum of two i8 values: exactly the runtime's add.
IsSaturatingAdd(f, op) ==
    /\ op.op = "generic" /\ op.body = "add8" /\ Len(op.ins) = 2 /\ op.hi = 127 /\ op.lo \in {-128, 0}
    /\ \A v \in Operands(op) : Len(v.size) = 2 /\ v.size = op.out.size /\ Type(f, v) = "i8"

\* The output's scaling and the relu, walked from the rounding in; the scalings
\* of the operands are then divided by it.
Reciprocal(r) == <<r[2], r[1]>>
RatioTimes(a, b) == <<a[1] * b[1], a[2] * b[2]>>
IsScaledAdd(f, op) ==
    /\ op.op = "generic" /\ op.body = "scaled add" /\ Len(op.ins) = 2 /\ op.hi = 127 /\ op.lo \in {-128, 0}
    /\ Len(op.out.size) >= 2
    /\ \A v \in Operands(op) : v.size = op.out.size /\ Type(f, v) = "i8" /\ IsIdentity(v)
    /\ \A n \in Positions(op.chain) : op.chain[n].k \in {"mul", "div", "relu"}
OutScale(chain) ==
    FoldLeft(LAMBDA s, c : CASE c.k = "mul" -> RatioTimes(s, c.c)
                             [] c.k = "div" -> RatioTimes(s, Reciprocal(c.c))
                             [] OTHER -> s, One, chain)

\* Two groups of dimensions, the second a multiple of the array's side if one is.
AsMatrix(shape) ==
    LET even == {k \in 2..Len(shape) : Times(SubSeq(shape, k, Len(shape))) % 16 = 0}
        split == IF even = {} THEN Len(shape) ELSE Max(even)
    IN <<Times(SubSeq(shape, 1, split - 1)), Times(SubSeq(shape, split, Len(shape)))>>

AddCall(op, scale, act) ==
    LET flat(v) == IF Len(v.size) = 2 THEN v ELSE Reshaped(v, AsMatrix(v.size))
        views == IF Len(op.out.size) = 2 THEN <<>>
                 ELSE [n \in 1..3 |-> NewView((op.ins \o <<op.out>>)[n], flat((op.ins \o <<op.out>>)[n]))]
    IN views \o <<[op |-> "add", ins |-> <<flat(op.ins[1]), flat(op.ins[2])>>, out |-> flat(op.out),
                   scale |-> scale, act |-> act]>>

Convert(f, i) ==
    LET op == f.block[i]
        Add(scale, relu) ==
            {[f EXCEPT !.block = Edit(@, {i}, InFrontOf(i, AddCall(op, scale, IF relu THEN "relu" ELSE "none")))]}
    IN IF f.failed THEN {}
       ELSE CASE IsContraction(op) ->
                     IF Offloads(f, op) THEN {[f EXCEPT !.block = AsCall(f, i)]} ELSE {[f EXCEPT !.failed = TRUE]}
              [] IsSaturatingAdd(f, op) -> Add(<<One, One>>, op.lo = 0)
              [] IsScaledAdd(f, op) ->
                     Add([n \in 1..2 |-> RatioTimes(op.scale[n], OutScale(op.chain))],
                         op.lo = 0 \/ \E n \in Positions(op.chain) : op.chain[n].k = "relu")
              [] OTHER -> {}

(***************************************************************************)
(* Reading a requantization                                                  *)
(***************************************************************************)
\* The chain's scale, walked from the rounding back to the accumulator.  A
\* clamp is dropped where the saturation is there first.
AtLeast(a, b) == a[1] * b[2] >= b[1] * a[2]
\* A relu, or a bound from above or below, in any of the forms a frontend has.
Bounded(c, s) ==
    LET bound == RatioTimes(c.c, s.scale)
    IN CASE c.k = "relu" -> [s EXCEPT !.relu = TRUE]
         [] c.k = "below" -> [s EXCEPT !.ok = @ /\ AtLeast(bound, <<127, 1>>)]
         [] c.k = "above" -> [s EXCEPT !.ok = @ /\ \/ s.relu /\ c.c[1] <= 0
                                                   \/ AtLeast(<<-128, 1>>, bound)]
ChainScale(chain) ==
    FoldRight(LAMBDA c, s :
        CASE c.k = "mul" -> [s EXCEPT !.scale = RatioTimes(@, c.c), !.ok = @ /\ c.c[1] > 0]
          [] c.k = "div" -> [s EXCEPT !.scale = RatioTimes(@, Reciprocal(c.c)), !.ok = @ /\ c.c[1] > 0]
          [] c.k = "add" -> [s EXCEPT !.ok = @ /\ c.c[1] = 0]
          [] OTHER -> Bounded(c, s),
        chain, [scale |-> One, relu |-> FALSE, ok |-> TRUE])

\* What a requantization of acc asks of the call: at most one of these.
Requantize(f, op, acc) ==
    LET read == ChainScale(op.chain)
    IN IF /\ op.op = "generic" /\ op.body = "requant"
          /\ op.ins[1] = acc /\ op.whole
          /\ Len(op.ins) = 2 => Len(op.ins[2].size) = 1 /\ Type(f, op.ins[2]) = "i32"
          /\ Type(f, op.out) = "i8"
          /\ op.rounds /\ op.hi = 127 /\ op.lo \in {-128, 0}
          /\ read.ok
       THEN {[scale |-> read.scale, bias |-> SubSeq(op.ins, 2, Len(op.ins)),
              act |-> IF op.lo = 0 \/ read.relu THEN "relu" ELSE "none"]}
       ELSE {}

(***************************************************************************)
(* Folds onto a matmul                                                       *)
(***************************************************************************)
\* An in-place += of a matrix, or of a row to every row.
IsBiasAdd(op, v) == op.op = "generic" /\ op.body = "bias" /\ op.out = v

FoldBiasIntoMatmul(f, i) ==
    LET op == f.block[i]
        D(next) == f.block[next].ins[1]
        folds(next) ==
            /\ IsBiasAdd(f.block[next], op.out)
            /\ Len(D(next).size) \in {1, 2} /\ Type(f, D(next)) = "i32"
        folded(next) ==
            IF Len(D(next).size) = 2 THEN <<[op EXCEPT !.ins = Append(@, D(next))]>>
            ELSE <<NewView(D(next), Row(D(next))), [op EXCEPT !.ins = Append(@, Row(D(next)))]>>
    IN IF op.op = "mm" /\ Len(op.ins) = 2 /\ ~op.accumulate
       THEN {[f EXCEPT !.block = Edit(@, {i, n}, InFrontOf(i, folded(n)))] :
                n \in {x \in NextUse(f.block, i, op.out) : folds(x)}}
       ELSE {}

FoldRequantizeIntoMatmul(f, i) ==
    LET op == f.block[i]
        base == ReshapeBase(op.out, f)
        Scaled(n, q) ==
            LET out == f.block[n].out
                flat == IF Len(out.size) = 2 THEN out ELSE Reshaped(out, AsMatrix(out.size))
                bias == IF q.bias = <<>> THEN SubSeq(op.ins, 3, Len(op.ins)) ELSE <<Row(q.bias[1])>>
                views == (IF flat = out THEN <<>> ELSE <<NewView(out, flat)>>)
                         \o (IF q.bias = <<>> THEN <<>> ELSE <<NewView(q.bias[1], bias[1])>>)
            IN IF /\ flat = out \/ (IsIdentity(out) /\ flat.size = op.out.size)
                  /\ Len(op.ins) = 3 => q.bias = <<>>
               THEN {[f EXCEPT !.block = Edit(@, {i, n}, InFrontOf(n, Append(views,
                         [op |-> "mm8", ins |-> SubSeq(op.ins, 1, 2) \o bias, out |-> flat, trL |-> op.trL,
                          trR |-> op.trR, scale |-> q.scale, act |-> q.act])))]}
               ELSE {}
    IN IF op.op = "mm" /\ ~op.accumulate /\ IsLocal(base, f) /\ Len(op.out.size) = 2
       THEN UNION {UNION {Scaled(n, q) : q \in Requantize(f, f.block[n], f.block[n].ins[1])} :
                n \in {x \in NextUseOfBuffer(f, i, base) :
                        /\ f.block[x].op = "generic" /\ ReshapeBase(f.block[x].ins[1], f) = base
                        /\ UntouchedBetween(f.block, i, x, {op.ins[1], op.ins[2]})
                        /\ UnreadAfter(f, x, base)}}
       ELSE {}

\* The same for a loop over a batch: the scaled call goes into the loop, where
\* the output has to exist by then.
FoldRequantizeIntoBatchMatmul(f, i) ==
    LET call == f.block[i].call
        acc == call.out
        Scaled(n, q) ==
            LET out == f.block[n].out
                row == IF q.bias = <<>> THEN <<>> ELSE <<Row(q.bias[1])>>
                moves == IsLocal(out, f) /\ AllocOf(out, f) > i
                before == (IF moves THEN <<f.block[AllocOf(out, f)]>> ELSE <<>>)
                          \o (IF row = <<>> THEN <<>> ELSE <<NewView(q.bias[1], row[1])>>)
                loop == [op |-> "loop", call |->
                            [op |-> "mm8", ins |-> call.ins \o row, out |-> out, trL |-> call.trL,
                             trR |-> call.trR, scale |-> q.scale, act |-> q.act]]
            IN IF /\ out.size = acc.size /\ IsIdentity(out)
                  /\ out.via = "buffer" \/ \E j \in 1..(i - 1) : f.block[j].op = "view" /\ f.block[j].out = out
               THEN {[f EXCEPT !.block =
                        Edit(@, {i, n} \cup (IF moves THEN {AllocOf(out, f)} ELSE {}), InFrontOf(i, Append(before, loop)))]}
               ELSE {}
    IN IF /\ f.block[i].op = "loop"
          /\ call.op = "mm" /\ ~call.accumulate /\ Len(call.ins) = 2 /\ IsLocal(acc, f)
       THEN UNION {UNION {Scaled(n, q) : q \in Requantize(f, f.block[n], acc)} :
                n \in {x \in NextUseOfBuffer(f, i, acc) :
                        UntouchedBetween(f.block, i, x, Range(call.ins)) /\ UnreadAfter(f, x, acc)}}
       ELSE {}
(***************************************************************************)
(* Convolutions                                                              *)
(***************************************************************************)
Square(pair) == pair[1] = pair[2]
DefinedBefore(f, v, i) ==
    \/ ~\E j \in Positions(f.block) : f.block[j].op \in {"alloc", "view"} /\ f.block[j].out = v
    \/ \E j \in 1..(i - 1) : f.block[j].op \in {"alloc", "view"} /\ f.block[j].out = v

\* The operations a fused convolution stands for: its zero fill, a bias add
\* or not, and a requantization.
Tails(f, i) ==
    LET op == f.block[i]
        channel(v) == v.size = <<op.out.size[3]>> /\ Type(f, v) = "i32"
        next == NextUse(f.block, i, op.out)
        biased == {n \in next : IsBiasAdd(f.block[n], op.out) /\ Len(f.block[n].ins[1].size) = 1}
        ends == IF biased = {} THEN next ELSE NextUse(f.block, Max(biased), op.out)
        bias == IF biased = {} THEN <<>> ELSE f.block[Max(biased)].ins
    IN {[adds |-> biased, at |-> x[1], q |-> x[2], bias |-> bias \o x[2].bias] :
            x \in {y \in UNION {{n} \X Requantize(f, f.block[n], op.out) : n \in ends} :
                /\ Len(bias \o y[2].bias) <= 1
                /\ \A v \in Range(bias \o y[2].bias) : channel(v)
                /\ UntouchedBetween(f.block, i, y[1], Range(op.ins))
                /\ f.block[y[1]].out.size = op.out.size
                /\ OnlyFreedAfter(f.block, y[1], op.out)
                /\ RowsFollowTheStride(op.ins[1]) /\ RowsFollowTheStride(f.block[y[1]].out)}}

\* A depthwise filter is laid out again, as a new constant.
Relaid(f, w) == Buffer(w.buf \o "_chw", <<w.size[3], w.size[1], w.size[2]>>)
WithRelaid(f, w) ==
    LET v == Relaid(f, w)
    IN [f EXCEPT !.shape = (v.buf :> v.size) @@ @, !.type = (v.buf :> "i8") @@ @,
                 !.mem = (v.buf :> Settled([a \in 0..(Times(v.size) - 1) |->
                             LET at == CHOOSE t \in Indices(v.size) : Address(v, t) = a
                             IN Elem(f.mem, w, <<at[2], at[3], at[1]>>)])) @@ @]

FuseQuantizedConv(f, i) ==
    LET op == f.block[i]
        w == op.ins[2]
        zero == ZeroFillFor(f.block, i, op.out)
        call(t, filter) ==
            [op |-> IF op.op = "conv" THEN "conv8" ELSE "dw8", ins |-> <<op.ins[1], filter>> \o t.bias,
             out |-> f.block[t.at].out, stride |-> op.stride, dilation |-> op.dilation, pad |-> 0,
             spread |-> 1, pool |-> NoPool, scale |-> t.q.scale, act |-> t.q.act]
        Fused(t) ==
            LET g == IF op.op = "dw" THEN WithRelaid(f, w) ELSE f
            IN [g EXCEPT !.block = Edit(@, {i, t.at} \cup zero \cup t.adds,
                            InFrontOf(t.at, <<call(t, IF op.op = "dw" THEN Relaid(f, w) ELSE w)>>))]
    IN IF /\ op.op \in {"conv", "dw"}
          /\ Type(f, op.ins[1]) = "i8" /\ Type(f, w) = "i8" /\ Type(f, op.out) = "i32"
          /\ zero # {} /\ Square(w.size) /\ IsLocal(op.out, f)
          /\ Square(op.stride) /\ Square(op.dilation)
          /\ op.op = "dw" => /\ op.dilation = <<1, 1>> /\ w.buf \in f.const
                             /\ op.ins[1].size[3] = w.size[3] /\ op.out.size[3] = w.size[3]
       THEN {Fused(t) : t \in Tails(f, i)} ELSE {}

\* The zero padding of a convolution's input: one fill, and one copy through one
\* window of it.
PaddingOf(f, i, padded) ==
    LET between == IF IsLocal(padded, f) THEN (AllocOf(padded, f) + 1)..(i - 1) ELSE {}
        windows == {n \in between : f.block[n].op = "view" /\ f.block[n].out.via = "window"
                                     /\ f.block[n].ins = <<padded>>}
        others == {n \in between \ windows : Names(f.block[n], padded)}
        inside == {n \in between : \E x \in windows : n > x /\ Names(f.block[n], f.block[x].out)}
    IN {[fill |-> x[1], window |-> x[2], copy |-> x[3]] :
            x \in {y \in others \X windows \X inside :
                /\ others = {y[1]} /\ windows = {y[2]} /\ inside = {y[3]}
                /\ f.block[y[1]].op = "fill" /\ f.block[y[1]].val = 0
                /\ f.block[y[3]].op = "copy" /\ f.block[y[3]].out = f.block[y[2]].out
                /\ {n \in Positions(f.block) : Names(f.block[n], f.block[y[2]].out)} = {y[3]}}}

FoldPaddingIntoConv(f, i) ==
    LET op == f.block[i]
        padded == op.ins[1]
        Folds(p) ==
            LET window == f.block[p.window]
                size == window.out.size
                pad == window.lo[1]
                spread == window.spread[1]
            IN /\ size = f.block[p.copy].ins[1].size
               /\ window.spread = <<spread, spread, 1>> /\ window.lo = <<pad, pad, 0>>
               /\ padded.size[3] = size[3]
               /\ ~(spread = 1 /\ pad = 0)
               /\ \A d \in 1..2 : padded.size[d] = spread * (size[d] - 1) + 1 + 2 * pad
               /\ spread # 1 => op.op = "conv8" /\ spread = 2 /\ op.stride = <<1, 1>> /\ op.spread = 1
               /\ pad < FilterSide(op)
        folded(p) == [op EXCEPT !.ins[1] = f.block[p.copy].ins[1], !.pad = f.block[p.window].lo[1],
                                !.spread = f.block[p.window].spread[1]]
    IN IF op.op \in {"conv8", "dw8"} /\ op.pad = 0 /\ OnlyFreedAfter(f.block, i, padded)
       THEN {[f EXCEPT !.block = Edit([@ EXCEPT ![i] = folded(p)], {p.fill, p.window, p.copy}, <<>>)] :
                p \in {x \in PaddingOf(f, i, padded) : Folds(x)}}
       ELSE {}

(***************************************************************************)
(* Copies that a producer can do without                                     *)
(***************************************************************************)
ReadsItsOutput(op) ==
    \/ op.op \in {"matmul", "matvec", "vecmat", "batch", "conv", "dw", "pool"}
    \/ op.op = "generic" /\ op.body = "bias"
    \/ op.op = "mm" /\ op.accumulate
WritesOnly(op, v) ==
    op.op # "view" /\ op.op # "dealloc" /\ op.out = v /\ v \notin Range(op.ins) /\ ~ReadsItsOutput(op)

ElideRedundantBufferCopy(f, i) ==
    LET op == f.block[i]
        src == op.ins[1]
        dst == op.out
        users(v) == {n \in Positions(f.block) \ {i} : Names(f.block[n], v) /\ f.block[n].op # "dealloc"}
        to(w) == [f.block[w] EXCEPT !.out = dst]
        late(w) == AllocOf(dst, f) > w
    IN IF /\ op.op = "copy" /\ src.buf # dst.buf /\ src.size = dst.size /\ Type(f, src) = Type(f, dst)
          /\ IsLocal(src, f) /\ IsLocal(dst, f)
          /\ \A n \in users(dst) : n > i
       THEN {[f EXCEPT !.block = Edit([@ EXCEPT ![w] = to(w)],
                                      {i} \cup (IF late(w) THEN {AllocOf(dst, f)} ELSE {}),
                                      IF late(w) THEN InFrontOf(w, <<f.block[AllocOf(dst, f)]>>) ELSE <<>>)] :
                w \in {x \in users(src) : users(src) = {x} /\ x < i /\ WritesOnly(f.block[x], src)}}
       ELSE {}

\* What touches a concatenation between a producer and its copy into it: fills
\* and the like of the whole of it can go first, anything else is in the way.
InTheWay(f, i, copy, base) ==
    {n \in (i + 1)..(copy - 1) :
        f.block[n].op # "view" /\ \E v \in Operands(f.block[n]) : v.buf = base.buf}
CanGoFirst(f, i, n, base) ==
    /\ f.block[n].op \in {"fill", "generic"} /\ f.block[n].out = base
    /\ \A v \in Operands(f.block[n]) \ {base} : DefinedBefore(f, v, i)

\* The producer at i writes the window its buffer is copied into.
IntoTheJoin(f, i, copy) ==
    LET target == f.block[copy].out
        window == CHOOSE n \in Positions(f.block) : f.block[n].op = "view" /\ f.block[n].out = target
        join == f.block[window].ins[1]
        base == BaseOf(join, f)
        late == IsLocal(join, f) /\ AllocOf(join, f) > i
        first == InTheWay(f, i, copy, base)
        alloc == IF late THEN {AllocOf(join, f)} ELSE {}
        there == IF late THEN <<f.block[AllocOf(join, f)]>> ELSE <<>>
        those == FlattenSeq([n \in Positions(f.block) |-> IF n \in first THEN <<f.block[n]>> ELSE <<>>])
        moved == there \o those \o <<f.block[window]>>
    IN IF ~late /\ ~DefinedBefore(f, join, i) THEN {}
       ELSE IF \A n \in first : CanGoFirst(f, i, n, base)
       THEN {[f EXCEPT !.block = Edit([@ EXCEPT ![i].out = target],
                                      {copy, window} \cup first \cup alloc, InFrontOf(i, moved))]}
       \* The allocation has been moved by then, and stays where it is.
       ELSE IF late THEN {[f EXCEPT !.block = Edit(@, alloc, InFrontOf(i, there))]} ELSE {}

WindowOf(f, v) == {n \in Positions(f.block) : f.block[n].op = "view" /\ f.block[n].out = v
                       /\ v.via = "window" /\ IsIdentity(f.block[n].ins[1])
                       /\ \A d \in Positions(f.block[n].spread) : f.block[n].spread[d] = 1}

FoldConcatIntoConv(f, i) ==
    LET buf == f.block[i].out
        later == {n \in (i + 1)..Len(f.block) : Names(f.block[n], buf) /\ f.block[n].op # "dealloc"}
        IsJoin(n) ==
            LET join == f.block[n].ins[1].size
                lo == f.block[n].lo
                size == f.block[n].out.size
            IN lo[1] = 0 /\ lo[2] = 0 /\ size = buf.size /\ SubSeq(size, 1, 2) = SubSeq(join, 1, 2)
               /\ lo[3] + size[3] <= join[3]
    IN IF f.block[i].op = "conv8" /\ IsLocal(buf, f)
       THEN UNION {IntoTheJoin(f, i, c) :
                c \in {n \in later : /\ later = {n} /\ f.block[n].op = "copy" /\ f.block[n].ins = <<buf>>
                                      /\ \E w \in WindowOf(f, f.block[n].out) : IsJoin(w)}}
       ELSE {}

FoldConcatIntoElementwise(f, c) ==
    LET buf == f.block[c].ins[1]
        users == {n \in Positions(f.block) \ {c} : Names(f.block[n], buf) /\ f.block[n].op # "dealloc"}
    IN IF f.block[c].op = "copy" /\ IsLocal(buf, f) /\ WindowOf(f, f.block[c].out) # {}
       THEN UNION {IntoTheJoin(f, i, c) :
                i \in {n \in users : /\ users = {n} /\ n < c
                                      /\ f.block[n].op = "generic" /\ f.block[n].out = buf
                                      /\ ~ReadsItsOutput(f.block[n])}}
       ELSE {}

(***************************************************************************)
(* A pool, a relu, and the check at the end                                  *)
(***************************************************************************)
\* The fill of zero that is the last to have written a buffer before i.
FillOfWholeBuffer(f, i, v) ==
    LET passes(n) ==
            \/ f.block[n].op \in {"view", "alloc"}
            \/ f.block[n].op = "fill" /\ f.block[n].out # v
            \/ /\ IsLinalg(f.block[n]) \/ IsCall(f.block[n]) \/ f.block[n].op = "copy"
               /\ f.block[n].out.buf # v.buf
        stops == {n \in 1..(i - 1) : ~passes(n)}
    IN {n \in stops : n = Max(stops) /\ f.block[n].op = "fill" /\ f.block[n].val = 0}

\* The convolution's output straight to the pool, or copied into the middle of
\* a zeroed buffer first.
PoolsOfWindow(f, c, w) ==
    LET full == f.block[w].ins[1]
        zeroed == FillOfWholeBuffer(f, c, full)
    IN {[at |-> n, in |-> full, p |-> f.block[w].lo[1], gone |-> {c} \cup zeroed] :
           n \in {x \in NextUseOfBuffer(f, c, full) : f.block[x].op = "pool" /\ zeroed # {}}}
PoolsOf(f, i) ==
    LET out == f.block[i].out
        next == NextUse(f.block, i, out)
        padded(n) == f.block[n].op = "copy" /\ f.block[n].ins = <<out>>
        Centred(w) ==
            LET p == f.block[w].lo[1]
                full == f.block[w].ins[1].size
            IN /\ f.block[w].lo = <<p, p, 0>> /\ p >= 1 /\ f.block[w].out.size = out.size
               /\ full = <<out.size[1] + 2 * p, out.size[2] + 2 * p, out.size[3]>>
               /\ IsLocal(f.block[w].ins[1], f)
    IN {[at |-> n, in |-> out, p |-> 0, gone |-> {}] : n \in {x \in next : f.block[x].op = "pool"}}
       \cup UNION {UNION {PoolsOfWindow(f, c, w) : w \in {x \in WindowOf(f, f.block[c].out) : Centred(x)}} :
                      c \in {x \in next : padded(x)}}

FoldMaxPoolIntoConv(f, i) ==
    LET op == f.block[i]
        Identity(n) ==
            LET named == {j \in 1..(n - 1) : Names(f.block[j], f.block[n].out)}
            IN {j \in named : j = Max(named) /\ f.block[j].op = "fill" /\ f.block[j].out = f.block[n].out}
        Folds(t) ==
            LET pool == f.block[t.at]
            IN /\ pool.ins[1] = t.in
               /\ Square(pool.k) /\ Square(pool.stride) /\ pool.dilation = <<1, 1>>
               /\ OnlyFreedAfter(f.block, t.at, op.out) /\ OnlyFreedAfter(f.block, t.at, t.in)
               /\ UntouchedBetween(f.block, i, t.at, Range(op.ins))
               /\ t.p # 0 => /\ pool.k[1] - 1 >= t.p
                             /\ \A e \in 1..2 : (pool.out.size[e] - 1) * pool.stride[1]
                                                 <= t.p + op.out.size[e] - 1
        pooled(t) == [op EXCEPT !.out = f.block[t.at].out,
                          !.pool = [k |-> f.block[t.at].k[1], s |-> f.block[t.at].stride[1], p |-> t.p]]
    IN IF op.op = "conv8" /\ op.pool.s = 0 /\ IsLocal(op.out, f)
       THEN {[f EXCEPT !.block = Edit(@, {i, t.at} \cup t.gone \cup Identity(t.at), InFrontOf(t.at, <<pooled(t)>>))] :
                t \in {x \in PoolsOf(f, i) : Folds(x)}}
       ELSE {}

FoldReluIntoAct(f, i) ==
    LET op == f.block[i]
        next == f.block[i + 1]
    IN IF /\ op.op \in {"mm8", "add"} /\ op.act = "none" /\ i < Len(f.block)
          /\ next.op = "generic" /\ next.body = "relu" /\ next.ins = <<op.out>> /\ next.out = op.out
       THEN {[f EXCEPT !.block = Edit([@ EXCEPT ![i].act = "relu"], {i + 1}, <<>>)]} ELSE {}

\* A call that writes a buffer without reading it must not have the host write
\* the buffer before.
HostWritten(f, i) ==
    LET op == f.block[i]
        from == IF IsLocal(op.out, f) THEN AllocOf(op.out, f)
                ELSE Max({0} \cup {j \in 1..(i - 1) : f.block[j].op = "view" /\ f.block[j].out = op.out})
    IN /\ op.op \in {"mm", "mm8", "conv8", "dw8"} /\ (op.op = "mm" => ~op.accumulate)
       /\ \E j \in (from + 1)..(i - 1) :
              (IsLinalg(f.block[j]) \/ f.block[j].op = "copy") /\ f.block[j].out = op.out
CheckHostWrites(f, i) ==
    IF HostWritten(f, i) /\ ~f.failed THEN {[f EXCEPT !.failed = TRUE]} ELSE {}

Fold(f, i) ==
    IF f.failed THEN {}
    ELSE UNION {FoldBiasIntoMatmul(f, i), FoldRequantizeIntoMatmul(f, i),
                FoldRequantizeIntoBatchMatmul(f, i), FuseQuantizedConv(f, i), FoldConcatIntoConv(f, i),
                FoldConcatIntoElementwise(f, i), ElideRedundantBufferCopy(f, i),
                FoldPaddingIntoConv(f, i), FoldReluIntoAct(f, i), FoldMaxPoolIntoConv(f, i)}

OffloadPasses == <<"convert", "fold", "check">>
BlockOf(f) == Positions(f.block)
OffloadStep == \/ Pass("convert", BlockOf, Convert)
               \/ Pass("fold", BlockOf, Fold)
               \/ Pass("check", BlockOf, CheckHostWrites)

(***************************************************************************)
(* What the pass promises                                                    *)
(***************************************************************************)
Result(f) == LET mem == After(f.block, f.mem) IN [b \in f.outputs |-> mem[b]]

OffloadInit(given) ==
    group = "offload" /\ ahead = OffloadPasses /\ rewrites = 0 /\ now \in given /\ answer = Result(now)
OffloadSpec(given) == OffloadInit(given) /\ [][OffloadStep]_rewriting

\* Every call a fold leaves behind passes the verifier of its operation, after
\* each of the rewrites and not only after the last.
EveryCallVerifies ==
    group = "offload" => \A i \in BlockOf(now) : Verifies(now.block[i])
=============================================================================
