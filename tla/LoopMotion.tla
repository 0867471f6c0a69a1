------------------------------ MODULE LoopMotion ------------------------------
(***************************************************************************)
(* Elementwise work moved to where there is less of it:                       *)
(*   --sink-elementwise-into-readers, --hoist-broadcast-invariants and        *)
(*   --sink-monotone-below-max-pool.                                          *)
(***************************************************************************)
EXTENDS LoopPasses

CONSTANTS MaxConsumers, MaxOps    \* of a loop that is worked out again in its readers

(***************************************************************************)
(* --sink-elementwise-into-readers                                           *)
(***************************************************************************)
IsView(f, j) == f.block[j].op = "view"
\* A buffer and the views of it.
Shown(f, buf) ==
    FoldLeft(LAMBDA s, op : IF op.op = "view" /\ op.ins[1].buf \in s THEN s \cup {op.outs[1].buf} ELSE s, {buf}, f.block)
ViewOf(f, name) == {j \in Places(f) : IsView(f, j) /\ f.block[j].outs[1].buf = name}
BaseOf(f, name) ==
    LET base[k \in 0..Len(f.block)] ==
            IF k = 0 THEN name
            ELSE LET at == base[k - 1] IN IF ViewOf(f, at) = {} THEN at ELSE f.block[Max(ViewOf(f, at))].ins[1].buf
    IN base[Len(f.block)]
\* Two arguments may be one buffer, and an argument may be anything.
ProvablyDistinct(f, a, b) ==
    LET x == BaseOf(f, a)
        y == BaseOf(f, b)
    IN x # y /\ {x, y} \cap f.args = {}

BytesOf(f, b) == Volume(f.shape[b]) * (IF f.type[b] = "i8" THEN 1 ELSE 4)
SumOf(xs) == FoldLeft(LAMBDA a, b : a + b, 0, xs)
\* A deallocation is a write too, and a call does not say which of its operands
\* it writes.
MayWriteAny(f, j, bufs) ==
    LET op == f.block[j]
        written == CASE op.op \in {"dealloc", "call"} -> Named(op) [] op.op \in {"alloc", "view"} -> {} [] OTHER -> Writes(op)
    IN \E w \in written : \E b \in bufs : ~ProvablyDistinct(f, w, b)

\* The body of a reader with the producer's where its k-th operand was.
Fused(p, pIns, c, k) ==
    LET n == NextId(c) - 1
        here(x) == IF x > 0 THEN x + n ELSE x - (k - 1)
        result == here(p.out[1])
        there(x) == CASE x = -k -> result [] x < -k -> x - (pIns - 1) [] OTHER -> x
        As(ops, Moved(_)) == [j \in DOMAIN ops |-> [ops[j] EXCEPT !.a = [m \in DOMAIN @ |-> Moved(@[m])]]]
        produced == As(p.ops, here)
    IN [c EXCEPT !.ops = As(@, there) @@ [j \in {x + n : x \in Ids(p)} |-> produced[j - n]],
                 !.out = [m \in DOMAIN @ |-> there(@[m])]]

SinkElementwiseIntoReaders(f, i) ==
    LET op == f.block[i]
        buffer == op.outs[1].buf
        names == Shown(f, buffer)
        inputs == DOMAIN op.ins
        uses == {j \in Places(f) \ {i} : f.block[j].op # "alloc" /\ Named(f.block[j]) \cap names # {}}
        views == {j \in uses : IsView(f, j)}
        consumers == {j \in uses : IsLoop(f, j)}
        readAt(j) == {n \in DOMAIN f.block[j].ins : f.block[j].ins[n].buf \in names}
        k(j) == Max(readAt(j))
        Read(j) == f.block[j].ins[k(j)]
        inBytes == SumOf([n \in inputs |-> BytesOf(f, op.ins[n].buf)])
        bufBytes == BytesOf(f, buffer)
        readBytes == SumOf([j \in Places(f) |-> IF j \in consumers THEN BytesOf(f, Read(j).buf) ELSE 0])
        InputsSurvive(j) == \A m \in (i + 1)..(j - 1) : ~MayWriteAny(f, m, Reads(op))
        \* A view is replayed on each of the inputs, here where it stood.
        Replayed(name, n) == IF name = buffer THEN op.ins[n].buf ELSE name \o "." \o ToString(n)
        composed(map, through) == [d \in DOMAIN map |-> IF map[d] = 0 THEN 0 ELSE through[map[d]]]
        input(j, n) == On(Replayed(Read(j).buf, n),
                          IF Read(j).buf = buffer THEN composed(op.ins[n].map, Read(j).map) ELSE Read(j).map)
        Sunk(j) == LET c == f.block[j] IN
            [c EXCEPT !.ins = SubSeq(@, 1, k(j) - 1) \o [n \in inputs |-> input(j, n)] \o SubSeq(@, k(j) + 1, Len(@)),
                      !.body = Fused(op.body, Len(op.ins), c.body, k(j))]
        Instead(j) ==
            CASE j \in views -> [n \in inputs |-> [f.block[j] EXCEPT !.ins[1].buf = Replayed(@, n), !.outs[1].buf = Replayed(@, n)]]
              [] j \in consumers -> <<Sunk(j)>>
              [] buffer \in Named(f.block[j]) -> <<>>     \* the loop, its allocation and deallocation
              [] OTHER -> <<f.block[j]>>
        shown == {<<w, n>> \in names \X inputs : w # buffer}
        named == FoldSet(LAMBDA x, g : Fresh(g, Replayed(x[1], x[2]), x[1], f.type[op.ins[x[2]].buf]), f, shown)
    IN IF /\ IsLoop(f, i) /\ Len(op.outs) = 1 /\ op.ins # <<>>
          /\ op.outs[1].map = Identity(op.dims) /\ Allocated(f, buffer) /\ names \cap f.outputs = {}
          /\ IgnoresOutputs(op)
          /\ Cardinality({j \in Ids(op.body) : ~IsConst(op.body, j)}) <= MaxOps
          /\ \A j \in uses : f.block[j].op \in {"dealloc", "view", "generic"}
          /\ \A j \in consumers : Cardinality(readAt(j)) = 1 /\ Writes(f.block[j]) \cap names = {}
          /\ consumers # {} /\ Cardinality(consumers) <= MaxConsumers
          /\ views # {} => \A x \in Range(op.ins) : x.map = Identity(op.dims) /\ f.shape[x.buf] = f.shape[buffer]
          \* (in + write + read) against what reading the inputs again costs
          /\ readBytes * inBytes < (inBytes + bufBytes + readBytes) * bufBytes
          /\ \A j \in consumers : InputsSurvive(j)
       THEN {[named EXCEPT !.block = FlattenSeq([j \in Places(f) |-> Instead(j)])]} ELSE {}

(***************************************************************************)
(* --hoist-broadcast-invariants: what a loop computes from its narrower       *)
(* operands alone is computed once for each of their elements.                *)
(***************************************************************************)
Movable == {"mul", "div", "add", "sub", "neg", "maxnum", "minnum", "rsqrt", "exp", "fma", "muli", "addi", "subi",
            "shri", "sitofp", "fptosi", "extsi", "trunci"}
IntegerKinds == {"muli", "addi", "subi", "shri", "fptosi", "extsi"}

HoistBroadcastInvariants(f, i) ==
    LET op == f.block[i]
        b == op.body
        Size1(x) == Volume(f.shape[x.buf])
        DimsOf(n) == Range(op.ins[n].map) \ {0}
        narrow == {n \in DOMAIN op.ins : Size1(op.ins[n]) < Size1(op.outs[1]) /\ DimsOf(n) \notin {{}, DOMAIN op.dims}}
        model == op.ins[Min(narrow)]
        invariant == Settled(FoldLeft(LAMBDA s, j :
                         IF Kind(b, j) \in Movable /\ \A x \in Range(b.ops[j].a) : -x \in narrow \/ IsConst(b, x) \/ x \in s
                         THEN s \cup {j} ELSE s, {}, InOrder(b)))
        escaping == SetToSeq({j \in invariant : Uses(b, j) > 0 /\ (Users(b, j) \subseteq invariant => j \in Range(b.out))})
        operands == SetToSortSeq(narrow, <)
        \* in the small loop the narrow operands are the only ones
        small == [ops |-> [j \in {x \in Ids(b) : x \in invariant \/ IsConst(b, x)} |-> [b.ops[j] EXCEPT
                              !.a = [m \in DOMAIN @ |-> IF @[m] > 0 THEN @[m]
                                                         ELSE -Cardinality({x \in narrow : x <= -@[m]})]]],
                  out |-> escaping]
        names == [n \in DOMAIN escaping |-> NameFor(f, "row" \o ToString(n) \o ".")]
        typed(n) == CASE Kind(b, escaping[n]) \in IntegerKinds -> "i32" [] Kind(b, escaping[n]) = "trunci" -> "i8" [] OTHER -> "f32"
        there == FoldLeft(LAMBDA g, n : Fresh(g, names[n], model.buf, typed(n)), f, [n \in DOMAIN escaping |-> n])
        to(name) == On(name, Identity(f.shape[model.buf]))
        \* the new operands follow the inputs, before the output
        moved == [b EXCEPT !.ops = [j \in Ids(b) |-> [b.ops[j] EXCEPT !.a = [m \in DOMAIN @ |->
                               IF @[m] = -(Len(op.ins) + 1) THEN @[m] - Len(escaping) ELSE @[m]]]]]
        body == Alive(FoldLeft(LAMBDA c, n : Swap(c, escaping[n], -(Len(op.ins) + n)), moved, [n \in DOMAIN escaping |-> n]))
    IN IF /\ IsLoop(f, i) /\ Len(op.outs) = 1 /\ op.outs[1].map = Identity(op.dims)
          /\ narrow # {} /\ \A n \in narrow : DimsOf(n) = DimsOf(Min(narrow)) /\ f.shape[op.ins[n].buf] = f.shape[model.buf]
          /\ Len(escaping) \in 1..2
       THEN {Around(there, i,
                 [n \in DOMAIN names |-> Simple("alloc", <<>>, <<to(names[n])>>)] \o
                 <<Loop(f.shape[model.buf], [n \in DOMAIN operands |-> to(op.ins[operands[n]].buf)],
                        [n \in DOMAIN names |-> to(names[n])], small)>>,
                 [op EXCEPT !.ins = @ \o [n \in DOMAIN names |-> On(names[n], model.map)], !.body = body],
                 [n \in DOMAIN names |-> Simple("dealloc", <<to(names[n])>>, <<>>)])}
       ELSE {}

(***************************************************************************)
(* --sink-monotone-below-max-pool: the greatest accumulator has the greatest  *)
(* result, so a padded pool may come first.                                   *)
(***************************************************************************)
\* relu(x * k + c) of an integer x: the value it never goes below.
FloorOf(b) ==
    LET Scales(j) == LET c == Arg(b, j, 2) IN IsConst(b, c) /\ IsFinite(ConstOf(b, c)) /\ ConstOf(b, c)[1] > 0
        Bound(j, n) == {ConstOf(b, x) : x \in {y \in {Arg(b, j, n)} : IsConst(b, y)}}
        Walked(t, j) ==
            LET on == b.ops[j].a # <<>> /\ Arg(b, j, 1) = t.cur
                before == on /\ t.converted /\ ~t.floored
                next == [t EXCEPT !.cur = j]
                kept == CASE Kind(b, j) = "sitofp" -> IF on /\ ~t.converted THEN {[next EXCEPT !.converted = TRUE]} ELSE {}
                          [] Kind(b, j) \in {"mul", "fma"} -> IF before /\ Scales(j) THEN {next} ELSE {}
                          [] Kind(b, j) = "add" -> IF before THEN {next} ELSE {}
                          [] Kind(b, j) = "maxnum" ->
                                 IF on /\ ~t.floored THEN {[next EXCEPT !.floored = TRUE, !.floor = c] : c \in Bound(j, 2)} ELSE {}
                          [] Kind(b, j) = "cmpf" ->
                                 IF on /\ ~t.floored /\ b.ops[j].p = <<"u", "gt">> THEN {[t EXCEPT !.floor = c] : c \in Bound(j, 2)} ELSE {}
                          [] Kind(b, j) = "select" ->
                                 IF Kind(b, Arg(b, j, 1)) = "cmpf" /\ Arg(b, j, 2) = t.cur /\ t.floor \in Bound(j, 3)
                                 THEN {[next EXCEPT !.floored = TRUE]} ELSE {}
                          [] OTHER -> {}
            IN kept
        ends == FoldLeft(LAMBDA ts, j : IF IsConst(b, j) THEN ts ELSE UNION {Walked(t, j) : t \in ts},
                         {[cur |-> -1, converted |-> FALSE, floored |-> FALSE, floor |-> Whole(0)]}, InOrder(b))
    IN {t.floor : t \in {x \in ends : x.converted /\ x.floored /\ b.out = <<x.cur>>}}

LowestInt == Whole(Least(WideBits))
SinkMonotoneBelowMaxPool(f, i) ==
    LET pool == f.block[i]
        padded == pool.ins[1].buf
        out == pool.outs[1].buf
        around == {j \in UsersOf(f, padded) \ {i} : f.block[j].op # "dealloc"}
        sole(js, kind) == {j \in js : js = {j} /\ f.block[j].op = kind}
        fills == sole({j \in around : f.block[j].op = "fill"}, "fill")
        copies == sole(around \ fills, "pad")
        outFills == sole({j \in UsersOf(f, out) : f.block[j].op = "fill"}, "fill")
        wide == f.block[Max(copies)].ins[1].buf
        maps == {j \in sole({x \in UsersOf(f, wide) \ copies : f.block[x].op # "dealloc"}, "generic") :
                    wide \in Writes(f.block[j]) /\ Len(f.block[j].outs) = 1 /\ f.block[j].ins # <<>>}
        Walks(op) ==     \* the accumulator as the output, the rest by channel
            LET acc == op.ins[1]
                back == op.outs[1].map
            IN /\ f.type[acc.buf] = "i32" /\ f.shape[acc.buf] = f.shape[wide]
               /\ \A d \in DOMAIN back : acc.map[d] = back[d] \/ (acc.map[d] = 0 /\ f.shape[acc.buf][d] = 1)
               /\ \A n \in 2..Len(op.ins) : op.ins[n].map = <<Last(back)>>
        Sunk(m, floor) ==
            LET op == f.block[m]
                fill == Max(fills)
                inI == NameFor(f, "padded")
                outI == NameFor(f, "pooled")
                there == Fresh(Fresh(f, inI, padded, "i32"), outI, out, "i32")
                Neutral(name) == Simple("fill", <<>>, <<On(name, <<>>)>>) @@ [val |-> LowestInt]
                size(d) == LET axes == {p \in DOMAIN op.outs[1].map : op.outs[1].map[p] = d} IN f.shape[out][Min(axes)]
                first == <<Neutral(inI), [f.block[Max(copies)] EXCEPT !.ins[1].buf = op.ins[1].buf, !.outs[1].buf = inI], Neutral(outI),
                           [pool EXCEPT !.ins[1].buf = inI, !.outs[1].buf = outI]>>
                below == [op EXCEPT !.ins[1].buf = outI, !.outs[1].buf = out, !.dims = [d \in DOMAIN @ |-> size(d)]]
                Instead(j) == CASE j = fill -> first
                                [] j = i -> <<below, Simple("dealloc", <<On(inI, <<>>)>>, <<>>), Simple("dealloc", <<On(outI, <<>>)>>, <<>>)>>
                                [] j = m \/ j \in copies \cup outFills \/ Named(f.block[j]) \cap {padded, wide} # {} -> <<>>
                                [] OTHER -> <<f.block[j]>>
            IN [there EXCEPT !.block = FlattenSeq([j \in Places(f) |-> Instead(j)])]
    IN IF /\ pool.op = "pool" /\ f.type[padded] = "f32" /\ f.type[out] = "f32" /\ Allocated(f, padded)
          /\ Cardinality(around) = 2 /\ fills # {} /\ copies # {} /\ Allocated(f, wide) /\ outFills # {}
       THEN UNION {{Sunk(m, c) : c \in {c \in FloorOf(f.block[m].body) : c = f.block[Max(fills)].val}} :
                   m \in {x \in maps : Walks(f.block[x])}}
       ELSE {}

(***************************************************************************)
(* What the host reads and writes of the buffers the accelerator is given,    *)
(* between which of its calls.                                                *)
(***************************************************************************)
HostAccesses(f) ==
    LET calls == {j \in Places(f) : f.block[j].op = "call"}
        Host(i) == IF f.block[i].op \in {"alloc", "dealloc", "view", "call"} THEN {} ELSE {f.block[i]}
        shared == UNION {Named(f.block[j]) : j \in calls}
        before(i, b, Of(_)) == Cardinality({j \in calls : j < i /\ b \in Of(f.block[j])})
        BasesOf(bufs) == {BaseOf(f, x) : x \in bufs} \cap shared
    IN UNION {UNION {{<<"read", b, before(i, b, Writes)>> : b \in BasesOf(Reads(op))}
                     \cup {<<"write", b, before(i, b, Named)>> : b \in BasesOf(Writes(op))} : op \in Host(i)} : i \in Places(f)}

(***************************************************************************)
(* The passes, in the order of scripts/compile.sh                            *)
(***************************************************************************)
LoopOrder ==
    <<"table-for-i8-elementwise", "hoist-invariant-reciprocal", "combine-channel-affine", "fold-scales-into-broadcast",
      "fold-constant-elementwise", "batch-norm-in-fixed-point", "sink-elementwise-into-readers",
      "hoist-broadcast-invariants", "sink-monotone-below-max-pool", "pack-int8-table-lookup", "relax-float-max-pool">>

LoopStep ==
    \/ Pass("table-for-i8-elementwise", Places, TableOfOneByte)
    \/ Pass("hoist-invariant-reciprocal", Places, HoistInvariantReciprocal)
    \/ Pass("combine-channel-affine", Places, CombineChannelAffine)
    \/ Pass("fold-scales-into-broadcast", Places, FoldScalesIntoBroadcast)
    \/ Pass("fold-constant-elementwise", Places, FoldConstantElementwise)
    \/ Pass("batch-norm-in-fixed-point", Places, BatchNormInFixedPoint)
    \/ Pass("sink-elementwise-into-readers", Places, SinkElementwiseIntoReaders)
    \/ Pass("hoist-broadcast-invariants", Places, HoistBroadcastInvariants)
    \/ Pass("sink-monotone-below-max-pool", Places, SinkMonotoneBelowMaxPool)
    \/ Pass("pack-int8-table-lookup", Places, PackInt8TableLookup)
    \/ Pass("relax-float-max-pool", Places, RelaxFloatMaxPool)
=============================================================================
