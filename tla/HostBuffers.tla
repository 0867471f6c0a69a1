----------------------------- MODULE HostBuffers -----------------------------
(***************************************************************************)
(* Paddings and max-pools on the host, after bufferization: the passes       *)
(*   --pool-without-padding, --fill-only-the-border, --fill-to-memset and    *)
(*   --pack-int8-max-pool                                                    *)
(* of lib/Transforms, in the order of scripts/compile.sh.                    *)
(*                                                                           *)
(* A function is a block of operations on views of row-major buffers. An     *)
(* element is the sequence of its bytes: those of a float, or those of the   *)
(* neighbouring channels that make up one word.  Batch and channel are never *)
(* cut by these passes and are left out: a pool has its two spatial axes.    *)
(***************************************************************************)
EXTENDS Rewriting, SequencesExt

CONSTANTS
    MinSaved,        \* --fill-only-the-border: elements a site must spare
    LeastRunBytes,   \* --fill-to-memset: kLeastRunBytes
    MostRegions      \* --pool-without-padding: bands of rows times of columns

(***************************************************************************)
(* Views and elements                                                        *)
(***************************************************************************)
Dims(x) == 1..Len(x)
Product(s) == FoldLeft(LAMBDA a, b : a * b, 1, s)
Stride(shape, d) == Product(SubSeq(shape, d + 1, Len(shape)))

Whole(shape, b) ==
    [buf |-> b, lo |-> [d \in Dims(shape[b]) |-> 0], size |-> shape[b], tag |-> "whole"]
IsWhole(v) == v.tag = "whole"

\* memref.subview, of a view already there or of a buffer.
Slice(v, lo, size, tag) ==
    [buf |-> v.buf, lo |-> [d \in Dims(lo) |-> v.lo[d] + lo[d]], size |-> size, tag |-> tag]

Within(lo, size, p) == \A d \in Dims(lo) : lo[d] <= p[d] /\ p[d] < lo[d] + size[d]
Points(shape) == Settled({p \in [Dims(shape) -> 0..(Max({shape[d] : d \in Dims(shape)}) - 1)] :
                              \A d \in Dims(shape) : p[d] < shape[d]})
Cells(shape, v) == {p \in Points(shape) : Within(v.lo, v.size, p)}
At(lo, p) == [d \in Dims(lo) |-> lo[d] + p[d]]
Linear(shape, p) == FoldLeft(LAMBDA a, d : a * shape[d] + p[d], 0, [d \in Dims(shape) |-> d])

Larger(a, b) == Settled([i \in Dims(a) |-> IF a[i] >= b[i] THEN a[i] ELSE b[i]])
Relu(a) == [i \in Dims(a) |-> IF a[i] > 0 THEN a[i] ELSE 0]

(***************************************************************************)
(* The word-at-a-time maximum of --pack-int8-max-pool.  The bytes are        *)
(* subtracted as one word, so that a borrow reaches the next of them.        *)
(***************************************************************************)
Unsigned(b) == b % 256
Signed(u) == IF u >= 128 THEN u - 256 ELSE u
Flip(u) == (u + 128) % 256
WordOf(bytes) == FoldRight(LAMBDA u, acc : acc * 256 + u, bytes, 0)
BitSeven(word, i) == (word \div (256 ^ (i - 1))) % 256 >= 128

PackedMax(a, b, unsigned) ==
    LET ready(x) == [i \in Dims(x) |-> IF unsigned THEN Unsigned(x[i]) ELSE Flip(Unsigned(x[i]))]
        back(u) == Signed(IF unsigned THEN u ELSE Flip(u))
        A == ready(a)
        B == ready(b)
        high == WordOf([i \in Dims(a) |-> 128 + (A[i] % 128)])
        low == WordOf([i \in Dims(b) |-> IF unsigned THEN B[i] ELSE B[i] % 128])
        d == (high - low) % (256 ^ Len(a))
        AtLeast(i) == IF unsigned THEN BitSeven(d, i)
                      ELSE \/ A[i] >= 128 /\ B[i] < 128
                           \/ (A[i] >= 128) = (B[i] >= 128) /\ BitSeven(d, i)
    IN Settled([i \in Dims(a) |-> back(IF AtLeast(i) THEN A[i] ELSE B[i])])

(***************************************************************************)
(* What a block computes: the contents of its buffers, and what was read.    *)
(***************************************************************************)
Taps(op, o) ==
    {[d \in 1..2 |-> o[d] * op.s[d] + t[d] * op.d[d]] :
        t \in {x \in [1..2 -> 0..(Max({op.k[1], op.k[2]}) - 1)] : x[1] < op.k[1] /\ x[2] < op.k[2]}}

Written(shape, mem, v, Val(_)) ==
    [mem EXCEPT ![v.buf] = [p \in DOMAIN mem[v.buf] |->
        IF Within(v.lo, v.size, p) THEN Val([d \in Dims(v.lo) |-> p[d] - v.lo[d]])
        ELSE mem[v.buf][p]]]

RunDimsOfBuffer(shape, v) == Len(shape)
\* A trailing dimension is packed when it does not step, or steps by what the
\* dimensions after it hold.
RunDims(shape, v) ==
    LET n == Len(shape)
        Packed(d) == \/ v.size[d] = 1
                     \/ Stride(shape, d) = Product(SubSeq(v.size, d + 1, n))
    IN Max({r \in 0..n : \A d \in (n - r + 1)..n : Packed(d)})

\* memset writes bytes one after another, wherever they are.
MemsetCells(shape, v, outer) ==
    LET run == Product(SubSeq(v.size, outer + 1, Len(shape)))
        starts == {Linear(shape, q) : q \in {p \in Cells(shape, v) :
                       \A d \in (outer + 1)..Len(shape) : p[d] = v.lo[d]}}
    IN {p \in Points(shape) :
            \E s \in starts : s <= Linear(shape, p) /\ Linear(shape, p) < s + run}

Executed(shape, state, op) ==
    LET mem == state.mem
        In(p) == mem[op.in.buf][At(op.in.lo, p)]
        Out(p) == mem[op.out.buf][At(op.out.lo, p)]
        To(Val(_)) == [state EXCEPT !.mem = Written(shape, mem, op.out, Val)]
        PoolOver(Best(_, _)) ==
            To(LAMBDA o : FoldSet(LAMBDA t, acc : Best(acc, In(t)), Out(o), Taps(op, o)))
    IN CASE op.op = "fill" -> To(LAMBDA p : op.val)
         [] op.op = "memset" ->
                LET cells == MemsetCells(shape[op.out.buf], op.out, op.outer)
                IN [state EXCEPT !.mem[op.out.buf] =
                       [p \in DOMAIN @ |->
                           IF p \in cells THEN [i \in Dims(@[p]) |-> op.byte] ELSE @[p]]]
         [] op.op = "copy" -> To(In)
         [] op.op = "generic" ->
                To(LAMBDA p : IF op.acc THEN Larger(Out(p), In(p)) ELSE In(p))
         [] op.op = "conv" -> To(LAMBDA p : IF op.relu THEN Relu(In(p)) ELSE In(p))
         [] op.op = "pool" -> PoolOver(Larger)
         [] op.op = "packed" -> PoolOver(LAMBDA a, b : PackedMax(a, b, op.unsigned))
         [] op.op \in {"read", "region"} -> [state EXCEPT !.log = Append(@, mem[op.in.buf])]
         [] op.op \in {"subview", "dealloc"} -> state

\* What its caller and the readers in it see of a function.
Answer(f) ==
    LET after[n \in 0..Len(f.block)] ==
            IF n = 0 THEN [mem |-> f.mem, log |-> <<>>]
            ELSE Settled(Executed(f.shape, after[n - 1], f.block[n]))
        end == after[Len(f.block)]
    IN <<end.log, [b \in f.outputs |-> end.mem[b]]>>

(***************************************************************************)
(* Walking a block                                                           *)
(***************************************************************************)
\* The views an operation's operand list shows; a region's are inside it.
Operands(op) ==
    CASE op.op \in {"fill", "memset"} -> {op.out}
      [] op.op \in {"read", "dealloc"} -> {op.in}
      [] op.op = "subview" -> {op.in}
      [] op.op = "region" -> {}
      [] OTHER -> {op.in, op.out}
Users(block, v) ==
    {i \in Dims(block) : v \in Operands(block[i]) \/ (block[i].op = "region" /\ block[i].in = v)}
IsLinalg(op) == op.op \in {"fill", "generic", "pool"}
Accumulates(op) == op.op = "pool" \/ (op.op = "generic" /\ op.acc)

Replace(block, i, ops) == SubSeq(block, 1, i - 1) \o ops \o SubSeq(block, i + 1, Len(block))
Without(block, gone) ==
    LET left == SelectSeq([n \in Dims(block) |-> n], LAMBDA n : n \notin gone) IN [j \in Dims(left) |-> block[left[j]]]

(***************************************************************************)
(* --pool-without-padding                                                    *)
(***************************************************************************)
\* The runs of outputs of one axis whose windows meet the same taps.
TapsInside(o, k, s, d, lo, extent) ==
    {t \in 0..(k - 1) : 0 <= o * s - lo + t * d /\ o * s - lo + t * d <= extent - 1}

Bands(out, k, s, d, lo, extent) ==
    LET taps(o) == TapsInside(o, k, s, d, lo, extent)
        starts == {o \in 0..(out - 1) : o = 0 \/ taps(o) # taps(o - 1)}
        ends(o) == Min({e \in (starts \cup {out}) : e > o})
    IN IF \E o \in 0..(out - 1) : taps(o) = {} THEN <<>>
       ELSE [i \in 1..Cardinality(starts) |->
                LET o == SetToSortSeq(starts, <)[i]
                IN [oLo |-> o, oHi |-> ends(o), tLo |-> Min(taps(o)), tHi |-> Max(taps(o))]]

\* The padded buffer of a pool: one fill, one copy into a box of it, at most
\* one deallocation, and nothing else.
WritesInto(op, v) == op.op \in {"copy", "generic", "conv"} /\ op.out = v
CopiesInto(op, v) == op.op = "copy" /\ op.out = v
Paddings(block, i) ==
    LET pad == block[i].in
        users == Users(block, pad) \ {i}
        freed == {j \in users : block[j].op = "dealloc"}
    IN {[fill |-> x[1], box |-> x[2], copy |-> x[3], freed |-> freed] :
        x \in {y \in users \X users \X (1..(i - 1)) :
            /\ block[y[1]].op = "fill" /\ block[y[1]].out = pad
            /\ block[y[2]].op = "subview"
            /\ users \ freed = {y[1], y[2]} /\ Cardinality(freed) <= 1
            /\ Users(block, block[y[2]].out) = {y[3]}
            /\ CopiesInto(block[y[3]], block[y[2]].out)
            /\ y[1] < y[3]}}

\* The pool of one band of rows and one of columns, over the image itself.
BandPool(pool, src, lo, pad, h, w) ==
    LET Each(F(_, _)) == <<F(1, h), F(2, w)>>
        k == Each(LAMBDA d, b : b.tHi - b.tLo + 1)
        in == Slice(src, Each(LAMBDA d, b : b.oLo * pool.s[d] - lo[d] + b.tLo * pool.d[d]),
                    Each(LAMBDA d, b : (b.oHi - b.oLo - 1) * pool.s[d] + (k[d] - 1) * pool.d[d] + 1),
                    "band")
        into == Slice(pool.out, Each(LAMBDA d, b : b.oLo), Each(LAMBDA d, b : b.oHi - b.oLo), "band")
    IN <<[op |-> "subview", in |-> src, out |-> in], [op |-> "subview", in |-> pool.out, out |-> into]>>
       \o (IF k # pool.k THEN <<[op |-> "fill", out |-> into, val |-> pad]>> ELSE <<>>)
       \o <<[pool EXCEPT !.in = in, !.out = into, !.k = k]>>

PoolWithoutPadding(f, i) ==
    LET pool == f.block[i]
        Banded(p) ==
            LET src == f.block[p.copy].in
                lo == f.block[p.box].out.lo
                bands == [d \in 1..2 |->
                    Bands(pool.out.size[d], pool.k[d], pool.s[d], pool.d[d], lo[d], src.size[d])]
                pools == FlattenSeq([h \in Dims(bands[1]) |-> FlattenSeq([w \in Dims(bands[2]) |->
                    BandPool(pool, src, lo, f.block[p.fill].val, bands[1][h], bands[2][w])])])
            IN IF Len(bands[1]) * Len(bands[2]) \in 1..MostRegions
               THEN {[f EXCEPT !.block =
                        Without(SubSeq(@, 1, i - 1), {p.fill, p.box, p.copy} \cup p.freed) \o pools
                        \o Without(SubSeq(@, i + 1, Len(@)), {j - i : j \in p.freed})]}
               ELSE {}
    IN IF pool.op = "pool" /\ IsWhole(pool.in)
       THEN UNION {Banded(p) : p \in Paddings(f.block, i)} ELSE {}

(***************************************************************************)
(* --fill-only-the-border                                                    *)
(***************************************************************************)
\* The next operation of a block that has to do with a buffer, or might.
NextOn(block, i, b) ==
    LET on == {j \in (i + 1)..Len(block) : block[j].op = "region"
                                           \/ \E v \in Operands(block[j]) : v.buf = b}
    IN IF on = {} THEN {} ELSE {Min(on)}

\* The box written next into a filled buffer: a slice, with one user that
\* writes all of it and reads none of it back.
BoxWrittenNext(block, i) ==
    {block[x].out : x \in {y \in NextOn(block, i, block[i].out.buf) :
        /\ block[y].op = "subview"
        /\ \E u \in Dims(block) :
            /\ Users(block, block[y].out) = {u}
            /\ \/ block[u].op = "copy"
               \/ /\ IsLinalg(block[u]) /\ ~Accumulates(block[u])
                  /\ block[u].op = "fill" \/ block[u].in.buf # block[i].out.buf
            /\ block[u].out = block[y].out}}

\* The complement of a box: on each dimension the two sides of it, cut to the
\* box on the dimensions before and left whole on those after.
Slabs(shape, lo, size) ==
    LET n == Len(shape)
        slab(d, from, to) ==
            [lo |-> [e \in 1..n |-> IF e < d THEN lo[e] ELSE IF e = d THEN from ELSE 0],
             size |-> [e \in 1..n |-> IF e < d THEN size[e]
                                      ELSE IF e = d THEN to - from ELSE shape[e]]]
        sides == [k \in 1..(2 * n) |->
            LET d == (k + 1) \div 2
            IN IF k % 2 = 1 THEN slab(d, 0, lo[d]) ELSE slab(d, lo[d] + size[d], shape[d])]
    IN SelectSeq(sides, LAMBDA b : \A d \in 1..n : b.size[d] > 0)

FillOnlyTheBorder(f, i) ==
    LET fill == f.block[i]
        slabs(box) == Slabs(f.shape[fill.out.buf], box.lo, box.size)
        SlabFill(b) ==
            LET v == Slice(fill.out, b.lo, b.size, "slab")
            IN <<[op |-> "subview", in |-> fill.out, out |-> v], [fill EXCEPT !.out = v]>>
    IN IF fill.op = "fill" /\ IsWhole(fill.out)
       THEN {[f EXCEPT !.block = Replace(@, i, FlattenSeq([k \in Dims(slabs(box)) |->
                                                   SlabFill(slabs(box)[k])]))] :
                box \in {x \in BoxWrittenNext(f.block, i) :
                            Product(x.size) >= MinSaved /\ slabs(x) # <<>>}}
       ELSE {}

(***************************************************************************)
(* --fill-to-memset=below-reduction=1                                        *)
(***************************************************************************)
\* A later loop reads this buffer back while writing it.
AccumulatedIntoLater(block, i) ==
    \E j \in (i + 1)..Len(block) :
        IsLinalg(block[j]) /\ Accumulates(block[j]) /\ block[j].out.buf = block[i].out.buf

FillToMemset(f, i) ==
    LET fill == f.block[i]
        shape == f.shape[fill.out.buf]
        outer == Len(shape) - RunDims(shape, fill.out)
        run == Product(SubSeq(fill.out.size, outer + 1, Len(shape))) * Len(fill.val)
    IN IF /\ fill.op = "fill"
          /\ \A j \in Dims(fill.val) : fill.val[j] = fill.val[1]
          /\ ~AccumulatedIntoLater(f.block, i)
          /\ outer = 0 \/ (outer < Len(shape) /\ run >= LeastRunBytes)
       THEN {[f EXCEPT !.block[i] =
                [op |-> "memset", out |-> fill.out, byte |-> fill.val[1], outer |-> outer]]}
       ELSE {}

(***************************************************************************)
(* --pack-int8-max-pool                                                      *)
(***************************************************************************)
\* Every byte reachable through a view, as far as its users and those of its
\* own views tell.
WritesOnlyNonNegative(v, op, nonNeg) ==
    CASE op.op = "copy" -> op.out # v \/ nonNeg[op.in]
      [] op.op = "conv" -> op.out # v \/ op.relu
      [] op.op = "memset" -> op.out # v \/ op.byte >= 0
      [] op.op = "fill" -> op.out # v \/ op.val[1] >= 0
      [] op.op = "generic" -> op.out # v \/ (~op.acc /\ nonNeg[op.in])
      [] op.op = "pool" -> op.out # v
      [] op.op = "dealloc" -> TRUE
      [] OTHER -> FALSE

ViewsBelow(block, v) ==
    LET below[n \in 0..Len(block)] ==
            IF n = 0 THEN {v}
            ELSE below[n - 1] \cup
                 (IF block[n].op = "subview" /\ block[n].in \in below[n - 1] THEN {block[n].out} ELSE {})
    IN below[Len(block)]

NonNegative(block, v) ==
    LET views == UNION {Operands(block[j]) : j \in Dims(block)}
        nonNeg[depth \in 0..4, w \in views] ==
            LET uses == {<<x, j>> \in ViewsBelow(block, w) \X Dims(block) :
                            block[j].op # "subview" /\ j \in Users(block, x)}
            IN /\ depth <= 3
               /\ uses # {}
               /\ \A u \in uses : WritesOnlyNonNegative(u[1], block[u[2]],
                                      [x \in views |-> nonNeg[depth + 1, x]])
    IN nonNeg[0, v]

\* The last operation before a pool to write its output, if it is a fill.
FillOf(block, i) ==
    LET before == {j \in 1..(i - 1) :
            IF IsLinalg(block[j]) THEN block[j].out = block[i].out
            ELSE block[j].op \notin {"subview", "packed"} /\ block[i].out \in Operands(block[j])}
    IN {j \in before : j = Max(before) /\ block[j].op = "fill"}

PackInt8MaxPool(f, i) ==
    LET pool == f.block[i]
        fill == FillOf(f.block, i)
        unsigned == NonNegative(f.block, pool.in) /\ fill # {}
        Zeroed(op) == IF op.val[1] >= 0 THEN op ELSE [op EXCEPT !.val = [j \in Dims(op.val) |-> 0]]
        Packed(j) ==
            IF j = i THEN [op |-> "packed", in |-> pool.in, out |-> pool.out, k |-> pool.k,
                           s |-> pool.s, d |-> pool.d, unsigned |-> unsigned]
            ELSE IF unsigned /\ j \in fill THEN Zeroed(f.block[j]) ELSE f.block[j]
    IN IF pool.op = "pool" THEN {[f EXCEPT !.block = [j \in Dims(@) |-> Packed(j)]]} ELSE {}

(***************************************************************************)
(* What the host does to a buffer, between which of the accelerator's calls   *)
(* on it: the flushes were placed by that, before these passes.  A convolution *)
(* stands for any of the calls.                                               *)
(***************************************************************************)
HostReads(op) ==
    CASE op.op \in {"copy", "read", "region"} -> {op.in.buf}
      [] IsLinalg(op) /\ op.op # "fill" -> {op.in.buf} \cup (IF Accumulates(op) THEN {op.out.buf} ELSE {})
      [] op.op = "packed" -> {op.in.buf, op.out.buf}
      [] OTHER -> {}
HostWrites(op) ==
    IF IsLinalg(op) \/ op.op \in {"memset", "copy", "packed"} THEN {op.out.buf} ELSE {}
HostAccesses(f) ==
    LET Calls(i) == {j \in 1..(i - 1) : f.block[j].op = "conv"}
        writing(b, i) == Cardinality({j \in Calls(i) : f.block[j].out.buf = b})
        naming(b, i) == Cardinality({j \in Calls(i) : b \in {f.block[j].in.buf, f.block[j].out.buf}})
    IN UNION {{<<"read", b, writing(b, i)>> : b \in HostReads(f.block[i])}
              \cup {<<"write", b, naming(b, i)>> : b \in HostWrites(f.block[i])} : i \in Dims(f.block)}

(***************************************************************************)
(* The passes                                                                *)
(***************************************************************************)
BufferPasses == <<"pool-without-padding", "fill-only-the-border", "fill-to-memset",
                  "pack-int8-max-pool", "fill-to-memset">>

Places(f) == Dims(f.block)
BufferStep ==
    \/ Pass("pool-without-padding", Places, PoolWithoutPadding)
    \/ Pass("fill-only-the-border", Places, FillOnlyTheBorder)
    \/ Pass("fill-to-memset", Places, FillToMemset)
    \/ Pass("pack-int8-max-pool", Places, PackInt8MaxPool)
=============================================================================
