----------------------------- MODULE ElementLoops -----------------------------
(***************************************************************************)
(* Elementwise loops on memrefs: linalg.generic, and the fills, copies and    *)
(* pools between them.  A loop runs its body at every point of its dims; an   *)
(* operand is a buffer and the loop dimensions that index it, 0 for a fixed    *)
(* index.  A pool slides over the first axis of a buffer: the second spatial   *)
(* axis and the batch are treated alike and left out.                         *)
(***************************************************************************)
EXTENDS ScalarPasses

On(buf, map) == [buf |-> buf, map |-> map]
Loop(dims, ins, outs, body) ==
    [op |-> "generic", dims |-> dims, ins |-> ins, outs |-> outs, body |-> body]
Simple(op, ins, outs) == [op |-> op, ins |-> ins, outs |-> outs]

Points(dims) ==
    Settled({p \in [DOMAIN dims -> 0..(Max(Range(dims)) - 1)] : \A d \in DOMAIN dims : p[d] < dims[d]})
At(map, p) == [d \in DOMAIN map |-> IF map[d] = 0 THEN 0 ELSE p[map[d]]]
Identity(dims) == [d \in DOMAIN dims |-> d]
Volume(shape) == FoldLeft(LAMBDA a, b : a * b, 1, shape)
Position(shape, p) == FoldLeft(LAMBDA a, d : a * shape[d] + p[d], 0, Identity(shape))

\* The arguments of a body, inputs then outputs, at one point of its loop.
ArgsAt(mem, op, p) ==
    [n \in -(Len(op.ins) + Len(op.outs))..-1 |->
        LET x == (op.ins \o op.outs)[-n] IN mem[x.buf][At(x.map, p)]]

\* The bytes of a word are looked up one by one, the sign bit turned over.
LookedUp(f, mem, op, p) ==
    LET b == op.ins[1].buf
        words == Volume(f.shape[b]) \div 8
    IN IF Position(f.shape[b], p) < 8 * words
       THEN op.table[(((mem[b][p][1] % 256) + 128) % 256) + 1] ELSE mem[op.outs[1].buf][p]

Slid(mem, op, p) ==
    FoldLeft(LAMBDA acc, t : Computed(Op(op.best, <<>>),
                                <<acc, mem[op.ins[1].buf][<<p[1] * op.stride + (t - 1) * op.dilation, p[2]>>]>>),
             mem[op.outs[1].buf][p], [t \in 1..op.k |-> t])

Ran(f, mem, op) ==
    LET out == op.outs[1]
        Set(Val(_)) == [mem EXCEPT ![out.buf] = [p \in DOMAIN @ |-> Val(p)]]
    IN CASE op.op = "dealloc" -> [mem EXCEPT ![op.ins[1].buf] = [p \in DOMAIN @ |-> Poison]]
         [] op.op = "alloc" -> Set(LAMBDA p : Poison)
         [] op.op = "fill" -> Set(LAMBDA p : op.val)
         \* What the accelerator works out is no matter here.
         [] op.op \in {"copy", "call"} -> Set(LAMBDA p : mem[op.ins[1].buf][p])
         [] op.op = "pool" -> Set(LAMBDA p : Slid(mem, op, p))
         \* A view of some rows.  It is taken after they are written and nothing
         \* writes through it, so it holds what it shows.
         [] op.op = "view" ->
                Set(LAMBDA p : mem[op.ins[1].buf][[p EXCEPT ![1] = @ + op.from]])
         [] op.op = "words" -> Set(LAMBDA p : LookedUp(f, mem, op, p))
         [] op.op = "pad" ->    \* a copy into the middle of the buffer
                Set(LAMBDA p : IF p[1] - op.lo \in 0..(f.shape[op.ins[1].buf][1] - 1)
                               THEN mem[op.ins[1].buf][<<p[1] - op.lo, p[2]>>] ELSE mem[out.buf][p])
         [] op.op = "generic" ->
                LET at == Settled(Values(op.body, Points(op.dims), LAMBDA p : ArgsAt(mem, op, p)))
                    to(m, q) == {p \in Points(op.dims) : At(op.outs[m].map, p) = q}
                IN [b \in DOMAIN mem |->
                       IF \E m \in DOMAIN op.outs : op.outs[m].buf = b
                       THEN LET m == CHOOSE n \in DOMAIN op.outs : op.outs[n].buf = b
                            IN [q \in DOMAIN mem[b] |->
                                   IF to(m, q) = {} THEN mem[b][q] ELSE at[CHOOSE p \in to(m, q) : TRUE][m]]
                       ELSE mem[b]]

Outcome(f) ==
    LET after[n \in 0..Len(f.block)] ==
            IF n = 0 THEN f.mem ELSE Settled(Ran(f, after[n - 1], f.block[n]))
        end == after[Len(f.block)]
    IN [b \in f.outputs |-> end[b]]

(***************************************************************************)
(* Walking a block                                                           *)
(***************************************************************************)
Places(f) == DOMAIN f.block
BufsOf(x) == {x[n].buf : n \in DOMAIN x}
Reads(op) == IF op.op = "dealloc" THEN {} ELSE BufsOf(op.ins)
Writes(op) == BufsOf(op.outs)
Named(op) == BufsOf(op.ins) \cup BufsOf(op.outs)
UsersOf(f, b) == {j \in Places(f) : f.block[j].op # "alloc" /\ b \in Named(f.block[j])}
Allocated(f, b) == b \notin f.args \cup f.const
Without(f, js) ==    \* the block without some of its operations
    [f EXCEPT !.block = LET kept == SelectSeq([n \in Places(f) |-> n], LAMBDA n : n \notin js) IN [n \in DOMAIN kept |-> f.block[kept[n]]]]
IsLoop(f, i) == f.block[i].op = "generic"
Narrow(op, n) ==
    /\ Len(op.ins[n].map) < Len(op.dims)
    /\ 0 \notin Range(op.ins[n].map) /\ Cardinality(Range(op.ins[n].map)) = Len(op.ins[n].map)

\* The block with some operations before and after the one at i, and that changed.
Around(f, i, before, op, after) ==
    [f EXCEPT !.block = SubSeq(@, 1, i - 1) \o before \o <<op>> \o after \o SubSeq(@, i + 1, Len(@))]
\* A buffer that is not there yet, of the shape and type of another.
Fresh(f, name, like, type) ==
    [f EXCEPT !.shape = (name :> f.shape[like]) @@ @, !.type = (name :> type) @@ @,
              !.mem = (name :> [p \in Points(f.shape[like]) |-> Poison]) @@ @]
\* A name no buffer has.
NameFor(f, what) ==
    LET n == Min({k \in 1..9 : (what \o ToString(k)) \notin DOMAIN f.shape}) IN what \o ToString(n)
Over1(f, name, ins, body) ==     \* a small loop over the buffers of ins, into a new one
    <<Simple("alloc", <<>>, <<On(name, <<>>)>>),
      Loop(f.shape[ins[1]], [n \in DOMAIN ins |-> On(ins[n], Identity(f.shape[ins[n]]))],
           <<On(name, Identity(f.shape[ins[1]]))>>, body)>>

RefinesGiven(after, given) ==
    \A b \in DOMAIN given : \A p \in DOMAIN given[b] : given[b][p] # Poison => after[b][p] = given[b][p]
=============================================================================
