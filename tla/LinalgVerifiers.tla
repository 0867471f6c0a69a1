---------------------------- MODULE LinalgVerifiers ---------------------------
(***************************************************************************)
(* What is taken for granted of a function --convert-linalg-to-gemmlir is     *)
(* given: that its memrefs have a shape and steps for it, that linalg's and    *)
(* memref's own verifiers passed its operations, and the little beyond that    *)
(* which the folds do not ask and the accelerator's verifiers do.              *)
(***************************************************************************)
EXTENDS GemmlirOps

Has(op, fields) == fields \subseteq DOMAIN op
IsView(v) == /\ Has(v, {"buf", "off", "size", "step", "via"})
             /\ v.size \in Seq(Nat \ {0}) /\ v.step \in Seq(Nat) /\ Len(v.step) = Len(v.size)
Pair == [1..2 -> Nat \ {0}]

IsOp(op) == /\ Has(op, {"op", "ins", "out"}) /\ op.ins \in Seq(Range(op.ins))
            /\ \A v \in Range(op.ins) \cup {op.out} : IsView(v)
IsImage(v) == Len(v.size) = 3
IsMatrix(v) == Len(v.size) = 2 /\ HasRowStride(v)
LastOf(v) == <<v.size[Len(v.size)]>>

(***************************************************************************)
(* One operation                                                             *)
(***************************************************************************)
ContractionFits(op) ==
    LET a == op.ins[1]
        b == op.ins[2]
    IN /\ Has(op, {"maps", "trL", "trR"}) /\ Len(op.ins) = 2
       /\ op.maps = "plain" =>
            CASE op.op = "matmul" -> VerifiesMatmul(op)
              [] op.op = "batch" -> /\ IsImage(a) /\ IsImage(b) /\ IsImage(op.out)
                                    /\ VerifiesMatmul(OnSlice([op EXCEPT !.op = "matmul"], 0))
              [] op.op = "matvec" -> /\ ~op.trL /\ ~op.trR /\ IsMatrix(a)
                                     /\ b.size = <<a.size[2]>> /\ op.out.size = <<a.size[1]>>
              [] op.op = "vecmat" -> /\ ~op.trL /\ ~op.trR /\ IsMatrix(b)
                                     /\ a.size = <<b.size[1]>> /\ op.out.size = <<b.size[2]>>
                                     /\ a.step = <<1>> /\ op.out.step = <<1>>

\* The body of a generic, and what its maps make of the shapes of its operands.
GenericFits(op) ==
    /\ Has(op, {"body"})
    /\ op.body = "bias" =>
          /\ Len(op.ins) = 1
          /\ op.ins[1].size = op.out.size \/ op.ins[1].size = LastOf(op.out)
    /\ op.body = "requant" =>
          /\ Has(op, {"whole"}) /\ Len(op.ins) \in {1, 2}
          /\ op.whole => op.ins[1].size = op.out.size
          /\ Len(op.ins) = 2 => op.ins[2].size = LastOf(op.out)
          /\ Len(op.out.size) = 2 => HasRowStride(op.out)

WindowsFit(op) ==
    LET x == op.ins[1]
        w == op.ins[2]
    IN /\ Has(op, {"stride", "dilation"}) /\ Len(op.ins) = 2
       /\ op.stride \in Pair /\ op.dilation \in Pair
       /\ IsImage(x) /\ IsImage(op.out)
       /\ IF op.op = "dw" THEN Len(w.size) = 3
          ELSE Len(w.size) = 4 /\ w.size[3] = x.size[3] /\ w.size[4] = op.out.size[3]
       /\ \A e \in 1..2 : op.out.size[e] = Extent(x.size[e], w.size[e], op.stride[e], 0, op.dilation[e])

PoolFits(op) ==
    LET x == op.ins[1]
    IN /\ Has(op, {"k", "stride", "dilation"}) /\ Len(op.ins) = 1
       /\ op.k \in Pair /\ op.stride \in Pair /\ op.dilation \in Pair
       /\ IsImage(x) /\ IsImage(op.out) /\ op.out.size[3] = x.size[3]
       /\ \A e \in 1..2 :
             op.out.size[e] = (x.size[e] - (op.dilation[e] * (op.k[e] - 1) + 1)) \div op.stride[e] + 1
       /\ RowsFollowTheStride(op.out)

IsWindow(op) == op.op = "view" /\ op.out.via = "window"
WindowFits(op) ==
    LET x == op.ins[1]
    IN /\ Has(op, {"lo", "spread"}) /\ Len(op.ins) = 1 /\ Len(op.out.size) = Len(x.size)
       /\ op.lo \in [Positions(x.size) -> Nat] /\ op.spread \in [Positions(x.size) -> Nat]
       /\ op.out.step = [d \in Positions(x.size) |-> x.step[d] * op.spread[d]]

CopyFits(op) ==
    /\ Len(op.ins) = 1 /\ op.ins[1].size = op.out.size
    /\ IsImage(op.out) => RowsFollowTheStride(op.ins[1])

\* The operations the pass makes, which it may also be given.
MatmulFits(op) ==
    /\ Has(op, {"trL", "trR", IF op.op = "mm" THEN "accumulate" ELSE "act"})
    /\ Len(op.ins) \in {2, 3} /\ VerifiesMatmul(op)
LoopFits(op) ==
    LET call == op.call
    IN /\ Has(op, {"op", "call"}) /\ IsOp(call) /\ call.op \in {"mm", "mm8"} /\ Len(call.ins) \in {2, 3}
       /\ Has(call, {"trL", "trR", IF call.op = "mm" THEN "accumulate" ELSE "act"})
       /\ IsImage(call.ins[1]) /\ IsImage(call.ins[2]) /\ IsImage(call.out)
       /\ VerifiesMatmul(OnSlice(call, 0))
ConvCallFits(op) ==
    /\ Has(op, {"stride", "dilation", "pad", "spread", "pool", "act"}) /\ Len(op.ins) \in {2, 3}
    /\ op.stride \in Pair /\ op.dilation \in Pair /\ op.pool \in [k : Nat, s : Nat, p : Nat]
    /\ IsImage(op.ins[1]) /\ IsImage(op.out) /\ Len(op.ins[2].size) = (IF op.op = "dw8" THEN 3 ELSE 4)
    /\ VerifiesConv(op)

Fits(op) ==
    IF op.op = "loop" THEN LoopFits(op)
    ELSE /\ IsOp(op)
         /\ op.op \in {"matmul", "matvec", "vecmat", "batch"} => ContractionFits(op)
         /\ op.op = "generic" => GenericFits(op)
         /\ op.op \in {"conv", "dw"} => WindowsFit(op)
         /\ op.op = "pool" => PoolFits(op)
         /\ IsWindow(op) => WindowFits(op)
         /\ op.op = "copy" => CopyFits(op)
         /\ op.op = "alloc" => op.out = Buffer(op.out.buf, op.out.size)
         /\ op.op \in {"mm", "mm8"} => MatmulFits(op)
         /\ op.op \in {"conv8", "dw8"} => ConvCallFits(op)
         /\ op.op = "add" => Has(op, {"act"}) /\ Verifies(op)

(***************************************************************************)
(* Operations together                                                       *)
(***************************************************************************)
\* The matrices that contractions, calls and copies leave in whole buffers.
WrittenAs(op) == CASE op.op = "matvec" -> op.out.size \o <<1>>
                   [] op.op = "vecmat" -> <<1>> \o op.out.size
                   [] OTHER -> op.out.size
Held(op) ==
    IF \/ op.op \in {"matvec", "vecmat"}
       \/ op.op \in {"matmul", "mm", "copy"} /\ Len(op.out.size) = 2 /\ op.out.via # "window"
    THEN {[buf |-> op.out.buf, size |-> WrittenAs(op)]} ELSE {}
\* What a requantization reads: in which shape, and with a bias of which.
Asked(op) ==
    IF op.op = "generic" /\ op.body = "requant"
    THEN {[buf |-> op.ins[1].buf, size |-> op.out.size, bias |-> SubSeq(op.ins, 2, Len(op.ins))]} ELSE {}
\* A requantization reads the matrix as it was written: the folds compare the
\* shapes only where the requantization has more than two axes, and the bias
\* with nothing.
ReadAsWritten(held, asked) ==
    held.buf = asked.buf =>
        /\ Len(asked.size) = 2 => asked.size = held.size
        /\ Len(asked.bias) = 1 => asked.bias[1].size = <<held.size[2]>>

\* An image that is spread out over zeros without a border is not itself one
\* that was padded: folding its padding would set the spread back to one.
Padded(op) == IF IsWindow(op) THEN {op.ins[1]} ELSE {}
Spreads(op) == IsWindow(op) /\ op.spread[1] = 2 /\ op.lo[1] = 0
Spread(ops) ==
    {op.ins[1] : op \in {o \in ops : o.op \in {"conv8", "dw8"} /\ o.spread = 2 /\ o.pad = 0}}
    \cup {op.ins[1] : op \in {o \in ops : o.op = "copy" /\ \E w \in ops : Spreads(w) /\ w.out = o.out}}

WellFormedOps(ops) ==
    /\ \A op \in ops : Fits(op)
    /\ \A held \in UNION {Held(op) : op \in ops}, asked \in UNION {Asked(op) : op \in ops} :
           ReadAsWritten(held, asked)
    /\ Spread(ops) \cap UNION {Padded(op) : op \in ops} = {}

WellFormed(f) ==
    /\ Has(f, {"block", "failed"})
    /\ f.block \in Seq(Range(f.block)) /\ WellFormedOps(Range(f.block))
=============================================================================
