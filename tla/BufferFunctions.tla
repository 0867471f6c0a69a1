---------------------------- MODULE BufferFunctions ---------------------------
(***************************************************************************)
(* Functions for the passes over host buffers: a padding and a max-pool over  *)
(* it, on two axes, with the extents of one axis varied, then what is written *)
(* into the padding, by the host or by the accelerator, and what happens      *)
(* around it.                                                                 *)
(***************************************************************************)
EXTENDS HostBuffers

Axis == [n : 1..3, lo : 0..1, hi : 0..1, k : 1..3, s : 1..2, d : 1..2]
Padded(a) == a.n + a.lo + a.hi
Outs(a) == (Padded(a) - (a.k - 1) * a.d - 1) \div a.s + 1
Rows == {a \in Axis : Padded(a) > (a.k - 1) * a.d}
Column == [n |-> 2, lo |-> 1, hi |-> 0, k |-> 2, s |-> 1, d |-> 1]

Byte(i) == <<0, -3, 100, -128, 7, 127, -1, 64>>[(i % 8) + 1]
Bytes(shape, w) ==
    [p \in Points(shape) |-> [i \in 1..w |-> Byte(3 * Linear(shape, p) + i)]]

PoolFunction(a, b, c) ==
    LET shape == [arg |-> <<a.n, b.n>>, x |-> <<a.n, b.n>>, pad |-> <<Padded(a), Padded(b)>>,
                  y |-> <<Outs(a), Outs(b)>>, z |-> <<a.n, b.n>>]
        W(v) == Whole(shape, v)
        box == Slice(W("pad"), <<a.lo, b.lo>>, <<a.n, b.n>>, "box")
        low == [i \in 1..c.width |-> -128]
        fill == [op |-> "fill", out |-> W("pad"), val |-> low]
        pool == [op |-> "pool", in |-> W("pad"), out |-> W("y"), k |-> <<a.k, b.k>>,
                 s |-> <<a.s, b.s>>, d |-> <<a.d, b.d>>]
        call(in, out) == [op |-> "conv", in |-> in, out |-> out, relu |-> FALSE]
        writer == CASE c.writer = "copy" -> [op |-> "copy", in |-> W("x"), out |-> box]
                    [] c.writer = "call" -> call(W("arg"), box)
                    [] OTHER -> [op |-> "generic", in |-> W("x"), out |-> box, acc |-> (c.writer = "acc")]
        between == CASE c.between = "none" -> <<>>
                     [] c.between = "read" -> <<[op |-> "read", in |-> W("pad")]>>
                     [] c.between = "region" -> <<[op |-> "region", in |-> W("pad")]>>
                     [] c.between = "call" -> <<call(W("x"), W("z"))>>
        after == CASE c.after = "none" -> <<>>
                   [] c.after = "dealloc" -> <<[op |-> "dealloc", in |-> W("pad")]>>
                   [] c.after = "read" -> <<[op |-> "read", in |-> W("pad")]>>
                   [] c.after = "call" -> <<call(W("y"), W("z")), [op |-> "read", in |-> W("z")]>>
    IN [shape |-> shape, outputs |-> {"y"},
        mem |-> [v \in DOMAIN shape |-> Bytes(shape[v], c.width)],
        block |-> <<[op |-> "conv", in |-> W("arg"), out |-> W("x"), relu |-> TRUE], fill>> \o between
                  \o <<[op |-> "subview", in |-> W("pad"), out |-> box], writer,
                       [fill EXCEPT !.out = W("y")], pool>> \o after]

Contexts == [width : {2}, writer : {"copy", "generic", "acc", "call"},
             between : {"none", "read", "region", "call"}, after : {"none", "dealloc", "read", "call"}]
Plain == [width |-> 2, writer |-> "copy", between |-> "none", after |-> "dealloc"]

BufferFunctions ==
    {PoolFunction(a, Column, Plain) : a \in Rows} \cup
    {PoolFunction([Column EXCEPT !.n = 3], Column, c) : c \in Contexts}
=============================================================================
