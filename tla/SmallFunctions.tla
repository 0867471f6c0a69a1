--------------------------- MODULE SmallFunctions ---------------------------
(* Every function of up to MaxOps operations over two whole buffers. *)
EXTENDS Naturals, TLC

CONSTANTS a, b, MaxOps

McBuffer == {a, b}
McBaseOf == [w \in McBuffer |-> w]

Do(k, rs, ws) == [kind |-> k, reads |-> rs, writes |-> ws]

Calls == {Do(k, {v}, McBuffer \ {v}) : k \in {"matmul", "accumulate"}, v \in McBuffer}

Hosts == {Do("host", rs, ws) : rs, ws \in {{}, {a}, {b}}} \ {Do("host", {}, {})}

\* An accumulator is started by a call before it, as a contraction split along
\* its reduced dimension does.
Started(ops) ==
    \A i \in DOMAIN ops : ops[i].kind = "accumulate" =>
        \E j \in 1..i - 1 : ops[j].kind = "matmul" /\ ops[j].writes = ops[i].writes

Blocks == UNION {[1..n -> Calls \cup Hosts] : n \in 1..MaxOps}

McFunctions == [ops : {ops \in Blocks : Started(ops) /\ \E i \in DOMAIN ops : ops[i] \in Calls},
                escaping : SUBSET McBuffer]

McSymmetry == Permutations(McBuffer)
=============================================================================
