--------------------------- MODULE MCTilingSearch ---------------------------
EXTENDS TilingSearch

Layer(b, r, c, out, k, in, climbs) ==
    [max |-> <<b, r, c, out, k, k, in>>, stride |-> 1, inputDilation |-> 1,
     kernelDilation |-> 1, downsample |-> FALSE, transWeight |-> FALSE,
     transInput |-> FALSE, poolSize |-> 1, poolStride |-> 1, climbs |-> climbs]

Plain ==
    {Layer(b, r, c, out, k, in, TRUE) :
        b \in 1 .. 2, r \in {1, 4}, c \in {3, 6}, out \in {1, 4, 7}, k \in {1, 3},
        in \in {1, 5}}

Depthwise ==
    {Layer(b, r, c, 1, k, 1, FALSE) : b \in {1, 3}, r \in {2, 5}, c \in {1, 6}, k \in {1, 3}}

\* Strides, dilations, pooling, downsampling and the two transpositions.
Variants(l) ==
    {l, [l EXCEPT !.stride = 2], [l EXCEPT !.inputDilation = 2],
     [l EXCEPT !.kernelDilation = 2],
     [l EXCEPT !.poolSize = 2, !.poolStride = 2], [l EXCEPT !.poolSize = 3],
     [l EXCEPT !.transWeight = TRUE], [l EXCEPT !.transInput = TRUE]}
        \cup (IF l.max[KRows] = 1 THEN {[l EXCEPT !.stride = 2, !.downsample = TRUE]} ELSE {})

\* One whose channels have to shrink to one each.
Tight == [Layer(1, 1, 1, 2, 1, 2, TRUE) EXCEPT !.transInput = TRUE, !.stride = 2, !.poolSize = 3]

SmallLayers == UNION {Variants(l) : l \in Plain \cup Depthwise} \cup {Tight}

\* A layer of 16 channels with the smallest square pooling window that the
\* accumulator of the board does not hold.
LargePool ==
    {[Layer(1, 1, 1, 16, 1, 16, TRUE) EXCEPT !.poolSize = 23, !.poolStride = 1]}
=============================================================================
