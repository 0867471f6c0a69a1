--------------------------- MODULE OffloadFunctions ---------------------------
(***************************************************************************)
(* Functions for --convert-linalg-to-gemmlir: the layers a quantized model is *)
(* made of once it is on memrefs, with what surrounds each layer varied.      *)
(***************************************************************************)
EXTENDS LinalgToGemmlir, TLC

Datum(type, a) ==
    CASE type = "i8" -> <<3, -2, 5, -7, 1, 4, -6, 2>>[((5 * a) % 8) + 1]
      [] type = "i32" -> <<2, -9, 14, 5>>[(a % 4) + 1]

\* Buffers are given by name as <<shape, type>>.
Function(bufs, block, outputs, const) ==
    [block |-> block, outputs |-> outputs, const |-> const, failed |-> FALSE,
     shape |-> [b \in DOMAIN bufs |-> bufs[b][1]], type |-> [b \in DOMAIN bufs |-> bufs[b][2]],
     mem |-> [b \in DOMAIN bufs |->
                 Settled([a \in 0..(Times(bufs[b][1]) - 1) |-> Datum(bufs[b][2], a)])]]

Alloc(v) == <<[op |-> "alloc", ins |-> <<>>, out |-> v]>>
Free(v) == <<[op |-> "dealloc", ins |-> <<v>>, out |-> v]>>
Fill(v, x) == <<[op |-> "fill", ins |-> <<>>, out |-> v, val |-> x, map |-> FALSE]>>
Copy(v, w) == <<[op |-> "copy", ins |-> <<v>>, out |-> w]>>
WindowAt(v, lo, size, spread) ==
    [op |-> "view", ins |-> <<v>>, out |-> Subview(v, lo, size, spread), lo |-> lo, spread |-> spread]
Generic(body, ins, out) == [op |-> "generic", body |-> body, ins |-> ins, out |-> out, lo |-> -128, hi |-> 127]
Quantized(ins, out, t) ==
    <<[op |-> "generic", body |-> "requant", ins |-> ins, out |-> out, lo |-> t.lo, hi |-> 127,
       chain |-> t.chain, whole |-> t.whole, rounds |-> t.rounds]>>

S(k, n, d) == [k |-> k, c |-> <<n, d>>]
Chains == {<<S("mul", 1, 2)>>, <<S("mul", 3, 1), S("div", 4, 1)>>, <<S("relu", 0, 1), S("mul", 1, 4)>>,
           <<S("mul", 1, 2), S("below", 127, 1)>>, <<S("mul", 1, 2), S("below", 6, 1)>>,
           <<S("below", 254, 1), S("mul", 1, 2)>>, <<S("mul", 1, 2), S("above", -4, 1)>>,
           <<S("above", -4, 1), S("relu", 0, 1)>>, <<S("above", -200, 1)>>, <<S("add", 0, 1), S("mul", 1, 2)>>,
           <<S("add", 3, 1)>>, <<S("mul", -1, 2)>>}
Tail0 == [chain |-> <<S("mul", 1, 2)>>, lo |-> -128, whole |-> TRUE, rounds |-> TRUE]
Requants == {[Tail0 EXCEPT !.chain = c, !.lo = lo] : c \in Chains, lo \in {-128, 0, -100}}
            \cup {[Tail0 EXCEPT !.rounds = FALSE]}

(***************************************************************************)
(* A matmul, its bias and its requantization                                 *)
(***************************************************************************)
MatmulFunction(c) ==
    LET a == IF c.trL THEN <<3, 2>> ELSE <<2, 3>>
        b == IF c.trR THEN <<2, 3>> ELSE <<3, 2>>
        bufs == [A |-> <<a, "i8">>, B |-> <<b, "i8">>, C |-> <<<<2, 2>>, c.type>>, D |-> <<<<2, 2>>, "i32">>,
                 R |-> <<<<2>>, "i32">>, O |-> <<<<2, 2>>, "i8">>, P |-> <<<<2, 2>>, "i32">>]
        V(x) == Buffer(x, bufs[x][1])
        start == CASE c.start = "zero" -> Fill(V("C"), 0) [] c.start = "one" -> Fill(V("C"), 1)
                   [] c.start = "copied" -> Copy(V("D"), V("C"))
        bias == CASE c.bias = "no" -> <<>> [] c.bias = "row" -> <<Generic("bias", <<V("R")>>, V("C"))>>
                  [] c.bias = "matrix" -> <<Generic("bias", <<V("D")>>, V("C"))>>
        between == CASE c.between = "nothing" -> <<>>
                     [] c.between = "a read" -> Copy(V("C"), V("P"))
                     [] c.between = "A is written" -> <<Generic("relu", <<V("A")>>, V("A"))>>
                     [] c.between = "O is written" -> Fill(V("O"), 4)
                     [] c.between = "C is written" -> Fill(V("C"), 7)
        ins == IF c.late THEN <<V("C"), V("R")>> ELSE <<V("C")>>
        after == CASE c.after = "nothing" -> <<>> [] c.after = "freed" -> Free(V("C"))
                   [] c.after = "a read" -> Copy(V("C"), V("P"))
                   [] c.after = "relu" -> <<Generic("relu", <<V("O")>>, V("O"))>>
    IN Function(bufs, Alloc(V("C")) \o start
                      \o <<[op |-> "matmul", ins |-> <<V("A"), V("B")>>, out |-> V("C"), maps |-> c.maps,
                            trL |-> c.trL, trR |-> c.trR]>>
                      \o bias \o between \o Quantized(ins, V("O"), c.tail) \o after,
                {"O", "P"}, {"B"})

Layer == [trL |-> FALSE, trR |-> FALSE, type |-> "i32", start |-> "zero", maps |-> "plain", bias |-> "no",
          between |-> "nothing", tail |-> Tail0, late |-> FALSE, after |-> "freed"]
Matmuls ==
    {[Layer EXCEPT !.trL = l, !.trR = r, !.maps = m] : l, r \in BOOLEAN, m \in {"plain", "other"}}
    \cup {[Layer EXCEPT !.start = s, !.bias = b, !.late = l, !.between = x, !.after = y] :
             s \in {"zero", "one", "copied"}, b \in {"no", "row", "matrix"}, l \in BOOLEAN,
             x \in {"nothing", "a read", "A is written", "O is written", "C is written"},
             y \in {"freed", "a read", "relu"}}
    \cup {[Layer EXCEPT !.tail = t] : t \in Requants} \cup {[Layer EXCEPT !.type = "i8"]}

VectorFunction(kind, bias) ==
    LET bufs == [A |-> <<<<2, 2>>, "i8">>, X |-> <<<<2>>, "i8">>, C |-> <<<<2>>, "i32">>,
                 R |-> <<<<2>>, "i32">>, O |-> <<<<2>>, "i8">>]
        V(x) == Buffer(x, bufs[x][1])
    IN Function(bufs, Alloc(V("C")) \o Fill(V("C"), 0)
                      \o <<[op |-> kind, ins |-> IF kind = "matvec" THEN <<V("A"), V("X")>> ELSE <<V("X"), V("A")>>,
                            out |-> V("C"), maps |-> "plain", trL |-> FALSE, trR |-> FALSE]>>
                      \o (IF bias THEN <<Generic("bias", <<V("R")>>, V("C"))>> ELSE <<>>)
                      \o Quantized(<<V("C")>>, V("O"), Tail0) \o Free(V("C")), {"O"}, {})

BatchFunction(c) ==
    LET bufs == [A |-> <<<<2, 2, 2>>, "i8">>, B |-> <<<<2, 2, 2>>, "i8">>, C |-> <<<<2, 2, 2>>, "i32">>,
                 R |-> <<<<2>>, "i32">>, O |-> <<<<2, 2, 2>>, "i8">>, P |-> <<<<2, 2, 2>>, "i32">>]
        V(x) == Buffer(x, bufs[x][1])
    IN Function(bufs, Alloc(V("C")) \o Fill(V("C"), c.start)
                      \o (IF c.local = "before" THEN Alloc(V("O")) ELSE <<>>)
                      \o <<[op |-> "batch", ins |-> <<V("A"), V("B")>>, out |-> V("C"), maps |-> "plain",
                            trL |-> FALSE, trR |-> c.trR]>>
                      \o (IF c.local = "after" THEN Alloc(V("O")) ELSE <<>>)
                      \o (IF c.between = "a read" THEN Copy(V("C"), V("P")) ELSE <<>>)
                      \o Quantized(IF c.bias THEN <<V("C"), V("R")>> ELSE <<V("C")>>, V("O"), Tail0)
                      \o Free(V("C")), {"O", "P"}, {})
Batches == [start : {0, 1}, local : {"no", "before", "after"}, trR : BOOLEAN, bias : BOOLEAN,
            between : {"nothing", "a read"}]

(***************************************************************************)
(* A convolution: padded or not, then requantized, then pooled or joined      *)
(***************************************************************************)
ConvFunction(c) ==
    LET n == c.n
        wide == c.spread * (n - 1) + 1 + 2 * c.pad
        out == Extent(wide, c.k, c.stride, 0, c.dilation)
        filters == IF c.op = "dw" THEN 2 ELSE c.filters
        chans == IF c.op = "dw" THEN 2 ELSE 1
        rim == out + 2 * c.poolPad
        small == rim - 1
        bufs == [X |-> <<<<n, n, chans>>, "i8">>, Z |-> <<<<wide, wide, chans>>, "i8">>,
                 W |-> <<IF c.op = "dw" THEN <<c.k, c.k, 2>> ELSE <<c.k, c.k, chans, filters>>, "i8">>,
                 C |-> <<<<out, out, filters>>, "i32">>, R |-> <<<<filters>>, "i32">>,
                 O |-> <<<<out, out, filters>>, "i8">>, Q |-> <<<<rim, rim, filters>>, "i8">>,
                 M |-> <<<<small, small, filters>>, "i8">>, J |-> <<<<out, out, filters + 1>>, "i8">>, H |-> <<<<out, out, filters + 1>>, "i8">>,
                 K |-> <<<<out, out, IF c.then \in {"joined", "joined over a copy"} THEN filters + 1 ELSE filters>>, "i8">>]
        V(x) == Buffer(x, bufs[x][1])
        padding == c.pad > 0 \/ c.spread > 1
        inside == WindowAt(V("Z"), <<c.pad, c.pad, 0>>, <<n, n, chans>>, <<c.spread, c.spread, 1>>)
        middle == WindowAt(V("Q"), <<c.poolPad, c.poolPad, 0>>, <<out, out, filters>>, <<1, 1, 1>>)
        part == WindowAt(V("J"), <<0, 0, 1>>, <<out, out, filters>>, <<1, 1, 1>>)
        pool(in) == <<[op |-> "pool", ins |-> <<in>>, out |-> V("M"), k |-> <<2, 2>>, stride |-> <<1, 1>>,
                       dilation |-> <<1, 1>>]>>
        tail == IF c.then = "pooled" THEN [Tail0 EXCEPT !.lo = 0] ELSE Tail0
    IN Function(bufs,
          (IF padding THEN Alloc(V("Z")) \o Fill(V("Z"), c.border) \o <<inside>> \o Copy(V("X"), inside.out) ELSE <<>>)
          \o Alloc(V("C")) \o Fill(V("C"), c.start)
          \o <<[op |-> c.op, ins |-> <<IF padding THEN V("Z") ELSE V("X"), V("W")>>, out |-> V("C"),
                stride |-> <<c.stride, c.stride>>, dilation |-> <<c.dilation, c.dilation>>]>>
          \o (IF c.bias = "add" THEN <<Generic("bias", <<V("R")>>, V("C"))>> ELSE <<>>)
          \o Alloc(V("O"))
          \o Quantized(IF c.bias = "late" THEN <<V("C"), V("R")>> ELSE <<V("C")>>, V("O"), tail)
          \o Free(V("C")) \o (IF padding /\ c.freed THEN Free(V("Z")) ELSE <<>>)
          \o (CASE c.then = "pooled" /\ c.poolPad = 0 -> Fill(V("M"), -128) \o pool(V("O"))
                [] c.then = "pooled" /\ c.poolPad > 0 ->
                       Alloc(V("Q")) \o Fill(V("Q"), 0) \o <<middle>> \o Copy(V("O"), middle.out)
                       \o Fill(V("M"), -128) \o pool(V("Q"))
                [] c.then \in {"joined", "joined over a copy"} ->
                       Alloc(V("J")) \o (IF c.then = "joined" THEN Fill(V("J"), 0) ELSE Copy(V("H"), V("J"))) \o <<part>> \o Copy(V("O"), part.out)
                       \o Copy(V("J"), V("K"))
                [] c.then = "kept" -> Copy(V("O"), V("K"))),
        {"M", "K"}, {"W"})

Conv0 == [op |-> "conv", n |-> 3, k |-> 2, filters |-> 1, stride |-> 1, dilation |-> 1, pad |-> 0, spread |-> 1,
          border |-> 0, start |-> 0, bias |-> "no", freed |-> TRUE, then |-> "kept", poolPad |-> 0]
Convs ==
    {c \in {[Conv0 EXCEPT !.op = o, !.k = k, !.pad = p, !.spread = s, !.stride = t, !.dilation = d, !.border = z] :
               o \in {"conv", "dw"}, k \in 2..3, p \in 0..2, s \in 1..3, t \in 1..2, d \in 1..2, z \in {0, 1}} :
         /\ c.border = 1 => c.pad > 0 /\ c.k = 2
         /\ c.spread * (c.n - 1) + 1 + 2 * c.pad > c.dilation * (c.k - 1)}
    \cup {[Conv0 EXCEPT !.op = o, !.filters = 2, !.start = s, !.bias = b, !.then = x, !.poolPad = p, !.pad = 1, !.freed = y] :
               o \in {"conv", "dw"}, s \in {0, 1}, b \in {"no", "add", "late"}, x \in {"kept", "pooled", "joined", "joined over a copy"},
               p \in 0..1, y \in BOOLEAN}

(***************************************************************************)
(* Sums of two branches, and copies between buffers                          *)
(***************************************************************************)
AddFunction(c) ==
    LET bufs == [A |-> <<c.shape, "i8">>, B |-> <<c.shape, "i8">>, O |-> <<c.shape, "i8">>]
        V(x) == Buffer(x, bufs[x][1])
        sum == [Generic(c.body, <<V("A"), V("B")>>, V("O")) EXCEPT !.lo = c.lo]
    IN Function(bufs, <<sum @@ [chain |-> c.chain, scale |-> <<c.left, <<1, 1>>>>]>>
                      \o (IF c.relu THEN <<Generic("relu", <<V("O")>>, V("O"))>> ELSE <<>>), {"O"}, {})
Adds == [body : {"add8"}, shape : {<<2, 3>>, <<1, 2, 3>>}, lo : {-128, 0, -100}, chain : {<<>>}, left : {<<1, 1>>}, relu : BOOLEAN]
        \cup [body : {"scaled add"}, shape : {<<2, 3>>, <<4, 2, 8>>}, lo : {-128, 0},
              chain : {<<>>, <<S("relu", 0, 1)>>, <<S("above", 0, 1)>>}, left : {<<1, 1>>, <<0, 1>>}, relu : {FALSE}]

\* A producer, a copy of what it made, and something between the two.
CopyFunction(c) ==
    LET whole == IF c.window THEN <<2, 4>> ELSE <<2, 2>>
        bufs == [A |-> <<<<2, 2>>, "i8">>, T |-> <<<<2, 2>>, "i8">>, U |-> <<whole, "i8">>, K |-> <<whole, "i8">>]
        V(x) == Buffer(x, bufs[x][1])
        part == WindowAt(V("U"), <<0, 2>>, <<2, 2>>, <<1, 1>>)
        target == IF c.window THEN part.out ELSE V("U")
        between == CASE c.between = "nothing" -> <<>> [] c.between = "fill" -> Fill(V("U"), 5)
                     [] c.between = "a read" -> Copy(V("T"), V("A")) [] c.between = "a copy" -> Copy(V("U"), V("K"))
    IN Function(bufs, (IF c.early THEN Alloc(V("U")) ELSE <<>>) \o Alloc(V("T"))
                      \o (IF c.filled THEN Fill(V("T"), 3) ELSE <<>>)
                      \o <<Generic(c.body, <<V("A")>>, V("T"))>>
                      \o (IF c.early THEN <<>> ELSE Alloc(V("U"))) \o between
                      \o (IF c.window THEN <<part>> ELSE <<>>) \o Copy(V("T"), target)
                      \o Free(V("T")) \o Copy(V("U"), V("K")), {"A", "K"}, {})
Copies == {c \in [window : BOOLEAN, early : BOOLEAN, filled : BOOLEAN, body : {"relu", "copy"},
                  between : {"nothing", "fill", "a read", "a copy"}] : c.window \/ c.between # "fill" \/ c.early}

OffloadFunctions ==
    {MatmulFunction(c) : c \in Matmuls} \cup {VectorFunction(k, b) : k \in {"matvec", "vecmat"}, b \in BOOLEAN}
    \cup {BatchFunction(c) : c \in Batches} \cup {ConvFunction(c) : c \in Convs}
    \cup {AddFunction(c) : c \in Adds} \cup {CopyFunction(c) : c \in Copies}
=============================================================================
