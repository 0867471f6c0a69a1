----------------------------- MODULE LoopFunctions ----------------------------
(***************************************************************************)
(* Functions of elementwise loops: quantization tails over a tensor and a     *)
(* narrower operand or two, tables of a byte, and pools, with what the passes *)
(* look at varied.                                                            *)
(***************************************************************************)
EXTENDS LoopMotion

\* Values by position: floats, with the odd one among them, and integers.
Sample(type, k) ==
    CASE type = "f32" -> <<Whole(3), Whole(-5), Ratio(1, 2), Whole(40), Whole(2), Whole(-1), Whole(9)>>[(k % 7) + 1]
      [] type = "odd" -> <<NaN, Whole(2), Inf(1), Whole(-3), Whole(0)>>[(k % 5) + 1]
      [] type = "whole" -> Whole(<<3, -5, 7>>[(k % 3) + 1])
      [] type = "sizes" -> <<Whole(2), Whole(5), Whole(1), Ratio(1, 4)>>[(k % 4) + 1]
      [] type = "i32" -> Whole(<<7, -90, 300, 0, 12, -4>>[(k % 6) + 1])
      [] type = "i8" -> Whole(<<3, -128, 127, 0, -7, 50, -1>>[(k % 7) + 1])

\* Buffers are given as <<shape, sample>>.
HostFunction(bufs, block, outputs) ==
    [block |-> block, outputs |-> outputs, shape |-> [b \in DOMAIN bufs |-> bufs[b][1]],
     type |-> [b \in DOMAIN bufs |-> IF bufs[b][2] \in {"odd", "sizes", "whole"} THEN "f32" ELSE bufs[b][2]],
     const |-> DOMAIN bufs \cap {"K", "L"}, args |-> DOMAIN bufs \cap {"X", "M", "R", "F"},
     mem |-> [b \in DOMAIN bufs |-> [p \in Points(bufs[b][1]) |-> Sample(bufs[b][2], Position(bufs[b][1], p))]]]

\* A body's operations, then the quantization of the last of them to a byte.
Tailed(ops, tail) ==
    LET n == Len(ops)
        to8(k) == <<Cast("fptosi", k, WideBits), Const(Whole(-128)), Op("maxsi", <<k + 1, k + 2>>), Const(Whole(127)),
                    Op("minsi", <<k + 3, k + 4>>), Cast("trunci", k + 5, 8)>>
        all == CASE tail = "float" -> ops
                 [] tail = "byte" -> ops \o <<Op("round", <<n>>)>> \o to8(n + 1)
                 [] tail = "relu6" -> ops \o <<Const(Whole(6)), Op("minnum", <<n, n + 1>>)>> \o to8(n + 2)
                 [] tail = "compared" -> ops \o <<Compare(<<"o", "gt">>, n, n), Op("select", <<n + 1, n, n>>)>> \o to8(n + 2)
    IN [ops |-> all, out |-> <<Len(all)>>]
OutType(tail) == IF tail = "float" THEN "f32" ELSE "i8"
TailKinds == {"float", "byte", "relu6", "compared"}

\* One loop over X with the narrower operands M and R, along one axis.
TailLoop(x, y, axis, body, tail) ==
    HostFunction([X |-> <<<<2, 3>>, x>>, M |-> <<<<IF axis = 1 THEN 2 ELSE 3>>, y>>,
                  R |-> <<<<IF axis = 1 THEN 2 ELSE 3>>, "sizes">>, O |-> <<<<2, 3>>, OutType(tail)>>],
                 <<Loop(<<2, 3>>, <<On("X", <<1, 2>>), On("M", <<axis>>), On("R", <<axis>>)>>, <<On("O", <<1, 2>>)>>,
                        Tailed(body, tail))>>, {"O"})

Quotients == {<<Op("div", <<-1, -2>>)>>, <<Op("div", <<-2, -1>>)>>, <<Op("add", <<-1, -2>>), Op("div", <<1, -2>>)>>,
              <<Op("neg", <<-1>>), Op("div", <<1, -2>>), Op("div", <<-1, -2>>), Op("add", <<2, 3>>)>>,
              <<Op("div", <<-2, -2>>)>>, <<Op("div", <<-1, -3>>), Op("div", <<1, -2>>)>>}
Roots == {<<Op("rsqrt", <<-3>>), Op("mul", <<-1, 1>>)>>,
          <<Const(Ratio(1, 2)), Op("add", <<-3, 1>>), Op("rsqrt", <<2>>), Op("mul", <<3, -1>>)>>,
          <<Op("add", <<-3, -2>>), Op("rsqrt", <<1>>), Op("mul", <<2, -1>>)>>,
          <<Const(Whole(1)), Op("add", <<1, -3>>), Op("rsqrt", <<2>>), Op("add", <<-3, 1>>), Op("rsqrt", <<4>>),
            Op("mul", <<3, 5>>)>>}

Affine(c) ==
    LET form == CASE c.relu = "select" -> <<Const(Whole(0)), Compare(<<c.order, "gt">>, 4, 5), Op("select", <<6, 4, 5>>)>>
                  [] c.relu = "less" -> <<Const(Whole(0)), Compare(<<c.order, "lt">>, 4, 5), Op("select", <<6, 4, 5>>)>>
                  [] c.relu = "max" -> <<Const(Whole(0)), Op("neg", <<4>>), Op("maxnum", <<4, 5>>)>>
    IN <<Op("sub", <<-1, IF c.same THEN -3 ELSE -2>>), Op("mul", <<1, -3>>), Const(Whole(4)), Op("add", <<2, 3>>)>>
       \o form \o <<Const(c.scale), Op(c.by, <<7, 8>>)>> \o (IF c.again THEN <<Op("add", <<9, 4>>)>> ELSE <<>>)
Affines == [relu : {"select", "max", "less"}, order : {"o", "u"}, same : BOOLEAN,
            scale : {Ratio(1, 2), Whole(-2)}, by : {"mul", "div"}, again : BOOLEAN]

Scalings == {<<>>, <<"mul">>, <<"neg">>, <<"div">>, <<"add">>, <<"from">>}
Constantly(ops, k) ==    \* one step with a constant on the last operation, the float X where there is none
    LET x == IF ops = <<>> THEN -1 ELSE Len(ops)
        n == Len(ops) + 1
    IN CASE k = "mul" -> ops \o <<Const(Whole(3)), Op("mul", <<n, x>>)>>
         [] k = "neg" -> ops \o <<Op("neg", <<x>>)>>
         [] k = "div" -> ops \o <<Const(Whole(4)), Op("div", <<x, n>>)>>
         [] k = "add" -> ops \o <<Const(Whole(5)), Op("add", <<x, n>>)>>
         [] k = "from" -> ops \o <<Const(Whole(5)), Op("sub", <<n, x>>)>>
         [] k = "times M" -> ops \o <<Op("mul", <<x, -2>>)>>
Scaled == {FoldLeft(Constantly, <<>>, below \o <<"times M">> \o above \o last) :
              below \in Scalings, above \in Scalings, last \in {<<>>, <<"mul">>, <<"neg", "add">>}}

ChannelFunctions ==
    {TailLoop("f32", "sizes", a, b, t) : a \in 1..2, b \in Quotients \cup Roots, t \in TailKinds}
    \cup {TailLoop("f32", "f32", 2, Affine(c), t) : c \in Affines, t \in TailKinds}
    \cup {TailLoop("f32", "sizes", 1, b, t) : b \in Scaled, t \in {"byte", "relu6", "float"}}

\* A byte through a transcendental, alone or on the way to a float.
TableOps(c) ==
    <<Op("sitofp", <<-1>>), Const(c.scale), Op("mul", <<1, 2>>), Op(c.kind, <<3>>), Op("div", <<4, 2>>)>>
    \o (IF c.joined THEN <<Op("add", <<5, -2>>)>> ELSE <<>>)
TableFunction(c) ==
    LET fixed == [d \in DOMAIN c.shape |-> IF c.shape[d] = 1 /\ c.fixed THEN 0 ELSE d]
    IN HostFunction([X |-> <<c.shape, "i8">>, F |-> <<c.shape, "f32">>, O |-> <<c.shape, OutType(c.tail)>>],
                    <<Loop(c.shape, <<On("X", fixed)>> \o (IF c.joined THEN <<On("F", fixed)>> ELSE <<>>),
                           <<On(IF c.inPlace THEN "X" ELSE "O", Identity(c.shape))>>, Tailed(TableOps(c), c.tail))>>,
                    {IF c.inPlace THEN "X" ELSE "O"})
Tables == {c \in [scale : {Ratio(1, 16), Whole(0)}, kind : {"exp", "neg"}, joined : BOOLEAN, shape : {<<2, 4>>, <<1, 8>>, <<7>>},
                  fixed : BOOLEAN, inPlace : BOOLEAN, tail : {"byte", "relu6", "float"}] :
              /\ c.fixed => c.shape = <<1, 8>>
              /\ c.inPlace => c.tail # "float" /\ ~c.joined
              /\ c.scale = Whole(0) => c.tail # "relu6"}

FloatPool(c) ==
    LET reader(n) == Loop(<<2, 1>>, <<On("P", <<1, 2>>)>>, <<On(IF n = 1 THEN "O" ELSE "Q", <<1, 2>>)>>,
                          Tailed(<<Const(Whole(2)), Op("mul", <<-1, 1>>)>>, IF n = 1 THEN "byte" ELSE c.second))
    IN HostFunction([X |-> <<<<4, 1>>, "odd">>, P |-> <<<<2, 1>>, "f32">>, O |-> <<<<2, 1>>, "i8">>,
                     Q |-> <<<<2, 1>>, OutType(c.second)>>],
                    <<[op |-> "fill", ins |-> <<>>, outs |-> <<On("P", <<>>)>>, val |-> Inf(-1)],
                      [op |-> "pool", ins |-> <<On("X", <<>>)>>, outs |-> <<On("P", <<>>)>>, k |-> c.k, stride |-> 1,
                       dilation |-> 1, best |-> "maximum"], reader(1), reader(2)>>
                    \o (IF c.copied THEN <<Simple("copy", <<On("P", <<>>)>>, <<On("X2", <<>>)>>)>> ELSE <<>>),
                    {"O", "Q"})
FloatPools == [k : 2..3, second : TailKinds, copied : {FALSE}]

(***************************************************************************)
(* Constants, and a normalization of bytes by constants                      *)
(***************************************************************************)
ConstantLoop(c) ==
    LET body == CASE c.kind = "root" -> <<Const(Whole(1)), Op("add", <<-1, 1>>), Op("rsqrt", <<2>>), Op("mul", <<3, -2>>)>>
                  [] c.kind = "over" -> <<Op("div", <<-2, -1>>), Op("neg", <<1>>)>>
                  [] c.kind = "exp" -> <<Op("exp", <<-1>>)>>
                  [] c.kind = "again" -> <<Op("add", <<-1, -3>>)>>
        result == [ops |-> body, out |-> IF c.two THEN <<Len(body), -1>> ELSE <<Len(body)>>]
        outs == <<On("C", <<1>>)>> \o (IF c.two THEN <<On("D", <<1>>)>> ELSE <<>>)
        more == CASE c.more = "nothing" -> <<>>
                  [] c.more = "written" -> <<[op |-> "fill", ins |-> <<>>, outs |-> <<On("C", <<>>)>>, val |-> Whole(6)]>>
    IN HostFunction([X |-> <<<<2, 3>>, "f32">>, K |-> <<<<3>>, "sizes">>, L |-> <<<<3>>, "f32">>, C |-> <<<<3>>, "whole">>,
                     D |-> <<<<3>>, "whole">>, O |-> <<<<2, 3>>, "i8">>],
                    <<Loop(<<3>>, <<On("K", <<1>>), On(c.second, <<1>>)>>, outs, result)>> \o more \o
                    <<Loop(<<2, 3>>, <<On("X", <<1, 2>>), On("C", <<2>>), On("D", <<2>>)>>, <<On("O", <<1, 2>>)>>,
                           Tailed(<<Op("mul", <<-1, -2>>), Op("add", <<1, -3>>)>>, "byte"))>>, {"O"})
Constants == {c \in [kind : {"root", "over", "exp", "again"}, two : BOOLEAN, more : {"nothing", "written"},
                     second : {"L", "D"}] : c.two => c.second = "L" /\ c.kind # "again"}

\* A byte, dequantized, and its affine with a relu and a clamp.
Normalized(c) ==
    LET relu == CASE c.relu = "none" -> <<>>
                  [] c.relu = "select" -> <<Const(Whole(0)), Compare(<<c.order, "gt">>, 2, 3), Op("select", <<4, 2, 3>>)>>
                  [] c.relu = "max" -> <<Const(Whole(0)), Op("neg", <<2>>), Op("maxnum", <<2, 3>>)>>
        n == Len(relu) + 2
        lower == IF c.lower = 0 THEN <<>> ELSE <<Const(Whole(c.lower)), Op("maxsi", <<n + 2, n + 3>>)>>
        m == n + 2 + Len(lower)
        body == <<Op("mul", <<-1, -2>>), Op("add", <<1, -3>>)>> \o relu \o <<Op("round", <<n>>), Cast("fptosi", n + 1, WideBits)>>
                \o lower \o <<Const(Whole(100)), Op("minsi", <<m, m + 1>>), Cast("trunci", m + 2, 8)>>
        dequantize == [ops |-> <<Op("sitofp", <<-1>>), Const(c.scale), Op("mul", <<1, 2>>)>>, out |-> <<3>>]
        extra == IF c.shared THEN <<Loop(<<2, 3>>, <<On("W", <<1, 2>>)>>, <<On("Q", <<1, 2>>)>>,
                                         Tailed(<<Const(Whole(2)), Op("mul", <<-1, 1>>)>>, "float"))>> ELSE <<>>
    IN HostFunction([X |-> <<<<2, 3>>, "i8">>, W |-> <<<<2, 3>>, "f32">>, K |-> <<<<3>>, "sizes">>, L |-> <<<<3>>, "whole">>,
                     M |-> <<<<3>>, "whole">>, Q |-> <<<<2, 3>>, "f32">>, O |-> <<<<2, 3>>, "i8">>],
                    <<Loop(<<2, 3>>, <<On("X", <<1, 2>>)>>, <<On("W", <<1, 2>>)>>, dequantize)>> \o extra \o
                    <<Loop(<<2, 3>>, <<On("W", <<1, 2>>), On("K", <<2>>), On(c.shift, <<2>>)>>, <<On("O", <<1, 2>>)>>,
                           [ops |-> body, out |-> <<Len(body)>>])>>, {"O"} \cup IF c.shared THEN {"Q"} ELSE {})
Normalizations == {c \in [relu : {"none", "select", "max"}, order : {"o", "u"}, lower : {-100, 0, 3}, shared : BOOLEAN,
                          scale : {Ratio(1, 3), Ratio(1, 2), Whole(30)}, shift : {"L", "M"}] :
                      /\ c.order = "o" => c.relu = "select" /\ ~c.shared
                      /\ c.lower = 0 => c.relu # "none"}

\* The whole batch normalization, with constant statistics.
BatchNorm(c) ==
    HostFunction([X |-> <<<<2, 3>>, "i8">>, W |-> <<<<2, 3>>, "f32">>, K |-> <<<<3>>, "whole">>, L |-> <<<<3>>, "sizes">>,
                  O |-> <<<<2, 3>>, "i8">>],
                 <<Loop(<<2, 3>>, <<On("X", <<1, 2>>)>>, <<On("W", <<1, 2>>)>>,
                        [ops |-> <<Op("sitofp", <<-1>>), Const(c.step), Op("mul", <<1, 2>>)>>, out |-> <<3>>]),
                   Loop(<<2, 3>>, <<On("W", <<1, 2>>), On("K", <<2>>), On("L", <<2>>)>>, <<On("O", <<1, 2>>)>>,
                        Tailed(Affine(c), "byte"))>>, {"O"})
BatchNorms == {c @@ [step |-> s] : c \in {x \in Affines : ~x.again /\ ~x.same}, s \in {Ratio(1, 3), Ratio(2, 3)}}

(***************************************************************************)
(* Loops that move                                                           *)
(***************************************************************************)
\* A loop and its readers, with something between them.
Readers(c) ==
    LET body == CASE c.body = "one" -> <<Op("sub", <<-1, -2>>)>>
                  [] c.body = "four" -> <<Op("sub", <<-1, -2>>), Op("mul", <<1, 1>>), Op("neg", <<2>>), Op("add", <<3, 1>>)>>
                  [] c.body = "five" -> <<Op("sub", <<-1, -2>>), Op("mul", <<1, 1>>), Op("neg", <<2>>), Op("add", <<3, 1>>), Op("neg", <<4>>)>>
        wide == On("B", IF c.narrow THEN <<2>> ELSE <<1, 2>>)
        between == CASE c.between = "nothing" -> <<>>
                     [] c.between = "written" -> <<[op |-> "fill", ins |-> <<>>, outs |-> <<On(c.first, <<>>)>>, val |-> Whole(6)]>>
                     [] c.between = "another" -> <<[op |-> "fill", ins |-> <<>>, outs |-> <<On("Q4", <<>>)>>, val |-> Whole(6)]>>
                     [] c.between = "given away" -> <<Simple("call", <<On(c.first, <<>>)>>, <<On("Q4", <<>>)>>)>>
                     [] c.between = "call" -> <<Simple("call", <<On("T", <<>>)>>, <<On("Q4", <<>>)>>)>>
                     [] c.between = "overwritten" -> <<Simple("call", <<On("Q4", <<>>)>>, <<On(c.first, <<>>)>>)>>
        out(n) == "Q" \o ToString(n)
        reader(n) ==
            CASE n = 1 -> <<Loop(<<3, 2>>, <<On("S", <<1>>), On("T", <<2, 1>>)>>, <<On("Q1", <<2, 1>>)>>,
                                 [ops |-> <<Op("mul", <<-2, -1>>)>>, out |-> <<1>>])>>
              [] c.viewed -> <<Simple("view", <<On("T", <<>>)>>, <<On("V" \o ToString(n), <<>>)>>) @@ [from |-> n % 2],
                               Loop(<<1, 3>>, <<On("V" \o ToString(n), <<0, 2>>)>>, <<On(out(n), <<1, 2>>)>>,
                                    [ops |-> <<Op("neg", <<-1>>)>>, out |-> <<1>>])>>
              [] OTHER -> <<Loop(<<2, 3>>, <<On("T", <<1, 2>>)>>, <<On(out(n), <<1, 2>>)>>,
                                 [ops |-> <<Const(Whole(n)), Op("mul", <<-1, 1>>)>>, out |-> <<2>>])>>
        outs == {out(n) : n \in 1..c.readers}
        small == c.viewed
    IN HostFunction([b \in {"X", "A", "T", "Q1"} |-> <<<<2, 3>>, IF b = "A" THEN "sizes" ELSE "f32">>]
                    @@ [b \in {"Q2", "Q3", "Q4"} |-> <<IF small THEN <<1, 3>> ELSE <<2, 3>>, "f32">>]
                    @@ [b \in {"V2", "V3", "V4"} |-> <<<<1, 3>>, "f32">>]
                    @@ [B |-> <<IF c.narrow THEN <<3>> ELSE <<2, 3>>, "whole">>, S |-> <<<<3>>, "sizes">>],
                    <<Loop(<<2, 3>>, <<On(c.first, <<1, 2>>), wide>>, <<On("T", <<1, 2>>)>>, [ops |-> body, out |-> <<Len(body)>>])>>
                    \o between \o FlattenSeq([n \in 1..c.readers |-> reader(n)]) \o <<Simple("dealloc", <<On("T", <<>>)>>, <<>>)>>,
                    outs)
Reading == {c \in [body : {"one", "four", "five"}, first : {"X", "A"}, narrow : BOOLEAN, viewed : BOOLEAN, readers : 1..4,
                   between : {"nothing", "written", "another", "given away", "overwritten", "call"}] :
               /\ c.between \notin {"nothing", "written"} => c.readers < 4
               /\ c.between \in {"given away", "overwritten", "call"} => c.body = "one" /\ ~c.viewed}

\* What two narrower operands make, used once or more.
Broadcasts == {<<Op("mul", <<-2, -3>>), Op("add", <<-1, 1>>)>>,
               <<Const(Whole(2)), Op("mul", <<-2, 1>>), Op("sub", <<-3, 2>>), Op("mul", <<-1, 2>>), Op("add", <<4, 3>>)>>,
               <<Op("neg", <<-2>>), Op("neg", <<-3>>), Op("add", <<-2, -3>>), Op("mul", <<-1, 1>>), Op("add", <<4, 2>>), Op("mul", <<5, 3>>)>>,
               <<Op("maximum", <<-2, -3>>), Op("mul", <<-1, 1>>)>>,
               <<Op("exp", <<-2>>), Op("add", <<1, -4>>)>>}

\* A map of an accumulator, padded and pooled, from a start no larger than what
\* is pooled: --sink-monotone-below-max-pool asks nothing of it.
Pooled(c) ==
    LET walk == IF c.turned THEN <<2, 1>> ELSE <<1, 2>>
        channel == walk[2]
        dims == IF c.turned THEN <<2, 3>> ELSE <<3, 2>>
        relu == CASE c.relu = "select" -> <<Const(Whole(c.floor)), Compare(<<"u", "gt">>, 4, 5), Op("select", <<6, 4, 5>>)>>
                  [] c.relu = "max" -> <<Const(Whole(c.floor)), Op("maxnum", <<4, 5>>)>>
                  [] c.relu = "none" -> <<>>
        body == <<Op("sitofp", <<-1>>), Const(c.scale), Op("mul", <<1, 2>>), Op("add", <<3, -2>>)>> \o relu
        fill(b, v) == [op |-> "fill", ins |-> <<>>, outs |-> <<On(b, <<>>)>>, val |-> v]
    IN HostFunction([A |-> <<<<3, 2>>, "i32">>, R |-> <<<<2>>, "f32">>, W |-> <<<<3, 2>>, "f32">>, P |-> <<<<5, 2>>, "f32">>,
                     Y |-> <<<<IF c.k = 2 THEN 2 ELSE 3, 2>>, "f32">>, Q |-> <<<<3, 2>>, "f32">>, O |-> <<<<IF c.k = 2 THEN 2 ELSE 3, 2>>, "i8">>],
                    <<Loop(dims, <<On("A", walk), On("R", <<channel>>)>>, <<On("W", walk)>>, [ops |-> body, out |-> <<Len(body)>>])>>
                    \o (IF c.shared THEN <<Loop(<<3, 2>>, <<On("W", <<1, 2>>)>>, <<On("Q", <<1, 2>>)>>,
                                               [ops |-> <<Op("neg", <<-1>>)>>, out |-> <<1>>])>> ELSE <<>>) \o
                    <<fill("P", Whole(0)), Simple("pad", <<On("W", <<>>)>>, <<On("P", <<>>)>>) @@ [lo |-> 1],
                      fill("Y", c.start), [op |-> "pool", ins |-> <<On("P", <<>>)>>, outs |-> <<On("Y", <<>>)>>, k |-> c.k,
                                           stride |-> IF c.k = 2 THEN 2 ELSE 1, dilation |-> 1, best |-> "maximum"],
                      Loop(<<IF c.k = 2 THEN 2 ELSE 3, 2>>, <<On("Y", <<1, 2>>)>>, <<On("O", <<1, 2>>)>>,
                           Tailed(<<Const(Ratio(1, 2)), Op("mul", <<-1, 1>>)>>, "byte"))>>,
                    {"O"} \cup IF c.shared THEN {"Q"} ELSE {})
Pools == [turned : BOOLEAN, relu : {"select", "max", "none"}, floor : {0, 2}, scale : {Ratio(1, 2), Whole(-1), Ratio(1, 1000)},
          start : {Inf(-1), Whole(0)}, k : 2..3, shared : BOOLEAN]

LoopFunctions ==
    ChannelFunctions \cup {TableFunction(c) : c \in Tables} \cup {FloatPool(c) : c \in FloatPools}
    \cup {ConstantLoop(c) : c \in Constants} \cup {Normalized(c) : c \in Normalizations} \cup {BatchNorm(c) : c \in BatchNorms}
    \cup {Readers(c) : c \in Reading} \cup {Pooled(c) : c \in Pools}
    \cup {TailLoop("f32", "sizes", 2, b, t) : b \in Broadcasts, t \in {"float", "byte"}}
=============================================================================
