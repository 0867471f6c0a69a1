---------------------------- MODULE ScalarFunctions ---------------------------
(***************************************************************************)
(* Bodies for the passes over single operations: what follows an accumulator *)
(* or a float on its way to an i8, with every step of it varied.  None bounds  *)
(* a number that may be -0 by `x < 0 ? 0 : x` and then ends as a float.       *)
(***************************************************************************)
EXTENDS ScalarPasses

Accumulated == {Whole(x) : x \in {-100, -3, 0, 2, 5, 60, 500}}
Floating == {NaN, Inf(1), Inf(-1), Whole(-3), Whole(0), MinusZero, Ratio(1, 2), Whole(7), Whole(200)}

Begin(source) ==
    [ops |-> IF source = "float" THEN <<>> ELSE <<Op("sitofp", <<-1>>)>>,
     out |-> <<IF source = "float" THEN -1 ELSE 1>>, args |-> {-1, -2}, finite |-> {-2},
     inputs |-> [{-1} -> IF source = "float" THEN Floating ELSE Accumulated]]
Then(b, new) == [b EXCEPT !.ops = @ \o new, !.out = <<Len(b.ops) + Len(new)>>]

\* x is the value so far and n the number of the next operation.
Stepped(b, step) ==
    LET x == b.out[1]
        n == Len(b.ops) + 1
        With(k, c) == Then(b, <<Const(c), Op(k, <<x, n>>)>>)
        Bound(p, c, straight) ==
            Then(b, <<Const(c), Compare(p, x, n), Op("select", IF straight THEN <<n + 1, x, n>> ELSE <<n + 1, n, x>>)>>)
    IN CASE step = "nothing" -> b
         [] step = "mul 3" -> With("mul", Whole(3))
         [] step = "mul 100" -> With("mul", Whole(100))
         [] step = "mul -1/2" -> With("mul", Ratio(-1, 2))
         [] step = "div 4" -> With("div", Whole(4))
         [] step = "div 4096" -> With("div", Whole(4096))
         [] step = "div -2" -> With("div", Whole(-2))
         [] step = "add 2" -> With("add", Whole(2))
         [] step = "5 - x" -> Then(b, <<Const(Whole(5)), Op("sub", <<n, x>>)>>)
         [] step = "neg" -> Then(b, <<Op("neg", <<x>>)>>)
         [] step = "bias" -> Then(b, <<Op("add", <<x, -2>>)>>)
         [] step = "square" -> Then(b, <<Op("mul", <<x, x>>), Op("add", <<n, x>>)>>)
         [] step = "relu" -> Bound(<<"u", "gt">>, Whole(0), TRUE)
         [] step = "ordered relu" -> Bound(<<"o", "lt">>, Whole(0), FALSE)
         [] step = "relu to 0" -> Bound(<<"o", "gt">>, Whole(0), TRUE)
         [] step = "above -0" -> Bound(<<"o", "gt">>, MinusZero, TRUE)
         [] step = "below 0" -> Bound(<<"o", "lt">>, Whole(0), TRUE)
         [] step = "below -0" -> Bound(<<"o", "lt">>, MinusZero, TRUE)
         [] step = "below 6" -> Bound(<<"o", "lt">>, Whole(6), TRUE)
         [] step = "round" -> Then(b, <<Op("round", <<x>>)>>)
         [] step = "to i8" -> Then(b, <<Cast("fptosi", x, 8)>>)
         [] step = "to i32" -> Then(b, <<Cast("fptosi", x, WideBits)>>)
         [] step = "clamp" ->
                Then(b, <<Const(Whole(-128)), Op("maxsi", <<x, n>>), Const(Whole(127)), Op("minsi", <<n + 1, n + 2>>)>>)
         [] step = "narrow clamp" ->
                Then(b, <<Const(Whole(-3)), Op("maxsi", <<x, n>>), Const(Whole(4)), Op("minsi", <<n + 1, n + 2>>)>>)
         [] step = "positive clamp" ->
                Then(b, <<Const(Whole(2)), Op("maxsi", <<x, n>>), Const(Whole(9)), Op("minsi", <<n + 1, n + 2>>)>>)
         [] step = "wide clamp" ->
                Then(b, <<Const(Whole(Least(WideBits))), Op("maxsi", <<x, n>>),
                          Const(Whole(Most(WideBits))), Op("minsi", <<n + 1, n + 2>>)>>)
         [] step = "to byte" -> Then(b, <<Cast("trunci", x, 8)>>)

Body(source, steps) ==
    LET b == FoldLeft(Stepped, Begin(source), steps)
    IN [b EXCEPT !.inputs = {x @@ (-2 :> Whole(1)) : x \in @}]
ConstantBody(c, w) ==
    [Begin("float") EXCEPT !.ops = <<Const(c), Cast("fptosi", 1, w)>>, !.out = <<2>>]

Scales == {"nothing", "mul 3", "mul 100", "mul -1/2", "div 4", "div 4096", "div -2"}
Offsets == {"nothing", "add 2", "5 - x", "neg", "bias", "square"}
Tails == {<<"to i8">>, <<"round", "to i8">>, <<"round", "to i32">>, <<"to i32">>}
         \cup {<<"round", "to i32", c, "to byte">> : c \in {"clamp", "narrow clamp", "positive clamp", "wide clamp"}}
         \cup {<<>>}

ScalarFunctions ==
    {Body(s, <<a, o, c>> \o t) : s \in {"float", "accumulator"}, a \in Scales, o \in Offsets, c \in Scales \ {"div 4096"},
                                 t \in {<<"to i8">>, <<"round", "to i32">>}}
    \cup {Body(s, <<a, o, r>> \o e \o t) : s \in {"float", "accumulator"}, a \in {"nothing", "mul 3", "mul 100"},
                                o \in {"nothing", "bias", "5 - x"}, r \in {"nothing", "relu", "ordered relu"},
                                e \in {<<>>, <<"div 4">>, <<"div -2">>}, t \in Tails}
    \cup {Body(s, <<"mul 3", r, "below 6", "div 4">> \o t) : s \in {"accumulator"}, r \in {"relu", "ordered relu"}, t \in Tails}
    \cup {Body("float", <<"mul 3", "relu to 0", "below 6", "div 4">> \o t) : t \in Tails}
    \cup {Body("float", <<a, z>> \o t) : a \in {"nothing", "neg"}, z \in {"relu to 0", "above -0", "below 0", "below -0"}, t \in Tails}
    \cup {ConstantBody(c, w) : c \in Floating, w \in {8, WideBits}}
=============================================================================
