---------------------------- MODULE MCScenarios ----------------------------
(***************************************************************************)
(* The functions of test/Gemmlir/place-cache-flushes.mlir, the one of       *)
(* docs/reference/lowering/06_accelerator.mlir, and a few that put the      *)
(* other shapes the compiler makes on the board: a join written by slices,  *)
(* a split contraction, a loop whose trips share an accumulator, a norm;    *)
(* and every small function of SmallFunctions.                              *)
(* "drops" is what the test or the listing shows dropped, where it does.    *)
(***************************************************************************)
EXTENDS FlushedFunction

CONSTANTS Names,         \* the scenarios of a run
          a, b, MaxOps   \* its small functions, none where MaxOps is zero
Small == INSTANCE SmallFunctions

\* x1 and x2 are two channel slices of one joined buffer; the rest are whole.
McWindow == {"arg", "q", "t", "u", "p", "w", "out", "x1", "x2", a, b}
McBuffer == (McWindow \ {"x1", "x2"}) \cup {"x"}
McBaseOf == [v \in McWindow |-> IF v \in {"x1", "x2"} THEN "x" ELSE v]
McSpan == [v \in McWindow |-> IF v \in {"x1", "x2"} THEN {"x1", "x2"} ELSE {v}]
McFirst == [ws \in (SUBSET McWindow) \ {{}} |->
              IF ws = {"x1", "x2"} THEN "x1" ELSE CHOOSE v \in ws : TRUE]

Do(k, rs, ws) == [kind |-> k, reads |-> rs, writes |-> ws]
For(body) == [kind |-> "loop", body |-> body]

Drop(i, s) == <<i, s>>
Unstated == {<<0, "any">>}

Scenario ==
  [chain |->
    [ops |-> <<Do("host", {}, {"q"}), Do("conv", {"q", "w"}, {"t"}),
               Do("conv", {"t", "w"}, {"u"}), Do("host", {"u"}, {"out"})>>,
     escaping |-> {"w", "out"},
     drops |-> {Drop(2, "after"), Drop(3, "before"), Drop(3, "after")}],
   host_builds_an_input |->
    [ops |-> <<Do("host", {}, {"q"}), Do("conv", {"q"}, {"t"}),
               Do("host", {}, {"p"}), Do("host", {"t"}, {"p"}),
               Do("conv", {"p"}, {"u"}), Do("host", {"u"}, {"out"})>>,
     escaping |-> {"out"},
     drops |-> {Drop(2, "after"), Drop(5, "after")}],
   opaque_call |->
    [ops |-> <<Do("host", {}, {"q"}), Do("conv", {"q"}, {"t"}),
               Do("opaque", {"t"}, {"t"}), Do("conv", {"t"}, {"u"}),
               Do("host", {"u"}, {"out"})>>,
     escaping |-> {"out"},
     drops |-> {}],
   a_call_leaves_lines_behind |->
    [ops |-> <<Do("resadd", {"arg", "q"}, {"t"}), Do("matmul", {"t", "w"}, {"u"}),
               Do("resadd", {"q", "arg"}, {"t"}), Do("host", {"t"}, {"out"})>>,
     escaping |-> {"arg", "q", "w", "u", "out"},
     drops |-> {Drop(1, "after"), Drop(2, "before"), Drop(2, "after"), Drop(3, "before")}],
   sliced |->
    [ops |-> <<For(<<Do("matmul", {"arg"}, {"p"})>>), Do("conv", {"q"}, {"t"}),
               Do("conv", {"t"}, {"u"}), Do("host", {"u"}, {"out"})>>,
     escaping |-> {"arg", "q", "out"},
     drops |-> {Drop(2, "after"), Drop(3, "before"), Drop(3, "after")}],
   residual_block |->
    [ops |-> <<Do("host", {"arg"}, {"q"}), Do("conv", {"q"}, {"t"}),
               Do("host", {}, {"p"}), Do("host", {"t"}, {"p"}),
               Do("host", {"p"}, {"u"}), Do("matmul", {"u"}, {"w"}),
               Do("host", {"t", "w"}, {"out"})>>,
     escaping |-> {"arg", "out"},
     drops |-> {Drop(2, "after"), Drop(6, "after")}],
   join |->
    [ops |-> <<Do("host", {"arg"}, {"q"}), Do("conv", {"q"}, {"x1"}),
               Do("conv", {"q"}, {"x2"}), Do("conv", {"x1", "x2"}, {"t"}),
               Do("host", {"t", "x1"}, {"out"})>>,
     escaping |-> {"arg", "out"}, drops |-> Unstated],
   join_with_a_host_branch |->
    [ops |-> <<Do("conv", {"arg"}, {"t"}), Do("host", {"t"}, {"x1"}),
               Do("conv", {"t"}, {"x2"}), Do("resadd", {"x1", "x2"}, {"u"}),
               Do("host", {"u"}, {"out"})>>,
     escaping |-> {"arg", "out"}, drops |-> Unstated],
   split_contraction |->
    [ops |-> <<Do("matmul", {"arg"}, {"t"}), Do("accumulate", {"arg"}, {"t"}),
               Do("host", {"t"}, {"u"}), Do("accumulate", {"u"}, {"t"})>>,
     escaping |-> {"arg", "t"}, drops |-> Unstated],
   loop_with_an_accumulator |->
    [ops |-> <<Do("matmul", {"arg"}, {"t"}),
               For(<<Do("host", {"arg"}, {"q"}), Do("accumulate", {"q"}, {"t"}),
                     Do("host", {"t"}, {"u"})>>),
               Do("conv", {"u"}, {"out"})>>,
     escaping |-> {"arg", "out"}, drops |-> Unstated],
   layer_norm |->
    [ops |-> <<Do("matmul", {"arg"}, {"t"}), Do("norm", {"t"}, {"u"}),
               Do("host", {"u"}, {"q"}), Do("conv", {"q"}, {"out"})>>,
     escaping |-> {"arg", "out"}, drops |-> {}],
   \* Not made by the compiler today: the boundaries of the runtime's first touch
   \* and of the pass's view of windows.
   seeded_accumulator |->
    [ops |-> <<Do("host", {}, {"t"}), Do("accumulate", {"arg"}, {"t"})>>,
     escaping |-> {"arg", "t"}, drops |-> Unstated],
   slice_after_an_accumulator |->
    [ops |-> <<Do("matmul", {"arg"}, {"x2"}), Do("accumulate", {"arg"}, {"x2"}),
               Do("host", {}, {"x1"}), Do("host", {"x1", "x2"}, {"out"})>>,
     escaping |-> {"arg", "out"}, drops |-> Unstated]]

Function(s) == [ops |-> s.ops, escaping |-> s.escaping]

McFunctions == {Function(Scenario[n]) : n \in Names} \cup Small!McFunctions

-----------------------------------------------------------------------------
\* The pass drops the flushes the test file and the reference listing show it
\* dropping, and no other.
PlacesFlushesAsTested ==
    mode = "done" =>
        \A n \in Names :
            (fn = Function(Scenario[n]) /\ Scenario[n].drops # Unstated) =>
                Scenario[n].drops = {d \in (1..Size) \X Sides : ~kept[d[1]][d[2]]}
=============================================================================
