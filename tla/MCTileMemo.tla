----------------------------- MODULE MCTileMemo -----------------------------
EXTENDS TileMemo

\* Seven keys whose homes collide, and wrap around in a table of 4.
SevenKeys == 1 .. 7
Colliding == <<3, 3, 7, 2, 3, 0, 2>>

TwoMemos == {"conv", "depthwise"}

\* Depthwise tilings differ from those of the same key elsewhere.
Found == [m \in TwoMemos |->
             [k \in SevenKeys |-> IF m = "conv" THEN k ELSE 10 + k]]

AllTilings == 1 .. 17

Passing == TwoMemos \X (SevenKeys \ {5, 6})

On(m, k, t) == [memo |-> m, key |-> k, type |-> t, clash |-> FALSE]

\* Four legal convolutions, one of them also on the CPU, and one that is not;
\* one on the CPU alone that would not be, one of each refused kind, and
\* depthwise ones of two of the same keys.
ProgramCalls ==
    {On("conv", k, "WS") : k \in 1 .. 5}
        \cup {On("conv", 4, "CPU"), On("conv", 6, "CPU"), On("conv", 7, "OS")}
        \cup {[On("conv", 1, "WS") EXCEPT !.clash = TRUE]}
        \cup {On("depthwise", k, "WS") : k \in {1, 2}}
=============================================================================
