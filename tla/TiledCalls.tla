----------------------------- MODULE TiledCalls -----------------------------
(***************************************************************************)
(* What a convolution call of gemmini.h does when nothing is remembered of   *)
(* the calls before it: the tiling is searched for and checked on each.      *)
(***************************************************************************)
CONSTANTS
    Calls,   \* [memo, key, type, clash]: which search, on what, run how
    Search,  \* Search[w][k]: the tiling the search finds
    Legal    \* {<<w, k>>}: what passes the checks with that tiling

VARIABLES
    running,  \* a call has been made and has not ended
    call,     \* the last call
    outcome   \* how the last one that ended did

vars == <<running, call, outcome>>

NoOutcome == <<"none">>
Exits == <<"exit">>
OnCpu == <<"cpu">>
OnAccelerator(tiling) == <<"accelerator", tiling>>

Outcome(c) ==
    IF c.clash \/ c.type = "OS" THEN Exits
    ELSE IF c.type = "CPU" THEN OnCpu
    ELSE IF <<c.memo, c.key>> \in Legal THEN OnAccelerator(Search[c.memo][c.key])
    ELSE Exits

Init == ~running /\ call \in Calls /\ outcome = NoOutcome

Ask(c) ==
    /\ ~running /\ outcome # Exits
    /\ running' = TRUE /\ call' = c
    /\ UNCHANGED outcome

End ==
    /\ running
    /\ running' = FALSE /\ outcome' = Outcome(call)
    /\ UNCHANGED call

Next == (\E c \in Calls : Ask(c)) \/ End

Spec == Init /\ [][Next]_vars
=============================================================================
