------------------------------ MODULE Rewriting ------------------------------
(***************************************************************************)
(* What the passes have in common.  A pass is a pattern (or a few) that       *)
(* applyPatternsGreedily tries on the operations of a function, again and     *)
(* again until it matches none; scripts/compile.sh gives the order  *)
(* of the passes.  A pattern is an operator of a function and a place in it:  *)
(* the set of what it may make of the function there, empty where it does not *)
(* match.                                                                     *)
(***************************************************************************)
EXTENDS Integers, Sequences, FiniteSetsExt

VARIABLES
    answer,   \* what the function the first pass was given computes
    now,      \* what the patterns have made of it
    ahead,    \* the passes still to run, the first of them running
    rewrites, \* how many times the running pass has matched
    group     \* the group of passes at work

rewriting == <<answer, now, ahead, rewrites, group>>

\* The value itself, worked out: a function's values are computed once here and
\* not again at each use.
Settled(x) == CHOOSE y \in {x} : y = x

Running(pass) == ahead # <<>> /\ Head(ahead) = pass

\* One step of a pass: a match anywhere, or where there is none the next pass.
\* The driver's own order of the matches is one of those.
Pass(name, Places(_), Pattern(_, _)) ==
    /\ Running(name)
    /\ \/ /\ \A i \in Places(now) : Pattern(now, i) = {}
          /\ now' = now /\ ahead' = Tail(ahead) /\ rewrites' = 0
       \/ /\ \E i \in Places(now) : now' \in Pattern(now, i)
          /\ ahead' = ahead /\ rewrites' = rewrites + 1
    /\ answer' = answer /\ group' = group
=============================================================================
