------------------------------ MODULE MCPasses -------------------------------
(***************************************************************************)
(* The passes over host code, a group of them at a time, each over the        *)
(* functions written for it.  Groups do not meet: a function is rewritten by  *)
(* the passes of its own group, in the order of scripts/compile.sh.           *)
(***************************************************************************)
EXTENDS OffloadFunctions, LinalgVerifiers

CONSTANTS
    MostRewrites,                          \* of a pass in one function
    MinSaved, LeastRunBytes, MostRegions,  \* options of the passes over buffers
    Largest, OverSmallest,                 \* the floats of the bodies
    WideBits, LoopBits,                    \* the wide integers of bodies and of loops
    MaxElements, MostShift, LeastShift,    \* options of the passes over loops
    MaxConsumers, MaxOps

Buffers == INSTANCE BufferFunctions
Scalars == INSTANCE ScalarFunctions
Loops == INSTANCE LoopFunctions WITH WideBits <- LoopBits

\* The functions of the group are ones the passes can be given.
ASSUME OffloadFunctionsAreWellFormed == \A f \in OffloadFunctions : WellFormed(f)

Init == \/ OffloadInit(OffloadFunctions)
        \/ /\ rewrites = 0
           /\ \/ /\ group = "buffers" /\ ahead = Buffers!BufferPasses
                 /\ now \in Buffers!BufferFunctions /\ answer = Buffers!Answer(now)
              \/ /\ group = "scalars" /\ ahead = Scalars!ScalarOrder
                 /\ now \in Scalars!ScalarFunctions /\ answer = Scalars!Meant(now)
              \/ /\ group = "loops" /\ ahead = Loops!LoopOrder
                 /\ now \in Loops!LoopFunctions /\ answer = Loops!Outcome(now)

Next == \/ group = "buffers" /\ Buffers!BufferStep
        \/ group = "offload" /\ OffloadStep
        \/ group = "scalars" /\ Scalars!ScalarStep
        \/ group = "loops" /\ Loops!LoopStep
Spec == Init /\ [][Next]_rewriting

(***************************************************************************)
(* What the passes promise                                                   *)
(***************************************************************************)
\* Whatever the passes over host buffers make of a function, in whatever order
\* their patterns match, its caller and its readers are given the same bytes.
BuffersAnswerAsGiven == group = "buffers" => Buffers!Answer(now) = answer

\* The function the accelerator's calls were folded into leaves in its outputs
\* what the linalg one it was made from leaves, unless the pass has refused it.
OffloadAnswersAsGiven == group = "offload" => now.failed \/ Result(now) = answer

\* The rewrites of single operations change no result a body has: where it
\* converts a NaN or an infinity to an integer it has none.  A conversion of a
\* quotient is taken for the quantization it is until --round-quantized-casts,
\* the first of them, has made it one.
ScalarsAnswerAsMeant ==
    group = "scalars" =>
        Scalars!Refines(IF Scalars!Running(Scalars!ScalarOrder[1]) THEN Scalars!Meant(now) ELSE Scalars!Table(now), answer)

\* Loops taken apart, hoisted, sunk into their readers, put below a pool, folded
\* to tables and constants or to fixed point still fill the outputs with the
\* same elements, wherever the given function defines them.
LoopsAnswerAsGiven == group = "loops" => Loops!RefinesGiven(Loops!Outcome(now), answer)

\* No pattern feeds itself: the greedy driver comes to the end of each pass.
EveryPassConverges == rewrites <= MostRewrites

\* The flushes were placed before these passes: none of them lets the host read
\* a buffer, or write one, between two calls of the accelerator on it between
\* which it did not before.
HostAccessesWerePlaced ==
    [][/\ group = "buffers" => Buffers!HostAccesses(now') \subseteq Buffers!HostAccesses(now)
       /\ group = "loops" => Loops!HostAccesses(now') \subseteq Loops!HostAccesses(now)]_rewriting
=============================================================================
