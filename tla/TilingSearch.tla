---------------------------- MODULE TilingSearch ----------------------------
(***************************************************************************)
(* The search for a tiling that tiled_conv_stride_auto and                   *)
(* tiled_conv_dw_auto of gemmini.h run on a memo miss: shrink the whole       *)
(* layer until a tile fits, grow it back, then climb down in memory traffic   *)
(* (convolutions only).                                                      *)
(***************************************************************************)
EXTENDS Integers

CONSTANTS
    Layers,     \* the layers searched for: records of what the key holds
    DIM,        \* the side of the array
    SpadRows,   \* half of the scratchpad's rows
    AccRows,    \* half of the accumulator's
    MaxEvals    \* evaluations after which the climb is given up: 512

\* The seven extents of a tile.
Batches == 1
Rows == 2
Cols == 3
OutCh == 4
KRows == 5
KCols == 6
InCh == 7
Dims == 1 .. 7

Tile == [Dims -> Int]

\* A layer: its extents, how it is convolved and pooled, and whether the
\* search climbs (it does not for depthwise ones).
LayerType ==
    [max : [Dims -> Nat \ {0}], stride : Nat \ {0}, inputDilation : Nat \ {0},
     kernelDilation : Nat \ {0}, downsample : BOOLEAN, transWeight : BOOLEAN,
     transInput : BOOLEAN, poolSize : Nat \ {0}, poolStride : Nat \ {0},
     climbs : BOOLEAN]

ASSUME LayersAssumption == Layers \subseteq LayerType
ASSUME DimAssumption == DIM \in Nat \ {0}

VARIABLES
    layer,  \* the layer searched for
    args,   \* the tile
    phase,  \* which of the loops
    n,      \* the extent, or the move, the loop is at
    moved,  \* the sweep under way has changed the tile
    evals   \* candidates the climb has evaluated

vars == <<layer, args, phase, n, moved, evals>>

-----------------------------------------------------------------------------
(* tiled_conv_total_spad_rows. *)

CeilDiv(x, d) == x \div d + (IF x % d # 0 THEN 1 ELSE 0)

OutRows(l, a) == a[Rows] * l.poolStride + l.poolSize - 1
OutCols(l, a) == a[Cols] * l.poolStride + l.poolSize - 1

InExtent(l, out, k) == out * l.stride + k + (l.kernelDilation - 1) * (k - 1) - 1

InRows(l, a) == InExtent(l, OutRows(l, a), a[KRows])
InCols(l, a) == InExtent(l, OutCols(l, a), a[KCols])

\* An input extent in the scratchpad: dilation is not stored, downsampled
\* input only half.
Stored(l, x) == CeilDiv(x, l.inputDilation) \div (IF l.downsample THEN 2 ELSE 1)

ARows(l, a) ==
    (IF l.transInput THEN CeilDiv(a[Batches], DIM) * a[InCh]
                     ELSE CeilDiv(a[InCh], DIM) * a[Batches])
        * Stored(l, InRows(l, a)) * Stored(l, InCols(l, a))

BRows(l, a) ==
    (IF l.transWeight THEN CeilDiv(a[InCh], DIM) * a[OutCh]
                      ELSE CeilDiv(a[OutCh], DIM) * a[InCh])
        * a[KCols] * a[KRows]

CRows(l, a) == CeilDiv(a[OutCh], DIM) * a[Batches] * OutRows(l, a) * OutCols(l, a)

Fits(l, a) == ARows(l, a) + BRows(l, a) <= SpadRows /\ CRows(l, a) <= AccRows

-----------------------------------------------------------------------------
(* gemmlir_conv_traffic. *)

Chunks(l, a, i) == (l.max[i] + a[i] - 1) \div a[i]

Traffic(l, a) ==
    LET outer == Chunks(l, a, Batches) * Chunks(l, a, Rows) * Chunks(l, a, Cols)
                     * Chunks(l, a, OutCh)
        calls == outer * Chunks(l, a, KRows) * Chunks(l, a, KCols) * Chunks(l, a, InCh)
        loads == a[Batches] * InRows(l, a) * InCols(l, a) * a[InCh]
                     + a[KRows] * a[KCols] * a[InCh] * a[OutCh]
        stores == a[Batches] * a[Rows] * a[Cols] * a[OutCh]
    IN  calls * loads + outer * stores

\* A tile without extent counts as worse than any.
LessTraffic(l, a, b) ==
    /\ \A i \in Dims : a[i] >= 1
    /\ (\A i \in Dims : b[i] >= 1) => Traffic(l, a) < Traffic(l, b)

-----------------------------------------------------------------------------
(* Shrinking. *)

\* Columns are kept as wide as the array while there are rows to give.
Shrinkable(a) == {i \in Dims : ~(i = Cols /\ a[Cols] <= DIM /\ a[Rows] > 1)}

\* The first of the largest.
IsLargest(a, i) ==
    /\ i \in Shrinkable(a)
    /\ \A j \in Shrinkable(a) : a[i] > a[j] \/ (a[i] = a[j] /\ i <= j)

\* Mutant: channels shrink to nothing.
FewerOrNoChannels(c) == IF c % DIM # 0 THEN (c \div DIM) * DIM ELSE c - DIM

\* Channels shrink to the multiple of DIM below, but not to nothing.
FewerChannels(c) ==
    LET m == IF c % DIM # 0 THEN (c \div DIM) * DIM ELSE c - DIM
    IN  IF m = 0 THEN 1 ELSE m

Smaller(a, i) == IF i \in {OutCh, InCh} THEN FewerChannels(a[i]) ELSE a[i] - 1

Init ==
    /\ layer \in Layers
    /\ args = layer.max
    /\ phase = "shrink"
    /\ n = 1 /\ moved = FALSE /\ evals = 0

Shrink ==
    /\ phase = "shrink" /\ ~Fits(layer, args)
    /\ \E i \in Dims : IsLargest(args, i) /\ args' = [args EXCEPT ![i] = Smaller(args, i)]
    /\ UNCHANGED <<layer, phase, n, moved, evals>>

Shrunk ==
    /\ phase = "shrink" /\ Fits(layer, args)
    /\ phase' = "columns"
    /\ UNCHANGED <<layer, args, n, moved, evals>>

-----------------------------------------------------------------------------
(* Growing: first columns alone, then every extent in turn, in sweeps. *)

Grown(i) == [args EXCEPT ![i] = @ + 1]

\* Mutant: the layer's own extent is not looked at.
CanGrowPastLayer(i) == Fits(layer, Grown(i))

CanGrow(i) == args[i] + 1 <= layer.max[i] /\ Fits(layer, Grown(i))

GrowColumns ==
    /\ phase = "columns" /\ CanGrow(Cols)
    /\ args' = Grown(Cols)
    /\ UNCHANGED <<layer, phase, n, moved, evals>>

ColumnsGrown ==
    /\ phase = "columns" /\ ~CanGrow(Cols)
    /\ phase' = "grow" /\ n' = 1 /\ moved' = FALSE
    /\ UNCHANGED <<layer, args, evals>>

Grow ==
    /\ phase = "grow" /\ n \in Dims
    /\ IF CanGrow(n) THEN args' = Grown(n) /\ moved' = TRUE
                     ELSE UNCHANGED <<args, moved>>
    /\ n' = n + 1
    /\ UNCHANGED <<layer, phase, evals>>

\* Mutant: a new sweep begins as if it had moved.
GrowAgainMoved ==
    /\ phase = "grow" /\ n \notin Dims /\ moved
    /\ n' = 1
    /\ UNCHANGED <<layer, args, phase, moved, evals>>

GrowAgain ==
    /\ phase = "grow" /\ n \notin Dims /\ moved
    /\ n' = 1 /\ moved' = FALSE
    /\ UNCHANGED <<layer, args, phase, evals>>

\* Mutant: one sweep is enough.
AllGrownInOneSweep ==
    /\ phase = "grow" /\ n \notin Dims
    /\ phase' = IF layer.climbs THEN "climb" ELSE "done"
    /\ n' = 1 /\ moved' = FALSE
    /\ UNCHANGED <<layer, args, evals>>

AllGrown ==
    /\ phase = "grow" /\ n \notin Dims /\ ~moved
    /\ phase' = IF layer.climbs THEN "climb" ELSE "done"
    /\ n' = 1 /\ moved' = FALSE
    /\ UNCHANGED <<layer, args, evals>>

-----------------------------------------------------------------------------
(* Climbing: each extent up and down by a step, in sweeps. *)

Moves == 1 .. 14
DimOf(m) == (m + 1) \div 2
StepOf(i) == IF i \in {OutCh, InCh} THEN DIM ELSE 1
Moved(a, m) ==
    LET i == DimOf(m)
    IN  [a EXCEPT ![i] = IF m % 2 = 1 THEN @ + StepOf(i) ELSE @ - StepOf(i)]

Inside(a, m) == Moved(a, m)[DimOf(m)] \in 1 .. layer.max[DimOf(m)]

\* Mutant: a tile that does not fit is taken if its traffic is lower.
BetterOnly(a, m) == LessTraffic(layer, Moved(a, m), a)

Better(a, m) == Fits(layer, Moved(a, m)) /\ LessTraffic(layer, Moved(a, m), a)

Climb ==
    /\ phase = "climb" /\ n \in Moves
    /\ IF Inside(args, n) /\ Better(args, n)
         THEN args' = Moved(args, n) /\ moved' = TRUE
         ELSE UNCHANGED <<args, moved>>
    /\ evals' = IF Inside(args, n) THEN evals + 1 ELSE evals
    /\ n' = n + 1
    /\ UNCHANGED <<layer, phase>>

ClimbAgain ==
    /\ phase = "climb" /\ n \notin Moves /\ moved /\ evals < MaxEvals
    /\ n' = 1 /\ moved' = FALSE
    /\ UNCHANGED <<layer, args, phase, evals>>

\* Mutant: one sweep is enough.
ClimbedInOneSweep ==
    /\ phase = "climb" /\ n \notin Moves
    /\ phase' = "done"
    /\ UNCHANGED <<layer, args, n, moved, evals>>

Climbed ==
    /\ phase = "climb" /\ n \notin Moves /\ ~(moved /\ evals < MaxEvals)
    /\ phase' = "done"
    /\ UNCHANGED <<layer, args, n, moved, evals>>

-----------------------------------------------------------------------------
Next == Shrink \/ Shrunk \/ GrowColumns \/ ColumnsGrown \/ Grow \/ GrowAgain \/ AllGrown
            \/ Climb \/ ClimbAgain \/ Climbed

Spec == Init /\ [][Next]_vars

FairSpec == Spec /\ WF_vars(Next)

-----------------------------------------------------------------------------
(* Properties. *)

Phases == {"shrink", "columns", "grow", "climb", "done"}

TypeOK ==
    /\ layer \in LayerType
    /\ args \in Tile /\ \A i \in Dims : args[i] <= layer.max[i]
    /\ phase \in Phases
    /\ n \in 1 .. 15
    /\ moved \in BOOLEAN
    /\ evals \in Nat

\* What the search has once it has stopped shrinking fits, whatever it does
\* to it afterwards: the capacity checks of tiled_conv cannot fail on it.
ResultFits == phase # "shrink" => Fits(layer, args)

Unit == [i \in Dims |-> 1]

\* Every extent of the result is positive, and the loops over tiles advance,
\* where a tile of one of each fits.
TilesHaveExtent == Fits(layer, Unit) => \A i \in Dims : args[i] >= 1

\* Growing ends with a tile no extent of which can grow.
NothingLeftToGrow ==
    [][phase = "grow" /\ phase' # "grow" => \A i \in Dims : ~CanGrow(i)]_vars

\* The climb ends where no single move within the layer is better, unless it
\* was given up.
NoBetterNeighbour ==
    phase = "done" /\ layer.climbs /\ evals < MaxEvals =>
        \A m \in Moves : ~(Inside(args, m) /\ Better(args, m))

\* The search ends.
SearchEnds == <>(phase = "done")

\* A legal tiling: every loop over its tiles advances.
LegalTiling == phase = "done" => \A i \in Dims : args[i] >= 1
=============================================================================
