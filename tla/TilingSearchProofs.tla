------------------------- MODULE TilingSearchProofs -------------------------
(***************************************************************************)
(* For any layers, array and memories: the search keeps inside the layer,    *)
(* what it has after shrinking fits, and its tiles have an extent wherever a *)
(* tile of one of each fits; growing and climbing end where nothing grows     *)
(* and no neighbour is better.                                               *)
(***************************************************************************)
EXTENDS TilingSearch, TLAPS

-----------------------------------------------------------------------------
(* Arithmetic. *)

\* Rounding down to a multiple.
LEMMA RoundedDown ==
    ASSUME NEW c \in Int, NEW d \in Nat \ {0}
    PROVE  /\ (c \div d) * d \in Int /\ (c \div d) * d <= c
           /\ c >= 0 => (c \div d) * d >= 0
           /\ c % d = 0 /\ c >= 1 => c >= d
  BY Z3

\* A channel count stays within what it was, or is one.
LEMMA FewerChannelsIs ==
    ASSUME NEW c \in Int
    PROVE  /\ FewerChannels(c) \in Int
           /\ FewerChannels(c) <= c \/ FewerChannels(c) = 1
           /\ c >= 1 => FewerChannels(c) >= 1
<1> DEFINE r == (c \div DIM) * DIM
<1>1. /\ r \in Int /\ r <= c /\ (c >= 0 => r >= 0)
      /\ c % DIM = 0 /\ c >= 1 => c >= DIM
  BY RoundedDown, DimAssumption
<1> HIDE DEF r
<1>2. FewerChannels(c) = LET m == IF c % DIM # 0 THEN r ELSE c - DIM
                         IN  IF m = 0 THEN 1 ELSE m
  BY DEF FewerChannels, r
<1> QED BY <1>1, <1>2, DimAssumption

\* Every move is a move of one extent.
LEMMA MoveHasDim == ASSUME NEW m \in Moves PROVE DimOf(m) \in Dims
  BY Z3 DEF Moves, DimOf, Dims

-----------------------------------------------------------------------------
(* What the steps make of the tile. *)

LEMMA TileIs ==
    ASSUME TypeOK
    PROVE  /\ layer.max \in [Dims -> Nat \ {0}]
           /\ args \in [Dims -> Int]
           /\ \A i \in Dims : args[i] \in Int /\ layer.max[i] \in Nat \ {0} /\ args[i] <= layer.max[i]
  BY DEF TypeOK, LayerType, Tile

\* Shrinking takes an extent down, or leaves it at one.
LEMMA SmallerIs ==
    ASSUME TypeOK, NEW i \in Dims
    PROVE  /\ Smaller(args, i) \in Int
           /\ Smaller(args, i) <= layer.max[i]
           /\ args[i] >= 2 => Smaller(args, i) >= 1
           /\ args[i] >= 1 /\ i \in {OutCh, InCh} => Smaller(args, i) >= 1
<1>1. /\ args[i] \in Int /\ args[i] <= layer.max[i]
      /\ layer.max[i] \in Nat /\ layer.max[i] >= 1
  BY TileIs
<1>2. /\ FewerChannels(args[i]) \in Int
      /\ FewerChannels(args[i]) <= args[i] \/ FewerChannels(args[i]) = 1
      /\ args[i] >= 1 => FewerChannels(args[i]) >= 1
  BY <1>1, FewerChannelsIs
<1>3. CASE i \in {OutCh, InCh}
  BY <1>1, <1>2, <1>3 DEF Smaller
<1>4. CASE i \notin {OutCh, InCh}
  BY <1>1, <1>4 DEF Smaller
<1> QED BY <1>3, <1>4

\* A step changes the tile at one extent, to one inside the layer.
LEMMA TileStep ==
    ASSUME TypeOK, NEW i \in Dims, NEW x \in Int, x <= layer.max[i],
           args' = [args EXCEPT ![i] = x]
    PROVE  args' \in Tile /\ \A j \in Dims : args'[j] <= layer.max[j]
  BY TileIs DEF Tile

LEMMA GrownIs ==
    ASSUME TypeOK, NEW i \in Dims, CanGrow(i), args' = Grown(i)
    PROVE  /\ args' \in Tile /\ \A j \in Dims : args'[j] <= layer.max[j]
           /\ Fits(layer, args')
           /\ (\A j \in Dims : args[j] >= 1) => \A j \in Dims : args'[j] >= 1
<1>1. args[i] + 1 \in Int /\ args[i] + 1 <= layer.max[i] /\ args' = [args EXCEPT ![i] = args[i] + 1]
  BY TileIs DEF CanGrow, Grown
<1>2. args' \in Tile /\ \A j \in Dims : args'[j] <= layer.max[j]
  BY <1>1, TileStep
<1>3. (\A j \in Dims : args[j] >= 1) => \A j \in Dims : args'[j] >= 1
  BY <1>1, TileIs
<1> QED BY <1>2, <1>3 DEF CanGrow

LEMMA MovedIs ==
    ASSUME TypeOK, NEW m \in Moves, Inside(args, m), Better(args, m), args' = Moved(args, m)
    PROVE  /\ args' \in Tile /\ \A j \in Dims : args'[j] <= layer.max[j]
           /\ Fits(layer, args')
           /\ (\A j \in Dims : args[j] >= 1) => \A j \in Dims : args'[j] >= 1
<1> DEFINE i == DimOf(m)
           x == IF m % 2 = 1 THEN args[i] + StepOf(i) ELSE args[i] - StepOf(i)
<1>1. i \in Dims
  BY MoveHasDim
<1>2. args' = [args EXCEPT ![i] = x]
  BY <1>1, TileIs DEF Moved
<1>3. args'[i] = x /\ args'[i] \in 1 .. layer.max[i] /\ layer.max[i] \in Nat
  BY <1>1, <1>2, TileIs DEF Inside
<1> HIDE DEF i, x
<1>4. x \in Int /\ x <= layer.max[i]
  BY <1>3
<1>6. args' \in Tile /\ \A j \in Dims : args'[j] <= layer.max[j]
  BY <1>1, <1>2, <1>4, TileStep
<1>5. (\A j \in Dims : args[j] >= 1) => \A j \in Dims : args'[j] >= 1
  BY <1>1, <1>2, <1>3, TileIs
<1> QED BY <1>6, <1>5 DEF Better

-----------------------------------------------------------------------------
(* The invariant needs no strengthening. *)

\* What the counters of a loop start with.
LEMMA CountersStart == 1 \in 1 .. 15 /\ 0 \in Nat /\ FALSE \in BOOLEAN
  OBVIOUS

SearchInv == TypeOK /\ ResultFits /\ TilesHaveExtent

LEMMA InitEstablishes == Init => SearchInv
<1> SUFFICES ASSUME Init PROVE SearchInv
  OBVIOUS
<1>1. layer \in LayerType /\ layer.max \in [Dims -> Nat \ {0}] /\ args = layer.max
  BY LayersAssumption DEF Init, LayerType
<1>2. args \in Tile /\ \A i \in Dims : args[i] <= layer.max[i] /\ args[i] >= 1
  BY <1>1 DEF Tile
<1>3. TypeOK
  BY <1>1, <1>2, CountersStart DEF Init, TypeOK, Phases
<1> QED BY <1>2, <1>3 DEF Init, SearchInv, ResultFits, TilesHaveExtent

\* Where a tile of one of each fits, one that does not has an extent above one
\* to give, and that is the one shrunk.
LEMMA ShrinkKeepsExtent ==
    ASSUME TypeOK, Fits(layer, Unit), ~Fits(layer, args), \A j \in Dims : args[j] >= 1,
           NEW i \in Dims, IsLargest(args, i)
    PROVE  args[i] >= 2
<1> SUFFICES ASSUME args[i] < 2 PROVE FALSE
  BY TileIs
<1>1. \A j \in Shrinkable(args) : args[j] <= 1
  BY TileIs DEF IsLargest, Shrinkable
<1>2. Rows \in Shrinkable(args)
  BY DEF Shrinkable, Rows, Cols, Dims
<1>3. Shrinkable(args) = Dims
  BY <1>1, <1>2, TileIs DEF Shrinkable, Dims, Rows, Cols
<1>4. \A j \in Dims : args[j] = 1
  BY <1>1, <1>3, TileIs
<1>5. args = Unit
  BY <1>4, TileIs DEF Unit
<1> QED BY <1>5

LEMMA NextKeeps == SearchInv /\ [Next]_vars => SearchInv'
<1> SUFFICES ASSUME SearchInv, [Next]_vars PROVE SearchInv'
  OBVIOUS
<1> USE DEF SearchInv
<1>1. CASE Shrink
  <2>1. PICK i \in Dims : IsLargest(args, i) /\ args' = [args EXCEPT ![i] = Smaller(args, i)]
    BY <1>1 DEF Shrink
  <2>2. UNCHANGED <<layer, phase, n, moved, evals>> /\ phase = "shrink" /\ ~Fits(layer, args)
    BY <1>1 DEF Shrink
  <2>3. TypeOK'
    <3>1. args' \in Tile /\ \A j \in Dims : args'[j] <= layer.max[j]
      BY <2>1, SmallerIs, TileStep
    <3> QED BY <2>2, <3>1 DEF TypeOK
  <2>4. ASSUME Fits(layer, Unit) PROVE \A j \in Dims : args'[j] >= 1
    <3>1. \A j \in Dims : args[j] >= 1
      BY <2>4 DEF TilesHaveExtent
    <3>2. args[i] >= 2
      BY <2>1, <2>2, <2>4, <3>1, ShrinkKeepsExtent
    <3>3. Smaller(args, i) >= 1
      BY <3>2, SmallerIs
    <3> QED BY <2>1, <3>1, <3>3, TileIs
  <2> QED BY <2>2, <2>3, <2>4 DEF ResultFits, TilesHaveExtent
<1>2. CASE GrowColumns
  <2>1. /\ CanGrow(Cols) /\ args' = Grown(Cols) /\ Cols \in Dims
        /\ UNCHANGED <<layer, phase, n, moved, evals>>
    BY <1>2 DEF GrowColumns, Cols, Dims
  <2> QED BY <2>1, GrownIs DEF TypeOK, ResultFits, TilesHaveExtent
<1>3. CASE Grow
  <2>1. n \in Dims /\ n' = n + 1 /\ UNCHANGED <<layer, phase, evals>> /\ phase = "grow"
    BY <1>3 DEF Grow
  <2>2. n' \in 1 .. 15
    BY <2>1 DEF Dims
  <2>3. CASE CanGrow(n)
    <3>1. args' = Grown(n) /\ moved' = TRUE
      BY <1>3, <2>3 DEF Grow
    <3> QED BY <2>1, <2>2, <2>3, <3>1, GrownIs DEF TypeOK, ResultFits, TilesHaveExtent
  <2>4. CASE ~CanGrow(n)
    <3>1. UNCHANGED <<args, moved>>
      BY <1>3, <2>4 DEF Grow
    <3> QED BY <2>1, <2>2, <3>1 DEF TypeOK, ResultFits, TilesHaveExtent
  <2> QED BY <2>3, <2>4
<1>4. CASE Climb
  <2>1. /\ n \in Moves /\ n' = n + 1 /\ UNCHANGED <<layer, phase>> /\ phase = "climb"
        /\ evals' \in {evals, evals + 1}
    BY <1>4 DEF Climb
  <2>2. n' \in 1 .. 15 /\ evals' \in Nat
    BY <2>1 DEF Moves, TypeOK
  <2>3. CASE Inside(args, n) /\ Better(args, n)
    <3>1. args' = Moved(args, n) /\ moved' = TRUE
      BY <1>4, <2>3 DEF Climb
    <3> QED BY <2>1, <2>2, <2>3, <3>1, MovedIs DEF TypeOK, ResultFits, TilesHaveExtent
  <2>4. CASE ~(Inside(args, n) /\ Better(args, n))
    <3>1. UNCHANGED <<args, moved>>
      BY <1>4, <2>4 DEF Climb
    <3> QED BY <2>1, <2>2, <3>1 DEF TypeOK, ResultFits, TilesHaveExtent
  <2> QED BY <2>3, <2>4
<1>5. CASE Shrunk
  BY <1>5 DEF Shrunk, TypeOK, ResultFits, TilesHaveExtent, Phases
<1>6. CASE ColumnsGrown
  BY <1>6, CountersStart DEF ColumnsGrown, TypeOK, ResultFits, TilesHaveExtent, Phases
<1>7. CASE GrowAgain
  BY <1>7, CountersStart DEF GrowAgain, TypeOK, ResultFits, TilesHaveExtent
<1>8. CASE AllGrown
  <2>1. phase' \in {"climb", "done"} /\ phase = "grow"
    BY <1>8 DEF AllGrown
  <2>2. n' = 1 /\ moved' = FALSE /\ UNCHANGED <<layer, args, evals>>
    BY <1>8 DEF AllGrown
  <2> QED BY <2>1, <2>2, CountersStart DEF TypeOK, ResultFits, TilesHaveExtent, Phases
<1>9. CASE ClimbAgain
  BY <1>9, CountersStart DEF ClimbAgain, TypeOK, ResultFits, TilesHaveExtent
<1>10. CASE Climbed
  BY <1>10 DEF Climbed, TypeOK, ResultFits, TilesHaveExtent, Phases
<1>11. CASE UNCHANGED vars
  BY <1>11 DEF vars, TypeOK, ResultFits, TilesHaveExtent
<1> QED BY <1>1, <1>2, <1>3, <1>4, <1>5, <1>6, <1>7, <1>8, <1>9, <1>10, <1>11 DEF Next

LEMMA SearchInvariant == Spec => []SearchInv
  BY InitEstablishes, NextKeeps, PTL DEF Spec

\* Type correctness, which includes that no tile is larger than its layer.
THEOREM SearchTypeCorrect == Spec => []TypeOK
<1>1. SearchInv => TypeOK
  BY DEF SearchInv
<1> QED BY <1>1, SearchInvariant, PTL

\* The tile fits from the end of the shrinking on: a memo hit never stands for
\* a tiling the capacity checks would refuse.
THEOREM TilingFits == Spec => []ResultFits
<1>1. SearchInv => ResultFits
  BY DEF SearchInv
<1> QED BY <1>1, SearchInvariant, PTL

\* A tiling has an extent in every dimension, wherever one of each fits.
THEOREM TilingHasExtent == Spec => []TilesHaveExtent
<1>1. SearchInv => TilesHaveExtent
  BY DEF SearchInv
<1> QED BY <1>1, SearchInvariant, PTL

-----------------------------------------------------------------------------
(* Where growing and climbing end. *)

\* A sweep that has moved nothing has tried what it is past, for the tile it
\* still has; and a climb is only over once a sweep was.
SweepInv ==
    /\ phase = "grow" /\ ~moved => \A i \in Dims : i < n => ~CanGrow(i)
    /\ phase = "climb" /\ ~moved =>
           \A m \in Moves : m < n => ~(Inside(args, m) /\ Better(args, m))
    /\ NoBetterNeighbour

\* What a sweep finds depends on the layer and the tile alone.
LEMMA SameTile ==
    ASSUME UNCHANGED <<layer, args>>
    PROVE  /\ \A i \in Dims : CanGrow(i)' <=> CanGrow(i)
           /\ \A m \in Moves : (Inside(args, m) /\ Better(args, m))'
                                <=> (Inside(args, m) /\ Better(args, m))
  BY DEF CanGrow, Grown, Inside, Better

LEMMA SweepKeeps ==
    ASSUME TypeOK, SweepInv, [Next]_vars PROVE SweepInv'
<1> USE DEF SweepInv
<1>0. n \in Int /\ \A i \in Dims : i \in 1 .. 7
  BY DEF TypeOK, Dims
<1>1. CASE Shrink \/ Shrunk \/ GrowColumns
  <2>1. phase' \in {"shrink", "columns"}
    BY <1>1 DEF Shrink, Shrunk, GrowColumns
  <2> QED BY <2>1 DEF NoBetterNeighbour
<1>2. CASE ColumnsGrown \/ GrowAgain
  <2>1. phase' = "grow" /\ n' = 1
    BY <1>2 DEF ColumnsGrown, GrowAgain
  <2> QED BY <1>0, <2>1 DEF NoBetterNeighbour
<1>3. CASE Grow
  <2>1. phase = "grow" /\ phase' = "grow" /\ n \in Dims /\ n' = n + 1
    BY <1>3 DEF Grow
  <2>2. CASE CanGrow(n)
    <3>1. moved'
      BY <1>3, <2>2 DEF Grow
    <3> QED BY <2>1, <3>1 DEF NoBetterNeighbour
  <2>3. CASE ~CanGrow(n)
    <3>1. UNCHANGED <<layer, args, moved>>
      BY <1>3, <2>3 DEF Grow
    <3>2. \A i \in Dims : CanGrow(i)' <=> CanGrow(i)
      BY <3>1, SameTile
    <3>3. ASSUME ~moved, NEW i \in Dims, i < n + 1 PROVE ~CanGrow(i)
      <4>1. i < n \/ i = n
        BY <1>0, <3>3
      <4> QED BY <2>1, <2>3, <3>3, <4>1
    <3> QED BY <2>1, <3>1, <3>2, <3>3 DEF NoBetterNeighbour
  <2> QED BY <2>2, <2>3
<1>4. CASE AllGrown
  <2>1. /\ phase' = IF layer.climbs THEN "climb" ELSE "done"
        /\ n' = 1 /\ UNCHANGED layer
    BY <1>4 DEF AllGrown
  <2>2. \A m \in Moves : ~(m < n')
    BY <2>1 DEF Moves
  <2> QED BY <2>1, <2>2 DEF NoBetterNeighbour
<1>5. CASE Climb
  <2>1. phase = "climb" /\ phase' = "climb" /\ n \in Moves /\ n' = n + 1
    BY <1>5 DEF Climb
  <2>2. CASE Inside(args, n) /\ Better(args, n)
    <3>1. moved'
      BY <1>5, <2>2 DEF Climb
    <3> QED BY <2>1, <3>1 DEF NoBetterNeighbour
  <2>3. CASE ~(Inside(args, n) /\ Better(args, n))
    <3>1. UNCHANGED <<layer, args, moved>>
      BY <1>5, <2>3 DEF Climb
    <3>2. \A m \in Moves : (Inside(args, m) /\ Better(args, m))'
                              <=> (Inside(args, m) /\ Better(args, m))
      BY <3>1, SameTile
    <3>3. ASSUME ~moved, NEW m \in Moves, m < n + 1
          PROVE  ~(Inside(args, m) /\ Better(args, m))
      <4>1. m < n \/ m = n
        BY <1>0, <3>3 DEF Moves
      <4> QED BY <2>1, <2>3, <3>3, <4>1
    <3> QED BY <2>1, <3>1, <3>2, <3>3 DEF NoBetterNeighbour
  <2> QED BY <2>2, <2>3
<1>6. CASE ClimbAgain
  <2>1. phase' = "climb" /\ n' = 1
    BY <1>6 DEF ClimbAgain
  <2>2. \A m \in Moves : ~(m < n')
    BY <2>1 DEF Moves
  <2> QED BY <2>1, <2>2 DEF NoBetterNeighbour
<1>7. CASE Climbed
  <2>1. /\ phase = "climb" /\ phase' = "done" /\ n \notin Moves
        /\ ~(moved /\ evals < MaxEvals) /\ UNCHANGED <<layer, args, evals>>
    BY <1>7 DEF Climbed
  <2>2. \A m \in Moves : m < n
    BY <2>1 DEF TypeOK, Moves
  <2>3. ASSUME evals < MaxEvals, NEW m \in Moves
        PROVE  ~(Inside(args, m) /\ Better(args, m))
    BY <2>1, <2>2, <2>3
  <2>4. NoBetterNeighbour'
    BY <2>1, <2>3, SameTile DEF NoBetterNeighbour
  <2> QED BY <2>1, <2>4
<1>8. CASE UNCHANGED vars
  <2>1. UNCHANGED <<layer, args, phase, n, moved, evals>>
    BY <1>8 DEF vars
  <2> QED BY <2>1, SameTile DEF NoBetterNeighbour
<1> QED BY <1>1, <1>2, <1>3, <1>4, <1>5, <1>6, <1>7, <1>8 DEF Next

LEMMA SweepInvariant == Spec => [](TypeOK /\ SweepInv)
<1>1. Init => SweepInv
  BY DEF Init, SweepInv, NoBetterNeighbour
<1> QED BY <1>1, SweepKeeps, SearchTypeCorrect, PTL DEF Spec

\* A climb that was not given up ends where no single move inside the layer
\* fits and has less traffic: the last sweep tried all of them on the tile it
\* leaves.
THEOREM ClimbEndsAtBest == Spec => []NoBetterNeighbour
<1>1. SweepInv => NoBetterNeighbour
  BY DEF SweepInv
<1> QED BY <1>1, SweepInvariant, PTL

\* Growing is only left for a tile no extent of which can grow any more.
THEOREM GrowthIsComplete == Spec => NothingLeftToGrow
<1>1. TypeOK /\ SweepInv /\ [Next]_vars
        => [phase = "grow" /\ phase' # "grow" => \A i \in Dims : ~CanGrow(i)]_vars
  <2> SUFFICES ASSUME TypeOK, SweepInv, Next, phase = "grow", phase' # "grow"
               PROVE  \A i \in Dims : ~CanGrow(i)
    OBVIOUS
  <2>1. AllGrown
    BY DEF Next, Shrink, Shrunk, GrowColumns, ColumnsGrown, Grow, GrowAgain, Climb, ClimbAgain,
           Climbed
  <2>2. ~moved /\ n \notin Dims
    BY <2>1 DEF AllGrown
  <2>3. \A i \in Dims : i < n
    BY <2>2 DEF TypeOK, Dims
  <2> QED BY <2>2, <2>3 DEF SweepInv
<1> QED BY <1>1, SweepInvariant, PTL DEF Spec, NothingLeftToGrow
=============================================================================
