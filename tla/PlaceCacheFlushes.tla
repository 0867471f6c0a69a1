------------------------- MODULE PlaceCacheFlushes -------------------------
(***************************************************************************)
(* The pass --place-cache-flushes (lib/Transforms/PlaceCacheFlushes).       *)
(*                                                                          *)
(* Gemmini does not probe the host's L1, so the lowering displaces the L1   *)
(* before and after every accelerator call.  The pass removes the flushes   *)
(* one at a time, and keeps a removal when a simulation of the function,    *)
(* repeated until the simulated cache returns to a state it was in, never   *)
(* shows a read of data the reader cannot see.                              *)
(*                                                                          *)
(* A function is a record: "ops" is its block, "escaping" the buffers the   *)
(* caller can see (arguments and returned buffers).  An operation names the *)
(* windows it reads and writes; a window is a view of a buffer, and all the *)
(* pass keeps of it is its base.                                            *)
(***************************************************************************)
EXTENDS Naturals, Sequences, FiniteSets

CONSTANTS
    Window,      \* views the operations use
    Buffer,      \* allocations, arguments and globals
    BaseOf,      \* the buffer a view ultimately refers to
    Functions,   \* the functions the pass may be run on
    DropBefore,  \* the option drop-before
    DropAfter,   \* the option drop-after
    MaxRounds    \* rounds the simulation is given to close a cycle: 16

Sides == {"before", "after"}

\* What isAcceleratorOp recognises; an accumulating matmul_i8 has a kind of its
\* own because it reads its output too.
AcceleratorKinds == {"matmul", "accumulate", "conv", "resadd"}

\* Operations the analysis cannot see through: a call, or an operation such as
\* norm_i8 whose effects name no value.
OpaqueKinds == {"opaque", "norm"}

LeafKinds == AcceleratorKinds \cup OpaqueKinds \cup {"host"}

Leaf == [kind : LeafKinds, reads : SUBSET Window, writes : SUBSET Window]

Loop == [kind : {"loop"}, body : Seq(Leaf)]

ASSUME WindowAssumption == BaseOf \in [Window -> Buffer]
ASSUME OptionAssumption == DropBefore \in BOOLEAN /\ DropAfter \in BOOLEAN
ASSUME RoundAssumption == MaxRounds \in Nat \ {0}
ASSUME FunctionAssumption ==
    \A f \in Functions : /\ f.ops \in Seq(Leaf \cup Loop)
                         /\ f.escaping \in SUBSET Buffer

-----------------------------------------------------------------------------
(* What the pass sees of an operation: a Step over base buffers. *)

Bases(ws) == {BaseOf[w] : w \in ws}

\* A matmul that accumulates hands C over as D, so the call reads it.
OperandsOf(op) ==
    IF op.kind = "accumulate" THEN op.reads \cup op.writes ELSE op.reads

Touched(op) == Bases(OperandsOf(op) \cup op.writes)

\* A region is one host step that reads and writes all that is touched in it.
Describe(op) ==
    IF op.kind = "loop"
    THEN LET touched == UNION {Touched(op.body[j]) : j \in DOMAIN op.body}
         IN  [accelerator |-> FALSE, reads |-> touched, writes |-> touched]
    ELSE [accelerator |-> op.kind \in AcceleratorKinds,
          reads |-> Bases(OperandsOf(op)), writes |-> Bases(op.writes)]

IsOpaque(op) ==
    \/ op.kind \in OpaqueKinds
    \/ op.kind = "loop" /\ \E j \in DOMAIN op.body : op.body[j].kind \in OpaqueKinds

Modelled(f) == \A i \in DOMAIN f.ops : ~IsOpaque(f.ops[i])

-----------------------------------------------------------------------------
(* CacheState: what the host's cache may hold. *)

Cache == [dirty : SUBSET Buffer, resident : SUBSET Buffer, stale : SUBSET Buffer]

Flushed == [dirty |-> {}, resident |-> {}, stale |-> {}]

FlushWhen(needed, c) == IF needed THEN Flushed ELSE c

Read(c, bs) == [c EXCEPT !.resident = @ \cup bs]

HostWrite(c, bs) ==
    [dirty |-> c.dirty \cup bs, resident |-> c.resident \cup bs,
     stale |-> c.stale \ bs]

AcceleratorWrite(c, bs) ==
    [c EXCEPT !.dirty = @ \ bs, !.stale = @ \cup (bs \cap c.resident)]

\* A read the simulation refuses.  The accelerator may read neither past the
\* host's stores nor, because the runtime touches its operands on the host,
\* what an earlier call has overwritten under the host's lines.
Misread(step, c) ==
    step.reads \cap (c.stale \cup (IF step.accelerator THEN c.dirty ELSE {})) # {}

\* The cache an operation finds, and the one it leaves, when the accelerator
\* call flushes on the sides "flush" says.
Found(step, flush, c) == FlushWhen(step.accelerator /\ flush["before"], c)

LeftWithoutOperandTouch(step, flush, c) ==
    IF step.accelerator
    THEN FlushWhen(flush["after"], AcceleratorWrite(Found(step, flush, c), step.writes))
    ELSE HostWrite(Read(c, step.reads), step.writes)

Left(step, flush, c) ==
    LET read == Read(Found(step, flush, c), step.reads)
    IN  IF step.accelerator
        THEN FlushWhen(flush["after"], AcceleratorWrite(read, step.writes))
        ELSE HostWrite(read, step.writes)

-----------------------------------------------------------------------------
VARIABLES
    fn,     \* the function being compiled
    kept,   \* kept[i][s]: operation i still flushes on side s
    trial,  \* <<i, s>>: the flush considered now; i = Len(fn.ops) + 1 at the end
    mode,   \* "choose" between trials, "simulate" in holds(), "done"
    pos,    \* the simulation's place: 0 at entry, i before operation i, n + 1 at exit
    cache,  \* the simulated CacheState
    path,   \* <<pos, cache>> pairs this simulation went through
    cert    \* auxiliary: the path of the last simulation that was accepted

passVars == <<fn, kept, trial, mode, pos, cache, path, cert>>

Size == Len(fn.ops)
StepAt(i) == Describe(fn.ops[i])

\* holds() keeps the states its rounds began in; each round adds a new one.
Seen == {p[2] : p \in {q \in path : q[1] = 0}}

PassInit ==
    /\ fn \in Functions
    /\ kept = [i \in 1..Size |-> [s \in Sides |-> TRUE]]
    /\ trial = <<1, "before">>
    /\ mode = IF Modelled(fn) THEN "choose" ELSE "done"
    /\ pos = 0
    /\ cache = Flushed
    /\ path = {}
    /\ cert = {}

NextTrial ==
    IF trial[2] = "before" THEN <<trial[1], "after">> ELSE <<trial[1] + 1, "before">>

MayDrop(t) == /\ StepAt(t[1]).accelerator
              /\ IF t[2] = "before" THEN DropBefore ELSE DropAfter

SkipFlush ==
    /\ mode = "choose" /\ trial[1] <= Size
    /\ ~MayDrop(trial)
    /\ trial' = NextTrial
    /\ UNCHANGED <<fn, kept, mode, pos, cache, path, cert>>

TryWithout ==
    /\ mode = "choose" /\ trial[1] <= Size
    /\ MayDrop(trial)
    /\ kept' = [kept EXCEPT ![trial[1]][trial[2]] = FALSE]
    /\ mode' = "simulate"
    /\ pos' = 0 /\ cache' = Flushed /\ path' = {}
    /\ UNCHANGED <<fn, trial, cert>>

\* holds() has answered: a refused removal is put back.
VerdictForgetsToRestore(holds) ==
    /\ trial' = NextTrial
    /\ mode' = "choose"
    /\ cert' = IF holds THEN path ELSE cert
    /\ UNCHANGED <<fn, kept, pos, cache, path>>

VerdictRestoresBothSides(holds) ==
    /\ kept' = IF holds THEN kept
               ELSE [kept EXCEPT ![trial[1]] = [s \in Sides |-> TRUE]]
    /\ trial' = NextTrial
    /\ mode' = "choose"
    /\ cert' = IF holds THEN path ELSE cert
    /\ UNCHANGED <<fn, pos, cache, path>>

VerdictStartsOver(holds) ==
    /\ kept' = IF holds THEN kept ELSE [kept EXCEPT ![trial[1]][trial[2]] = TRUE]
    /\ trial' = IF holds THEN NextTrial ELSE <<1, "before">>
    /\ mode' = "choose"
    /\ cert' = IF holds THEN path ELSE cert
    /\ UNCHANGED <<fn, pos, cache, path>>

Verdict(holds) ==
    /\ kept' = IF holds THEN kept ELSE [kept EXCEPT ![trial[1]][trial[2]] = TRUE]
    /\ trial' = NextTrial
    /\ mode' = "choose"
    /\ cert' = IF holds THEN path ELSE cert
    /\ UNCHANGED <<fn, pos, cache, path>>

Proceed(next, c) ==
    /\ pos' = next
    /\ cache' = c
    /\ path' = path \cup {<<pos, cache>>}
    /\ UNCHANGED <<fn, kept, trial, mode, cert>>

RoundsSpent == Cardinality(Seen) = MaxRounds

OutOfRounds == /\ mode = "simulate" /\ pos = 0
               /\ RoundsSpent
               /\ Verdict(FALSE)

CloseCycle == /\ mode = "simulate" /\ pos = 0
              /\ ~RoundsSpent /\ cache \in Seen
              /\ Verdict(TRUE)

\* Entering the function: the caller wrote what it can see.
EnterRoundWithoutCaller == /\ mode = "simulate" /\ pos = 0
                           /\ ~RoundsSpent /\ cache \notin Seen
                           /\ Proceed(1, cache)

EnterRound == /\ mode = "simulate" /\ pos = 0
              /\ ~RoundsSpent /\ cache \notin Seen
              /\ Proceed(1, HostWrite(cache, fn.escaping))

SimulateOp ==
    /\ mode = "simulate" /\ pos \in 1..Size
    /\ LET step == StepAt(pos)
       IN  IF Misread(step, Found(step, kept[pos], cache))
           THEN Verdict(FALSE)
           ELSE Proceed(pos + 1, Left(step, kept[pos], cache))

\* Leaving it: the caller reads what it can see.
LeaveRoundRunsOn ==
    /\ mode = "simulate" /\ pos = Size + 1
    /\ IF cache.stale \cap fn.escaping # {}
       THEN Verdict(FALSE)
       ELSE Proceed(pos + 1, Read(cache, fn.escaping))

LeaveRound ==
    /\ mode = "simulate" /\ pos = Size + 1
    /\ IF cache.stale \cap fn.escaping # {}
       THEN Verdict(FALSE)
       ELSE Proceed(0, Read(cache, fn.escaping))

FinishPass ==
    /\ mode = "choose" /\ trial[1] = Size + 1
    /\ mode' = "done"
    /\ UNCHANGED <<fn, kept, trial, pos, cache, path, cert>>

PassNext ==
    \/ SkipFlush \/ TryWithout \/ FinishPass
    \/ OutOfRounds \/ CloseCycle
    \/ EnterRound \/ SimulateOp \/ LeaveRound

PassSpec == PassInit /\ [][PassNext]_passVars /\ WF_passVars(PassNext)

-----------------------------------------------------------------------------
(* Properties. *)

\* The pass stays inside its own vocabulary: flushes only of this function's
\* operations, places only of its block, buffers only it names.
PassTypeOK ==
    /\ fn \in Functions
    /\ kept \in [1..Size -> [Sides -> BOOLEAN]]
    /\ trial \in (1..Size + 1) \X Sides
    /\ mode \in {"choose", "simulate", "done"}
    /\ pos \in 0..Size + 1
    /\ cache \in Cache
    /\ path \subseteq (0..Size + 1) \X Cache
    /\ cert \subseteq (0..Size + 1) \X Cache

AllKept(placement) == placement = [i \in 1..Size |-> [s \in Sides |-> TRUE]]

\* From the pair p, one step of the simulation under "placement" refuses
\* nothing and ends in one of "pairs".
StaysIn(p, placement, pairs) ==
    \/ /\ p[1] = 0
       /\ <<1, HostWrite(p[2], fn.escaping)>> \in pairs
    \/ /\ p[1] \in 1..Size
       /\ ~Misread(StepAt(p[1]), Found(StepAt(p[1]), placement[p[1]], p[2]))
       /\ <<p[1] + 1, Left(StepAt(p[1]), placement[p[1]], p[2])>> \in pairs
    \/ /\ p[1] = Size + 1
       /\ p[2].stale \cap fn.escaping = {}
       /\ <<0, Read(p[2], fn.escaping)>> \in pairs

Closed(pairs, placement) ==
    /\ <<0, Flushed>> \in pairs
    /\ \A p \in pairs : StaysIn(p, placement, pairs)

Certified(placement) == (cert = {} /\ AllKept(placement)) \/ Closed(cert, placement)

\* The flushes left between two trials are either all of them or ones under
\* which a whole cycle of calls, from a cold cache round to a state it was in,
\* went through without a misread.
PlacementIsCertified == mode # "simulate" => Certified(kept)

\* The same simulation of a function f, read as a function: the caches the
\* places of a round find, whether a read before them was refused, and the
\* rounds in a row.
Round(f, placement, start) ==
    LET place[i \in 1..Len(f.ops) + 1] ==
          IF i = 1
          THEN [ok |-> TRUE, cache |-> HostWrite(start, f.escaping)]
          ELSE LET step  == Describe(f.ops[i - 1])
                   flush == placement[i - 1]
                   c     == place[i - 1].cache
               IN  [ok |-> place[i - 1].ok /\ ~Misread(step, Found(step, flush, c)),
                    cache |-> Left(step, flush, c)]
        last == place[Len(f.ops) + 1]
    IN  [ok |-> last.ok /\ last.cache.stale \cap f.escaping = {},
         cache |-> Read(last.cache, f.escaping)]

Accepts(f, placement) ==
    LET round[r \in 1..MaxRounds] ==
          Round(f, placement, IF r = 1 THEN Flushed ELSE round[r - 1].cache)
    IN  \A r \in 1..MaxRounds : round[r].ok

\* Trying the flushes one at a time, in order, leaves none that could go: with
\* any one more of them removed some call of the function misreads.
KeptFlushesAreNeeded ==
    mode = "done" /\ Modelled(fn) =>
        \A i \in 1..Size, s \in Sides :
            MayDrop(<<i, s>>) /\ kept[i][s] =>
                ~Accepts(fn, [kept EXCEPT ![i][s] = FALSE])
=============================================================================
