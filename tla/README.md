# gemmlir in TLA+

gemmlir compiles quantized models (linalg, from TOSA or torch) into calls of the
Gemmini accelerator on an FPGA board, and ships the C runtime those calls go
through. The board's accelerator neither probes nor invalidates the host's L1
data cache, so every call is bracketed by a walk that displaces the L1 -- and a
compiler pass takes away the walks that cannot matter. When it takes away one
that can, the answer is wrong in one run of four, depends on what program ran
before, and becomes right under any instrumentation. That is the first thing these
modules are about. The second is the passes around it, which move, merge and
fold operations on buffers that alias, on bytes, and across calls whose flushes have
already been decided.

## 1. The system

Paths are relative to the repository. "State" is what outlives one operation.

| component | state | operations | hard because |
|---|---|---|---|
| cache flush placement, `lib/Transforms/PlaceCacheFlushes` | the flushes still there, the simulated `CacheState`, the states its rounds began in | describe a block as steps; try each flush; simulate the function until its cache repeats | a removal is judged against those before it; lines outlive a call; regions and views are summarised |
| accelerator call lowering, `lib/Conversion/GemmlirToLLVM` | none | a call with a flush on each side unless an attribute says otherwise; hand C over as D when accumulating | the attribute is the only link to the placement |
| board runtime, `runtime/gemmlir_rt.c` | outputs already touched, the scratch region | per call: first touch, first read, the call, fence; `gemmlir_flush`; `memrefCopy` | it reads and writes buffers the compiler does not see it touch |
| board platform | L1 lines, memory, page table, results in flight | evict, land | nothing orders it |
| tiling memo, project's part of `third_party/.../gemmini.h` | the table, its one-entry front, the `validated` flag | look up, search, store; skip the checks after a hit | a result passed through a global |
| tiling search, same header | the tile it is changing | shrink until it fits, grow, climb down in memory traffic | a memo hit never checks its result again |
| static arena, `lib/Transforms/PlanStaticBuffers` | none after the pass | give each allocation a fixed offset | sharing addresses was tried and was wrong |
| linalg to gemmlir conversion, `lib/Conversion/LinalgToGemmlir` | the IR | recognise contractions, joins and residual adds; fold into a call the bias, requantization, padding, relu, pool and copy around it; refuse host writes it would overwrite | a fold moves reads and writes past what stands between |
| dialect and verifiers, `lib/Gemmlir`, `include/Gemmlir` | none | check one operation's shapes, strides and attributes | every rewrite owes them |
| passes over buffers on the host: padding, filling, pooling, copies | the IR | drop a fill or a padding nobody reads, pack a pool | "nobody" is decided by looking at views and at what is between |
| passes over single operations of a body: rounding, saturation, selects, clamps, reciprocals | one body | replace an operation by a cheaper one | exact only because of where the value goes: NaN, infinities, zero, i8 |
| passes over elementwise loops: tables, constants, hoisting, sinking, fixed point | the IR | work something out less often | the value must be the same at every point it is used |
| quantization by calibration, contraction and layout passes, `lib/Transforms` | the IR, on tensors | choose scales; raise, split, transpose contractions | no aliasing yet; algebra |
| CPU runtime, `runtime/gemmlir_rt_cpu.c` | none | reference arithmetic | -- |
| driver and regression tools, `scripts`, `regression` | files | order the passes, compare bytes | -- |

How they interact. `compile.sh` runs the conversion, then the placement, then
the static arena and the host rewrites, then the lowering. The placement tells
the lowering what it decided through two attributes. The generated code calls
the runtime's wrappers; the wrappers call gemmini.h, whose tiling memo they go
through. Host code, wrappers and accelerator share memory through an L1 only
the host looks into.

What makes each correct:

- placement: with the flushes it leaves, no reader sees stale data, on every call
  however often the function is called; and it leaves none that could go.
- lowering and wrappers: what they do to the cache and to memory is what the
  placement simulates; every output page has been written and every operand page
  mapped before the accelerator sees it; a first touch erases nothing live.
- memo: a hit returns what the search would, and checks are skipped only if they ran.
- search: it ends, in a tile that fits and whose every extent is positive.
- copies: the bytes an element-by-element copy would move and no others; words only
  where aligned.
- outputs touched: the table answers as the set of outputs seen would, however it grows.
- arena: slots disjoint, aligned, inside the arena.
- conversion and passes: the function computes what it did, after every match in
  whatever order they come, wherever it had a defined result; every call verifies;
  the greedy driver stops; and, once flushes are placed, no host access appears
  between two calls between which there was none.

## 2. Modules

| module | what it is |
|---|---|
| `PlaceCacheFlushes` | the pass, one action per branch of `runOnOperation` and `holds` |
| `FlushedFunction` | a function compiled by that pass running on the board; extends `PlaceCacheFlushes` |
| `FlushedFunctionProofs` | theorems of the pass, and of that composition: the flushes the pass leaves are enough |
| `SmallFunctions` | generates every small function over two buffers |
| `StaticArena`, `StaticArenaProofs` | `--plan-static-buffers` and the function it leaves, beside the one it was given; its theorems |
| `TouchedTable`, `TouchedTableProofs` | the table behind `gemmlir_unseen`; its theorems |
| `SeenOutputs` | what that table promises: a set |
| `TileMemo`, `TileMemoProofs` | the tiling memo and the convolution calls that go through it; its theorems |
| `TiledCalls` | what those calls promise: each is searched for and checked |
| `OpenAddressing`, `OpenAddressingProofs` | what the two tables share: linear probing, and the lemmas that what is entered stays findable |
| `TilingSearch`, `TilingSearchProofs` | the search for a tiling on a memo miss; its theorems |
| `MemrefCopy`, `MemrefCopyProofs` | `memrefCopy` and its theorems |
| `Rewriting` | a pass as its patterns, tried until none matches, and the passes one after another |
| `HostBuffers`, `BufferFunctions` | passes over paddings, fills, copies and pools in buffers; the functions they are run on |
| `GemmlirOps`, `LinalgToGemmlir`, `OffloadFunctions` | the accelerator's operations with their verifiers; the conversion to them; functions for it |
| `LinalgVerifiers`, `LinalgToGemmlirProofs` | what a function must be for the conversion to be given it; the theorem that every call the conversion makes verifies |
| `ScalarBodies`, `ScalarPasses`, `ScalarFunctions` | a loop's body and what it computes; the passes over single operations of it; bodies |
| `ElementLoops`, `ChannelPasses`, `LoopPasses`, `LoopMotion`, `LoopFunctions` | elementwise loops; the passes that work things out less often; functions |
| `MC...` | instances for TLC |

The components meet where their states do. `FlushedFunction` extends
`PlaceCacheFlushes`, and its `seen` is the `SeenOutputs` that `TouchedTable`
implements. `TileMemo`'s constant `Search` stands for the result of
`TilingSearch`, and what `TilingFits` proves of that result is why a hit need not
check capacities. `StaticArena` gives addresses to the buffers that
`PlaceCacheFlushes` took to be distinct: `SlotsApart` and `DataSurvives` are what
keeps them so. `MCPasses` runs the four groups of host passes as one system over
`Rewriting`, each group on its own functions; `HostAccessesWerePlaced` ties the two
groups that run after the placement to what the placement decided.

### The pass

A function is a record of its operations and of the buffers its caller can see.
An operation has a kind and the windows it reads and writes; a window is a view
of a buffer, and `BaseOf` is all the pass keeps of it (`baseOf`, `Buffers`).
`Describe` is the translation of an operation into a `Step`, a region becoming
one host step that reads and writes everything touched in it; `IsOpaque` holds
of what makes the pass return early. `norm_i8` is opaque because its declared
effects name no value.

`kept` is the pair of vectors `before` and `after`; `trial` is the loop index
and which of the two is being tried. `holds` is the four actions that run in mode
"simulate": `EnterRound` (lines 328-338), `SimulateOp` (339-383), `LeaveRound`
(384-389), and the two that end it, `CloseCycle` (a round begins in a state a
round began in before) and `OutOfRounds`. A refused read ends it from any of
them. `Verdict` is what `runOnOperation` does with the answer. `path` is the
set of places and caches gone through; the code keeps of it the states at round
boundaries (`Seen`). `cert` is auxiliary: the path of the last accepted
simulation. It appears in no guard.

### The board

`FlushedFunction` runs the function for ever after the pass is done. The caller
writes some of what it can see, calls, and reads what it can see. An accelerator
call goes through stages: `FlushBefore`, `Prepare` (first touch and first
read), `Issue`, `Fence`, `FlushAfter`. Operations inside a region keep both
flushes. Between any two of these steps the L1 may drop any line (`Evict`), and
a result in flight lands some time between `Issue` and `Fence` (`Land`).

Data is one bit per copy: does it hold the value of the last write to its
window in program order. A line is absent, clean, dirty, or old (the
accelerator has overwritten the memory under it). A page is untouched, read
(mapped to the zero page) or written; the accelerator's first write to a page
not written is lost, and a read of an untouched page gives zeros. A written-back
line that the accelerator has overwritten leaves memory as it is: the
measurements show eviction curing the stale read, not undoing the result.

`shadow` is auxiliary: the pass's `CacheState` run along with the program, so
that what the pass believes can be compared with what is there.

### The arena

`StaticArena` first runs the pass: `Consider` and `SkipOp` walk the operations,
`Trace` is the worklist that looks for a returned view, in any order, `LayOut`
gives offsets, `Replace` and `EraseDeallocs` rewrite. Then the caller calls the
rewritten function: an operation allocates, views, writes, deallocates or
returns, an allocation in a region anew on each trip (`LoopBack`). A buffer records
whether its bytes are still those last written through it (`intact`), so a
write into an overlapping piece shows, and `dead` whether the original program
has given it up. An `alias` is any other way to another name for a buffer: a
select, a loop's carried value.

### The two tables

Both are open addressing in one C loop each. A step of the model is a probe, so
that a probe that never stops is a behaviour that never ends. `TouchedTable`
moves entries one by one when it grows, into `grown`. In `TileMemo` a call looks in
the one-entry front, then in the table, searches, stores if there is room, sets
the flag, and its body takes the flag before anything that can return.

### The search

`TilingSearch` works on numbers: the capacity and traffic formulas are those of
the header, a step of the model is one candidate. `IsLargest` is the scan that
picks what to shrink, first one wins; `GrowAgain` and `ClimbAgain` are the tests at
the head of the loops. Overflow of `int` is out of reach of the layers' sizes.

### The copy

`MemrefCopy` keeps the odometer as it is, with its two byte offsets, and
abstracts a row of runs to one step; `moves` is the set of runs moved and
the means chosen for them.

### The passes around the placement

A function is data here, not behaviour: the state is the function, and a step is one
match of one pattern anywhere in it. `Pass` is `applyPatternsGreedily`: a match
where there is one, the next pass where there is none, so that any order the
driver takes its worklist in is among the behaviours. A pattern is an operator giving
the set of what it may make of the function at a place, its guard being the early
returns of `matchAndRewrite`. `answer` is what the function the group was given
computes, worked out once by executing it; the properties execute what the
patterns have made of it and compare. Functions are executed on real data: bytes of
i8 with the wrap and the saturation they have, i32 and f32 as integers and ratios
with NaN, infinities, a zero of each sign, a largest and a smallest magnitude. What an operation leaves
undefined (the conversion of a NaN) is `Poison`, which may be refined to anything.

- *buffers* (`HostBuffers`): `--pool-without-padding`, `--fill-only-the-border`,
  `--fill-to-memset`, `--pack-int8-max-pool`. Views of row-major buffers; what a
  pattern asks of the operations between two others is asked here too.
- *offload* (`LinalgToGemmlir`): the whole of `--convert-linalg-to-gemmlir`, in its
  three rounds: contractions, folds, joins; then `checkHostWrites`, which fails it.
  A copy that is elided and an allocation that is moved are part of the pattern
  that does it.
- *scalars* (`ScalarPasses`): `--round-quantized-casts` to `--clamp-as-range-check`,
  eight passes. The meaning of a body is a table over its inputs.
- *loops* (`ChannelPasses`, `LoopPasses`, `LoopMotion`): eleven passes in the order
  of `compile.sh`, among them the table for a byte, the batch norm in fixed point with
  its own proof by 256 bytes, and the pool that moves above an elementwise loop.

The shapes that the passes treat alike are cut: a batch of one, pools on two axes
in *buffers* and one in *loops*, at most a dozen elements a buffer. Extents, paddings,
strides and dilations are varied instead.

## 3. Runs

| run | instance | shows |
|---|---|---|
| `placement` | every function of 1 to 4 operations over 2 buffers, each subset escaping; two rounds to close a cycle in, which some do not | the placement is certified by a closed simulation (`PlacementIsCertified`), and stays so where a simulation runs out of rounds |
| `flushed_functions` | the same functions with 1 to 3 operations, those of `test/Gemmlir/place-cache-flushes.mlir` and of `docs/reference/lowering`, a join written by slices, a split contraction, a loop with an accumulator, a norm; compiled with 16 rounds and run on the board | no stale read by host, caller or accelerator; no lost result; the simulated cache covers the real one (`CacheModelCovers`); with any one more flush removed some call misreads (`KeptFlushesAreNeeded`); the placement is the one the tests state; every call returns |
| `static_arena` | two allocations out of five kinds, two operations on them or their views, any of five results; and a region that carries a buffer. 2 calls, 2 trips | slots do not overlap, only what escapes is left out (`OnlyEscapingLeft`), no one reads overwritten bytes (`DataSurvives`), the arena is neither freed nor returned |
| `touched_table` | 7 buffers whose hashes collide and wrap, first capacity 4 | the table is the set it stands for (`ImplementsSeenOutputs`), room to stop a probe, every question answered |
| `tile_memo` | 7 keys that collide and wrap, 4 slots, two memos; legal and illegal convolutions, on the accelerator, on the CPU, of a refused kind | a call runs as if nothing were remembered (`ImplementsTiledCalls`), checks are skipped only of what passed them or runs on the CPU too (`SkippedWereChecked`), every call ends |
| `tiling_search` | 953 layers, convolutions and depthwise, with stride, dilations, pooling, downsampling, both transpositions; array of 2, 64 and 16 rows | the result fits and has extent, cannot grow, has no better neighbour; the search ends |
| `memref_copy` | 942 copies of up to 4 axes, packed, with gaps, exchanged, repeated, empty, scalar, of rank 9; elements of 1 to 8 bytes | element-by-element equality, aligned words, the walk ends |
| `passes` | four groups of functions, a few thousand in all: paddings with every extent, stride and dilation up to 3 and each kind of neighbour; quantized layers with every fold around them, met and just missed; bodies of each sequence of steps from an accumulator or a float to a byte; loops with each tail over each operand | each group computes what it did after every match; every call verifies (`EveryCallVerifies`); every pass ends (`EveryPassConverges`); host accesses stay between the calls they were between (`HostAccessesWerePlaced`) |
| `slice_stores`, `seeded_accumulator`, `large_pool`, `nan_licence` | a function, a layer or a few bodies each | violations; see section 6 |

Bounds. The pass treats buffers alike and its per-buffer transitions depend on
an operation's accelerator flag and on whether it reads or writes the buffer, so
two buffers show every interaction there is between two operations' operands:
one read, one written, both, or swapped. Four operations let a host access fall
before, between and after two calls. Cycles close within three rounds on these
(each per-buffer bit, once set at a round boundary by a function, is set at every
later one), so 16 rounds are never spent; `placement` gives two, which some
functions spend and others do not. On the board three operations and unbounded calls are enough for a line
left by one call to meet the next. `MaxTrips` = 2 lets a region run not at all, once or
twice, which is what it takes for a body to follow itself. `MCScenarios` goes beyond two buffers by listing the
functions rather than generating them, and is the only one with slices.

Accumulating calls are generated only after a call that started the
accumulator, which is how the compiler makes them; section 6 has the other case.
Symmetry exchanges the two buffers; no liveness is checked under it.

Two calls of an arena function are one to leave bytes behind and one to overwrite
them. Seven buffers make the touched table grow twice (at 3 of 4 and at 6 of
8), the second time from a table that wrapped. Four slots of the memo fill at three,
and seven keys leave some never stored. The search is given memories so small
that layers of a few rows and channels must shrink in every extent, and climb;
`MaxEvals` = 16 makes some of them give up, as 512 does on the board. The copy has the real word and in-line limits;
three axes outside a run are what it takes for a carry to carry.

In `passes`, floats end at 4096 and begin at 1/1024, an i32 has 10 bits in bodies and
20 in loops: enough for the products and sums of the inputs to be exact except where a
case is there to overflow or to vanish. Options have small values with which
their thresholds are met on both sides (`MinSaved` = 2 elements, `LeastRunBytes` =
4, four regions, eight elements of a constant, shifts of 6 to 12). `MostRewrites` =
8 is above what any pass does to any of these functions; a pattern that feeds
itself passes any bound. What the code does not check and gets wrong (section 6) is kept
out of the functions, and each such exclusion is listed there.

Fairness. `EveryCallReturns` assumes that the compiler runs, that the host
executes its next instruction, and that a result in flight lands: weak fairness
of `Compile`, `Run` and each `Land(w)`. The runtime waits on nothing else: the
`fence` stalls the core until the accelerator is idle. Nothing is assumed of
`Evict`: the cache may never drop a line. `EveryQuestionAnswered`, `EveryCallEnds`,
`SearchEnds` and `CopyEnds` are about sequential code: weak fairness of its next
step, and nothing of the caller, who need never call again.

Deadlock is checked on the board. It is not where the system really stops: a pass,
a search or a copy that is done, an arena's caller after its last call, a table
that aborts for lack of memory, a call that exits.

## 4. Proofs

`FlushedFunctionProofs` begins with the pass alone and proves, for functions of any length over any set of
windows and buffers and either setting of the two options, the first two for any
number of rounds:

- `PassTypeCorrect`: `PassSpec => [](PassTypeOK /\ TrialInBlock)`.
- `PlacementCertified`: `PassSpec => []PlacementIsCertified`.
- `NeverOutOfRounds`: `MaxRounds >= 4 => (PassSpec => []NoRoundsSpent)`.
- `PlacementMinimal`: `MaxRounds >= 4 => (PassSpec => []KeptFlushesAreNeeded)`.

Assumptions: the four named ones of the module (a window has a base, the options
are Boolean, at least one round, functions are well formed).

The second is not inductive: during a simulation the placement being tried is not
certified. `CertInv` adds three parts. `UntriedAreKept`: a flush not reached yet
is there, so that undoing a trial (`Restored`) gives back the placement before
it. `TrialIsSound`: while a trial runs, `Restored` is certified, the trace starts
at the cold cache, and every pair left behind stepped to a pair in the trace. When a
round begins in a state a round began in, the pair the simulation is at is
already in the path, so the path is closed, which is what `CloseCycle` needs. The
lemma `StaysInMonotone` carries the pairs over when the trace grows;
`VerdictCertifies` and `ProceedCertifies` are the two ways a simulation step can
end, and each action of the proof is one of them.

Minimality asks why trying each flush once, first to last, is enough: a flush kept
early was needed beside later ones that have been removed since. Fewer flushes
only leave more in the cache, dirty and stale alike (`StepMonotone`,
`RoundMonotone`), and a simulation that refuses a cache refuses a fuller one; so
what is refused stays refused when more is removed (`AcceptsMonotone`). `Accepts` asks
for a verdict on a whole placement, and the simulation gives it one operation at a
time and gives up after `MaxRounds`. `SimulationInv` says that the rounds seen
began with what the rounds of `Round`, one after another, begin with, and that the cache is the
one the round has at the operation reached (`RoundUnrolls`).
That giving up never decides is `NeverOutOfRounds`: what a round does to each part of the
cache is to pass some buffers through and to settle the others, so the caches rounds begin
with do not change after the second (`RoundsSettle`) and the fourth would begin as
one before it did (`FourthBegins`). The code allows 16 rounds, the assumption is
four. `NeededInv` is the invariant: each flush tried and kept is needed in the
placement as it is now. Where an induction runs along a block it is by the least place
where the claim fails (`LeastNatural`).

Then it proves of the composition, under `SlicesKeptApart`, for functions of any length with regions of any length, over any number of buffers and
slices of them:

- `HostNeverReadsStale`: `Spec => []HostReadsCurrent`.
- `AcceleratorNeverReadsStale`: `Spec => []AcceleratorReadsCurrent`.
- `ResultsAreNeverLost`: `Spec => []ResultsStick`.
- `SimulationCoversTheCache`: `Spec => []CacheModelCovers`.
- `BoardTypeCorrect`: `Spec => []TypeOK`.

`SlicesKeptApart` says two things. A host operation outside a region that stores to
slices of a buffer stores to every slice of it that calls write, or else the buffer is read, by
the operation itself at the latest, after each call that writes to it
(`StoresAfterReads`). And a call writes one window, which it does not read and whose
first touch does not go beyond it; an accumulating one comes after a call that has
written its output (`CallsOneWindow`). All the functions of the run
`flushed_functions` are so, with the joins by slices and the join one branch of which the
host writes. Without the first part the theorem is false (`slice_stores`), and without the
last too (`seeded_accumulator`). A matmul whose first touch reaches into another
slice is the third thing left out; no pass makes one now (section 6).

The argument is in four links. The pass's steps are the only ones that touch its
variables, so its own theorems hold of `Spec` (`SpecRunsPass`, through
`PassSteps`), and a function it cannot see through keeps every flush
(`UnseenIsLeftAlone`). The program follows the accepted simulation: the pair of
its place and the shadow is in `cert` (`FollowsCert`), which is closed, so every
step it takes is one the simulation did not refuse. The shadow covers the real L1
(`CacheModelCovers`), between operations and at each stage of a call; in a
region, which the simulation crosses in one step, because the shadow is already
the one after it and has every buffer of the region resident and dirty and none
stale (`RegionInv`). And the last value of every window is in memory, in a dirty
line or on its way (`MemoryInv`), outputs seen have pages the host has written
(`PageInv`). A line the host would misread is old, so its buffer is stale in the
shadow (`HostSees`, `CallerSees`); one the accelerator would miss is dirty, so
its buffer is dirty or stale there; both reads the simulation refuses. Where no
simulation was accepted every call has its flushes, and no line is old outside a
call (`AllKeptInv`). What a host store does to the other slices of its buffer is the
one step this is not enough for: the pass clears the stale bit of the whole buffer. There
`OldInv` says that only windows calls write are ever old, and `StaleInv` that a buffer
stale in the shadow has been so since some call after which nobody read it, so that a
store after reads finds no old line in the buffer (`HostCovers`). `BoardInv` is the
conjunction; each action has its lemma (`...Keeps`), and what an operation hands on
to the next, whatever it was, is `MovesOn`.

`StaticArenaProofs`, for functions of any length and allocations of any size and
alignment: `SlotsNeverOverlap`, `OnlyEscapingAreLeft`, and `ResultIsCallers`
for functions whose buffers have no name the pass does not follow (`OnlyViews`;
without it the theorem is false, section 6). The invariant says of the worklist
that what it has seen is reachable by views and that a view of something seen is
seen or waiting (`TraceInv`); of the layout that slots are apart up to where it
has got (`SlotsInv`, `PieceInv`); of the run that an arena piece is only reached
through values that view it (`OwnersInv`).
Two more about the run, under `OnlyViews`. `WrittenDataSurvives`: slots are apart, so buffers
that share bytes are of one allocation (`SharingIsReuse`); such an allocation is
outside any region and runs once a call, so only its newest buffer has a name or is
held (`PlacedInv`, `DataInv`), and a write through a name spoils none in use.
`FreesAsAllocated`, where a deallocation names the allocation it gives back
(`DeallocsNameAllocations`): the deallocations taken out are those of the pieces, and
what reaches the allocator is the rest (`FreedInv`).

`TouchedTableProofs`: `TableIsSet` (the table implements `SeenOutputs`),
`ProbesHaveRoom`, `CountIsRight`, `TableTypeCorrect`, for any buffers and any
hash. The strengthening is that every entry is findable: no slot between its
home and it is empty (`Findable`), and the slots a probe has passed hold others
(`Clean`), which together make an empty slot a proof of absence
(`AbsentAtEmpty`). The number of entries stays under three quarters plus one
(`LoadInv`), so a slot is left (`FewerEntriesThanSlots`).

`TileMemoProofs`: `MemoChangesNothing` (the calls implement `TiledCalls`),
`HitsWereChecked`, `SlotIsLeft`, `MemoTypeCorrect`, for any keys, hash and table of
at least four slots. The first assumes `SharedKeysPass`: what one call runs on the
CPU and another on the accelerator, the checks would pass. The second assumes nothing of the
calls, and says of a key some call runs on the CPU nothing. `StoreInv` is the table's,
from the same lemmas; `CallInv` says that the tiling of a call under way is the
search's; `VouchedInv` that a key stored or remembered passed its checks, or
is one that some call runs on the CPU.

`TilingSearchProofs`: `TilingFits`, `TilingHasExtent`, `ClimbEndsAtBest`,
`GrowthIsComplete`, `SearchTypeCorrect`, for
any layers, array and memories. The first two are inductive with the types; the
step that needs an argument is that the extent shrunk is at least two
(`ShrinkKeepsExtent`): if it were one, so would be all, and a tile of one of
each was assumed to fit. `SweepInv` is what the climb needs: while a sweep has
moved nothing, each move already tried from this tile leaves the layer, does not fit or
saves nothing; a sweep that ends so has tried them all. The growth has the same part.

`MemrefCopyProofs`: `CopyIsElementByElement`, `AllWordsAligned`, `CopyTypeCorrect`,
for any shape, strides, element size and addresses. For the alignment, both offsets of the odometer
are whole words during the walk (`OffsetsInv`), which sums and multiples of whole
words are (`WholeSum`, `WholeTimes`). For the bytes there are two invariants.
`RunInv`, while axes are folded: the elements that differ in the folded axes only lie one after
another at both ends, at each place of the run exactly one element's worth
(`RunsAreElements`), and folding one more packed axis keeps it (`RunGrows`).
`WalkInv`, while rows are moved: both offsets are those of where the odometer stands
(`OffsetsFollow`), and what has been moved is the elements before it in lexicographic order,
or, while a carry runs, up to it in the axes not yet turned back (`TurnsPast`,
`CarriesPast`). The sums over axes are by induction on the axes (`SumIs`,
`AxisInduction`), from a least counterexample.

`LinalgToGemmlirProofs` proves of the conversion, for functions of any length over
memrefs of any shape, whichever match the driver takes next:

- `CallsVerify`: if every function given is `WellFormed`, then
  `OffloadSpec(given) => []EveryCallVerifies`.

The pass builds each call out of the operands of others, changes one attribute at a
time, and asks of the shapes only what it thinks the operations it matches do not
guarantee already. `WellFormed` (`LinalgVerifiers`) says what they do guarantee: a
memref has an extent and a stride for each axis (`IsView`), and each operation passed
its own verifier, linalg's, memref's or gemmlir's (`Fits`): extents that agree, the
windows' formula for the extents of a convolution and of a pool, and a buffer of its
own laid out as its shape says. TLC evaluates it on every function of `passes`
(`OffloadFunctionsAreWellFormed`), so it is not empty. Four parts of it go beyond the
verifiers of the operations given, are not asked by the code, and the theorem is false
without them: the elements of a row lie one after another (`HasRowStride`) in the
matrices contractions read and write and requantizations write, which the conversion
leaves to the verifier of the call to refuse; and three that section 6 lists, a matrix
that is requantized is read in the shape it was written in and with a bias as long as
its rows (`ReadAsWritten`), a pool's output and an image that is copied into the middle of
a padded one follow their stride, and an image spread over zeros with no border is not
padded a second time (`Spread`).

`EveryCallVerifies` is not inductive: what a fold makes of a call depends on operations
that are not calls. The invariant is `WellFormed(now)` (`Offloading`): what is left of
the function is still one the pass could have been given, the calls in it included. Each
pattern has its lemma (`...Keeps`), and each comes down to the same two facts
about the operations it puts in: they fit, and they bring into the function no matrix,
requantization, spread or padded image that was not there (`Inherits`; `Grows`, `Fewer`,
`MadeOf`). The rest are lemmas about what the operations are built with: `Packed` makes
rows contiguous and pixels follow their stride (`PackedMatrix`, `PackedImage`, from
`TimesUnfolds`), rows and columns of a vector, slices of a batch and the reshapes keep a
layout the accelerator can read, `Edit` leaves operations of the block and those put in
(`EditType`, over the recursive definition of `FlattenSeq`), the first use found is an
operation of the block (`FirstIs`), and an image that is padded, spread or pooled through
a border has the extents the convolution had without it (`PaddingIs`, `PoolsOfIs`).

Only model-checked: the placements the repository's tests and listing write down,
that the passes around the placement compute what they were
given (`BuffersAnswerAsGiven`, `OffloadAnswersAsGiven`, `ScalarsAnswerAsMeant`,
`LoopsAnswerAsGiven`), come to an end and move no host access
(`EveryPassConverges`, `HostAccessesWerePlaced`), and liveness (`EveryCallReturns`,
`EveryQuestionAnswered`, `EveryCallEnds`, `SearchEnds`, `CopyEnds`), for which the
prover has no rule. What the passes compute
is an evaluation of a function before and after a rewriting; the runs compare the two over
every function of a bounded shape, and a proof would need an induction over
bodies for each pattern. Where an induction over data was worth it, along a block and over
axes, it is done by a least counterexample, with the claim as a set of
numbers.

## 5. Plan

In this order:

1. (done) the pass; its certificate proved.
2. (done) the board under it, and the scenarios.
3. (done) `TouchedTable` implementing `SeenOutputs`, proved.
4. (done) `TileMemo` implementing `TiledCalls`, proved; `TilingSearch` under it.
5. (done) `StaticArena`, its layout, worklist and ownership proved. Left: its
   composition with the placement, to ask what sharing an address does to the
   certificate.
6. (done) `MemrefCopy` against the element-wise copy.
7. (done) The board never misreads buffers or slices: proved in `FlushedFunctionProofs`
   from the certificate, `CacheModelCovers` and the fact that the shadow stays in
   `cert`.
8. (done) The host passes as steps that change a function, before and after the
   placement, and the host accesses they must preserve. Left: a flush whose scratch
   region cannot be allocated; a window that grows at the same address.
9. (done) `FreedAsAllocated` and `DataSurvives` as theorems.
10. The growth loop of `tiled_matmul_auto`, and `gemmini_loop` calls under it.
11. (done) The byte-exact kernels: the packed signed maximum of
   `--pack-int8-max-pool`, the saturating casts, the fixed-point batch norm, the
   packed table look-up.
12. (done) The theorem of 7 for slices, host stores to them included where calls before
   them have been read.
13. (done) Minimality of the placement, the ends of the tiling search and the bytes a copy
   moves, as theorems.
14. (done) Every call of the conversion verifies, for functions of any length: proved in
   `LinalgToGemmlirProofs`.
15. `HostAccessesWerePlaced` for functions of any length, pattern by pattern in the same way;
   lemmas about the operators of the passes: that `Slabs` is the complement of the box, that
   `PackedMax` is `Larger` on any number of bytes.

Not modelled, and why:

- Contraction, layout and splitting passes, and the average pools raised to a contraction:
  they rewrite tensors, where nothing aliases and no order can be got wrong, into
  sums over other index maps. What could be wrong is algebra over shapes larger than
  an instance here; `scripts/bytecheck.sh` compares those byte for byte.
- Quantization by calibration and `--approximate-exp`: they change the answer on purpose, and
  what they owe is accuracy on images.
- The reordering and unrolling of loops, the lowering of copies, the module-level
  passes: LLVM and upstream MLIR do the work.
- The marshalling of call arguments; the hardware below the interface in the table
  above; the second issue of a residual add; scripts and harnesses.
- In the conversion: element types other than i8 and i32, dynamic extents, batched
  forms whose loop is not one slice at a time.

`PROJECT.json` lists each component with its reason.

## 6. Where the code and its text disagree

- `slice_stores`. Two slices of one buffer share a base, which the pass calls
  the safe direction. It is not for host stores: a store to one slice clears
  the `stale` bit of both, and the flush that protects a read of the other goes.
- `seeded_accumulator`. `C += A*B` is honoured, the documentation says; on the
  first call with a given C the first touch has zeroed it.
- `large_pool`. The result of the search is said to be always a legal tiling; a
  pooling window of 23 with a stride of 1 fits the accumulator with no tile at
  all, the shrinking takes the batches to zero, and the loop over batches never
  advances. Nothing between the model and the header bounds the window.

- `nan_licence`. A select on a float may be rewritten to a maximum that treats a
  NaN otherwise when the value ends in a conversion, where a NaN has no value
  anyway. The test for that lets the value pass through another compare and select, which
  takes the NaN to a number: the pass changes a defined result.

The functions of the first two are not made by the compiler from the models of
the repository's regression set; they are legal inputs of the pass and of the
dialect.

Seen while modelling and not among the runs:

- The matmul's first touch covers the span of a slice where the convolution's
  follows the slice (`docs/pipeline.md:1631`). No pass makes such a matmul now.
- "Anything that hands the buffer, or a view of it, to the caller"
  (`PlanStaticBuffersPass.cpp:83`) is five operations: a buffer returned through a
  select or a loop's result is placed in the arena. This is what `OnlyViews` excludes.
- Slots are said to start at multiples of 64 (`SetTargetDataLayoutPass.cpp:38`);
  one for an allocation that asks for 8 starts at a multiple of 8.
- "Buffers whose lives do not overlap share space" (`GemmlirPasses.td:127`);
  each gets its own.
- "A hit is a proof that those checks already ran" (`gemmini.h:1353`) is not so of
  a key first seen by a call on the CPU, which stores it and returns before the
  checks: the accelerator then runs a tiling they would have refused. This is what
  `SharedKeysPass` excludes.

Of the passes, read in the code while modelling them. The functions of `passes`
stay clear of each:

- "Whether everything ever written to this buffer is non-negative"
  (`PackInt8MaxPoolPass.cpp:158`): the walk takes the pool's own read for a write and
  looks at views of the buffer only downward, so a band of a buffer, or an argument,
  that holds negatives passes for non-negative.
- `FoldBiasIntoMatmul` (`LinalgToGemmlirPass.cpp:749`) reads the bias where the matmul
  stands, which is before the add; that nothing writes the bias between, or defines it
  there, is not asked. `FoldRequantizeIntoMatmul` and `FuseQuantizedConv` ask it of their
  operands and not of the bias.
- Positions are compared where aliases matter: `zeroFillFor` and `untouchedBetween`
  know values, not the buffers behind them; `clearThePathToTheJoin` checks dominance
  only, and moves the join's allocation even when the pattern then fails;
  `checkHostWrites` sees writes through the same view only.
- "Checked here as well as in the verifier, so such a convolution is left as a loop instead of
  building an operation that will not verify" (`LinalgToGemmlirPass.cpp:33`): only the two
  patterns that make a convolution ask `convBufferIsWalkable`. `FoldPaddingIntoConv` gives a
  convolution another input and `FoldMaxPoolIntoConv` another output without asking, so a
  copy out of a slice of a wider buffer, or a pool into one, makes a call that the verifier refuses.
- "This one has to be the split the matmul already wrote" (`LinalgToGemmlirPass.cpp:1156`):
  `FoldRequantizeIntoMatmul` compares the extents only where the result has more than two
  axes, not where it is a matrix of other extents, and the bias with nothing.
- `FoldPaddingIntoConv` sets the input dilation to the spread of the window it folds, which
  is one for a plain border: where the image so padded is itself one a first fold had
  spread over zeros, the spread is lost.
- `PoolWithoutPadding` and `FoldPaddingIntoConv` do not ask that the image is unchanged
  between the copy and its use; the latter not that the fill comes before the copy.
  `boxWrittenNext` of `FillOnlyTheBorder` does not look between the view and its user.
  `FoldMaxPoolIntoConv` erases the fill of the pool without asking what it filled with.
- "The two agree exactly when the operand the select would yield on a NaN is not one"
  (`SelectToMinMaxPass.cpp:170`), but for a maximum against -0 and a minimum against +0, which
  are left alone. A select that keeps the value on a tie (`x < 0 ? 0 : x`, or `x >= 0 ? x : 0`)
  yields -0 for -0 and the maximum made of it +0; two zeros neither of which is a constant are
  not looked at. No body of `passes` ends as a float after such a bound of a value that may be -0.
- `BatchNormInFixedPoint` does not ask that the select's other value is zero, takes a
  missing lower clamp for -128, and does not ask that the i8 source is unchanged between
  the dequantization and the norm.
- `HoistBroadcastInvariants` uses one map for all narrow operands; `SinkMonotoneBelowMaxPool`
  puts the integer copy where the fill was, and takes no window to lie wholly in the padding;
  it also erases the fill of the pool's output, "dead either way because the padded input is
  fully initialised" (`SinkMonotoneBelowMaxPoolPass.cpp:257`), without asking what it filled
  with: a start above everything pooled is the answer before the pass and gone after it. The
  pools of `passes` start at or below the floor;
  `SinkElementwiseIntoReaders` does not ask whether a reader writes what the loop reads
  through another map; `FoldScalesIntoBroadcast` replaces every use of an operand;
  `RsqrtOfInvariant` takes the addend of the first root for all.
- The compiler's own arithmetic in `TableForInt8` takes the conversion of a NaN as 0 and
  unordered comparisons as ordered. `CombineConstantScales` ignores that a product
  overflowed before a float clamp. The scaled residual add takes scales to be at most 1.
