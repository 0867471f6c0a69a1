----------------------- MODULE FlushedFunctionProofs -----------------------
(***************************************************************************)
(* What --place-cache-flushes promises, and what the flushes it leaves are  *)
(* worth on the board.                                                      *)
(*                                                                         *)
(* Of the pass alone, for every function, of any length, over any windows   *)
(* and buffers, with either option on or off: it is type correct, the       *)
(* flushes it leaves are certified (any number of rounds) and needed (four  *)
(* rounds or more: the code gives sixteen, and never runs out).             *)
(*                                                                         *)
(* Of the function it leaves, run any number of times: the cache the pass   *)
(* simulates covers the real one, nobody reads stale data and no result is  *)
(* lost, on any call.  TLC shows the same of a few small functions.         *)
(***************************************************************************)
EXTENDS FlushedFunction, WellFoundedInduction, FiniteSetTheorems, TLAPS

-----------------------------------------------------------------------------
(* The pass. *)

StepType == [accelerator : BOOLEAN, reads : SUBSET Buffer, writes : SUBSET Buffer]

\* The buffers behind a set of windows are buffers.
LEMMA BasesAreBuffers ==
    ASSUME NEW ws, ws \in SUBSET Window
    PROVE  Bases(ws) \in SUBSET Buffer
BY WindowAssumption DEF Bases

\* An operation outside a region touches windows only.
LEMMA LeafTouches ==
    ASSUME NEW op \in Leaf
    PROVE  /\ OperandsOf(op) \in SUBSET Window
           /\ op.writes \in SUBSET Window
           /\ Touched(op) \in SUBSET Buffer
<1>1. op.reads \in SUBSET Window /\ op.writes \in SUBSET Window
  BY DEF Leaf
<1>2. OperandsOf(op) \in SUBSET Window
  BY <1>1 DEF OperandsOf
<1>3. Touched(op) \in SUBSET Buffer
  BY <1>1, <1>2, BasesAreBuffers DEF Touched
<1> QED BY <1>1, <1>2, <1>3

\* Every operation of a block is described by a step over buffers.
LEMMA DescribeType ==
    ASSUME NEW op \in Leaf \cup Loop
    PROVE  Describe(op) \in StepType
<1>1. CASE op \in Loop
  <2> DEFINE touched == UNION {Touched(op.body[j]) : j \in DOMAIN op.body}
  <2>1. op.kind = "loop" /\ op.body \in Seq(Leaf)
    BY <1>1 DEF Loop
  <2>2. \A j \in DOMAIN op.body : op.body[j] \in Leaf
    BY <2>1
  <2>3. \A j \in DOMAIN op.body : Touched(op.body[j]) \in SUBSET Buffer
    BY <2>2, LeafTouches
  <2>4. touched \in SUBSET Buffer
    BY <2>3
  <2>5. Describe(op) = [accelerator |-> FALSE, reads |-> touched, writes |-> touched]
    BY <2>1 DEF Describe
  <2> HIDE DEF touched
  <2> QED BY <2>4, <2>5 DEF StepType
<1>2. CASE op \in Leaf
  <2>1. op.kind # "loop"
    BY <1>2 DEF Leaf, LeafKinds, AcceleratorKinds, OpaqueKinds
  <2>2. Bases(OperandsOf(op)) \in SUBSET Buffer /\ Bases(op.writes) \in SUBSET Buffer
    BY <1>2, LeafTouches, BasesAreBuffers
  <2> QED BY <2>1, <2>2 DEF Describe, StepType
<1> QED BY <1>1, <1>2

\* The simulation only ever moves between cache states.
LEMMA CacheOperations ==
    ASSUME NEW c \in Cache, NEW bs \in SUBSET Buffer
    PROVE  /\ Flushed \in Cache
           /\ Read(c, bs) \in Cache
           /\ HostWrite(c, bs) \in Cache
           /\ AcceleratorWrite(c, bs) \in Cache
           /\ \A needed \in BOOLEAN : FlushWhen(needed, c) \in Cache
BY DEF Cache, Flushed, Read, HostWrite, AcceleratorWrite, FlushWhen

\* What an operation leaves of a cache is a cache.
LEMMA LeftType ==
    ASSUME NEW c \in Cache, NEW step \in StepType, NEW flush \in [Sides -> BOOLEAN]
    PROVE  Left(step, flush, c) \in Cache
<1> DEFINE found == Found(step, flush, c)
           read  == Read(found, step.reads)
<1>1. /\ step.accelerator \in BOOLEAN
      /\ step.reads \in SUBSET Buffer /\ step.writes \in SUBSET Buffer
  BY DEF StepType
<1>2. flush["before"] \in BOOLEAN /\ flush["after"] \in BOOLEAN
  BY DEF Sides
<1>3. found \in Cache
  BY <1>1, <1>2, CacheOperations DEF Found, FlushWhen
<1>4. read \in Cache
  BY <1>1, <1>3, CacheOperations
<1>5. HostWrite(read, step.writes) \in Cache
  BY <1>1, <1>4, CacheOperations
<1>6. FlushWhen(flush["after"], AcceleratorWrite(read, step.writes)) \in Cache
  BY <1>1, <1>2, <1>4, CacheOperations
<1>7. Left(step, flush, c) = IF step.accelerator
                             THEN FlushWhen(flush["after"], AcceleratorWrite(read, step.writes))
                             ELSE HostWrite(read, step.writes)
  BY DEF Left
<1> QED BY <1>5, <1>6, <1>7
-----------------------------------------------------------------------------
(* Type correctness. *)

\* Facts about the function at hand that every action's case uses.
LEMMA FunctionType ==
    ASSUME PassTypeOK
    PROVE  /\ Size \in Nat
           /\ fn.escaping \in SUBSET Buffer
           /\ \A i \in 1..Size : StepAt(i) \in StepType
<1>1. fn.ops \in Seq(Leaf \cup Loop) /\ fn.escaping \in SUBSET Buffer
  BY FunctionAssumption DEF PassTypeOK
<1>2. Size \in Nat
  BY <1>1 DEF Size
<1>3. ASSUME NEW i \in 1..Size PROVE StepAt(i) \in StepType
  <2>1. fn.ops[i] \in Leaf \cup Loop
    BY <1>1, <1>3 DEF Size
  <2> QED BY <2>1, DescribeType DEF StepAt
<1> QED BY <1>1, <1>2, <1>3

\* A verdict, and a step of the simulation, keep the types.
LEMMA VerdictType ==
    ASSUME PassTypeOK, trial[1] \in 1..Size, NEW holds \in BOOLEAN, Verdict(holds)
    PROVE  PassTypeOK'
<1>1. Size \in Nat
  BY FunctionType
<1>2. trial = <<trial[1], trial[2]>> /\ trial[2] \in Sides
  BY DEF PassTypeOK
<1>3. NextTrial \in (1..Size + 1) \X Sides
  BY <1>1, <1>2 DEF NextTrial, Sides
<1>4. kept' \in [1..Size -> [Sides -> BOOLEAN]]
  BY <1>2 DEF PassTypeOK, Verdict
<1>5. Size' = Size
  BY DEF Verdict, Size
<1> QED BY <1>3, <1>4, <1>5 DEF PassTypeOK, Verdict

LEMMA ProceedType ==
    ASSUME PassTypeOK, NEW next \in 0..Size + 1, NEW c \in Cache, Proceed(next, c)
    PROVE  PassTypeOK'
<1>1. Size' = Size
  BY DEF Proceed, Size
<1> QED BY <1>1 DEF PassTypeOK, Proceed

\* A flush is only considered, and a simulation only run, for an operation.
TrialInBlock == mode = "simulate" => trial[1] \in 1..Size

\* A behaviour of the pass, whatever else runs beside it.
PassSteps == PassInit /\ [][PassNext]_passVars

\* Its variables keep their types.
LEMMA PassStepsTyped == PassSteps => [](PassTypeOK /\ TrialInBlock)
<1>1. PassInit => PassTypeOK /\ TrialInBlock
  <2> SUFFICES ASSUME PassInit PROVE PassTypeOK /\ TrialInBlock
    OBVIOUS
  <2>1. fn.ops \in Seq(Leaf \cup Loop)
    BY FunctionAssumption DEF PassInit
  <2>2. Size \in Nat
    BY <2>1 DEF Size
  <2>3. Flushed \in Cache
    BY DEF Flushed, Cache
  <2>4. kept \in [1..Size -> [Sides -> BOOLEAN]]
    BY DEF PassInit
  <2>5. trial \in (1..Size + 1) \X Sides
    BY <2>2 DEF PassInit, Sides
  <2>6. pos \in 0..Size + 1
    BY <2>2 DEF PassInit
  <2>7. mode \in {"choose", "done"}
    BY DEF PassInit
  <2> QED BY <2>3, <2>4, <2>5, <2>6, <2>7 DEF PassInit, PassTypeOK, TrialInBlock
<1>2. PassTypeOK /\ TrialInBlock /\ [PassNext]_passVars => (PassTypeOK /\ TrialInBlock)'
  <2> SUFFICES ASSUME PassTypeOK, TrialInBlock, [PassNext]_passVars
               PROVE  PassTypeOK' /\ TrialInBlock'
    OBVIOUS
  <2>0. /\ Size \in Nat
        /\ fn.escaping \in SUBSET Buffer
        /\ cache \in Cache
    BY FunctionType DEF PassTypeOK
  <2>1. CASE SkipFlush
    <3>1. trial[1] \in 1..Size /\ trial[2] \in Sides
      BY <2>0, <2>1 DEF SkipFlush, PassTypeOK
    <3>2. NextTrial \in (1..Size + 1) \X Sides
      BY <2>0, <3>1 DEF NextTrial, Sides
    <3>3. Size' = Size
      BY <2>1 DEF SkipFlush, Size
    <3> QED BY <2>1, <3>2, <3>3 DEF SkipFlush, PassTypeOK, TrialInBlock
  <2>2. CASE TryWithout
    <3>1. trial[1] \in 1..Size /\ trial[2] \in Sides
      BY <2>0, <2>2 DEF TryWithout, PassTypeOK
    <3>2. Size' = Size /\ Flushed \in Cache
      BY <2>2 DEF TryWithout, Size, Flushed, Cache
    <3>3. kept' \in [1..Size -> [Sides -> BOOLEAN]]
      BY <2>2, <3>1 DEF TryWithout, PassTypeOK
    <3> QED BY <2>0, <2>2, <3>1, <3>2, <3>3 DEF TryWithout, PassTypeOK, TrialInBlock
  <2>3. CASE FinishPass
    <3>1. Size' = Size
      BY <2>3 DEF FinishPass, Size
    <3> QED BY <2>3, <3>1 DEF FinishPass, PassTypeOK, TrialInBlock
  <2>4. ASSUME NEW holds \in BOOLEAN, mode = "simulate", Verdict(holds)
        PROVE  PassTypeOK' /\ TrialInBlock'
    <3>1. PassTypeOK'
      BY <2>4, VerdictType DEF TrialInBlock
    <3> QED BY <2>4, <3>1 DEF Verdict, TrialInBlock
  <2>5. ASSUME NEW next \in 0..Size + 1, NEW c \in Cache, Proceed(next, c)
        PROVE  PassTypeOK' /\ TrialInBlock'
    <3>1. PassTypeOK'
      BY <2>5, ProceedType
    <3> QED BY <2>5, <3>1 DEF Proceed, TrialInBlock, Size
  <2>6. CASE OutOfRounds
    BY <2>4, <2>6 DEF OutOfRounds
  <2>7. CASE CloseCycle
    BY <2>4, <2>7 DEF CloseCycle
  <2>8. CASE EnterRound
    <3>1. HostWrite(cache, fn.escaping) \in Cache
      BY <2>0, CacheOperations
    <3> QED BY <2>0, <2>5, <2>8, <3>1 DEF EnterRound
  <2>9. CASE SimulateOp
    <3>1. Left(StepAt(pos), kept[pos], cache) \in Cache
      BY <2>0, <2>9, FunctionType, LeftType DEF SimulateOp, PassTypeOK
    <3>2. mode = "simulate" /\ pos + 1 \in 0..Size + 1
      BY <2>0, <2>9 DEF SimulateOp
    <3>3. \/ Verdict(FALSE)
          \/ Proceed(pos + 1, Left(StepAt(pos), kept[pos], cache))
      BY <2>9 DEF SimulateOp
    <3> QED BY <2>4, <2>5, <3>1, <3>2, <3>3
  <2>10. CASE LeaveRound
    <3>1. Read(cache, fn.escaping) \in Cache
      BY <2>0, CacheOperations
    <3>2. mode = "simulate" /\ 0 \in 0..Size + 1
      BY <2>0, <2>10 DEF LeaveRound
    <3>3. Verdict(FALSE) \/ Proceed(0, Read(cache, fn.escaping))
      BY <2>10 DEF LeaveRound
    <3> QED BY <2>4, <2>5, <3>1, <3>2, <3>3
  <2>11. CASE UNCHANGED passVars
    BY <2>11 DEF passVars, PassTypeOK, TrialInBlock, Size
  <2> QED BY <2>1, <2>2, <2>3, <2>6, <2>7, <2>8, <2>9, <2>10, <2>11 DEF PassNext
<1> QED BY <1>1, <1>2, PTL DEF PassSteps

\* The pass stays inside its own vocabulary whatever the function: places of
\* its block, flushes of its operations, buffers it names.
THEOREM PassTypeCorrect == PassSpec => [](PassTypeOK /\ TrialInBlock)
BY PassStepsTyped, PTL DEF PassSpec, PassSteps
-----------------------------------------------------------------------------
(* The flushes the pass leaves are certified. *)

\* The placement a refused trial goes back to.
Restored == [kept EXCEPT ![trial[1]][trial[2]] = TRUE]

\* A flush not yet considered is still there.
Untried(i, s) == i > trial[1] \/ (i = trial[1] /\ trial[2] = "before" /\ s = "after")

UntriedAreKept ==
    \A i \in 1..Size, s \in Sides :
        Untried(i, s) \/ (mode = "choose" /\ <<i, s>> = trial) => kept[i][s]

\* What this simulation has gone through, the pair it is at included.
Trace == path \cup {<<pos, cache>>}

\* While a trial runs, the placement before it is certified, and every pair the
\* trial has left behind went on to one it has reached.
TrialIsSound ==
    mode = "simulate" =>
        /\ Certified(Restored)
        /\ <<0, Flushed>> \in Trace
        /\ \A p \in path : StaysIn(p, kept, Trace)

CertInv == /\ PassTypeOK /\ TrialInBlock
           /\ UntriedAreKept /\ PlacementIsCertified /\ TrialIsSound

\* A larger set of pairs still holds a step's outcome.
LEMMA StaysInMonotone ==
    ASSUME NEW p, NEW placement, NEW small, NEW large,
           small \subseteq large, StaysIn(p, placement, small)
    PROVE  StaysIn(p, placement, large)
BY DEF StaysIn

\* A verdict leaves a certified placement: a refusal goes back to the one
\* before, and an acceptance is given only where the trace is closed.
LEMMA VerdictCertifies ==
    ASSUME CertInv, mode = "simulate", NEW holds \in BOOLEAN, Verdict(holds),
           holds => <<pos, cache>> \in path
    PROVE  CertInv'
<1> USE DEF CertInv
<1>0. Size \in Nat
  BY FunctionType
<1>1. PassTypeOK' /\ TrialInBlock'
  BY VerdictType DEF TrialInBlock, Verdict
<1>2. UNCHANGED <<fn, Size>> /\ mode' = "choose" /\ trial' = NextTrial
  BY DEF Verdict, Size
<1>3. trial = <<trial[1], trial[2]>> /\ trial[1] \in 1..Size /\ trial[2] \in Sides
  BY DEF PassTypeOK, TrialInBlock
<1>4. \A i \in 1..Size, s \in Sides : kept[i][s] => kept'[i][s]
  BY <1>3 DEF Verdict, PassTypeOK
<1>5. UntriedAreKept'
  <2> SUFFICES ASSUME NEW i \in 1..Size, NEW s \in Sides,
                      Untried(i, s)' \/ <<i, s>> = trial'
               PROVE  kept'[i][s]
    BY <1>2 DEF UntriedAreKept
  <2>1. Untried(i, s)
    BY <1>0, <1>2, <1>3 DEF Untried, NextTrial, Sides
  <2> QED BY <1>4, <2>1 DEF UntriedAreKept
<1>6. PlacementIsCertified'
  <2>1. CASE holds
    <3>1. Trace = path
      BY <2>1 DEF Trace
    <3>2. Closed(path, kept)
      BY <3>1 DEF TrialIsSound, Closed
    <3>3. cert' = path /\ kept' = kept
      BY <2>1 DEF Verdict
    <3> QED BY <1>2, <3>2, <3>3
            DEF PlacementIsCertified, Certified, Closed, StaysIn, StepAt
  <2>2. CASE ~holds
    <3>1. cert' = cert /\ kept' = Restored
      BY <2>2 DEF Verdict, Restored
    <3>2. Certified(Restored)
      BY DEF TrialIsSound
    <3> QED BY <1>2, <3>1, <3>2
            DEF PlacementIsCertified, Certified, AllKept, Closed, StaysIn, StepAt
  <2> QED BY <2>1, <2>2
<1>7. TrialIsSound'
  BY <1>2 DEF TrialIsSound
<1> QED BY <1>1, <1>5, <1>6, <1>7

\* A step of the simulation extends the trace by the pair it reaches.
LEMMA ProceedCertifies ==
    ASSUME CertInv, mode = "simulate", NEW next \in 0..Size + 1, NEW c \in Cache,
           Proceed(next, c), StaysIn(<<pos, cache>>, kept, {<<next, c>>})
    PROVE  CertInv'
<1> USE DEF CertInv
<1>1. PassTypeOK' /\ TrialInBlock'
  BY ProceedType DEF TrialInBlock, Proceed, Size
<1>2. UNCHANGED <<fn, Size, kept, trial, mode, cert>>
  BY DEF Proceed, Size
<1>3. UntriedAreKept'
  BY <1>2 DEF UntriedAreKept, Untried
<1>4. PlacementIsCertified'
  BY <1>2 DEF PlacementIsCertified
<1>5. Trace' = Trace \cup {<<next, c>>} /\ path' = Trace
  BY DEF Trace, Proceed
<1>6. Certified(Restored)'
  <2>1. Certified(Restored)
    BY DEF TrialIsSound
  <2>2. Restored' = Restored
    BY <1>2 DEF Restored
  <2> QED BY <1>2, <2>1, <2>2 DEF Certified, AllKept, Closed, StaysIn, StepAt
<1>7. ASSUME NEW p \in Trace PROVE StaysIn(p, kept, Trace')
  <2>1. CASE p \in path
    <3>1. StaysIn(p, kept, Trace)
      BY <2>1 DEF TrialIsSound
    <3> QED BY <1>5, <3>1, StaysInMonotone
  <2>2. CASE p = <<pos, cache>>
    <3>1. {<<next, c>>} \subseteq Trace'
      BY <1>5
    <3> QED BY <2>2, <3>1, StaysInMonotone
  <2> QED BY <2>1, <2>2 DEF Trace
<1>8. \A p \in path' : StaysIn(p, kept, Trace)'
  BY <1>2, <1>5, <1>7 DEF StaysIn, StepAt
<1>9. TrialIsSound'
  BY <1>2, <1>5, <1>6, <1>8 DEF TrialIsSound, Flushed
<1> QED BY <1>1, <1>3, <1>4, <1>9

LEMMA CertInvariant == PassSteps => []CertInv
<1>1. PassInit /\ PassTypeOK /\ TrialInBlock => CertInv
  <2> SUFFICES ASSUME PassInit, PassTypeOK, TrialInBlock PROVE CertInv
    OBVIOUS
  <2>1. AllKept(kept) /\ cert = {} /\ mode # "simulate"
    BY DEF PassInit, AllKept
  <2>2. UntriedAreKept
    BY <2>1 DEF AllKept, UntriedAreKept
  <2> QED BY <2>1, <2>2 DEF CertInv, PlacementIsCertified, Certified, TrialIsSound
<1>2. CertInv /\ PassTypeOK' /\ TrialInBlock' /\ [PassNext]_passVars => CertInv'
  <2> SUFFICES ASSUME CertInv, PassTypeOK', TrialInBlock', [PassNext]_passVars
               PROVE  CertInv'
    OBVIOUS
  <2> USE DEF CertInv
  <2>0. /\ Size \in Nat
        /\ fn.escaping \in SUBSET Buffer
        /\ cache \in Cache
    BY FunctionType DEF PassTypeOK
  <2>1. CASE SkipFlush
    <3>1. /\ UNCHANGED <<fn, Size, kept, cert, path>>
          /\ mode = "choose" /\ mode' = "choose" /\ trial' = NextTrial
      BY <2>1 DEF SkipFlush, Size
    <3>2. trial = <<trial[1], trial[2]>> /\ trial[1] \in 1..Size /\ trial[2] \in Sides
      BY <2>0, <2>1 DEF SkipFlush, PassTypeOK
    <3>3. UntriedAreKept'
      <4> SUFFICES ASSUME NEW i \in 1..Size, NEW s \in Sides,
                          Untried(i, s)' \/ <<i, s>> = trial'
                   PROVE  kept'[i][s]
        BY <3>1 DEF UntriedAreKept
      <4>1. Untried(i, s)
        BY <2>0, <3>1, <3>2 DEF Untried, NextTrial, Sides
      <4> QED BY <3>1, <4>1 DEF UntriedAreKept
    <3>4. PlacementIsCertified'
      BY <3>1 DEF PlacementIsCertified, Certified, AllKept, Closed, StaysIn, StepAt
    <3> QED BY <3>1, <3>3, <3>4 DEF TrialIsSound
  <2>2. CASE TryWithout
    <3>1. /\ UNCHANGED <<fn, Size, trial, cert>>
          /\ mode = "choose" /\ mode' = "simulate"
          /\ pos' = 0 /\ cache' = Flushed /\ path' = {}
          /\ kept' = [kept EXCEPT ![trial[1]][trial[2]] = FALSE]
      BY <2>2 DEF TryWithout, Size
    <3>2. trial = <<trial[1], trial[2]>> /\ trial[1] \in 1..Size /\ trial[2] \in Sides
      BY <2>0, <2>2 DEF TryWithout, PassTypeOK
    <3>3. kept[trial[1]][trial[2]] = TRUE
      BY <3>1, <3>2 DEF UntriedAreKept, PassTypeOK
    <3>4. Restored' = kept
      BY <3>1, <3>2, <3>3 DEF Restored, PassTypeOK
    <3>5. Certified(kept)
      BY <3>1 DEF PlacementIsCertified
    <3>6. Certified(Restored)'
      BY <3>1, <3>4, <3>5 DEF Certified, AllKept, Closed, StaysIn, StepAt
    <3>7. \A i \in 1..Size, s \in Sides : Untried(i, s) => <<i, s>> # trial
      BY <2>0, <3>2 DEF Untried
    <3>8. UntriedAreKept'
      <4> SUFFICES ASSUME NEW i \in 1..Size, NEW s \in Sides, Untried(i, s)
                   PROVE  kept'[i][s]
        BY <3>1 DEF UntriedAreKept, Untried
      <4>1. kept[i][s] /\ <<i, s>> # trial
        BY <3>7 DEF UntriedAreKept
      <4>2. i # trial[1] \/ s # trial[2]
        BY <3>2, <4>1
      <4> QED BY <3>1, <3>2, <4>1, <4>2 DEF PassTypeOK
    <3>9. <<0, Flushed>> \in Trace'
      BY <3>1 DEF Trace
    <3>10. TrialIsSound'
      BY <3>1, <3>6, <3>9 DEF TrialIsSound, Flushed
    <3> QED BY <3>1, <3>8, <3>10 DEF PlacementIsCertified
  <2>3. CASE FinishPass
    <3>1. UNCHANGED <<fn, Size, kept, trial, cert>> /\ mode = "choose" /\ mode' = "done"
      BY <2>3 DEF FinishPass, Size
    <3>2. PlacementIsCertified'
      BY <3>1 DEF PlacementIsCertified, Certified, AllKept, Closed, StaysIn, StepAt
    <3>3. UntriedAreKept'
      BY <3>1 DEF UntriedAreKept, Untried
    <3> QED BY <3>1, <3>2, <3>3 DEF TrialIsSound
  <2>4. CASE OutOfRounds
    BY <2>4, VerdictCertifies DEF OutOfRounds
  <2>5. CASE CloseCycle
    <3>1. <<pos, cache>> \in path
      <4>1. PICK q \in path : q[1] = 0 /\ cache = q[2]
        BY <2>5 DEF CloseCycle, Seen
      <4>2. q = <<q[1], q[2]>>
        BY DEF PassTypeOK
      <4> QED BY <2>5, <4>1, <4>2 DEF CloseCycle
    <3> QED BY <2>5, <3>1, VerdictCertifies DEF CloseCycle
  <2>6. CASE EnterRound
    <3> DEFINE c == HostWrite(cache, fn.escaping)
    <3>1. c \in Cache /\ 1 \in 0..Size + 1
      BY <2>0, CacheOperations
    <3>2. pos = 0 /\ mode = "simulate" /\ Proceed(1, c)
      BY <2>6 DEF EnterRound
    <3>3. StaysIn(<<pos, cache>>, kept, {<<1, c>>})
      BY <3>2 DEF StaysIn
    <3> QED BY <3>1, <3>2, <3>3, ProceedCertifies
  <2>7. CASE SimulateOp
    <3> DEFINE step == StepAt(pos)
               c    == Left(step, kept[pos], cache)
    <3>1. pos \in 1..Size /\ mode = "simulate"
      BY <2>7 DEF SimulateOp
    <3>2. CASE Misread(step, Found(step, kept[pos], cache))
      BY <2>7, <3>1, <3>2, VerdictCertifies DEF SimulateOp
    <3>3. CASE ~Misread(step, Found(step, kept[pos], cache))
      <4>1. Proceed(pos + 1, c)
        BY <2>7, <3>3 DEF SimulateOp
      <4>2. StaysIn(<<pos, cache>>, kept, {<<pos + 1, c>>})
        BY <3>1, <3>3 DEF StaysIn
      <4>3. c \in Cache /\ pos + 1 \in 0..Size + 1
        BY <2>0, <3>1, FunctionType, LeftType DEF PassTypeOK
      <4> HIDE DEF c
      <4> QED BY <3>1, <4>1, <4>2, <4>3, ProceedCertifies
    <3> QED BY <3>2, <3>3
  <2>8. CASE LeaveRound
    <3> DEFINE c == Read(cache, fn.escaping)
    <3>1. pos = Size + 1 /\ mode = "simulate"
      BY <2>8 DEF LeaveRound
    <3>2. CASE cache.stale \cap fn.escaping # {}
      BY <2>8, <3>1, <3>2, VerdictCertifies DEF LeaveRound
    <3>3. CASE cache.stale \cap fn.escaping = {}
      <4>1. Proceed(0, c)
        BY <2>8, <3>3 DEF LeaveRound
      <4>2. StaysIn(<<pos, cache>>, kept, {<<0, c>>})
        BY <3>1, <3>3 DEF StaysIn
      <4>3. c \in Cache /\ 0 \in 0..Size + 1
        BY <2>0, CacheOperations
      <4> HIDE DEF c
      <4> QED BY <3>1, <4>1, <4>2, <4>3, ProceedCertifies
    <3> QED BY <3>2, <3>3
  <2>9. CASE UNCHANGED passVars
    <3>1. UNCHANGED <<fn, Size, kept, trial, mode, pos, cache, path, cert>>
      BY <2>9 DEF passVars, Size
    <3>2. UntriedAreKept'
      BY <3>1 DEF UntriedAreKept, Untried
    <3>3. PlacementIsCertified'
      BY <3>1 DEF PlacementIsCertified, Certified, AllKept, Closed, StaysIn, StepAt
    <3>4. TrialIsSound'
      <4>1. Restored' = Restored /\ Trace' = Trace
        BY <3>1 DEF Restored, Trace
      <4>2. Certified(Restored) => Certified(Restored)'
        BY <3>1, <4>1 DEF Certified, AllKept, Closed, StaysIn, StepAt
      <4>3. ASSUME NEW p \in path, StaysIn(p, kept, Trace)
            PROVE  StaysIn(p, kept, Trace)'
        BY <3>1, <4>1, <4>3 DEF StaysIn, StepAt
      <4> QED BY <3>1, <4>1, <4>2, <4>3 DEF TrialIsSound, Flushed
    <3> QED BY <3>2, <3>3, <3>4
  <2> QED BY <2>1, <2>2, <2>3, <2>4, <2>5, <2>6, <2>7, <2>8, <2>9 DEF PassNext
<1> QED BY <1>1, <1>2, PassStepsTyped, PTL DEF PassSteps

\* What holds() accepted stays certified.
LEMMA PassStepsCertified == PassSteps => []PlacementIsCertified
<1>1. CertInv => PlacementIsCertified
  BY DEF CertInv
<1> QED BY <1>1, CertInvariant, PTL

\* The flushes left between two trials, and at the end, are all of them or ones
\* under which a whole cycle of calls went through without a misread: the
\* answer of holds() is what a refusal goes back to and an acceptance extends.
THEOREM PlacementCertified == PassSpec => []PlacementIsCertified
BY PassStepsCertified, PTL DEF PassSpec, PassSteps

-----------------------------------------------------------------------------
(* Induction along a block, by the least place that fails. *)

LEMMA LeastNatural ==
    ASSUME NEW S \in SUBSET Nat, S # {}
    PROVE  \E m \in S : \A k \in S : m <= k
<1> DEFINE R == {p \in Nat \X Nat : p[1] < p[2]}
<1>1. IsWellFoundedOn(R, Nat)
  BY NatLessThanWellFounded, Zenon DEF OpToRel
<1>2. \A k, l \in S : k < l => <<k, l>> \in R
  OBVIOUS
<1> HIDE DEF R
<1>3. PICK m \in S : \A k \in S : ~(<<k, m>> \in R)
  BY <1>1, WFMin
<1>4. \A k \in S : ~(k < m)
  BY <1>2, <1>3, Zenon
<1>5. \A k \in S : m \in Nat /\ k \in Nat
  OBVIOUS
<1> QED BY <1>4, <1>5

LEMMA PlaceInduction ==
    ASSUME NEW n \in Nat, NEW S, 1 \in S, \A k \in 1..n : k \in S => k + 1 \in S
    PROVE  1..n + 1 \subseteq S
<1> DEFINE U == (1..n + 1) \ S
<1>1. U \in SUBSET Nat
  OBVIOUS
<1>2. SUFFICES ASSUME U # {} PROVE FALSE
  OBVIOUS
<1>3. PICK m \in U : \A k \in U : m <= k
  <2> HIDE DEF U
  <2> QED BY <1>1, <1>2, LeastNatural
<1>4. m - 1 \in 1..n /\ m - 1 \in S
  BY <1>3
<1> QED BY <1>3, <1>4

\* What a step makes of the place before, from a first value, is a function.
Stepwise(n, C, first, F) ==
    n \in Nat /\ first \in C /\ \A i \in 1..n, x \in C : F[<<i, x>>] \in C

LEMMA StepsUnroll ==
    ASSUME NEW n, NEW C, NEW first, NEW F, Stepwise(n, C, first, F)
    PROVE  \E g \in [1..n + 1 -> C] :
               g[1] = first /\ \A i \in 1..n : g[i + 1] = F[<<i, g[i]>>]
<1>0. n \in Nat /\ first \in C /\ \A i \in 1..n, x \in C : F[<<i, x>>] \in C
  BY DEF Stepwise
<1> DEFINE Upto(k, g) == g[1] = first /\ \A i \in 1..k - 1 : g[i + 1] = F[<<i, g[i]>>]
           S == {k \in 1..n + 1 : \E g \in [1..n + 1 -> C] : Upto(k, g)}
<1>1. 1 \in S
  <2>1. [i \in 1..n + 1 |-> first] \in [1..n + 1 -> C] /\ Upto(1, [i \in 1..n + 1 |-> first])
    BY <1>0
  <2> QED BY <1>0, <2>1
<1>2. ASSUME NEW k \in 1..n, k \in S PROVE k + 1 \in S
  <2>1. PICK g \in [1..n + 1 -> C] : Upto(k, g)
    BY <1>2
  <2> DEFINE x == F[<<k, g[k]>>]
             h == [g EXCEPT ![k + 1] = x]
  <2>2. x \in C /\ k + 1 \in 1..n + 1
    BY <1>0, <1>2, <2>1
  <2>3. h \in [1..n + 1 -> C] /\ h[k + 1] = x /\ \A i \in 1..k : h[i] = g[i]
    <3> HIDE DEF x
    <3> QED BY <1>0, <2>2
  <2>4. Upto(k + 1, h)
    <3> SUFFICES ASSUME NEW i \in 1..k PROVE h[i + 1] = F[<<i, h[i]>>]
      BY <1>0, <2>1, <2>3
    <3>1. CASE i = k
      BY <1>0, <2>3, <3>1
    <3>2. CASE i # k
      <4>1. i \in 1..k - 1 /\ i + 1 \in 1..k
        BY <1>0, <3>2
      <4> HIDE DEF h
      <4> QED BY <1>0, <2>1, <2>3, <4>1
    <3> QED BY <3>1, <3>2
  <2> HIDE DEF h
  <2> QED BY <2>2, <2>3, <2>4
<1>3. n + 1 \in S
  <2> HIDE DEF S
  <2>1. 1..n + 1 \subseteq S
    BY <1>0, <1>1, <1>2, PlaceInduction
  <2> QED BY <1>0, <2>1
<1>4. PICK g \in [1..n + 1 -> C] : Upto(n + 1, g)
  BY <1>3
<1>5. \A i \in 1..n : i \in 1..(n + 1) - 1
  BY <1>0
<1> QED BY <1>4, <1>5

-----------------------------------------------------------------------------
(* What a round of the simulation computes. *)

LEMMA BlockType ==
    ASSUME NEW f \in Functions
    PROVE  /\ Len(f.ops) \in Nat
           /\ f.escaping \in SUBSET Buffer
           /\ \A i \in 1..Len(f.ops) : Describe(f.ops[i]) \in StepType
<1>1. f.ops \in Seq(Leaf \cup Loop) /\ f.escaping \in SUBSET Buffer
  BY FunctionAssumption
<1>2. \A i \in 1..Len(f.ops) : f.ops[i] \in Leaf \cup Loop
  BY <1>1
<1> QED BY <1>1, <1>2, DescribeType

Placements(f) == [1..Len(f.ops) -> [Sides -> BOOLEAN]]

\* What the simulation knows at a place: the cache, and no read refused so far.
Point == [ok : BOOLEAN, cache : Cache]

PastOp(op, flush, x) ==
    [ok |-> x.ok /\ ~Misread(Describe(op), Found(Describe(op), flush, x.cache)),
     cache |-> Left(Describe(op), flush, x.cache)]

Enter(f, start) == [ok |-> TRUE, cache |-> HostWrite(start, f.escaping)]

Leave(f, x) == [ok |-> x.ok /\ x.cache.stale \cap f.escaping = {},
                cache |-> Read(x.cache, f.escaping)]

\* walk is what a round that starts in start goes through.
Walks(walk, f, placement, start) ==
    /\ walk \in [1..Len(f.ops) + 1 -> Point]
    /\ walk[1] = Enter(f, start)
    /\ \A i \in 1..Len(f.ops) : walk[i + 1] = PastOp(f.ops[i], placement[i], walk[i])

LEMMA PastOpParts ==
    ASSUME NEW op, NEW flush, NEW x
    PROVE  /\ PastOp(op, flush, x).cache = Left(Describe(op), flush, x.cache)
           /\ PastOp(op, flush, x).ok
                <=> x.ok /\ ~Misread(Describe(op), Found(Describe(op), flush, x.cache))
  BY DEF PastOp

LEMMA LeaveParts ==
    ASSUME NEW f, NEW x
    PROVE  /\ Leave(f, x).cache = Read(x.cache, f.escaping)
           /\ Leave(f, x).ok <=> x.ok /\ x.cache.stale \cap f.escaping = {}
  BY DEF Leave

LEMMA PointTypes ==
    ASSUME NEW f \in Functions, NEW placement \in Placements(f)
    PROVE  /\ \A c \in Cache : Enter(f, c) \in Point
           /\ \A x \in Point : Leave(f, x) \in Point
           /\ \A i \in 1..Len(f.ops), x \in Point : PastOp(f.ops[i], placement[i], x) \in Point
<1>1. f.escaping \in SUBSET Buffer
  BY BlockType
<1>2. ASSUME NEW c \in Cache PROVE Enter(f, c) \in Point
  BY <1>1, CacheOperations DEF Enter, Point
<1>3. ASSUME NEW x \in Point PROVE Leave(f, x) \in Point
  <2>1. x.cache \in Cache /\ x.ok \in BOOLEAN
    BY DEF Point
  <2>2. Read(x.cache, f.escaping) \in Cache
    BY <1>1, <2>1, CacheOperations
  <2>3. (x.ok /\ x.cache.stale \cap f.escaping = {}) \in BOOLEAN
    OBVIOUS
  <2> QED BY <2>2, <2>3 DEF Leave, Point
<1>4. ASSUME NEW i \in 1..Len(f.ops), NEW x \in Point
      PROVE  PastOp(f.ops[i], placement[i], x) \in Point
  <2>1. Describe(f.ops[i]) \in StepType /\ placement[i] \in [Sides -> BOOLEAN] /\ x.cache \in Cache
    BY BlockType DEF Placements, Point
  <2>2. Left(Describe(f.ops[i]), placement[i], x.cache) \in Cache
    BY <2>1, LeftType
  <2> QED BY <2>2 DEF PastOp, Point
<1> QED BY <1>2, <1>3, <1>4

\* The function Round chooses.
RoundPlaces(f, placement, start) ==
    CHOOSE place : place =
        [i \in 1..Len(f.ops) + 1 |->
            IF i = 1 THEN Enter(f, start)
            ELSE PastOp(f.ops[i - 1], placement[i - 1], place[i - 1])]

LEMMA RoundIs ==
    ASSUME NEW f, NEW placement, NEW start
    PROVE  Round(f, placement, start) = Leave(f, RoundPlaces(f, placement, start)[Len(f.ops) + 1])
  BY DEF Round, RoundPlaces, Leave, Enter, PastOp

\* A round is such a walk, and there is one.
LEMMA RoundUnrolls ==
    ASSUME NEW f \in Functions, NEW placement \in Placements(f), NEW start \in Cache
    PROVE  Walks(RoundPlaces(f, placement, start), f, placement, start)
<1> DEFINE n == Len(f.ops)
           F == [p \in (1..n) \X Point |-> PastOp(f.ops[p[1]], placement[p[1]], p[2])]
           Body(place) ==
               [i \in 1..n + 1 |->
                   IF i = 1 THEN Enter(f, start)
                   ELSE PastOp(f.ops[i - 1], placement[i - 1], place[i - 1])]
           h == RoundPlaces(f, placement, start)
<1>1. n \in Nat
  BY BlockType
<1>2. Enter(f, start) \in Point
  BY PointTypes
<1>3. \A i \in 1..n, x \in Point : PastOp(f.ops[i], placement[i], x) \in Point
  BY PointTypes
<1>4. \A i \in 1..n, x \in Point : F[<<i, x>>] = PastOp(f.ops[i], placement[i], x)
  BY <1>1
<1>5. \A i \in 1..n, x \in Point : F[<<i, x>>] \in Point
  BY <1>3, <1>4
<1> HIDE DEF F
<1>6. PICK g \in [1..n + 1 -> Point] :
          g[1] = Enter(f, start) /\ \A i \in 1..n : g[i + 1] = F[<<i, g[i]>>]
  <2> DEFINE first == Enter(f, start)
  <2>1. first \in Point
    BY <1>2
  <2> HIDE DEF n, first
  <2>2. Stepwise(n, Point, first, F)
    BY <1>1, <1>5, <2>1 DEF Stepwise
  <2>3. \E g \in [1..n + 1 -> Point] :
            g[1] = first /\ \A i \in 1..n : g[i + 1] = F[<<i, g[i]>>]
    BY <2>2, StepsUnroll
  <2> QED BY <2>3 DEF first
<1>7. Walks(g, f, placement, start)
  <2>1. \A i \in 1..n : g[i] \in Point
    BY <1>1, <1>6
  <2>2. \A i \in 1..n : g[i + 1] = PastOp(f.ops[i], placement[i], g[i])
    BY <1>4, <1>6, <2>1
  <2> QED BY <1>6, <2>2 DEF Walks
<1>8. g = Body(g)
  <2>1. \A i \in 1..n + 1 : i # 1 => i - 1 \in 1..n /\ (i - 1) + 1 = i
    BY <1>1
  <2>2. \A i \in 1..n + 1 : g[i] = Body(g)[i]
    BY <1>7, <2>1 DEF Walks
  <2> QED BY <1>6, <2>2
<1>9. h = Body(h)
  BY <1>8 DEF RoundPlaces
<1>10. h[1] = g[1]
  BY <1>1, <1>6, <1>9
<1>11. ASSUME NEW k \in 1..n, h[k] = g[k] PROVE h[k + 1] = g[k + 1]
  <2>1. k + 1 \in 1..n + 1 /\ k + 1 # 1 /\ (k + 1) - 1 = k
    BY <1>1
  <2>2. h[k + 1] = PastOp(f.ops[k], placement[k], h[k])
    <3> HIDE DEF h
    <3> QED BY <1>9, <2>1
  <2> QED BY <1>7, <1>11, <2>2 DEF Walks
<1>12. \A i \in 1..n + 1 : h[i] = g[i]
  <2> DEFINE S == {i \in 1..n + 1 : h[i] = g[i]}
  <2>1. 1 \in S
    BY <1>1, <1>10
  <2>2. ASSUME NEW k \in 1..n, k \in S PROVE k + 1 \in S
    BY <1>1, <1>11, <2>2
  <2> HIDE DEF S
  <2>3. 1..n + 1 \subseteq S
    <3> HIDE DEF n
    <3> QED BY <1>1, <2>1, <2>2, PlaceInduction
  <2> QED BY <2>3 DEF S
<1>13. h = g
  <2> HIDE DEF h
  <2>1. h = [i \in 1..n + 1 |-> h[i]]
    BY <1>9
  <2> QED BY <1>6, <1>12, <2>1
<1> QED BY <1>7, <1>13

LEMMA RoundType ==
    ASSUME NEW f \in Functions, NEW placement \in Placements(f), NEW start \in Cache
    PROVE  Round(f, placement, start) \in Point
<1> DEFINE walk == RoundPlaces(f, placement, start)
<1>1. Len(f.ops) \in Nat
  BY BlockType
<1>2. walk \in [1..Len(f.ops) + 1 -> Point]
  BY RoundUnrolls DEF Walks
<1>3. walk[Len(f.ops) + 1] \in Point
  <2> HIDE DEF walk
  <2> QED BY <1>1, <1>2
<1>4. Leave(f, walk[Len(f.ops) + 1]) \in Point
  BY <1>3, PointTypes
<1> QED BY <1>4, RoundIs

-----------------------------------------------------------------------------
(* Fewer flushes leave more in the cache, and more in the cache is more to    *)
(* misread.                                                                  *)

Below(c, d) == c.dirty \subseteq d.dirty /\ c.resident \subseteq d.resident /\ c.stale \subseteq d.stale

NoMore(fewer, more, places) == \A i \in places, s \in Sides : fewer[i][s] => more[i][s]

LEMMA CacheMonotone ==
    ASSUME NEW c \in Cache, NEW d \in Cache, Below(c, d), NEW bs \in SUBSET Buffer
    PROVE  /\ Below(Flushed, d) /\ Flushed \in Cache
           /\ Below(Read(c, bs), Read(d, bs))
           /\ Below(HostWrite(c, bs), HostWrite(d, bs))
           /\ Below(AcceleratorWrite(c, bs), AcceleratorWrite(d, bs))
  BY DEF Below, Flushed, Read, HostWrite, AcceleratorWrite, Cache

LEMMA StepMonotone ==
    ASSUME NEW step \in StepType,
           NEW more \in [Sides -> BOOLEAN], NEW fewer \in [Sides -> BOOLEAN],
           \A s \in Sides : fewer[s] => more[s],
           NEW c \in Cache, NEW d \in Cache, Below(c, d)
    PROVE  /\ Below(Left(step, more, c), Left(step, fewer, d))
           /\ Misread(step, Found(step, more, c)) => Misread(step, Found(step, fewer, d))
<1> DEFINE foundC == Found(step, more, c)
           foundD == Found(step, fewer, d)
<1>1. /\ step.accelerator \in BOOLEAN
      /\ step.reads \in SUBSET Buffer /\ step.writes \in SUBSET Buffer
  BY DEF StepType
<1>2. /\ fewer["before"] => more["before"]
      /\ fewer["after"] => more["after"]
  BY DEF Sides
<1>3. foundC \in Cache /\ foundD \in Cache /\ Below(foundC, foundD)
  <2>1. foundC \in {c, Flushed} /\ foundD \in {d, Flushed}
    BY DEF Found, FlushWhen
  <2>2. foundD = Flushed => foundC = Flushed
    <3>1. CASE step.accelerator /\ fewer["before"]
      BY <1>2, <3>1 DEF Found, FlushWhen
    <3>2. CASE ~(step.accelerator /\ fewer["before"])
      <4>1. foundD = d
        BY <3>2 DEF Found, FlushWhen
      <4>2. d = Flushed => c = Flushed
        BY DEF Below, Flushed, Cache
      <4> QED BY <2>1, <4>1, <4>2
    <3> QED BY <3>1, <3>2
  <2>3. Below(Flushed, Flushed) /\ Below(Flushed, d) /\ Flushed \in Cache
    BY DEF Below, Flushed, Cache
  <2> HIDE DEF foundC, foundD
  <2> QED BY <2>1, <2>2, <2>3
<1>4. Misread(step, foundC) => Misread(step, foundD)
  <2> HIDE DEF foundC, foundD
  <2> QED BY <1>3 DEF Misread, Below
<1> DEFINE readC == Read(foundC, step.reads)
           readD == Read(foundD, step.reads)
<1>5. readC \in Cache /\ readD \in Cache /\ Below(readC, readD)
  <2> HIDE DEF foundC, foundD
  <2> QED BY <1>1, <1>3, CacheMonotone, CacheOperations
<1>6. CASE ~step.accelerator
  <2>1. /\ Left(step, more, c) = HostWrite(readC, step.writes)
        /\ Left(step, fewer, d) = HostWrite(readD, step.writes)
    BY <1>6 DEF Left
  <2> HIDE DEF foundC, foundD, readC, readD
  <2>2. Below(HostWrite(readC, step.writes), HostWrite(readD, step.writes))
    BY <1>1, <1>5, CacheMonotone
  <2> QED BY <1>4, <2>1, <2>2 DEF foundC, foundD
<1>7. CASE step.accelerator
  <2> DEFINE wroteC == AcceleratorWrite(readC, step.writes)
             wroteD == AcceleratorWrite(readD, step.writes)
  <2>1. /\ Left(step, more, c) = FlushWhen(more["after"], wroteC)
        /\ Left(step, fewer, d) = FlushWhen(fewer["after"], wroteD)
    BY <1>7 DEF Left
  <2>2. wroteC \in Cache /\ wroteD \in Cache /\ Below(wroteC, wroteD)
    <3> HIDE DEF foundC, foundD, readC, readD
    <3> QED BY <1>1, <1>5, CacheMonotone, CacheOperations
  <2> HIDE DEF foundC, foundD, readC, readD, wroteC, wroteD
  <2>3. Below(FlushWhen(more["after"], wroteC), FlushWhen(fewer["after"], wroteD))
    <3>1. Below(Flushed, wroteD) /\ Below(Flushed, Flushed)
      BY <2>2 DEF Below, Flushed, Cache
    <3> QED BY <1>2, <2>2, <3>1 DEF FlushWhen
  <2> QED BY <1>4, <2>1, <2>3 DEF foundC, foundD
<1> QED BY <1>1, <1>6, <1>7

\* A round that is accepted with fewer flushes from a fuller cache is accepted
\* with more from an emptier one, and leaves no more behind.
LEMMA RoundMonotone ==
    ASSUME NEW f \in Functions, NEW more \in Placements(f), NEW fewer \in Placements(f),
           NoMore(fewer, more, 1..Len(f.ops)),
           NEW c \in Cache, NEW d \in Cache, Below(c, d)
    PROVE  /\ Below(Round(f, more, c).cache, Round(f, fewer, d).cache)
           /\ Round(f, fewer, d).ok => Round(f, more, c).ok
<1> DEFINE n == Len(f.ops)
           g == RoundPlaces(f, more, c)
           h == RoundPlaces(f, fewer, d)
           S == {i \in 1..n + 1 : (h[i].ok => g[i].ok) /\ Below(g[i].cache, h[i].cache)}
<1>1. n \in Nat /\ f.escaping \in SUBSET Buffer
  BY BlockType
<1>2. Walks(g, f, more, c) /\ Walks(h, f, fewer, d)
  BY RoundUnrolls
<1> HIDE DEF g, h
<1>3. 1 \in S
  <2>1. Below(HostWrite(c, f.escaping), HostWrite(d, f.escaping))
    BY <1>1, CacheMonotone
  <2> QED BY <1>1, <1>2, <2>1 DEF Walks, Enter
<1>4. ASSUME NEW k \in 1..n, k \in S PROVE k + 1 \in S
  <2> DEFINE step == Describe(f.ops[k])
  <2>1. /\ step \in StepType /\ more[k] \in [Sides -> BOOLEAN] /\ fewer[k] \in [Sides -> BOOLEAN]
        /\ \A s \in Sides : fewer[k][s] => more[k][s]
    BY BlockType DEF Placements, NoMore
  <2>2. k \in 1..n + 1 /\ k + 1 \in 1..n + 1
    BY <1>1
  <2>3. g[k] \in Point /\ h[k] \in Point
    BY <1>2, <2>2 DEF Walks
  <2>4. /\ g[k].cache \in Cache /\ h[k].cache \in Cache
        /\ Below(g[k].cache, h[k].cache) /\ (h[k].ok => g[k].ok)
    BY <1>4, <2>3 DEF Point
  <2>5. /\ g[k + 1] = PastOp(f.ops[k], more[k], g[k])
        /\ h[k + 1] = PastOp(f.ops[k], fewer[k], h[k])
    BY <1>2 DEF Walks
  <2>6. /\ Below(Left(step, more[k], g[k].cache), Left(step, fewer[k], h[k].cache))
        /\ Misread(step, Found(step, more[k], g[k].cache))
             => Misread(step, Found(step, fewer[k], h[k].cache))
    <3> HIDE DEF step
    <3> QED BY <2>1, <2>4, StepMonotone
  <2>7. Below(g[k + 1].cache, h[k + 1].cache) /\ (h[k + 1].ok => g[k + 1].ok)
    BY <2>4, <2>5, <2>6, PastOpParts
  <2> QED BY <2>2, <2>7
<1>5. n + 1 \in S
  <2>1. 1..n + 1 \subseteq S
    <3> HIDE DEF S, n
    <3> QED BY <1>1, <1>3, <1>4, PlaceInduction
  <2> QED BY <1>1, <2>1
<1>6. g[n + 1].cache \in Cache /\ h[n + 1].cache \in Cache
  BY <1>1, <1>2 DEF Walks, Point
<1>7. /\ Round(f, more, c) = Leave(f, g[n + 1])
      /\ Round(f, fewer, d) = Leave(f, h[n + 1])
  BY RoundIs DEF g, h
<1>8. Below(Read(g[n + 1].cache, f.escaping), Read(h[n + 1].cache, f.escaping))
  BY <1>1, <1>5, <1>6, CacheMonotone
<1>9. h[n + 1].cache.stale \cap f.escaping = {} => g[n + 1].cache.stale \cap f.escaping = {}
  BY <1>5 DEF Below
<1>10. (h[n + 1].ok => g[n + 1].ok) /\ Below(g[n + 1].cache, h[n + 1].cache)
  BY <1>5
<1> QED BY <1>7, <1>8, <1>9, <1>10, LeaveParts

-----------------------------------------------------------------------------
(* The rounds in a row. *)

RoundsRun(f, placement) ==
    CHOOSE round : round =
        [r \in 1..MaxRounds |-> Round(f, placement, IF r = 1 THEN Flushed ELSE round[r - 1].cache)]

LEMMA AcceptsIs ==
    ASSUME NEW f, NEW placement
    PROVE  Accepts(f, placement) <=> \A r \in 1..MaxRounds : RoundsRun(f, placement)[r].ok
  BY DEF Accepts, RoundsRun

LEMMA RoundsUnroll ==
    ASSUME NEW f \in Functions, NEW placement \in Placements(f)
    PROVE  /\ RoundsRun(f, placement) \in [1..MaxRounds -> Point]
           /\ RoundsRun(f, placement)[1] = Round(f, placement, Flushed)
           /\ \A r \in 1..MaxRounds - 1 :
                  RoundsRun(f, placement)[r + 1] = Round(f, placement, RoundsRun(f, placement)[r].cache)
<1> DEFINE n == MaxRounds - 1
           first == Round(f, placement, Flushed)
           F == [p \in (1..n) \X Point |-> Round(f, placement, p[2].cache)]
           Body(round) ==
               [r \in 1..MaxRounds |->
                   Round(f, placement, IF r = 1 THEN Flushed ELSE round[r - 1].cache)]
           h == RoundsRun(f, placement)
<1>1. n \in Nat /\ n + 1 = MaxRounds
  BY RoundAssumption
<1>2. first \in Point
  BY CacheOperations, RoundType DEF Flushed, Cache
<1>3. \A i \in 1..n, x \in Point : F[<<i, x>>] = Round(f, placement, x.cache)
  OBVIOUS
<1>4. \A i \in 1..n, x \in Point : F[<<i, x>>] \in Point
  BY <1>3, RoundType DEF Point
<1>5. PICK g \in [1..n + 1 -> Point] : g[1] = first /\ \A i \in 1..n : g[i + 1] = F[<<i, g[i]>>]
  <2> HIDE DEF n, first, F
  <2>1. Stepwise(n, Point, first, F)
    BY <1>1, <1>2, <1>4 DEF Stepwise
  <2> QED BY <2>1, StepsUnroll
<1>6. \A i \in 1..n : g[i + 1] = Round(f, placement, g[i].cache)
  <2>1. \A i \in 1..n : g[i] \in Point
    BY <1>1, <1>5
  <2> HIDE DEF F
  <2> QED BY <1>3, <1>5, <2>1
<1> HIDE DEF F
<1>7. g = Body(g)
  <2>1. \A i \in 1..n + 1 : i # 1 => i - 1 \in 1..n /\ (i - 1) + 1 = i
    BY <1>1
  <2>2. \A i \in 1..n + 1 : g[i] = Body(g)[i]
    BY <1>1, <1>5, <1>6, <2>1
  <2> QED BY <1>1, <1>5, <2>2
<1>8. h = Body(h)
  BY <1>7 DEF RoundsRun
<1>9. h[1] = g[1]
  BY <1>1, <1>5, <1>8
<1>10. ASSUME NEW k \in 1..n, h[k] = g[k] PROVE h[k + 1] = g[k + 1]
  <2>1. k + 1 \in 1..MaxRounds /\ k + 1 # 1 /\ (k + 1) - 1 = k
    BY <1>1
  <2>2. h[k + 1] = Round(f, placement, h[k].cache)
    <3> HIDE DEF h
    <3> QED BY <1>8, <2>1
  <2> QED BY <1>6, <1>10, <2>2
<1>11. \A i \in 1..n + 1 : h[i] = g[i]
  <2> DEFINE S == {i \in 1..n + 1 : h[i] = g[i]}
  <2>1. 1 \in S
    BY <1>1, <1>9
  <2>2. ASSUME NEW k \in 1..n, k \in S PROVE k + 1 \in S
    BY <1>1, <1>10, <2>2
  <2> HIDE DEF S
  <2>3. 1..n + 1 \subseteq S
    <3> HIDE DEF n
    <3> QED BY <1>1, <2>1, <2>2, PlaceInduction
  <2> QED BY <2>3 DEF S
<1>12. h = g
  <2> HIDE DEF h
  <2>1. h = [i \in 1..MaxRounds |-> h[i]]
    BY <1>8
  <2> QED BY <1>1, <1>5, <1>11, <2>1
<1> QED BY <1>1, <1>5, <1>6, <1>12

\* What is accepted with fewer flushes is accepted with more.
LEMMA AcceptsMonotone ==
    ASSUME NEW f \in Functions, NEW more \in Placements(f), NEW fewer \in Placements(f),
           NoMore(fewer, more, 1..Len(f.ops)), Accepts(f, fewer)
    PROVE  Accepts(f, more)
<1> DEFINE n == MaxRounds - 1
           g == RoundsRun(f, more)
           h == RoundsRun(f, fewer)
           S == {r \in 1..n + 1 : (h[r].ok => g[r].ok) /\ Below(g[r].cache, h[r].cache)}
<1>1. n \in Nat /\ n + 1 = MaxRounds
  BY RoundAssumption
<1>2. /\ g \in [1..MaxRounds -> Point] /\ g[1] = Round(f, more, Flushed)
      /\ \A r \in 1..n : g[r + 1] = Round(f, more, g[r].cache)
  BY RoundsUnroll
<1>3. /\ h \in [1..MaxRounds -> Point] /\ h[1] = Round(f, fewer, Flushed)
      /\ \A r \in 1..n : h[r + 1] = Round(f, fewer, h[r].cache)
  BY RoundsUnroll
<1> HIDE DEF g, h
<1>4. 1 \in S
  <2>1. Flushed \in Cache /\ Below(Flushed, Flushed)
    BY DEF Flushed, Cache, Below
  <2>2. /\ Below(Round(f, more, Flushed).cache, Round(f, fewer, Flushed).cache)
        /\ Round(f, fewer, Flushed).ok => Round(f, more, Flushed).ok
    BY <2>1, RoundMonotone
  <2> QED BY <1>1, <1>2, <1>3, <2>2
<1>5. ASSUME NEW k \in 1..n, k \in S PROVE k + 1 \in S
  <2>1. k \in 1..MaxRounds /\ k + 1 \in 1..n + 1
    BY <1>1
  <2>2. /\ g[k].cache \in Cache /\ h[k].cache \in Cache
        /\ Below(g[k].cache, h[k].cache)
    BY <1>2, <1>3, <1>5, <2>1 DEF Point
  <2>3. /\ Below(Round(f, more, g[k].cache).cache, Round(f, fewer, h[k].cache).cache)
        /\ Round(f, fewer, h[k].cache).ok => Round(f, more, g[k].cache).ok
    BY <2>2, RoundMonotone
  <2> QED BY <1>2, <1>3, <2>1, <2>3
<1>6. 1..n + 1 \subseteq S
  <2> HIDE DEF S, n
  <2> QED BY <1>1, <1>4, <1>5, PlaceInduction
<1>7. \A r \in 1..MaxRounds : h[r].ok
  BY AcceptsIs DEF h
<1>8. \A r \in 1..MaxRounds : g[r].ok
  BY <1>1, <1>6, <1>7
<1> QED BY <1>8, AcceptsIs DEF g

-----------------------------------------------------------------------------
(* A round comes to rest: what it makes of a cache is, for each of the three   *)
(* sets, a fixed part and what it lets through, and only what is stale also    *)
(* depends on what was resident.                                             *)

Passing == [dirtied : SUBSET Buffer, keepsDirty : SUBSET Buffer,
            brought : SUBSET Buffer, keepsResident : SUBSET Buffer,
            overwrites : SUBSET Buffer, spoils : SUBSET Buffer, keepsStale : SUBSET Buffer]

Passed(m, c) ==
    [dirty |-> m.dirtied \cup (c.dirty \cap m.keepsDirty),
     resident |-> m.brought \cup (c.resident \cap m.keepsResident),
     stale |-> m.overwrites \cup (c.resident \cap m.spoils) \cup (c.stale \cap m.keepsStale)]

LEMMA PassedType ==
    ASSUME NEW m \in Passing, NEW c \in Cache PROVE Passed(m, c) \in Cache
  BY DEF Passing, Passed, Cache

LEMMA CacheEqual ==
    ASSUME NEW c \in Cache, NEW d \in Cache,
           c.dirty = d.dirty, c.resident = d.resident, c.stale = d.stale
    PROVE  c = d
  BY DEF Cache

\* Each operation on the cache composes with such a part.
LEMMA FlushedPasses == \E m \in Passing : \A c \in Cache : Flushed = Passed(m, c)
<1> DEFINE m == [dirtied |-> {}, keepsDirty |-> {}, brought |-> {}, keepsResident |-> {},
                 overwrites |-> {}, spoils |-> {}, keepsStale |-> {}]
<1>1. m \in Passing
  BY DEF Passing
<1>2. \A c \in Cache : Flushed = Passed(m, c)
  BY DEF Flushed, Passed
<1> QED BY <1>1, <1>2

LEMMA AllPasses == \E m \in Passing : \A c \in Cache : c = Passed(m, c)
<1> DEFINE m == [dirtied |-> {}, keepsDirty |-> Buffer, brought |-> {}, keepsResident |-> Buffer,
                 overwrites |-> {}, spoils |-> {}, keepsStale |-> Buffer]
<1>1. m \in Passing
  BY DEF Passing
<1>2. ASSUME NEW c \in Cache PROVE c = Passed(m, c)
  <2>1. Passed(m, c) \in Cache
    BY <1>1, PassedType
  <2>2. /\ Passed(m, c).dirty = {} \cup (c.dirty \cap Buffer)
        /\ Passed(m, c).resident = {} \cup (c.resident \cap Buffer)
        /\ Passed(m, c).stale = {} \cup (c.resident \cap {}) \cup (c.stale \cap Buffer)
    BY DEF Passed
  <2>3. c.dirty \subseteq Buffer /\ c.resident \subseteq Buffer /\ c.stale \subseteq Buffer
    BY DEF Cache
  <2>4. c.dirty = Passed(m, c).dirty /\ c.resident = Passed(m, c).resident /\ c.stale = Passed(m, c).stale
    BY <2>2, <2>3
  <2> QED BY <2>1, <2>4, CacheEqual
<1> QED BY <1>1, <1>2

LEMMA ReadPasses ==
    ASSUME NEW m \in Passing, NEW bs \in SUBSET Buffer
    PROVE  \E p \in Passing : \A c \in Cache : Read(Passed(m, c), bs) = Passed(p, c)
<1> DEFINE p == [m EXCEPT !.brought = m.brought \cup bs]
<1>1. p \in Passing
  BY DEF Passing
<1>2. ASSUME NEW c \in Cache PROVE Read(Passed(m, c), bs) = Passed(p, c)
  <2>1. Read(Passed(m, c), bs) \in Cache /\ Passed(p, c) \in Cache
    BY <1>1, PassedType, CacheOperations
  <2>2. /\ Read(Passed(m, c), bs).dirty = Passed(m, c).dirty
        /\ Read(Passed(m, c), bs).resident = Passed(m, c).resident \cup bs
        /\ Read(Passed(m, c), bs).stale = Passed(m, c).stale
    BY PassedType DEF Read, Cache
  <2>3. /\ Passed(p, c).dirty = Passed(m, c).dirty
        /\ Passed(p, c).resident = Passed(m, c).resident \cup bs
        /\ Passed(p, c).stale = Passed(m, c).stale
    BY DEF Passed, Passing
  <2> QED BY <2>1, <2>2, <2>3, CacheEqual
<1> QED BY <1>1, <1>2

LEMMA HostWritePasses ==
    ASSUME NEW m \in Passing, NEW bs \in SUBSET Buffer
    PROVE  \E p \in Passing : \A c \in Cache : HostWrite(Passed(m, c), bs) = Passed(p, c)
<1> DEFINE p == [dirtied |-> m.dirtied \cup bs, keepsDirty |-> m.keepsDirty,
                 brought |-> m.brought \cup bs, keepsResident |-> m.keepsResident,
                 overwrites |-> m.overwrites \ bs, spoils |-> m.spoils \ bs,
                 keepsStale |-> m.keepsStale \ bs]
<1>1. p \in Passing
  BY DEF Passing
<1>2. ASSUME NEW c \in Cache PROVE HostWrite(Passed(m, c), bs) = Passed(p, c)
  <2>1. HostWrite(Passed(m, c), bs) \in Cache /\ Passed(p, c) \in Cache
    BY <1>1, PassedType, CacheOperations
  <2>2. /\ HostWrite(Passed(m, c), bs).dirty = Passed(m, c).dirty \cup bs
        /\ HostWrite(Passed(m, c), bs).resident = Passed(m, c).resident \cup bs
        /\ HostWrite(Passed(m, c), bs).stale = Passed(m, c).stale \ bs
    BY DEF HostWrite
  <2>3. /\ Passed(p, c).dirty = Passed(m, c).dirty \cup bs
        /\ Passed(p, c).resident = Passed(m, c).resident \cup bs
        /\ Passed(p, c).stale = Passed(m, c).stale \ bs
    BY DEF Passed
  <2> QED BY <2>1, <2>2, <2>3, CacheEqual
<1> QED BY <1>1, <1>2

LEMMA AcceleratorWritePasses ==
    ASSUME NEW m \in Passing, NEW bs \in SUBSET Buffer
    PROVE  \E p \in Passing : \A c \in Cache : AcceleratorWrite(Passed(m, c), bs) = Passed(p, c)
<1> DEFINE p == [dirtied |-> m.dirtied \ bs, keepsDirty |-> m.keepsDirty \ bs,
                 brought |-> m.brought, keepsResident |-> m.keepsResident,
                 overwrites |-> m.overwrites \cup (bs \cap m.brought),
                 spoils |-> m.spoils \cup (bs \cap m.keepsResident),
                 keepsStale |-> m.keepsStale]
<1>1. p \in Passing
  BY DEF Passing
<1>2. ASSUME NEW c \in Cache PROVE AcceleratorWrite(Passed(m, c), bs) = Passed(p, c)
  <2>1. AcceleratorWrite(Passed(m, c), bs) \in Cache /\ Passed(p, c) \in Cache
    BY <1>1, PassedType, CacheOperations
  <2>2. /\ AcceleratorWrite(Passed(m, c), bs).dirty = Passed(m, c).dirty \ bs
        /\ AcceleratorWrite(Passed(m, c), bs).resident = Passed(m, c).resident
        /\ AcceleratorWrite(Passed(m, c), bs).stale
             = Passed(m, c).stale \cup (bs \cap Passed(m, c).resident)
    BY PassedType DEF AcceleratorWrite, Cache
  <2>3. /\ Passed(p, c).dirty = Passed(m, c).dirty \ bs
        /\ Passed(p, c).resident = Passed(m, c).resident
        /\ Passed(p, c).stale = Passed(m, c).stale \cup (bs \cap Passed(m, c).resident)
    BY DEF Passed
  <2> QED BY <2>1, <2>2, <2>3, CacheEqual
<1> QED BY <1>1, <1>2

\* So does a step, and a round is nothing but steps.
LEMMA StepPasses ==
    ASSUME NEW m \in Passing, NEW step \in StepType, NEW flush \in [Sides -> BOOLEAN]
    PROVE  \E p \in Passing : \A c \in Cache : Left(step, flush, Passed(m, c)) = Passed(p, c)
<1>1. /\ step.accelerator \in BOOLEAN
      /\ step.reads \in SUBSET Buffer /\ step.writes \in SUBSET Buffer
  BY DEF StepType
<1>2. PICK found \in Passing : \A c \in Cache : Found(step, flush, Passed(m, c)) = Passed(found, c)
  <2>1. CASE step.accelerator /\ flush["before"]
    <3>1. \A c : Found(step, flush, c) = Flushed
      BY <2>1 DEF Found, FlushWhen
    <3> QED BY <3>1, FlushedPasses
  <2>2. CASE ~(step.accelerator /\ flush["before"])
    <3>1. \A c : Found(step, flush, c) = c
      BY <2>2 DEF Found, FlushWhen
    <3> QED BY <3>1
  <2> QED BY <2>1, <2>2
<1>3. PICK read \in Passing : \A c \in Cache : Read(Passed(found, c), step.reads) = Passed(read, c)
  BY <1>1, ReadPasses
<1>4. CASE ~step.accelerator
  <2>1. PICK p \in Passing : \A c \in Cache : HostWrite(Passed(read, c), step.writes) = Passed(p, c)
    BY <1>1, HostWritePasses
  <2>2. \A c : Left(step, flush, c) = HostWrite(Read(Found(step, flush, c), step.reads), step.writes)
    BY <1>4 DEF Left
  <2> QED BY <1>2, <1>3, <2>1, <2>2
<1>5. CASE step.accelerator
  <2>1. PICK w \in Passing : \A c \in Cache : AcceleratorWrite(Passed(read, c), step.writes) = Passed(w, c)
    BY <1>1, AcceleratorWritePasses
  <2>2. \A c : Left(step, flush, c)
                 = FlushWhen(flush["after"],
                       AcceleratorWrite(Read(Found(step, flush, c), step.reads), step.writes))
    BY <1>5 DEF Left
  <2>3. \A c \in Cache : Left(step, flush, Passed(m, c)) = FlushWhen(flush["after"], Passed(w, c))
    BY <1>2, <1>3, <2>1, <2>2
  <2>4. CASE flush["after"]
    <3>1. \A c : FlushWhen(flush["after"], c) = Flushed
      BY <2>4 DEF FlushWhen
    <3> QED BY <2>3, <3>1, FlushedPasses
  <2>5. CASE ~flush["after"]
    <3>1. \A c : FlushWhen(flush["after"], c) = c
      BY <2>5 DEF FlushWhen
    <3> QED BY <2>3, <3>1
  <2> QED BY <2>4, <2>5
<1> QED BY <1>1, <1>4, <1>5

LEMMA RoundPasses ==
    ASSUME NEW f \in Functions, NEW placement \in Placements(f)
    PROVE  \E m \in Passing : \A c \in Cache : Round(f, placement, c).cache = Passed(m, c)
<1> DEFINE n == Len(f.ops)
           At(c, i) == RoundPlaces(f, placement, c)[i].cache
           S == {i \in 1..n + 1 : \E m \in Passing : \A c \in Cache : At(c, i) = Passed(m, c)}
<1>1. n \in Nat /\ f.escaping \in SUBSET Buffer
  BY BlockType
<1>2. 1 \in S
  <2>1. PICK all \in Passing : \A c \in Cache : c = Passed(all, c)
    BY AllPasses
  <2>2. PICK m \in Passing : \A c \in Cache : HostWrite(Passed(all, c), f.escaping) = Passed(m, c)
    BY <1>1, HostWritePasses
  <2>3. ASSUME NEW c \in Cache PROVE At(c, 1) = HostWrite(c, f.escaping)
    <3>1. Walks(RoundPlaces(f, placement, c), f, placement, c)
      BY RoundUnrolls
    <3>2. RoundPlaces(f, placement, c)[1] = Enter(f, c)
      BY <3>1 DEF Walks
    <3> QED BY <3>2 DEF Enter
  <2> HIDE DEF At
  <2>4. \A c \in Cache : At(c, 1) = Passed(m, c)
    BY <2>1, <2>2, <2>3
  <2> QED BY <1>1, <2>4
<1>3. ASSUME NEW k \in 1..n, k \in S PROVE k + 1 \in S
  <2>1. PICK m \in Passing : \A c \in Cache : At(c, k) = Passed(m, c)
    BY <1>3
  <2>2. Describe(f.ops[k]) \in StepType /\ placement[k] \in [Sides -> BOOLEAN]
    BY BlockType DEF Placements
  <2>3. PICK p \in Passing : \A c \in Cache :
            Left(Describe(f.ops[k]), placement[k], Passed(m, c)) = Passed(p, c)
    BY <2>2, StepPasses
  <2>4. ASSUME NEW c \in Cache
        PROVE  At(c, k + 1) = Left(Describe(f.ops[k]), placement[k], At(c, k))
    BY RoundUnrolls, PastOpParts DEF Walks
  <2> HIDE DEF At
  <2>5. \A c \in Cache : At(c, k + 1) = Passed(p, c)
    BY <2>1, <2>3, <2>4
  <2> QED BY <1>1, <2>5
<1>4. n + 1 \in S
  <2>1. 1..n + 1 \subseteq S
    <3> HIDE DEF S, n
    <3> QED BY <1>1, <1>2, <1>3, PlaceInduction
  <2>2. n + 1 \in 1..n + 1
    BY <1>1
  <2> HIDE DEF S
  <2> QED BY <2>1, <2>2
<1>5. PICK m \in Passing : \A c \in Cache : At(c, n + 1) = Passed(m, c)
  BY <1>4
<1>6. PICK p \in Passing : \A c \in Cache : Read(Passed(m, c), f.escaping) = Passed(p, c)
  BY <1>1, ReadPasses
<1>7. \A c \in Cache : Round(f, placement, c).cache = Read(At(c, n + 1), f.escaping)
  BY RoundIs, LeaveParts
<1> HIDE DEF At
<1>8. \A c \in Cache : Round(f, placement, c).cache = Passed(p, c)
  BY <1>5, <1>6, <1>7
<1> QED BY <1>8

\* From a cold cache the third round leaves what the second left.
LEMMA RoundsSettle ==
    ASSUME NEW f \in Functions, NEW placement \in Placements(f)
    PROVE  LET c1 == Round(f, placement, Flushed).cache
               c2 == Round(f, placement, c1).cache
           IN  Round(f, placement, c2).cache = c2
<1> DEFINE c1 == Round(f, placement, Flushed).cache
           c2 == Round(f, placement, c1).cache
           c3 == Round(f, placement, c2).cache
<1>1. PICK m \in Passing : \A c \in Cache : Round(f, placement, c).cache = Passed(m, c)
  BY RoundPasses
<1>2. Flushed \in Cache
  BY DEF Flushed, Cache
<1>3. c1 = Passed(m, Flushed) /\ c1 \in Cache
  BY <1>1, <1>2, PassedType
<1> HIDE DEF c1
<1>4. c2 = Passed(m, c1) /\ c2 \in Cache
  BY <1>1, <1>3, PassedType
<1> HIDE DEF c2
<1>5. c3 = Passed(m, c2) /\ c3 \in Cache
  BY <1>1, <1>4, PassedType
<1> HIDE DEF c3
<1>6. c1.dirty = m.dirtied /\ c1.resident = m.brought /\ c1.stale = m.overwrites
  BY <1>3 DEF Passed, Flushed
<1>7. /\ c2.dirty = m.dirtied /\ c2.resident = m.brought
      /\ c2.stale = m.overwrites \cup (m.brought \cap m.spoils) \cup (m.overwrites \cap m.keepsStale)
  BY <1>4, <1>6 DEF Passed
<1>8. /\ c3.dirty = m.dirtied /\ c3.resident = m.brought
      /\ c3.stale = m.overwrites \cup (m.brought \cap m.spoils) \cup (c2.stale \cap m.keepsStale)
  BY <1>5, <1>7 DEF Passed
<1>9. c3.stale = c2.stale
  BY <1>7, <1>8
<1>10. c3 = c2
  BY <1>4, <1>5, <1>7, <1>8, <1>9, CacheEqual
<1> QED BY <1>10 DEF c1, c2, c3

-----------------------------------------------------------------------------
(* What the simulation has gone through is what Accepts asks for.              *)

RoundBegins(f, placement, r) == IF r = 1 THEN Flushed ELSE RoundsRun(f, placement)[r - 1].cache

LEMMA BeginsAre ==
    ASSUME NEW f \in Functions, NEW placement \in Placements(f), NEW r \in 1..MaxRounds
    PROVE  /\ RoundBegins(f, placement, r) \in Cache
           /\ RoundsRun(f, placement)[r] = Round(f, placement, RoundBegins(f, placement, r))
           /\ RoundBegins(f, placement, r + 1) = Round(f, placement, RoundBegins(f, placement, r)).cache
<1>1. MaxRounds \in Nat
  BY RoundAssumption
<1>2. Flushed \in Cache
  BY DEF Flushed, Cache
<1>3. CASE r = 1
  <2>1. RoundBegins(f, placement, r) = Flushed
    BY <1>3 DEF RoundBegins
  <2>2. r + 1 # 1 /\ (r + 1) - 1 = r
    BY <1>1
  <2> QED BY <1>2, <1>3, <2>1, <2>2, RoundsUnroll DEF RoundBegins
<1>4. CASE r # 1
  <2>1. r - 1 \in 1..MaxRounds - 1 /\ r - 1 \in 1..MaxRounds /\ (r - 1) + 1 = r
        /\ r + 1 # 1 /\ (r + 1) - 1 = r
    BY <1>1, <1>4
  <2>2. RoundBegins(f, placement, r) = RoundsRun(f, placement)[r - 1].cache
    BY <1>4 DEF RoundBegins
  <2>3. RoundsRun(f, placement)[r - 1] \in Point
    BY <2>1, RoundsUnroll
  <2>4. RoundsRun(f, placement)[r] = Round(f, placement, RoundsRun(f, placement)[r - 1].cache)
    BY <2>1, RoundsUnroll
  <2>5. RoundBegins(f, placement, r + 1) = RoundsRun(f, placement)[r].cache
    BY <2>1 DEF RoundBegins
  <2> QED BY <2>2, <2>3, <2>4, <2>5 DEF Point
<1> QED BY <1>3, <1>4

\* The fourth round would begin as the third did.
LEMMA FourthBegins ==
    ASSUME MaxRounds >= 4, NEW f \in Functions, NEW placement \in Placements(f)
    PROVE  RoundBegins(f, placement, 4) = RoundBegins(f, placement, 3)
<1>1. 1 \in 1..MaxRounds /\ 2 \in 1..MaxRounds /\ 3 \in 1..MaxRounds
  BY RoundAssumption
<1>2. RoundBegins(f, placement, 1) = Flushed
  BY DEF RoundBegins
<1>3. /\ RoundBegins(f, placement, 2) = Round(f, placement, Flushed).cache
      /\ RoundBegins(f, placement, 3) = Round(f, placement, RoundBegins(f, placement, 2)).cache
      /\ RoundBegins(f, placement, 4) = Round(f, placement, RoundBegins(f, placement, 3)).cache
  <2>1. 1 + 1 = 2 /\ 2 + 1 = 3 /\ 3 + 1 = 4
    OBVIOUS
  <2> QED BY <1>1, <1>2, <2>1, BeginsAre
<1> QED BY <1>3, RoundsSettle

LEMMA FailedRound ==
    ASSUME NEW f \in Functions, NEW placement \in Placements(f), NEW r \in 1..MaxRounds,
           ~Round(f, placement, RoundBegins(f, placement, r)).ok
    PROVE  ~Accepts(f, placement)
  BY AcceptsIs, BeginsAre

\* A read refused in a round fails it, wherever it is.
LEMMA RefusalLasts ==
    ASSUME NEW f \in Functions, NEW placement \in Placements(f), NEW start \in Cache,
           NEW i \in 1..Len(f.ops),
           Misread(Describe(f.ops[i]),
                   Found(Describe(f.ops[i]), placement[i], RoundPlaces(f, placement, start)[i].cache))
    PROVE  ~Round(f, placement, start).ok
<1> DEFINE n == Len(f.ops)
           g == RoundPlaces(f, placement, start)
           S == {k \in 1..n + 1 : k >= i + 1 => ~g[k].ok}
<1>1. n \in Nat
  BY BlockType
<1>2. Walks(g, f, placement, start)
  BY RoundUnrolls
<1> HIDE DEF g
<1>3. ~g[i + 1].ok
  <2>1. g[i + 1] = PastOp(f.ops[i], placement[i], g[i])
    BY <1>2 DEF Walks
  <2> QED BY <2>1, PastOpParts DEF g
<1>4. 1 \in S
  BY <1>1
<1>5. ASSUME NEW k \in 1..n, k \in S PROVE k + 1 \in S
  <2>1. k + 1 \in 1..n + 1
    BY <1>1
  <2>2. CASE k >= i + 1
    <3>1. ~g[k].ok
      BY <1>5, <2>2
    <3>2. g[k + 1] = PastOp(f.ops[k], placement[k], g[k])
      BY <1>2 DEF Walks
    <3>3. ~g[k + 1].ok
      BY <3>1, <3>2, PastOpParts
    <3> QED BY <2>1, <3>3
  <2>3. CASE k = i
    BY <1>3, <2>1, <2>3
  <2>4. CASE k < i
    BY <1>1, <2>1, <2>4
  <2> QED BY <1>1, <2>2, <2>3, <2>4
<1>6. ~g[n + 1].ok
  <2>1. 1..n + 1 \subseteq S
    <3> HIDE DEF S, n
    <3> QED BY <1>1, <1>4, <1>5, PlaceInduction
  <2>2. n + 1 \in 1..n + 1 /\ n + 1 >= i + 1
    BY <1>1
  <2>3. n + 1 \in S
    <3> HIDE DEF S
    <3> QED BY <2>1, <2>2
  <2> QED BY <2>2, <2>3
<1> QED BY <1>6, RoundIs, LeaveParts DEF g

\* The round the simulation is in, and the caches it has seen rounds begin with.
SimulationInv ==
    mode = "simulate" =>
        \E r \in 1..4 :
            LET begins == RoundBegins(fn, kept, r)
            IN  IF pos = 0
                THEN /\ cache = begins
                     /\ Seen = {RoundBegins(fn, kept, j) : j \in 1..r - 1}
                     /\ IsFiniteSet(Seen) /\ Cardinality(Seen) = r - 1
                ELSE /\ r <= 3
                     /\ cache = RoundPlaces(fn, kept, begins)[pos].cache
                     /\ Seen = {RoundBegins(fn, kept, j) : j \in 1..r}
                     /\ IsFiniteSet(Seen) /\ Cardinality(Seen) = r

LEMMA SeenGrows ==
    ASSUME path' = path \cup {<<pos, cache>>}
    PROVE  Seen' = IF pos = 0 THEN Seen \cup {cache} ELSE Seen
<1> DEFINE here == <<pos, cache>>
<1>1. here[1] = pos /\ here[2] = cache
  OBVIOUS
<1>2. path' = path \cup {here}
  OBVIOUS
<1> HIDE DEF here
<1>3. CASE pos = 0
  BY <1>1, <1>2, <1>3 DEF Seen
<1>4. CASE pos # 0
  BY <1>1, <1>2, <1>4 DEF Seen
<1> QED BY <1>3, <1>4

LEMMA SimulationKeeps ==
    ASSUME MaxRounds >= 4, CertInv, SimulationInv, [PassNext]_passVars
    PROVE  SimulationInv'
<1> USE DEF CertInv
<1>1. /\ fn \in Functions /\ Size = Len(fn.ops) /\ Size \in Nat
      /\ kept \in Placements(fn) /\ fn.escaping \in SUBSET Buffer /\ MaxRounds \in Nat
  BY FunctionType, RoundAssumption DEF PassTypeOK, Placements, Size
<1>2. ASSUME NEW holds, Verdict(holds) PROVE SimulationInv'
  BY <1>2 DEF Verdict, SimulationInv
<1>3. CASE SkipFlush \/ FinishPass
  <2>1. mode' \in {"choose", "done"}
    BY <1>3 DEF SkipFlush, FinishPass
  <2> QED BY <2>1 DEF SimulationInv
<1>4. CASE TryWithout
  <2>1. /\ mode' = "simulate" /\ pos' = 0 /\ cache' = Flushed /\ path' = {}
    BY <1>4 DEF TryWithout
  <2>2. Seen' = {}
    BY <2>1 DEF Seen
  <2>3. IsFiniteSet({}) /\ Cardinality({}) = 0
    BY FS_EmptySet
  <2>4. cache' = RoundBegins(fn', kept', 1)
    BY <2>1 DEF RoundBegins
  <2>5. {RoundBegins(fn', kept', j) : j \in 1..1 - 1} = {}
    OBVIOUS
  <2> QED BY <2>1, <2>2, <2>3, <2>4, <2>5 DEF SimulationInv
<1>5. CASE OutOfRounds \/ CloseCycle
  BY <1>2, <1>5 DEF OutOfRounds, CloseCycle
<1>6. CASE EnterRound
  <2>1. mode = "simulate" /\ pos = 0 /\ cache \notin Seen /\ Proceed(1, HostWrite(cache, fn.escaping))
    BY <1>6 DEF EnterRound
  <2>2. PICK r \in 1..4 :
            /\ cache = RoundBegins(fn, kept, r)
            /\ Seen = {RoundBegins(fn, kept, j) : j \in 1..r - 1}
            /\ IsFiniteSet(Seen) /\ Cardinality(Seen) = r - 1
    BY <2>1 DEF SimulationInv
  <2>3. r <= 3
    <3> SUFFICES ASSUME r = 4 PROVE FALSE
      OBVIOUS
    <3>1. 3 \in 1..r - 1
      OBVIOUS
    <3>2. RoundBegins(fn, kept, 3) \in Seen
      BY <2>2, <3>1
    <3> QED BY <1>1, <2>1, <2>2, <3>2, FourthBegins
  <2>4. /\ pos' = 1 /\ cache' = HostWrite(cache, fn.escaping) /\ fn' = fn /\ kept' = kept
        /\ path' = path \cup {<<pos, cache>>} /\ mode' = mode
    BY <2>1 DEF Proceed
  <2>5. Seen' = Seen \cup {cache}
    BY <2>1, <2>4, SeenGrows
  <2>6. IsFiniteSet(Seen') /\ Cardinality(Seen') = r
    <3>1. Cardinality(Seen \cup {cache}) = Cardinality(Seen) + 1 /\ IsFiniteSet(Seen \cup {cache})
      BY <2>1, <2>2, FS_AddElement
    <3> QED BY <2>2, <2>5, <3>1
  <2>7. Seen' = {RoundBegins(fn, kept, j) : j \in 1..r}
    <3>1. 1..r = (1..r - 1) \cup {r}
      OBVIOUS
    <3> QED BY <2>2, <2>5, <3>1
  <2>8. cache' = RoundPlaces(fn, kept, RoundBegins(fn, kept, r))[1].cache
    <3>1. RoundBegins(fn, kept, r) \in Cache
      BY <1>1, <2>3, BeginsAre
    <3>2. Walks(RoundPlaces(fn, kept, RoundBegins(fn, kept, r)), fn, kept, RoundBegins(fn, kept, r))
      BY <1>1, <3>1, RoundUnrolls
    <3> QED BY <2>2, <2>4, <3>2 DEF Walks, Enter
  <2> QED BY <2>3, <2>4, <2>6, <2>7, <2>8 DEF SimulationInv
<1>7. CASE SimulateOp
  <2> DEFINE step == StepAt(pos)
  <2>1. mode = "simulate" /\ pos \in 1..Size /\ pos # 0
    BY <1>1, <1>7 DEF SimulateOp
  <2>2. CASE Verdict(FALSE)
    BY <1>2, <2>2
  <2>3. CASE Proceed(pos + 1, Left(step, kept[pos], cache))
    <3>1. PICK r \in 1..4 :
              /\ r <= 3
              /\ cache = RoundPlaces(fn, kept, RoundBegins(fn, kept, r))[pos].cache
              /\ Seen = {RoundBegins(fn, kept, j) : j \in 1..r}
              /\ IsFiniteSet(Seen) /\ Cardinality(Seen) = r
      BY <2>1 DEF SimulationInv
    <3>2. /\ pos' = pos + 1 /\ cache' = Left(step, kept[pos], cache) /\ fn' = fn /\ kept' = kept
          /\ path' = path \cup {<<pos, cache>>} /\ mode' = mode
      BY <2>3 DEF Proceed
    <3>3. Seen' = Seen
      BY <2>1, <3>2, SeenGrows
    <3>4. RoundBegins(fn, kept, r) \in Cache
      BY <1>1, <3>1, BeginsAre
    <3>5. Walks(RoundPlaces(fn, kept, RoundBegins(fn, kept, r)), fn, kept, RoundBegins(fn, kept, r))
      BY <1>1, <3>4, RoundUnrolls
    <3>6. cache' = RoundPlaces(fn, kept, RoundBegins(fn, kept, r))[pos + 1].cache
      <4> DEFINE g == RoundPlaces(fn, kept, RoundBegins(fn, kept, r))
      <4>1. g[pos + 1] = PastOp(fn.ops[pos], kept[pos], g[pos])
        BY <1>1, <2>1, <3>5 DEF Walks
      <4>2. g[pos + 1].cache = Left(Describe(fn.ops[pos]), kept[pos], g[pos].cache)
        <5> HIDE DEF g
        <5> QED BY <4>1, PastOpParts
      <4> QED BY <3>1, <3>2, <4>2 DEF StepAt
    <3>7. pos' # 0
      BY <1>1, <2>1, <3>2
    <3> QED BY <3>1, <3>2, <3>3, <3>6, <3>7 DEF SimulationInv
  <2> QED BY <1>7, <2>2, <2>3 DEF SimulateOp
<1>8. CASE LeaveRound
  <2>1. mode = "simulate" /\ pos = Size + 1 /\ pos # 0
    BY <1>1, <1>8 DEF LeaveRound
  <2>2. CASE Verdict(FALSE)
    BY <1>2, <2>2
  <2>3. CASE Proceed(0, Read(cache, fn.escaping))
    <3>1. PICK r \in 1..4 :
              /\ r <= 3
              /\ cache = RoundPlaces(fn, kept, RoundBegins(fn, kept, r))[pos].cache
              /\ Seen = {RoundBegins(fn, kept, j) : j \in 1..r}
              /\ IsFiniteSet(Seen) /\ Cardinality(Seen) = r
      BY <2>1 DEF SimulationInv
    <3>2. /\ pos' = 0 /\ cache' = Read(cache, fn.escaping) /\ fn' = fn /\ kept' = kept
          /\ path' = path \cup {<<pos, cache>>} /\ mode' = mode
      BY <2>3 DEF Proceed
    <3>3. Seen' = Seen
      BY <2>1, <3>2, SeenGrows
    <3>4. cache' = RoundBegins(fn, kept, r + 1)
      <4>1. RoundBegins(fn, kept, r + 1) = Round(fn, kept, RoundBegins(fn, kept, r)).cache
        BY <1>1, <3>1, BeginsAre
      <4> QED BY <1>1, <2>1, <3>1, <3>2, <4>1, RoundIs, LeaveParts
    <3>5. r + 1 \in 1..4 /\ (r + 1) - 1 = r
      BY <3>1
    <3>6. \E q \in 1..4 :
              /\ cache' = RoundBegins(fn, kept, q)
              /\ Seen' = {RoundBegins(fn, kept, j) : j \in 1..q - 1}
              /\ IsFiniteSet(Seen') /\ Cardinality(Seen') = q - 1
      BY <3>1, <3>3, <3>4, <3>5
    <3> QED BY <3>2, <3>6 DEF SimulationInv
  <2> QED BY <1>8, <2>2, <2>3 DEF LeaveRound
<1>9. CASE UNCHANGED passVars
  <2>1. UNCHANGED <<fn, kept, mode, pos, cache, path>> /\ Seen' = Seen
    BY <1>9 DEF passVars, Seen
  <2> QED BY <2>1 DEF SimulationInv
<1> QED BY <1>3, <1>4, <1>5, <1>6, <1>7, <1>8, <1>9 DEF PassNext

\* No simulation is given up: it refuses a read, or closes its cycle, within
\* four rounds.
NoRoundsSpent == ~(mode = "simulate" /\ pos = 0 /\ RoundsSpent)

LEMMA RoundsAreLeft ==
    ASSUME MaxRounds >= 4, SimulationInv PROVE NoRoundsSpent
<1> SUFFICES ASSUME mode = "simulate", pos = 0, RoundsSpent PROVE FALSE
  BY DEF NoRoundsSpent
<1>1. PICK r \in 1..4 : Cardinality(Seen) = r - 1
  BY DEF SimulationInv
<1> QED BY <1>1, RoundAssumption DEF RoundsSpent
-----------------------------------------------------------------------------
(* The flushes the pass leaves are needed. *)

\* A flush whose trial is over.
Considered(i, s) == i < trial[1] \/ (i = trial[1] /\ trial[2] = "after" /\ s = "before")

\* The placement a trial is about to improve on.
Standing == IF mode = "simulate" THEN Restored ELSE kept

Needed(placement, i, s) ==
    MayDrop(<<i, s>>) /\ placement[i][s] =>
        ~Accepts(fn, [placement EXCEPT ![i][s] = FALSE])

NeededInv ==
    /\ \A i \in 1..Size, s \in Sides : Considered(i, s) => Needed(Standing, i, s)
    /\ mode = "simulate" => ~kept[trial[1]][trial[2]]
    /\ mode = "done" /\ Modelled(fn) => trial[1] = Size + 1

\* With a flush fewer, a needed flush is needed still.
LEMMA StillNeeded ==
    ASSUME NEW f \in Functions, NEW more \in Placements(f), NEW fewer \in Placements(f),
           NoMore(fewer, more, 1..Len(f.ops)),
           NEW i \in 1..Len(f.ops), NEW s \in Sides,
           ~Accepts(f, [more EXCEPT ![i][s] = FALSE])
    PROVE  ~Accepts(f, [fewer EXCEPT ![i][s] = FALSE])
<1> DEFINE m == [more EXCEPT ![i][s] = FALSE]
           l == [fewer EXCEPT ![i][s] = FALSE]
<1>1. m \in Placements(f) /\ l \in Placements(f)
  BY DEF Placements
<1>2. NoMore(l, m, 1..Len(f.ops))
  <2> SUFFICES ASSUME NEW k \in 1..Len(f.ops), NEW t \in Sides, l[k][t] PROVE m[k][t]
    BY DEF NoMore
  <2>1. fewer[k][t] => more[k][t]
    BY DEF NoMore
  <2>2. CASE k = i /\ t = s
    BY <2>2 DEF Placements
  <2>3. CASE ~(k = i /\ t = s)
    BY <2>1, <2>3 DEF Placements
  <2> QED BY <2>2, <2>3
<1> HIDE DEF m, l
<1>3. ~Accepts(f, m)
  BY DEF m
<1>4. ~Accepts(f, l)
  BY <1>1, <1>2, <1>3, AcceptsMonotone
<1> QED BY <1>4 DEF l

\* After a verdict the flush just tried is the only one newly considered.
LEMMA NewlyConsidered ==
    ASSUME CertInv, trial[1] \in 1..Size, UNCHANGED fn, trial' = NextTrial,
           NEW i \in 1..Size, NEW s \in Sides, Considered(i, s)'
    PROVE  Considered(i, s) \/ <<i, s>> = trial
<1>1. Size \in Nat /\ trial = <<trial[1], trial[2]>> /\ trial[1] \in Nat /\ trial[2] \in Sides
  BY FunctionType DEF CertInv, PassTypeOK
<1> QED BY <1>1 DEF Considered, NextTrial, Sides

\* A verdict is given on what the simulation of the placement is worth.
LEMMA VerdictKeepsNeeded ==
    ASSUME CertInv, NeededInv, mode = "simulate", NEW holds \in BOOLEAN, Verdict(holds),
           ~holds => ~Accepts(fn, kept)
    PROVE  NeededInv'
<1> USE DEF CertInv
<1>1. /\ fn \in Functions /\ Size = Len(fn.ops) /\ Size \in Nat
      /\ kept \in Placements(fn) /\ kept \in [1..Size -> [Sides -> BOOLEAN]]
  BY FunctionType DEF PassTypeOK, Placements, Size
<1>2. /\ trial = <<trial[1], trial[2]>> /\ trial[1] \in 1..Size /\ trial[2] \in Sides
  BY DEF PassTypeOK, TrialInBlock
<1>3. mode' = "choose" /\ fn' = fn /\ Size' = Size /\ trial' = NextTrial
  BY DEF Verdict, Size
<1>4. Standing = Restored /\ ~kept[trial[1]][trial[2]]
  BY DEF Standing, NeededInv
<1>5. Restored \in Placements(fn)
  BY <1>1, <1>2 DEF Restored, Placements
<1>6. NoMore(kept, Restored, 1..Len(fn.ops))
  BY <1>1, <1>2 DEF NoMore, Restored
<1>7. kept = [Restored EXCEPT ![trial[1]][trial[2]] = FALSE]
  <2> DEFINE back == [Restored EXCEPT ![trial[1]][trial[2]] = FALSE]
  <2>1. back \in Placements(fn)
    BY <1>2, <1>1, <1>5 DEF Placements
  <2>2. ASSUME NEW i \in 1..Size, NEW s \in Sides PROVE back[i][s] = kept[i][s]
    <3>1. CASE i = trial[1] /\ s = trial[2]
      <4>1. back[i][s] = FALSE
        BY <1>1, <1>2, <1>5, <3>1 DEF Placements
      <4> HIDE DEF back
      <4>2. kept[i][s] = FALSE
        BY <1>1, <1>4, <3>1
      <4> QED BY <4>1, <4>2
    <3>2. CASE ~(i = trial[1] /\ s = trial[2])
      BY <1>1, <1>2, <1>5, <3>2 DEF Placements, Restored
    <3> QED BY <3>1, <3>2
  <2> HIDE DEF back
  <2>3. back \in [1..Size -> [Sides -> BOOLEAN]]
    BY <1>1, <2>1 DEF Placements
  <2>4. \A i \in 1..Size : back[i] = kept[i]
    BY <1>1, <2>2, <2>3
  <2>5. back = kept
    BY <1>1, <2>3, <2>4
  <2> QED BY <2>5 DEF back
<1>8. ASSUME NEW i \in 1..Size, NEW s \in Sides, Considered(i, s)'
      PROVE  Needed(Standing, i, s)'
  <2>1. Considered(i, s) \/ <<i, s>> = trial
    BY <1>2, <1>3, <1>8, NewlyConsidered
  <2>2. CASE holds
    <3>1. Standing' = kept
      BY <1>3, <2>2 DEF Verdict, Standing
    <3>2. SUFFICES ASSUME MayDrop(<<i, s>>), kept[i][s]
                   PROVE  ~Accepts(fn, [kept EXCEPT ![i][s] = FALSE])
      BY <1>3, <3>1 DEF Needed, MayDrop, StepAt
    <3>3. <<i, s>> # trial
      BY <1>2, <1>4, <3>2
    <3>4. Restored[i][s]
      BY <1>1, <1>6, <3>2 DEF NoMore
    <3>5. ~Accepts(fn, [Restored EXCEPT ![i][s] = FALSE])
      BY <1>4, <2>1, <3>2, <3>3, <3>4 DEF NeededInv, Needed
    <3> QED BY <1>1, <1>5, <1>6, <3>5, StillNeeded
  <2>3. CASE ~holds
    <3>1. Standing' = Restored
      BY <1>3, <2>3 DEF Verdict, Standing, Restored
    <3>2. Needed(Standing, i, s)' = Needed(Restored, i, s)
      BY <1>3, <3>1 DEF Needed, MayDrop, StepAt
    <3>3. CASE Considered(i, s)
      BY <1>4, <3>2, <3>3 DEF NeededInv
    <3>4. CASE <<i, s>> = trial
      <4>1. i = trial[1] /\ s = trial[2]
        BY <1>2, <3>4
      <4> QED BY <1>7, <2>3, <3>2, <4>1 DEF Needed
    <3> QED BY <2>1, <3>3, <3>4
  <2> QED BY <2>2, <2>3
<1> QED BY <1>3, <1>8 DEF NeededInv

\* The simulation refuses a placement only where a round of Accepts misreads.
LEMMA RefusedRead ==
    ASSUME MaxRounds >= 4, CertInv, SimulationInv, mode = "simulate", pos \in 1..Size,
           Misread(StepAt(pos), Found(StepAt(pos), kept[pos], cache))
    PROVE  ~Accepts(fn, kept)
<1>1. /\ fn \in Functions /\ Size = Len(fn.ops) /\ Size \in Nat
      /\ kept \in Placements(fn) /\ MaxRounds \in Nat
  BY FunctionType, RoundAssumption DEF CertInv, PassTypeOK, Placements, Size
<1>2. PICK r \in 1..4 : /\ r <= 3
                        /\ cache = RoundPlaces(fn, kept, RoundBegins(fn, kept, r))[pos].cache
  BY <1>1 DEF SimulationInv
<1>3. r \in 1..MaxRounds
  BY <1>1, <1>2
<1>4. RoundBegins(fn, kept, r) \in Cache
  BY <1>1, <1>3, BeginsAre
<1>5. ~Round(fn, kept, RoundBegins(fn, kept, r)).ok
  BY <1>1, <1>2, <1>4, RefusalLasts DEF StepAt
<1> QED BY <1>1, <1>3, <1>5, FailedRound

LEMMA RefusedExit ==
    ASSUME MaxRounds >= 4, CertInv, SimulationInv, mode = "simulate", pos = Size + 1,
           cache.stale \cap fn.escaping # {}
    PROVE  ~Accepts(fn, kept)
<1>1. /\ fn \in Functions /\ Size = Len(fn.ops) /\ Size \in Nat
      /\ kept \in Placements(fn) /\ MaxRounds \in Nat
  BY FunctionType, RoundAssumption DEF CertInv, PassTypeOK, Placements, Size
<1>2. PICK r \in 1..4 : /\ r <= 3
                        /\ cache = RoundPlaces(fn, kept, RoundBegins(fn, kept, r))[pos].cache
  BY <1>1 DEF SimulationInv
<1>3. r \in 1..MaxRounds
  BY <1>1, <1>2
<1>4. ~Round(fn, kept, RoundBegins(fn, kept, r)).ok
  BY <1>1, <1>2, RoundIs, LeaveParts
<1> QED BY <1>1, <1>3, <1>4, FailedRound

LEMMA NeededKeeps ==
    ASSUME MaxRounds >= 4, CertInv, SimulationInv, NeededInv, [PassNext]_passVars
    PROVE  NeededInv'
<1> USE DEF CertInv
<1>1. Size \in Nat /\ trial = <<trial[1], trial[2]>> /\ trial[1] \in 1..Size + 1 /\ trial[2] \in Sides
  BY FunctionType DEF PassTypeOK
<1>2. CASE SkipFlush
  <2>1. /\ mode = "choose" /\ mode' = "choose" /\ fn' = fn /\ Size' = Size /\ kept' = kept
        /\ trial[1] \in 1..Size /\ trial' = NextTrial /\ ~MayDrop(trial)
    BY <1>1, <1>2 DEF SkipFlush, Size
  <2>2. Standing = kept /\ Standing' = kept
    BY <2>1 DEF Standing
  <2>3. ASSUME NEW i \in 1..Size, NEW s \in Sides, Considered(i, s)'
        PROVE  Needed(Standing, i, s)'
    <3>1. Considered(i, s) \/ <<i, s>> = trial
      BY <2>1, <2>3, NewlyConsidered
    <3>2. Needed(Standing, i, s)' = Needed(kept, i, s)
      BY <2>1, <2>2 DEF Needed, MayDrop, StepAt
    <3>3. CASE <<i, s>> = trial
      BY <2>1, <3>2, <3>3 DEF Needed
    <3> QED BY <2>2, <3>1, <3>2, <3>3 DEF NeededInv
  <2> QED BY <2>1, <2>3 DEF NeededInv
<1>3. CASE TryWithout
  <2>1. /\ mode = "choose" /\ mode' = "simulate" /\ fn' = fn /\ Size' = Size /\ trial' = trial
        /\ trial[1] \in 1..Size /\ kept' = [kept EXCEPT ![trial[1]][trial[2]] = FALSE]
    BY <1>1, <1>3 DEF TryWithout, Size
  <2>2. kept[trial[1]][trial[2]] = TRUE
    BY <1>1, <2>1 DEF UntriedAreKept, PassTypeOK
  <2>3. [kept' EXCEPT ![trial[1]][trial[2]] = TRUE] = kept
    BY <1>1, <2>1, <2>2 DEF PassTypeOK
  <2>4. Standing = kept /\ Standing' = kept
    BY <2>1, <2>3 DEF Standing, Restored
  <2>5. ~kept'[trial'[1]][trial'[2]]
    BY <1>1, <2>1 DEF PassTypeOK
  <2>6. \A i \in 1..Size, s \in Sides : Considered(i, s)' => Considered(i, s)
    BY <2>1 DEF Considered
  <2>7. \A i \in 1..Size, s \in Sides : Needed(Standing, i, s)' = Needed(kept, i, s)
    BY <2>1, <2>4 DEF Needed, MayDrop, StepAt
  <2> QED BY <2>1, <2>4, <2>5, <2>6, <2>7 DEF NeededInv
<1>4. CASE FinishPass
  <2>1. /\ mode = "choose" /\ mode' = "done" /\ trial[1] = Size + 1
        /\ UNCHANGED <<fn, kept, trial, Size>>
    BY <1>4 DEF FinishPass, Size
  <2>2. Standing = kept /\ Standing' = kept
    BY <2>1 DEF Standing
  <2>3. \A i \in 1..Size, s \in Sides : /\ Considered(i, s)' = Considered(i, s)
                                       /\ Needed(Standing, i, s)' = Needed(Standing, i, s)
    BY <2>1, <2>2 DEF Considered, Needed, MayDrop, StepAt
  <2> QED BY <2>1, <2>3 DEF NeededInv
<1>5. ASSUME UNCHANGED <<fn, kept, trial, mode>> PROVE NeededInv'
  <2>1. Size' = Size /\ Standing' = Standing /\ Modelled(fn)' = Modelled(fn)
    BY <1>5 DEF Size, Standing, Restored, Modelled
  <2>2. \A i \in 1..Size, s \in Sides : /\ Considered(i, s)' = Considered(i, s)
                                       /\ Needed(Standing, i, s)' = Needed(Standing, i, s)
    BY <1>5, <2>1 DEF Considered, Needed, MayDrop, StepAt
  <2> QED BY <1>5, <2>1, <2>2 DEF NeededInv
<1>6. CASE OutOfRounds
  BY <1>6, RoundsAreLeft DEF OutOfRounds, NoRoundsSpent
<1>7. CASE CloseCycle
  BY <1>7, VerdictKeepsNeeded DEF CloseCycle
<1>8. CASE EnterRound
  BY <1>5, <1>8 DEF EnterRound, Proceed
<1>9. CASE SimulateOp
  <2>1. mode = "simulate" /\ pos \in 1..Size
    BY <1>9 DEF SimulateOp
  <2>2. CASE /\ Misread(StepAt(pos), Found(StepAt(pos), kept[pos], cache))
             /\ Verdict(FALSE)
    BY <2>1, <2>2, RefusedRead, VerdictKeepsNeeded
  <2>3. CASE Proceed(pos + 1, Left(StepAt(pos), kept[pos], cache))
    BY <1>5, <2>3 DEF Proceed
  <2> QED BY <1>9, <2>2, <2>3 DEF SimulateOp
<1>10. CASE LeaveRound
  <2>1. mode = "simulate" /\ pos = Size + 1
    BY <1>10 DEF LeaveRound
  <2>2. CASE cache.stale \cap fn.escaping # {} /\ Verdict(FALSE)
    BY <2>1, <2>2, RefusedExit, VerdictKeepsNeeded
  <2>3. CASE Proceed(0, Read(cache, fn.escaping))
    BY <1>5, <2>3 DEF Proceed
  <2> QED BY <1>10, <2>2, <2>3 DEF LeaveRound
<1>11. CASE UNCHANGED passVars
  BY <1>5, <1>11 DEF passVars
<1> QED BY <1>2, <1>3, <1>4, <1>6, <1>7, <1>8, <1>9, <1>10, <1>11 DEF PassNext

\* The inductive invariant of both theorems.
LEMMA NeededInvariant ==
    MaxRounds >= 4 => (PassSteps => [](CertInv /\ SimulationInv /\ NeededInv))
<1> SUFFICES ASSUME MaxRounds >= 4
             PROVE  PassSteps => [](CertInv /\ SimulationInv /\ NeededInv)
  OBVIOUS
<1>1. PassInit /\ CertInv => SimulationInv /\ NeededInv
  <2> SUFFICES ASSUME PassInit, CertInv PROVE SimulationInv /\ NeededInv
    OBVIOUS
  <2>1. Size \in Nat /\ trial[1] = 1 /\ trial[2] = "before" /\ mode \in {"choose", "done"}
    BY FunctionType DEF PassInit, CertInv
  <2>2. ~(mode = "done" /\ Modelled(fn))
    BY DEF PassInit
  <2> QED BY <2>1, <2>2 DEF SimulationInv, NeededInv, Considered
<1>2. CertInv /\ SimulationInv /\ NeededInv /\ [PassNext]_passVars => SimulationInv' /\ NeededInv'
  BY SimulationKeeps, NeededKeeps
<1> QED BY <1>1, <1>2, CertInvariant, PTL DEF PassSteps

\* The limit on the rounds, 16 in the code, never decides: a simulation refuses
\* a read, or is back in a state a round began in, after four rounds at most.
\* What a round does to each part of the cache is to pass some buffers through
\* and to fix the others, so the caches rounds begin in settle after the second.
THEOREM NeverOutOfRounds == MaxRounds >= 4 => (PassSpec => []NoRoundsSpent)
<1> SUFFICES ASSUME MaxRounds >= 4 PROVE PassSpec => []NoRoundsSpent
  OBVIOUS
<1>1. SimulationInv => NoRoundsSpent
  BY RoundsAreLeft
<1> QED BY <1>1, NeededInvariant, PTL DEF PassSpec, PassSteps

\* None of the flushes the pass leaves could go: with any one more of those it
\* may drop removed, some call of the function misreads.  Trying them once, in
\* order, is enough because fewer flushes only leave more in the cache.
THEOREM PlacementMinimal == MaxRounds >= 4 => (PassSpec => []KeptFlushesAreNeeded)
<1> SUFFICES ASSUME MaxRounds >= 4 PROVE PassSpec => []KeptFlushesAreNeeded
  OBVIOUS
<1>1. CertInv /\ NeededInv => KeptFlushesAreNeeded
  <2> SUFFICES ASSUME CertInv, NeededInv, mode = "done", Modelled(fn),
                      NEW i \in 1..Size, NEW s \in Sides,
                      MayDrop(<<i, s>>), kept[i][s]
               PROVE  ~Accepts(fn, [kept EXCEPT ![i][s] = FALSE])
    BY DEF KeptFlushesAreNeeded
  <2>1. Size \in Nat /\ trial[1] = Size + 1
    BY FunctionType DEF NeededInv, CertInv
  <2>2. Considered(i, s)
    BY <2>1 DEF Considered
  <2>3. Standing = kept
    BY DEF Standing
  <2> QED BY <2>2, <2>3 DEF NeededInv, Needed
<1> QED BY <1>1, NeededInvariant, PTL DEF PassSpec, PassSteps

-----------------------------------------------------------------------------
(* The function it leaves. *)

\* The operations of a block that run one after the other: an operation, or
\* those in its region.
Leaves(op) == IF op.kind = "loop" THEN {op.body[j] : j \in DOMAIN op.body} ELSE {op}

\* The windows some call of a function writes.
CallsWrite(f) ==
    {w \in Window : \E i \in DOMAIN f.ops : \E op \in Leaves(f.ops[i]) :
                        op.kind \in CallKinds /\ w \in op.writes}

\* The operations between j and the next time place p is reached, by way of
\* the caller where p does not come after j.
Since(f, j, p) == IF j < p THEN j + 1..p - 1 ELSE (j + 1..Len(f.ops)) \cup (1..p - 1)

\* A call at j writes to a buffer, and nobody reads of it before place p.
UnreadSince(f, j, b, p) ==
    LET step == Describe(f.ops[j])
    IN  /\ step.accelerator /\ b \in step.writes
        /\ \A k \in Since(f, j, p) : b \notin Describe(f.ops[k]).reads
        /\ p <= j => b \notin f.escaping

\* A host operation outside a region that stores to a slice stores to all of
\* the buffer that calls write; or else the buffer is read of, by that
\* operation at the latest, after each call that writes to it.
StoresAfterReads(f, i) ==
    \A v \in f.ops[i].writes, w \in CallsWrite(f) :
        BaseOf[w] = BaseOf[v] =>
            \/ w \in f.ops[i].writes
            \/ BaseOf[w] \in Bases(f.ops[i].reads)
            \/ \A j \in DOMAIN f.ops : ~UnreadSince(f, j, BaseOf[w], i)

\* A call writes one window, which it does not read and whose first touch
\* writes no other; and an accumulating call adds to what a call before its
\* operation has written.
CallsOneWindow(f, i, op) ==
    /\ \E w \in Window : op.writes = {w} /\ w \notin op.reads
    /\ op.kind \in {"matmul", "accumulate"} => \A w \in op.writes : Span[w] = {w}
    /\ op.kind = "accumulate" =>
           \E j \in 1..i - 1 : /\ f.ops[j].kind \in CallKinds
                               /\ f.ops[j].writes = op.writes

\* Functions over buffers and slices of them.  Without the first part the pass
\* is wrong (the run slice_stores), without the last of the second the runtime
\* is (seeded_accumulator).
SlicesKeptApart ==
    \A f \in Functions : \A i \in DOMAIN f.ops :
        /\ f.ops[i].kind = "host" => StoresAfterReads(f, i)
        /\ \A op \in Leaves(f.ops[i]) : op.kind \in CallKinds => CallsOneWindow(f, i, op)

-----------------------------------------------------------------------------
(* The invariant. *)

\* Before the pass is done nothing has run.
IdleInv == mode # "done" => BoardInit

\* Where the program is: in a region only of an operation that has one, and
\* past the start of an operation only in a call.
PlaceInv ==
    /\ inner # 0 => fn.ops[at].kind = "loop"
    /\ inner = 0 => trips = 0
    /\ stage # "start" => at \in 1..Size /\ Op.kind \in CallKinds

\* Only the call under way has results still to land.
LandingInv == /\ landing # {} => stage = "busy"
              /\ \A w \in landing : w \in Op.writes

\* The last value of a window is in memory, in a dirty line or on its way; or
\* the first touch of an output about to be written has erased the one before.
MemoryInv ==
    \A w \in Window :
        \/ memory[w] \/ line[w] = "dirty" \/ w \in landing
        \/ stage = "issue" /\ w \in Op.writes /\ w \notin OperandsOf(Op)

\* Outputs seen have pages the host has written, as operands of a call under
\* way have pages; and every call gone by has had its output seen.
PageInv ==
    /\ \A w \in seen : page[w] = "written"
    /\ stage = "issue" => \A w \in OperandsOf(Op) : page[w] # "untouched"
    /\ stage \in {"issue", "busy", "flush"} => Pointer(Op) \in seen
    /\ \A j \in 1..Size :
           j < at /\ fn.ops[j].kind \in CallKinds => Pointer(fn.ops[j]) \in seen

\* A flush before a call leaves the host nothing it has to be careful with.
FlushedInv ==
    stage \in {"prepare", "issue"} /\ FlushesOn("before") =>
        \A w \in Window : line[w] \in {"absent", "clean"}

\* With all flushes there, lines the accelerator has overwritten are gone
\* before anything else runs.
AllKeptInv ==
    AllKept(kept) /\ stage \notin {"busy", "flush"} =>
        \A w \in Window : line[w] # "old"

\* Only what a call writes is ever old.
OldInv == \A w \in Window : line[w] = "old" => w \in CallsWrite(fn)

\* The caller has read what it can see, and holds no old line of it.
CallerInv == at = 0 => \A w \in EscapingWindows : line[w] # "old"

\* In a region the simulated cache is already the one after it.
RegionInv ==
    inner # 0 => /\ StepAt(at).writes \subseteq shadow.resident \cap shadow.dirty
                 /\ StepAt(at).writes \cap shadow.stale = {}

\* The pair the program is at, in the vocabulary of the simulation.
Place == <<IF inner = 0 THEN at ELSE at + 1, shadow>>

\* The program follows the simulation that was accepted.
FollowsCert == mode = "done" /\ Closed(cert, kept) => Place \in cert

\* A buffer stale in the simulated cache is so since a call no one read after.
StaleInv ==
    mode = "done" /\ Modelled(fn) /\ Closed(cert, kept) =>
        \A b \in shadow.stale : \E j \in 1..Size : UnreadSince(fn, j, b, Place[1])

BoardInv ==
    /\ BoardTypeOK /\ IdleInv /\ PlaceInv /\ LandingInv /\ MemoryInv /\ PageInv
    /\ FlushedInv /\ AllKeptInv /\ OldInv /\ CacheModelCovers /\ CallerInv
    /\ RegionInv /\ FollowsCert /\ StaleInv

\* A function the pass cannot see through keeps all its flushes.
LeftAlone == ~Modelled(fn) => mode = "done" /\ AllKept(kept) /\ cert = {}

\* What the pass's own proofs give of its variables.
PassInv == PassTypeOK /\ PlacementIsCertified /\ LeftAlone

-----------------------------------------------------------------------------
(* The pass is not disturbed by what runs after it. *)

LEMMA SpecRunsPass == Spec => PassSteps
<1>1. Init => PassInit
  BY DEF Init
<1>2. [Next]_vars => [PassNext]_passVars
  BY DEF Next, Compile, Run, EnterCall, Return, EnterLoop, HostOp, FlushBefore, Prepare,
         Issue, Fence, FlushAfter, Evict, Land, vars
<1> QED BY <1>1, <1>2, PTL DEF Spec, PassSteps

\* Only a function the pass can see through is ever tried.
LEMMA UnseenIsLeftAlone == PassSteps => []LeftAlone
<1>1. PassInit => LeftAlone
  BY DEF PassInit, LeftAlone, AllKept
<1>2. LeftAlone /\ [PassNext]_passVars => LeftAlone'
  BY DEF LeftAlone, PassNext, SkipFlush, TryWithout, FinishPass, OutOfRounds, CloseCycle,
         EnterRound, SimulateOp, LeaveRound, Verdict, Proceed, AllKept, Size, passVars, Modelled
<1> QED BY <1>1, <1>2, PTL DEF PassSteps

LEMMA PassInvariant == Spec => []PassInv
BY SpecRunsPass, PassStepsTyped, PassStepsCertified, UnseenIsLeftAlone, PTL DEF PassInv

\* What the pass leaves: all the flushes, or ones a closed simulation of a
\* function it can see through goes with.
LEMMA DoneMeans ==
    ASSUME PassInv, mode = "done"
    PROVE  AllKept(kept) \/ (Closed(cert, kept) /\ Modelled(fn))
BY DEF PassInv, PlacementIsCertified, Certified, LeftAlone, Closed

-----------------------------------------------------------------------------
(* The operation the program is at. *)

\* It is one operation outside a region or one of a region.
LEMMA OpIsLeaf ==
    ASSUME PassTypeOK, BoardTypeOK, PlaceInv, at \in 1..Size, Op.kind \in LeafKinds
    PROVE  Op \in Leaf /\ Op \in Leaves(fn.ops[at])
<1>1. fn.ops \in Seq(Leaf \cup Loop) /\ DOMAIN fn.ops = 1..Size
  BY FunctionAssumption DEF PassTypeOK, Size
<1>2. fn.ops[at] \in Leaf \cup Loop
  BY <1>1 DEF Size
<1>3. "loop" \notin LeafKinds
  BY DEF LeafKinds, AcceleratorKinds, OpaqueKinds
<1>4. CASE inner = 0
  <2>1. Op = fn.ops[at]
    BY <1>4 DEF Op
  <2>2. fn.ops[at].kind # "loop"
    BY <1>3, <2>1
  <2> QED BY <1>2, <2>1, <2>2 DEF Leaves, Loop
<1>5. CASE inner # 0
  <2>1. Op = fn.ops[at].body[inner] /\ fn.ops[at].kind = "loop"
    BY <1>5 DEF Op, PlaceInv
  <2>2. inner \in DOMAIN fn.ops[at].body
    BY <1>5 DEF BoardTypeOK
  <2>3. fn.ops[at] \in Loop
    BY <1>2, <1>3, <2>1 DEF Leaf
  <2>4. fn.ops[at].body \in Seq(Leaf)
    BY <2>3 DEF Loop
  <2> QED BY <2>1, <2>2, <2>4 DEF Leaves
<1> QED BY <1>4, <1>5

\* A call writes one window, which it is known by, touches no other and reads
\* only to add to it, when a call before it has written it.
LEMMA CallShape ==
    ASSUME SlicesKeptApart, PassTypeOK, BoardTypeOK, PlaceInv,
           at \in 1..Size, Op.kind \in CallKinds
    PROVE  \E w \in Window :
               /\ Op.writes = {w} /\ w \notin Op.reads
               /\ Pointer(Op) = w /\ TouchedFirst(Op) = {w}
               /\ OperandsOf(Op) \in SUBSET Window
               /\ w \in OperandsOf(Op) =>
                      \E j \in 1..at - 1 : /\ j \in 1..Size /\ fn.ops[j].kind \in CallKinds
                                          /\ Pointer(fn.ops[j]) = w
<1>1. Op \in Leaf /\ Op \in Leaves(fn.ops[at])
  BY OpIsLeaf DEF CallKinds, LeafKinds, OpaqueKinds
<1>2. fn \in Functions /\ DOMAIN fn.ops = 1..Size /\ Size \in Nat
  BY FunctionAssumption, FunctionType DEF PassTypeOK, Size
<1>3. CallsOneWindow(fn, at, Op)
  BY <1>1, <1>2 DEF SlicesKeptApart
<1>4. PICK w \in Window : Op.writes = {w} /\ w \notin Op.reads
  BY <1>3 DEF CallsOneWindow
<1>5. First[Op.writes] = w
  <2>1. {w} \in (SUBSET Window) \ {{}}
    OBVIOUS
  <2> QED BY <1>4, <2>1, FirstAssumption
<1>6. TouchedFirst(Op) = {w}
  <2>1. CASE Op.kind \in {"matmul", "accumulate"}
    <3>1. Span[w] = {w}
      BY <1>3, <1>4, <2>1 DEF CallsOneWindow
    <3>2. UNION {Span[v] : v \in Op.writes} = {w}
      BY <1>4, <3>1
    <3> QED BY <2>1, <3>2 DEF TouchedFirst
  <2>2. CASE Op.kind \notin {"matmul", "accumulate"}
    BY <1>4, <2>2 DEF TouchedFirst
  <2> QED BY <2>1, <2>2
<1>7. OperandsOf(Op) \in SUBSET Window
  BY <1>1, LeafTouches
<1>8. ASSUME w \in OperandsOf(Op)
      PROVE  \E j \in 1..at - 1 : /\ j \in 1..Size /\ fn.ops[j].kind \in CallKinds
                                  /\ Pointer(fn.ops[j]) = w
  <2>1. Op.kind = "accumulate"
    BY <1>4, <1>8 DEF OperandsOf
  <2>2. PICK j \in 1..at - 1 : fn.ops[j].kind \in CallKinds /\ fn.ops[j].writes = Op.writes
    BY <1>3, <2>1 DEF CallsOneWindow
  <2> QED BY <1>2, <1>5, <2>2 DEF Pointer
<1> QED BY <1>4, <1>5, <1>6, <1>7, <1>8 DEF Pointer

\* What the simulation is told of it.
LEMMA StepOfOp ==
    ASSUME PassTypeOK, BoardTypeOK, PlaceInv, at \in 1..Size, Op.kind \in LeafKinds
    PROVE  /\ inner = 0 =>
                 /\ StepAt(at).accelerator <=> Op.kind \in AcceleratorKinds
                 /\ StepAt(at).reads = Bases(OperandsOf(Op))
                 /\ StepAt(at).writes = Bases(Op.writes)
           /\ inner # 0 => Bases(OperandsOf(Op)) \cup Bases(Op.writes) \subseteq StepAt(at).writes
<1>1. Op \in Leaf /\ Op \in Leaves(fn.ops[at])
  BY OpIsLeaf
<1>2. "loop" \notin LeafKinds
  BY DEF LeafKinds, AcceleratorKinds, OpaqueKinds
<1>3. CASE inner = 0
  <2>1. Op = fn.ops[at] /\ Op.kind # "loop"
    BY <1>2, <1>3 DEF Op
  <2> QED BY <1>3, <2>1 DEF StepAt, Describe
<1>4. CASE inner # 0
  <2>1. fn.ops[at].kind = "loop"
    BY <1>4 DEF PlaceInv
  <2> DEFINE touched == UNION {Touched(fn.ops[at].body[j]) : j \in DOMAIN fn.ops[at].body}
  <2>2. StepAt(at).writes = touched
    BY <2>1 DEF StepAt, Describe
  <2>3. Touched(Op) \subseteq touched
    BY <1>1, <2>1 DEF Leaves
  <2>4. Touched(Op) = Bases(OperandsOf(Op)) \cup Bases(Op.writes)
    BY DEF Touched, Bases
  <2> QED BY <1>4, <2>2, <2>3, <2>4
<1> QED BY <1>3, <1>4

\* A region is one host step that reads what it writes.
LEMMA StepOfLoop ==
    ASSUME fn.ops[at].kind = "loop"
    PROVE  ~StepAt(at).accelerator /\ StepAt(at).reads = StepAt(at).writes
BY DEF StepAt, Describe

-----------------------------------------------------------------------------
(* A call, stage by stage. *)

\* While the pass's variables stay, so does what it says.
LEMMA PassFrame ==
    ASSUME UNCHANGED passVars
    PROVE  /\ UNCHANGED <<fn, kept, mode, cert, Size, EscapingWindows>>
           /\ \A i : StepAt(i)' = StepAt(i)
           /\ Modelled(fn)' <=> Modelled(fn)
           /\ AllKept(kept)' <=> AllKept(kept)
           /\ Closed(cert, kept)' <=> Closed(cert, kept)
           /\ CallsWrite(fn)' = CallsWrite(fn)
<1>1. UNCHANGED <<fn, kept, mode, cert, Size, EscapingWindows>>
  BY DEF passVars, Size, EscapingWindows
<1>2. \A i : StepAt(i)' = StepAt(i)
  BY <1>1 DEF StepAt
<1>3. AllKept(kept)' <=> AllKept(kept)
  BY <1>1 DEF AllKept
<1>4. Closed(cert, kept)' <=> Closed(cert, kept)
  BY <1>1 DEF Closed, StaysIn, StepAt
<1>5. CallsWrite(fn)' = CallsWrite(fn)
  BY <1>1
<1> QED BY <1>1, <1>2, <1>3, <1>4, <1>5

\* While it does not move either, so does the operation it is at.
LEMMA OpFrame ==
    ASSUME UNCHANGED <<passVars, at, inner>>
    PROVE  /\ Op' = Op /\ Pointer(Op)' = Pointer(Op) /\ OperandsOf(Op)' = OperandsOf(Op)
           /\ \A s : FlushesOn(s)' <=> FlushesOn(s)
BY PassFrame DEF Op, Pointer, OperandsOf, FlushesOn

\* The calls of a function the pass sees through are the accelerator's.
LEMMA SeenCall ==
    ASSUME PassTypeOK, BoardTypeOK, PlaceInv, Modelled(fn), inner = 0,
           at \in 1..Size, Op.kind \in CallKinds
    PROVE  StepAt(at).accelerator
<1>1. Op = fn.ops[at] /\ at \in DOMAIN fn.ops
  BY FunctionAssumption DEF Op, PassTypeOK, Size
<1>2. Op.kind \in AcceleratorKinds
  BY <1>1 DEF Modelled, IsOpaque, OpaqueKinds, CallKinds
<1>3. Op.kind \in LeafKinds
  BY <1>2 DEF LeafKinds
<1> QED BY <1>2, <1>3, StepOfOp

\* While place and shadow stay, so does where a buffer is stale since.
LEMMA StaleStays ==
    ASSUME StaleInv, UNCHANGED <<passVars, shadow>>, Place'[1] = Place[1]
    PROVE  StaleInv'
BY PassFrame DEF StaleInv

\* The stages of a call up to its last leave the program where it is.
LEMMA WithinCall ==
    ASSUME PassInv, BoardInv, UNCHANGED <<passVars, at, inner, trips, shadow>>,
           NEW s, NEW t, InCall(s), stage' = t, t # "start"
    PROVE  IdleInv' /\ PlaceInv' /\ CallerInv' /\ RegionInv' /\ FollowsCert' /\ StaleInv'
<1>1. /\ mode = "done" /\ at \in 1..Size /\ Op.kind \in CallKinds /\ Size \in Nat
  BY FunctionType DEF InCall, PassInv
<1>2. IdleInv' /\ CallerInv'
  BY <1>1, PassFrame DEF IdleInv, CallerInv
<1>3. PlaceInv'
  BY <1>1, PassFrame, OpFrame DEF BoardInv, PlaceInv
<1>4. RegionInv'
  BY PassFrame DEF BoardInv, RegionInv
<1>5. FollowsCert'
  BY PassFrame DEF BoardInv, FollowsCert, Place
<1>6. StaleInv'
  BY StaleStays DEF BoardInv, Place
<1> QED BY <1>2, <1>3, <1>4, <1>5, <1>6

\* While no line gets old, those that are have been before.
LEMMA OldStays ==
    ASSUME OldInv, UNCHANGED passVars, \A w \in Window : line'[w] = "old" => line[w] = "old"
    PROVE  OldInv'
BY PassFrame DEF OldInv

LEMMA FenceKeeps ==
    ASSUME SlicesKeptApart, PassInv, BoardInv, Fence PROVE BoardInv'
<1>1. /\ UNCHANGED <<passVars, at, inner, trips, line, memory, page, seen, landing, shadow>>
      /\ landing = {} /\ stage = "busy" /\ stage' = "flush" /\ InCall("busy")
  BY DEF Fence, InCall
<1>2. IdleInv' /\ PlaceInv' /\ CallerInv' /\ RegionInv' /\ FollowsCert' /\ StaleInv'
  BY <1>1, WithinCall
<1>3. BoardTypeOK'
  BY <1>1, PassFrame DEF BoardInv, BoardTypeOK, Stages
<1>4. LandingInv' /\ MemoryInv' /\ PageInv'
  BY <1>1, PassFrame, OpFrame DEF BoardInv, LandingInv, MemoryInv, PageInv, Pointer
<1>5. FlushedInv' /\ AllKeptInv' /\ OldInv'
  BY <1>1, OldStays DEF BoardInv, FlushedInv, AllKeptInv
<1>6. CacheModelCovers'
  BY <1>1, PassFrame DEF BoardInv, CacheModelCovers, Covers, Simulated
<1> QED BY <1>2, <1>3, <1>4, <1>5, <1>6 DEF BoardInv

LEMMA FlushBeforeKeeps ==
    ASSUME SlicesKeptApart, PassInv, BoardInv, FlushBefore PROVE BoardInv'
<1>1. /\ UNCHANGED <<passVars, at, inner, trips, page, seen, landing, shadow>>
      /\ stage = "start" /\ stage' = "prepare" /\ InCall("start")
      /\ mode = "done" /\ at \in 1..Size /\ Op.kind \in CallKinds
  BY DEF FlushBefore, InCall
<1>2. \/ FlushesOn("before") /\ line' = Emptied /\ memory' = WrittenBack
      \/ ~FlushesOn("before") /\ line' = line /\ memory' = memory
  BY DEF FlushBefore
<1>3. /\ line \in [Window -> {"absent", "clean", "dirty", "old"}]
      /\ memory \in [Window -> BOOLEAN]
  BY DEF BoardInv, BoardTypeOK
<1>4. /\ line' \in [Window -> {"absent", "clean", "dirty", "old"}]
      /\ memory' \in [Window -> BOOLEAN]
      /\ \A w \in Window : line'[w] = line[w] \/ line'[w] = "absent"
      /\ \A w \in Window : memory[w] \/ line[w] = "dirty" => memory'[w] \/ line'[w] = "dirty"
  BY <1>2, <1>3 DEF Emptied, WrittenBack
<1>5. landing = {}
  BY <1>1 DEF BoardInv, LandingInv
<1>6. IdleInv' /\ PlaceInv' /\ CallerInv' /\ RegionInv' /\ FollowsCert' /\ StaleInv'
  BY <1>1, WithinCall
<1>7. BoardTypeOK'
  BY <1>1, <1>4, PassFrame DEF BoardInv, BoardTypeOK, Stages
<1>8. LandingInv' /\ PageInv'
  BY <1>1, <1>5, PassFrame, OpFrame DEF BoardInv, LandingInv, PageInv, Pointer
<1>9. MemoryInv'
  BY <1>1, <1>4, <1>5 DEF BoardInv, MemoryInv
<1>10. FlushedInv'
  BY <1>1, <1>2, OpFrame DEF FlushedInv, Emptied
<1>11. AllKeptInv' /\ OldInv'
  BY <1>1, <1>4, PassFrame, OldStays DEF BoardInv, AllKeptInv
<1>12. CacheModelCovers'
  <2> SUFFICES ASSUME Modelled(fn), inner = 0 PROVE Covers(Simulated)'
    BY <1>1, PassFrame DEF CacheModelCovers
  <2>1. StepAt(at).accelerator
    BY <1>1, SeenCall DEF PassInv, BoardInv
  <2>2. Simulated' = IF kept[at]["before"] THEN Flushed ELSE shadow
    <3>1. UNCHANGED <<kept, at, shadow>> /\ StepAt(at)' = StepAt(at)
      BY <1>1, PassFrame DEF StepAt
    <3>2. Simulated' = Found(StepAt(at), kept[at], shadow)
      BY <1>1, <3>1 DEF Simulated, Found
    <3> QED BY <2>1, <3>2 DEF Found, FlushWhen
  <2>3. FlushesOn("before") <=> kept[at]["before"]
    BY DEF FlushesOn
  <2>4. Covers(shadow)
    BY <1>1 DEF BoardInv, CacheModelCovers, Simulated
  <2>5. CASE FlushesOn("before")
    BY <1>2, <2>5 DEF Covers, Emptied
  <2>6. CASE ~FlushesOn("before")
    BY <1>2, <2>2, <2>3, <2>4, <2>6 DEF Covers, FlushWhen
  <2> QED BY <2>5, <2>6
<1> QED BY <1>6, <1>7, <1>8, <1>9, <1>10, <1>11, <1>12 DEF BoardInv

LEMMA PrepareKeeps ==
    ASSUME SlicesKeptApart, PassInv, BoardInv, Prepare PROVE BoardInv'
<1>1. /\ UNCHANGED <<passVars, at, inner, trips, landing, shadow>>
      /\ stage = "prepare" /\ stage' = "issue" /\ InCall("prepare")
      /\ mode = "done" /\ at \in 1..Size /\ Op.kind \in CallKinds
  BY DEF Prepare, InCall
<1>2. PICK out \in Window :
          /\ Op.writes = {out} /\ Pointer(Op) = out /\ TouchedFirst(Op) = {out}
          /\ OperandsOf(Op) \in SUBSET Window
          /\ out \in OperandsOf(Op) =>
                 \E j \in 1..at - 1 : /\ j \in 1..Size /\ fn.ops[j].kind \in CallKinds
                                     /\ Pointer(fn.ops[j]) = out
  BY <1>1, CallShape DEF PassInv, BoardInv
<1> DEFINE fresh  == out \notin seen
           zeroed == IF fresh THEN {out} ELSE {}
           lines  == IF fresh THEN Emptied ELSE line
           mem    == [w \in Window |-> IF fresh THEN WrittenBack[w] /\ w \notin zeroed
                                       ELSE memory[w]]
<1>3. /\ seen' = seen \cup {out} /\ memory' = mem
      /\ line' = [w \in Window |->
                    IF w \in OperandsOf(Op) /\ lines[w] = "absent"
                    THEN IF mem[w] THEN "clean" ELSE "old" ELSE lines[w]]
      /\ page' = HostPages(OperandsOf(Op), zeroed)
  BY <1>2 DEF Prepare
<1>4. /\ line \in [Window -> {"absent", "clean", "dirty", "old"}]
      /\ memory \in [Window -> BOOLEAN]
      /\ page \in [Window -> {"untouched", "read", "written"}]
      /\ seen \in SUBSET Window
  BY DEF BoardInv, BoardTypeOK
<1>5. landing = {} /\ \A w \in Window : memory[w] \/ line[w] = "dirty"
  BY <1>1 DEF BoardInv, LandingInv, MemoryInv
<1>6. fresh => out \notin OperandsOf(Op)
  <2> SUFFICES ASSUME out \in OperandsOf(Op) PROVE out \in seen
    OBVIOUS
  <2>1. PICK j \in 1..at - 1 : /\ j \in 1..Size /\ fn.ops[j].kind \in CallKinds
                              /\ Pointer(fn.ops[j]) = out
    BY <1>2
  <2>2. j < at
    BY <1>1, <2>1, FunctionType DEF PassInv
  <2> QED BY <2>1, <2>2 DEF BoardInv, PageInv
<1>7. \A w \in Window : /\ WrittenBack[w]
                        /\ mem[w] \in BOOLEAN
                        /\ mem[w] <=> IF fresh THEN w # out ELSE memory[w]
  BY <1>4, <1>5 DEF WrittenBack
<1>8. \A w \in Window : w \in OperandsOf(Op) /\ lines[w] = "absent" => mem[w]
  BY <1>4, <1>5, <1>6, <1>7 DEF Emptied
<1>9. \A w \in Window :
          /\ line'[w] \in {"absent", "clean", "dirty", "old"}
          /\ line'[w] = line[w] \/ line'[w] \in {"absent", "clean"}
          /\ line'[w] # "absent" => line[w] # "absent" \/ w \in OperandsOf(Op)
          /\ line[w] = "dirty" /\ ~fresh => line'[w] = "dirty"
  BY <1>3, <1>4, <1>8 DEF Emptied
<1>10. /\ line' \in [Window -> {"absent", "clean", "dirty", "old"}]
       /\ memory' \in [Window -> BOOLEAN]
       /\ page' \in [Window -> {"untouched", "read", "written"}]
       /\ seen' \in SUBSET Window
  BY <1>2, <1>3, <1>4, <1>7, <1>9 DEF HostPages
<1>11. IdleInv' /\ PlaceInv' /\ CallerInv' /\ RegionInv' /\ FollowsCert' /\ StaleInv'
  BY <1>1, WithinCall
<1>12. BoardTypeOK'
  BY <1>1, <1>10, PassFrame DEF BoardInv, BoardTypeOK, Stages
<1>13. LandingInv'
  BY <1>1, <1>5 DEF LandingInv
<1>14. MemoryInv'
  BY <1>1, <1>2, <1>3, <1>5, <1>6, <1>7, <1>9, OpFrame DEF MemoryInv
<1>15. PageInv'
  <2>1. \A w \in Window : /\ page[w] = "written" \/ w \in zeroed => page'[w] = "written"
                          /\ w \in OperandsOf(Op) => page'[w] # "untouched"
    BY <1>3, <1>4 DEF HostPages
  <2>2. \A w \in seen' : page'[w] = "written"
    BY <1>2, <1>3, <1>4, <2>1 DEF BoardInv, PageInv
  <2>3. seen \subseteq seen' /\ Pointer(Op)' \in seen'
    BY <1>1, <1>2, <1>3, OpFrame
  <2>4. \A j \in 1..Size : j < at /\ fn.ops[j].kind \in CallKinds => Pointer(fn.ops[j]) \in seen'
    BY <2>3 DEF BoardInv, PageInv
  <2> QED BY <1>1, <1>2, <2>1, <2>2, <2>3, <2>4, PassFrame, OpFrame DEF PageInv, Pointer
<1>16. FlushedInv'
  BY <1>1, <1>9, OpFrame DEF BoardInv, FlushedInv
<1>17. AllKeptInv' /\ OldInv'
  BY <1>1, <1>9, PassFrame, OldStays DEF BoardInv, AllKeptInv
<1>18. CacheModelCovers'
  <2> SUFFICES ASSUME Modelled(fn), inner = 0 PROVE Covers(Simulated)'
    BY <1>1, PassFrame DEF CacheModelCovers
  <2> DEFINE found == Found(StepAt(at), kept[at], shadow)
  <2>1. StepAt(at).reads = Bases(OperandsOf(Op))
    BY <1>1, StepOfOp DEF PassInv, BoardInv, CallKinds, LeafKinds, OpaqueKinds
  <2>2. Simulated = found /\ Covers(found)
    BY <1>1 DEF Simulated, BoardInv, CacheModelCovers
  <2>3. Simulated' = Read(found, StepAt(at).reads)
    <3>1. UNCHANGED <<kept, at, shadow>> /\ StepAt(at)' = StepAt(at)
      BY <1>1, PassFrame DEF StepAt
    <3> QED BY <1>1, <3>1 DEF Simulated, Found
  <2>4. /\ Simulated'.dirty = found.dirty /\ Simulated'.stale = found.stale
        /\ Simulated'.resident = found.resident \cup Bases(OperandsOf(Op))
    <3>1. found \in Cache
      <4>1. shadow \in Cache
        BY DEF BoardInv, BoardTypeOK
      <4> QED BY <4>1 DEF Found, FlushWhen, Flushed, Cache
    <3> QED BY <2>1, <2>3, <3>1 DEF Read, Cache
  <2>5. \A w \in OperandsOf(Op) : BaseOf[w] \in Bases(OperandsOf(Op))
    BY DEF Bases
  <2> HIDE DEF found
  <2> QED BY <1>9, <2>2, <2>4, <2>5 DEF Covers
<1> QED BY <1>11, <1>12, <1>13, <1>14, <1>15, <1>16, <1>17, <1>18 DEF BoardInv

LEMMA IssueKeeps ==
    ASSUME SlicesKeptApart, PassInv, BoardInv, Issue PROVE BoardInv'
<1>1. /\ UNCHANGED <<passVars, at, inner, trips, page, seen, shadow>>
      /\ stage = "issue" /\ stage' = "busy" /\ InCall("issue")
      /\ mode = "done" /\ at \in 1..Size /\ Op.kind \in CallKinds
      /\ landing' = landing \cup Op.writes
      /\ memory' = [w \in Window |-> memory[w] /\ w \notin Op.writes]
      /\ line' = [w \in Window |-> IF w \in Op.writes /\ line[w] # "absent"
                                   THEN "old" ELSE line[w]]
  BY DEF Issue, InCall
<1>2. PICK out \in Window : Op.writes = {out} /\ Pointer(Op) = out
  BY <1>1, CallShape DEF PassInv, BoardInv
<1>3. /\ line \in [Window -> {"absent", "clean", "dirty", "old"}]
      /\ memory \in [Window -> BOOLEAN] /\ landing = {}
  BY <1>1 DEF BoardInv, BoardTypeOK, LandingInv
<1>4. IdleInv' /\ PlaceInv' /\ CallerInv' /\ RegionInv' /\ FollowsCert' /\ StaleInv'
  BY <1>1, WithinCall
<1>5. BoardTypeOK'
  <2>1. /\ line' \in [Window -> {"absent", "clean", "dirty", "old"}]
        /\ memory' \in [Window -> BOOLEAN]
        /\ landing' \in SUBSET Window
    BY <1>1, <1>2, <1>3
  <2> QED BY <1>1, <2>1, PassFrame DEF BoardInv, BoardTypeOK, Stages
<1>6. LandingInv'
  BY <1>1, <1>3, OpFrame DEF LandingInv
<1>7. MemoryInv'
  BY <1>1, <1>3 DEF BoardInv, MemoryInv
<1>8. PageInv'
  BY <1>1, PassFrame, OpFrame DEF BoardInv, PageInv, Pointer
<1>9. FlushedInv' /\ AllKeptInv'
  BY <1>1 DEF FlushedInv, AllKeptInv
<1>10. OldInv'
  <2>1. Op \in Leaves(fn.ops[at]) /\ at \in DOMAIN fn.ops
    BY <1>1, OpIsLeaf, FunctionAssumption
    DEF PassInv, BoardInv, PassTypeOK, Size, CallKinds, LeafKinds, OpaqueKinds
  <2>2. out \in CallsWrite(fn)
    BY <1>1, <1>2, <2>1 DEF CallsWrite
  <2> QED BY <1>1, <1>2, <2>2, PassFrame DEF BoardInv, OldInv
<1>11. CacheModelCovers'
  <2> SUFFICES ASSUME Modelled(fn), inner = 0 PROVE Covers(Simulated)'
    BY <1>1, PassFrame DEF CacheModelCovers
  <2> DEFINE read == Read(Found(StepAt(at), kept[at], shadow), StepAt(at).reads)
  <2>1. StepAt(at).writes = Bases({out})
    BY <1>1, <1>2, StepOfOp DEF PassInv, BoardInv, CallKinds, LeafKinds, OpaqueKinds
  <2>2. Simulated = read /\ Covers(read)
    BY <1>1 DEF Simulated, BoardInv, CacheModelCovers
  <2>3. Simulated' = AcceleratorWrite(read, Bases({out}))
    <3>1. UNCHANGED <<kept, at, shadow>> /\ StepAt(at)' = StepAt(at)
      BY <1>1, PassFrame DEF StepAt
    <3> QED BY <1>1, <2>1, <3>1 DEF Simulated, Found
  <2>4. /\ Simulated'.dirty = read.dirty \ Bases({out})
        /\ Simulated'.stale = read.stale \cup (Bases({out}) \cap read.resident)
        /\ Simulated'.resident = read.resident
    <3>1. read \in Cache
      <4>1. shadow \in Cache
        BY DEF BoardInv, BoardTypeOK
      <4>2. Found(StepAt(at), kept[at], shadow) \in Cache
        BY <4>1 DEF Found, FlushWhen, Flushed, Cache
      <4>3. StepAt(at).reads \in SUBSET Buffer
        BY <1>1, FunctionType DEF PassInv, StepType
      <4> QED BY <4>2, <4>3, CacheOperations
    <3> HIDE DEF read
    <3> QED BY <2>3, <3>1 DEF AcceleratorWrite, Cache
  <2>5. BaseOf[out] \in Bases({out})
    BY DEF Bases
  <2> HIDE DEF read
  <2> QED BY <1>1, <1>2, <1>3, <2>2, <2>4, <2>5 DEF Covers
<1> QED BY <1>4, <1>5, <1>6, <1>7, <1>8, <1>9, <1>10, <1>11 DEF BoardInv

-----------------------------------------------------------------------------
(* From one operation to the next. *)

\* Control goes to the next operation of the block, or stays in the region.
LEMMA AdvanceMoves ==
    ASSUME PassTypeOK, BoardTypeOK, PlaceInv, at \in 1..Size, Advance
    PROVE  /\ stage' = "start"
           /\ \/ inner' = 0 /\ at' = at + 1 /\ trips' = 0
              \/ /\ inner # 0 /\ inner' # 0 /\ at' = at
                 /\ inner' \in DOMAIN fn.ops[at].body /\ trips' \in 0..MaxTrips
<1>1. inner \in Nat /\ trips \in 0..MaxTrips /\ (inner = 0 => trips = 0)
  BY DEF BoardTypeOK, PlaceInv
<1>2. stage' = "start"
  BY DEF Advance
<1>3. CASE inner = 0
  BY <1>1, <1>2, <1>3 DEF Advance
<1>4. CASE inner # 0
  <2>1. fn.ops[at] \in Loop
    <3>1. fn.ops \in Seq(Leaf \cup Loop) /\ fn.ops[at] \in Leaf \cup Loop
      BY FunctionAssumption DEF PassTypeOK, Size
    <3>2. fn.ops[at].kind = "loop"
      BY <1>4 DEF PlaceInv
    <3> QED BY <3>1, <3>2 DEF Leaf, LeafKinds, AcceleratorKinds, OpaqueKinds
  <2>2. fn.ops[at].body \in Seq(Leaf)
    BY <2>1 DEF Loop
  <2>3. /\ Len(fn.ops[at].body) \in Nat /\ DOMAIN fn.ops[at].body = 1..Len(fn.ops[at].body)
        /\ inner \in 1..Len(fn.ops[at].body)
    BY <1>4, <2>2 DEF BoardTypeOK
  <2>4. CASE inner # Len(fn.ops[at].body)
    BY <1>1, <1>2, <1>4, <2>3, <2>4 DEF Advance
  <2>5. CASE inner = Len(fn.ops[at].body)
    BY <1>1, <1>2, <1>4, <2>3, <2>5, TripAssumption DEF Advance
  <2> QED BY <2>4, <2>5
<1> QED BY <1>3, <1>4

\* What the pass's operation leaves stale was so when it began, and it did not
\* read it, or it is a call and has just written it.
LEMMA LeftStale ==
    ASSUME NEW c \in Cache, NEW step \in StepType, NEW flush \in [Sides -> BOOLEAN],
           ~Misread(step, Found(step, flush, c)), NEW b \in Left(step, flush, c).stale
    PROVE  \/ b \in c.stale /\ b \notin step.reads
           \/ step.accelerator /\ b \in step.writes
<1> DEFINE found == Found(step, flush, c)
           read  == Read(found, step.reads)
<1>1. found \in Cache /\ found.stale \subseteq c.stale
  BY DEF Found, FlushWhen, Flushed, Cache
<1>2. step.reads \cap found.stale = {}
  BY DEF Misread
<1> HIDE DEF found
<1>3. read.stale = found.stale
  BY <1>1 DEF Read, Cache
<1>4. step.reads \in SUBSET Buffer /\ step.writes \in SUBSET Buffer
  BY DEF StepType
<1>5. read \in Cache
  BY <1>1, <1>4, CacheOperations
<1>6. Left(step, flush, c) = IF step.accelerator
                            THEN FlushWhen(flush["after"], AcceleratorWrite(read, step.writes))
                            ELSE HostWrite(read, step.writes)
  BY DEF Left, found
<1> HIDE DEF read
<1>7. CASE step.accelerator
  <2>1. b \in AcceleratorWrite(read, step.writes).stale
    BY <1>6, <1>7 DEF FlushWhen, Flushed
  <2>2. AcceleratorWrite(read, step.writes).stale
            = read.stale \cup (step.writes \cap read.resident)
    BY <1>5 DEF AcceleratorWrite, Cache
  <2> QED BY <1>1, <1>2, <1>3, <1>7, <2>1, <2>2
<1>8. CASE ~step.accelerator
  BY <1>1, <1>2, <1>3, <1>6, <1>8 DEF HostWrite
<1> QED BY <1>7, <1>8

\* Past the operation at p, what is stale is so since a call no one read after.
LEMMA StalePastOp ==
    ASSUME PassTypeOK, NEW p \in 1..Size, NEW c \in Cache,
           ~Misread(StepAt(p), Found(StepAt(p), kept[p], c)),
           \A b \in c.stale : \E j \in 1..Size : UnreadSince(fn, j, b, p),
           NEW b \in Left(StepAt(p), kept[p], c).stale
    PROVE  \E j \in 1..Size : UnreadSince(fn, j, b, p + 1)
<1>1. /\ Size \in Nat /\ StepAt(p) \in StepType /\ kept[p] \in [Sides -> BOOLEAN]
      /\ Len(fn.ops) = Size
  BY FunctionType DEF PassTypeOK, Size
<1>2. CASE b \in c.stale /\ b \notin StepAt(p).reads
  <2>1. PICK j \in 1..Size : UnreadSince(fn, j, b, p)
    BY <1>2
  <2>2. /\ Describe(fn.ops[j]).accelerator /\ b \in Describe(fn.ops[j]).writes
        /\ \A k \in Since(fn, j, p) : b \notin Describe(fn.ops[k]).reads
        /\ p <= j => b \notin fn.escaping
    BY <2>1 DEF UnreadSince
  <2>3. b \notin Describe(fn.ops[p]).reads
    BY <1>2 DEF StepAt
  <2>4. Since(fn, j, p + 1) \subseteq Since(fn, j, p) \cup {p}
    BY <1>1 DEF Since
  <2>5. \A k \in Since(fn, j, p + 1) : b \notin Describe(fn.ops[k]).reads
    BY <2>2, <2>3, <2>4
  <2>6. p + 1 <= j => b \notin fn.escaping
    BY <1>1, <2>2
  <2> QED BY <2>2, <2>5, <2>6 DEF UnreadSince
<1>3. CASE StepAt(p).accelerator /\ b \in StepAt(p).writes
  <2>1. Since(fn, p, p + 1) = {} /\ ~(p + 1 <= p)
    BY <1>1 DEF Since
  <2> QED BY <1>3, <2>1 DEF UnreadSince, StepAt
<1> QED BY <1>1, <1>2, <1>3, LeftStale

\* What an operation that is over hands to the next, whatever it was: its
\* place, and the pair the accepted simulation is at.
LEMMA MovesOn ==
    ASSUME PassInv, BoardInv, UNCHANGED passVars, mode = "done",
           at \in 1..Size, Op.kind \in LeafKinds, Advance,
           seen \subseteq seen', Op.kind \in CallKinds => Pointer(Op) \in seen',
           \A w \in seen' : page'[w] = "written",
           shadow' = IF inner = 0 THEN ShadowStep ELSE shadow
    PROVE  /\ IdleInv' /\ PlaceInv' /\ PageInv' /\ FlushedInv' /\ CallerInv' /\ RegionInv'
           /\ FollowsCert' /\ StaleInv'
           /\ at' \in 0..Size + 1 /\ inner' \in Nat /\ trips' \in 0..MaxTrips
           /\ inner' # 0 => at' \in 1..Size /\ inner' \in DOMAIN fn.ops[at'].body
           /\ shadow' \in Cache
<1> USE DEF BoardInv, PassInv
<1>1. Size \in Nat /\ StepAt(at) \in StepType
  BY FunctionType
<1>2. /\ stage' = "start"
      /\ \/ inner' = 0 /\ at' = at + 1 /\ trips' = 0
         \/ /\ inner # 0 /\ inner' # 0 /\ at' = at
            /\ inner' \in DOMAIN fn.ops[at].body /\ trips' \in 0..MaxTrips
  BY AdvanceMoves
<1>3. DOMAIN fn.ops[at].body \subseteq Nat \/ inner' = 0
  <2>1. CASE inner' # 0
    <3>1. fn.ops[at].kind = "loop" /\ fn.ops[at] \in Leaf \cup Loop
      BY <1>2, <2>1, FunctionAssumption DEF PlaceInv, PassTypeOK, Size
    <3>2. fn.ops[at].body \in Seq(Leaf)
      BY <3>1 DEF Leaf, Loop, LeafKinds, AcceleratorKinds, OpaqueKinds
    <3> QED BY <3>2
  <2> QED BY <2>1
<1>4. /\ at' \in 0..Size + 1 /\ inner' \in Nat /\ trips' \in 0..MaxTrips
      /\ inner' # 0 => at' \in 1..Size /\ inner' \in DOMAIN fn.ops[at'].body
  BY <1>1, <1>2, <1>3, TripAssumption
<1>5. shadow' \in Cache
  <2>1. shadow \in Cache /\ kept[at] \in [Sides -> BOOLEAN]
    BY DEF BoardTypeOK, PassTypeOK
  <2>2. ShadowStep \in Cache
    BY <1>1, <2>1, LeftType DEF ShadowStep
  <2> QED BY <2>1, <2>2
<1>6. IdleInv' /\ FlushedInv' /\ CallerInv'
  BY <1>1, <1>2, PassFrame DEF IdleInv, FlushedInv, CallerInv
<1>7. PlaceInv'
  BY <1>2, PassFrame DEF PlaceInv
<1>8. PageInv'
  <2>1. ASSUME NEW j \in 1..Size, j < at', fn.ops[j].kind \in CallKinds
        PROVE  Pointer(fn.ops[j]) \in seen'
    <3>1. CASE j < at
      BY <2>1, <3>1 DEF PageInv
    <3>2. CASE j = at
      <4>1. fn.ops[at].kind # "loop"
        BY <2>1, <3>2 DEF CallKinds, AcceleratorKinds
      <4>2. Op = fn.ops[at]
        BY <4>1 DEF PlaceInv, Op
      <4> QED BY <2>1, <3>2, <4>2
    <3> QED BY <1>1, <1>2, <2>1, <3>1, <3>2
  <2> QED BY <1>2, <2>1, PassFrame DEF PageInv, Pointer
<1>9. RegionInv'
  <2> SUFFICES ASSUME inner' # 0
               PROVE  /\ StepAt(at)'.writes \subseteq shadow'.resident \cap shadow'.dirty
                      /\ StepAt(at)'.writes \cap shadow'.stale = {}
    BY DEF RegionInv
  <2>1. inner # 0 /\ at' = at /\ shadow' = shadow
    BY <1>2
  <2>2. StepAt(at)' = StepAt(at)
    BY <2>1, PassFrame DEF StepAt
  <2> QED BY <2>1, <2>2 DEF RegionInv
<1>10. FollowsCert'
  <2> SUFFICES ASSUME Closed(cert, kept) PROVE Place' \in cert
    BY PassFrame DEF FollowsCert
  <2>1. Place \in cert
    BY DEF FollowsCert
  <2>2. CASE inner = 0
    <3>1. inner' = 0 /\ at' = at + 1 /\ shadow' = Left(StepAt(at), kept[at], shadow)
      BY <1>2, <2>2 DEF ShadowStep
    <3>2. StaysIn(<<at, shadow>>, kept, cert)
      BY <2>1, <2>2 DEF Place, Closed
    <3>3. at # 0 /\ at # Size + 1
      BY <1>1
    <3>4. <<at + 1, Left(StepAt(at), kept[at], shadow)>> \in cert
      BY <3>2, <3>3 DEF StaysIn
    <3> QED BY <3>1, <3>4 DEF Place
  <2>3. CASE inner # 0
    <3>1. shadow' = shadow /\ (IF inner' = 0 THEN at' ELSE at' + 1) = at + 1
      BY <1>2, <2>3
    <3> QED BY <2>1, <2>3, <3>1 DEF Place
  <2> QED BY <2>2, <2>3
<1>11. StaleInv'
  <2>1. CASE inner = 0
    <3> SUFFICES ASSUME Modelled(fn), Closed(cert, kept), NEW b \in shadow'.stale
                 PROVE  \E j \in 1..Size : UnreadSince(fn, j, b, at + 1)
      BY <1>2, <2>1, PassFrame DEF StaleInv, Place
    <3>1. shadow' = Left(StepAt(at), kept[at], shadow) /\ shadow \in Cache
      BY <2>1 DEF ShadowStep, BoardTypeOK
    <3>2. StaysIn(<<at, shadow>>, kept, cert)
      BY <2>1 DEF FollowsCert, Place, Closed
    <3>3. at # 0 /\ at # Size + 1
      BY <1>1
    <3>4. ~Misread(StepAt(at), Found(StepAt(at), kept[at], shadow))
      BY <3>2, <3>3 DEF StaysIn
    <3>5. \A c \in shadow.stale : \E j \in 1..Size : UnreadSince(fn, j, c, at)
      BY <2>1 DEF StaleInv, Place
    <3> QED BY <3>1, <3>4, <3>5, StalePastOp
  <2>2. CASE inner # 0
    <3>1. shadow' = shadow /\ Place'[1] = Place[1]
      BY <1>2, <2>2 DEF Place
    <3> QED BY <3>1, StaleStays
  <2> QED BY <2>1, <2>2
<1> QED BY <1>4, <1>5, <1>6, <1>7, <1>8, <1>9, <1>10, <1>11

\* At the start of an operation the simulated cache is the shadow itself.
LEMMA CoversAtStart ==
    ASSUME UNCHANGED passVars, stage' = "start", Modelled(fn) => Covers(shadow)'
    PROVE  CacheModelCovers'
BY PassFrame DEF CacheModelCovers, Simulated

LEMMA FlushAfterKeeps ==
    ASSUME SlicesKeptApart, PassInv, BoardInv, FlushAfter PROVE BoardInv'
<1>1. /\ UNCHANGED <<passVars, page, seen, landing>>
      /\ stage = "flush" /\ InCall("flush") /\ Advance
      /\ mode = "done" /\ at \in 1..Size /\ Op.kind \in CallKinds
      /\ shadow' = IF inner = 0 THEN ShadowStep ELSE shadow
  BY DEF FlushAfter, InCall
<1>2. \/ FlushesOn("after") /\ line' = Emptied /\ memory' = WrittenBack
      \/ ~FlushesOn("after") /\ line' = line /\ memory' = memory
  BY DEF FlushAfter
<1>3. /\ line \in [Window -> {"absent", "clean", "dirty", "old"}]
      /\ memory \in [Window -> BOOLEAN]
  BY DEF BoardInv, BoardTypeOK
<1>4. /\ line' \in [Window -> {"absent", "clean", "dirty", "old"}]
      /\ memory' \in [Window -> BOOLEAN]
      /\ \A w \in Window : memory[w] \/ line[w] = "dirty" => memory'[w] \/ line'[w] = "dirty"
  BY <1>2, <1>3 DEF Emptied, WrittenBack
<1>5. landing = {} /\ \A w \in Window : memory[w] \/ line[w] = "dirty"
  BY <1>1 DEF BoardInv, LandingInv, MemoryInv
<1>6. stage' = "start" /\ (inner = 0 => inner' = 0)
  BY <1>1, AdvanceMoves DEF PassInv, BoardInv
<1>7. /\ IdleInv' /\ PlaceInv' /\ PageInv' /\ FlushedInv' /\ CallerInv' /\ RegionInv'
      /\ FollowsCert' /\ StaleInv'
      /\ at' \in 0..Size + 1 /\ inner' \in Nat /\ trips' \in 0..MaxTrips
      /\ inner' # 0 => at' \in 1..Size /\ inner' \in DOMAIN fn.ops[at'].body
      /\ shadow' \in Cache
  <2>1. /\ \A w \in seen' : page'[w] = "written"
        /\ seen \subseteq seen' /\ Pointer(Op) \in seen'
    BY <1>1 DEF BoardInv, PageInv
  <2> QED BY <1>1, <2>1, MovesOn DEF LeafKinds, CallKinds, OpaqueKinds
<1>8. BoardTypeOK'
  BY <1>1, <1>4, <1>6, <1>7, PassFrame DEF BoardInv, BoardTypeOK, Stages
<1>9. LandingInv' /\ MemoryInv'
  BY <1>1, <1>4, <1>5 DEF LandingInv, MemoryInv
<1>10. AllKeptInv'
  <2> SUFFICES ASSUME AllKept(kept) PROVE \A w \in Window : line'[w] # "old"
    BY PassFrame, <1>1 DEF AllKeptInv
  <2>1. FlushesOn("after")
    BY <1>1 DEF FlushesOn, AllKept, Sides
  <2> QED BY <1>2, <2>1 DEF Emptied
<1>11. OldInv'
  BY <1>1, <1>2, OldStays DEF BoardInv, Emptied
<1>12. CacheModelCovers'
  <2> SUFFICES ASSUME Modelled(fn) PROVE Covers(shadow)'
    BY <1>1, <1>6, CoversAtStart
  <2>1. CASE FlushesOn("after")
    BY <1>2, <2>1 DEF Covers, Emptied
  <2>2. CASE ~FlushesOn("after")
    <3>1. inner = 0 /\ ~kept[at]["after"] /\ line' = line
      BY <1>2, <2>2 DEF FlushesOn
    <3>2. StepAt(at).accelerator
      BY <1>1, <3>1, SeenCall DEF PassInv, BoardInv
    <3>3. shadow' = Simulated
      BY <1>1, <3>1, <3>2 DEF ShadowStep, Left, FlushWhen, Simulated
    <3>4. Covers(Simulated)
      BY <3>1 DEF BoardInv, CacheModelCovers
    <3> QED BY <3>1, <3>3, <3>4 DEF Covers
  <2> QED BY <2>1, <2>2
<1> QED BY <1>7, <1>8, <1>9, <1>10, <1>11, <1>12 DEF BoardInv

-----------------------------------------------------------------------------
(* What the host sees. *)

\* A read of what is not old is a read of the last value.
LEMMA NotOldIsCurrent ==
    ASSUME BoardInv, stage = "start", NEW w \in Window, line[w] # "old"
    PROVE  ReadsCurrent(w) /\ (line[w] = "absent" => memory[w])
<1>1. landing = {} /\ line[w] \in {"absent", "clean", "dirty", "old"}
  BY DEF BoardInv, BoardTypeOK, LandingInv
<1>2. memory[w] \/ line[w] = "dirty"
  BY <1>1 DEF BoardInv, MemoryInv
<1> QED BY <1>1, <1>2 DEF ReadsCurrent

\* No host operation reads a line the accelerator has overwritten: the one it
\* would have to be is stale in the simulated cache, which the accepted
\* simulation did not read either; and a region has no stale buffer in it.
LEMMA HostSees ==
    ASSUME PassInv, BoardInv, AtHostOp
    PROVE  /\ stage = "start" /\ Op \in Leaf
           /\ \A w \in Op.reads : line[w] # "old" /\ ReadsCurrent(w)
<1>1. mode = "done" /\ at \in 1..Size /\ Op.kind \in LeafKinds /\ Op.kind \notin CallKinds
  BY DEF AtHostOp, LeafKinds, CallKinds, AcceleratorKinds, OpaqueKinds
<1>2. stage = "start"
  BY <1>1 DEF BoardInv, PlaceInv
<1>3. Op \in Leaf
  BY <1>1, OpIsLeaf DEF PassInv, BoardInv
<1>4. ASSUME NEW w \in Op.reads PROVE line[w] # "old"
  <2>1. w \in Window /\ BaseOf[w] \in Bases(OperandsOf(Op))
    BY <1>3, <1>4 DEF Leaf, Bases, OperandsOf
  <2>2. CASE AllKept(kept)
    BY <1>2, <2>1, <2>2 DEF BoardInv, AllKeptInv
  <2>3. CASE Closed(cert, kept) /\ Modelled(fn)
    <3>1. Covers(shadow)
      BY <1>2, <2>3 DEF BoardInv, CacheModelCovers, Simulated
    <3>2. CASE inner = 0
      <4>1. ~StepAt(at).accelerator /\ StepAt(at).reads = Bases(OperandsOf(Op))
        BY <1>1, <3>2, StepOfOp DEF PassInv, BoardInv, CallKinds
      <4>2. StaysIn(<<at, shadow>>, kept, cert)
        BY <1>1, <2>3, <3>2 DEF BoardInv, FollowsCert, Place, Closed
      <4>3. at # 0 /\ at # Size + 1
        BY <1>1, FunctionType DEF PassInv
      <4>4. ~Misread(StepAt(at), Found(StepAt(at), kept[at], shadow))
        BY <4>2, <4>3 DEF StaysIn
      <4>5. Found(StepAt(at), kept[at], shadow) = shadow
        BY <4>1 DEF Found, FlushWhen
      <4>6. StepAt(at).reads \cap shadow.stale = {}
        BY <4>4, <4>5 DEF Misread
      <4> QED BY <2>1, <3>1, <4>1, <4>6 DEF Covers
    <3>3. CASE inner # 0
      <4>1. BaseOf[w] \in StepAt(at).writes
        BY <1>1, <2>1, <3>3, StepOfOp DEF PassInv, BoardInv
      <4>2. StepAt(at).writes \cap shadow.stale = {}
        BY <3>3 DEF BoardInv, RegionInv
      <4> QED BY <2>1, <3>1, <4>1, <4>2 DEF Covers
    <3> QED BY <3>2, <3>3
  <2> QED BY <1>1, <2>2, <2>3, DoneMeans
<1>5. Op.reads \subseteq Window
  BY <1>3 DEF Leaf
<1> QED BY <1>2, <1>3, <1>4, <1>5, NotOldIsCurrent

\* Nor does the caller.
LEMMA CallerSees ==
    ASSUME PassInv, BoardInv, at = Size + 1
    PROVE  /\ stage = "start" /\ inner = 0 /\ mode = "done"
           /\ \A w \in EscapingWindows : line[w] # "old" /\ ReadsCurrent(w)
<1>1. Size \in Nat /\ at \notin 1..Size /\ at # 0
  BY FunctionType DEF PassInv
<1>2. stage = "start" /\ inner = 0 /\ mode = "done"
  BY <1>1 DEF BoardInv, BoardTypeOK, PlaceInv, IdleInv, BoardInit
<1>3. ASSUME NEW w \in EscapingWindows PROVE line[w] # "old"
  <2>1. w \in Window /\ BaseOf[w] \in fn.escaping
    BY <1>3 DEF EscapingWindows
  <2>2. CASE AllKept(kept)
    BY <1>2, <2>1, <2>2 DEF BoardInv, AllKeptInv
  <2>3. CASE Closed(cert, kept) /\ Modelled(fn)
    <3>1. Covers(shadow)
      BY <1>2, <2>3 DEF BoardInv, CacheModelCovers, Simulated
    <3>2. StaysIn(<<at, shadow>>, kept, cert)
      BY <1>2, <2>3 DEF BoardInv, FollowsCert, Place, Closed
    <3>3. shadow.stale \cap fn.escaping = {}
      BY <1>1, <3>2 DEF StaysIn
    <3> QED BY <2>1, <3>1, <3>3 DEF Covers
  <2> QED BY <1>2, <2>2, <2>3, DoneMeans
<1>4. EscapingWindows \subseteq Window
  BY DEF EscapingWindows
<1> QED BY <1>2, <1>3, <1>4, NotOldIsCurrent

\* Nor does it leave an old line in a buffer it stores to: such a buffer would be
\* stale in the simulated cache, since a call no one has read after.
LEMMA HostCovers ==
    ASSUME SlicesKeptApart, PassInv, BoardInv, AtHostOp, Modelled(fn), inner = 0,
           NEW w \in Window, BaseOf[w] \in Bases(Op.writes), line[w] = "old"
    PROVE  w \in Op.writes
<1>1. mode = "done" /\ at \in 1..Size /\ Op = fn.ops[at] /\ at \in DOMAIN fn.ops
  BY FunctionAssumption DEF AtHostOp, Op, PassInv, PassTypeOK, Size
<1>2. Op.kind = "host" /\ Op.kind \in LeafKinds /\ Op.kind \notin CallKinds
  BY <1>1 DEF AtHostOp, Modelled, IsOpaque, OpaqueKinds, LeafKinds, CallKinds, AcceleratorKinds
<1>3. stage = "start" /\ Op \in Leaf
  BY HostSees
<1>4. StoresAfterReads(fn, at)
  BY <1>1, <1>2 DEF SlicesKeptApart, PassInv, PassTypeOK
<1>5. PICK v \in Op.writes : BaseOf[w] = BaseOf[v]
  BY DEF Bases
<1>6. w \in CallsWrite(fn)
  BY DEF BoardInv, OldInv
<1>7. CASE AllKept(kept)
  BY <1>3, <1>7 DEF BoardInv, AllKeptInv
<1>8. CASE Closed(cert, kept)
  <2>1. Covers(shadow)
    BY <1>3 DEF BoardInv, CacheModelCovers, Simulated
  <2>2. BaseOf[w] \in shadow.stale
    BY <2>1 DEF Covers
  <2>3. PICK j \in 1..Size : UnreadSince(fn, j, BaseOf[w], at)
    BY <1>1, <1>8, <2>2 DEF BoardInv, StaleInv, Place
  <2>4. ~StepAt(at).accelerator /\ StepAt(at).reads = Bases(Op.reads)
    BY <1>1, <1>2, StepOfOp DEF PassInv, BoardInv, CallKinds, OperandsOf
  <2>5. StaysIn(<<at, shadow>>, kept, cert)
    BY <1>1, <1>8 DEF BoardInv, FollowsCert, Place, Closed
  <2>6. at # 0 /\ at # Size + 1
    BY <1>1, FunctionType DEF PassInv
  <2>7. ~Misread(StepAt(at), Found(StepAt(at), kept[at], shadow))
    BY <2>5, <2>6 DEF StaysIn
  <2>8. Found(StepAt(at), kept[at], shadow) = shadow
    BY <2>4 DEF Found, FlushWhen
  <2>9. BaseOf[w] \notin Bases(Op.reads)
    BY <2>2, <2>4, <2>7, <2>8 DEF Misread
  <2>10. j \in DOMAIN fn.ops
    BY FunctionAssumption DEF PassInv, PassTypeOK, Size
  <2> QED BY <1>1, <1>4, <1>5, <1>6, <2>3, <2>9, <2>10 DEF StoresAfterReads
<1> QED BY <1>1, <1>7, <1>8, DoneMeans

LEMMA HostOpKeeps ==
    ASSUME SlicesKeptApart, PassInv, BoardInv, HostOp PROVE BoardInv'
<1>1. /\ UNCHANGED <<passVars, seen, landing>>
      /\ mode = "done" /\ at \in 1..Size /\ Op.kind \in {"host", "opaque"} /\ AtHostOp
      /\ Op.kind \in LeafKinds /\ Op.kind \notin CallKinds
      /\ line' = Store(Fetch(Op.reads), Op.writes)
      /\ memory' = [w \in Window |-> memory[w] /\ w \notin Op.writes]
      /\ page' = HostPages(Op.reads, Op.writes)
      /\ shadow' = IF inner = 0 THEN ShadowStep ELSE shadow
      /\ Advance
  BY DEF HostOp, AtHostOp, LeafKinds, CallKinds, AcceleratorKinds, OpaqueKinds
<1>2. /\ stage = "start" /\ Op.reads \in SUBSET Window /\ Op.writes \in SUBSET Window
      /\ \A w \in Op.reads : line[w] # "old" /\ (line[w] = "absent" => memory[w])
  BY <1>1, HostSees, NotOldIsCurrent DEF Leaf
<1>3. /\ line \in [Window -> {"absent", "clean", "dirty", "old"}]
      /\ memory \in [Window -> BOOLEAN] /\ landing = {}
      /\ page \in [Window -> {"untouched", "read", "written"}]
      /\ \A w \in Window : memory[w] \/ line[w] = "dirty"
  BY <1>2 DEF BoardInv, BoardTypeOK, LandingInv, MemoryInv
<1>4. \A w \in Window :
          line'[w] = IF w \in Op.writes THEN "dirty"
                     ELSE IF w \in Op.reads /\ line[w] = "absent" THEN "clean"
                     ELSE line[w]
  BY <1>1, <1>2 DEF Store, Fetch
<1>5. /\ line' \in [Window -> {"absent", "clean", "dirty", "old"}]
      /\ memory' \in [Window -> BOOLEAN]
      /\ page' \in [Window -> {"untouched", "read", "written"}]
  BY <1>1, <1>2, <1>3 DEF Store, Fetch, HostPages
<1>6. stage' = "start" /\ (inner = 0 => inner' = 0)
  BY <1>1, AdvanceMoves DEF PassInv, BoardInv
<1>7. /\ IdleInv' /\ PlaceInv' /\ PageInv' /\ FlushedInv' /\ CallerInv' /\ RegionInv'
      /\ FollowsCert' /\ StaleInv'
      /\ at' \in 0..Size + 1 /\ inner' \in Nat /\ trips' \in 0..MaxTrips
      /\ inner' # 0 => at' \in 1..Size /\ inner' \in DOMAIN fn.ops[at'].body
      /\ shadow' \in Cache
  <2>1. \A w \in seen' : page'[w] = "written"
    BY <1>1 DEF BoardInv, BoardTypeOK, PageInv, HostPages
  <2>2. seen \subseteq seen' /\ (Op.kind \in CallKinds => Pointer(Op) \in seen')
    BY <1>1
  <2> QED BY <1>1, <2>1, <2>2, MovesOn
<1>8. BoardTypeOK'
  BY <1>1, <1>5, <1>6, <1>7, PassFrame DEF BoardInv, BoardTypeOK, Stages
<1>9. LandingInv' /\ MemoryInv'
  BY <1>1, <1>3, <1>4 DEF LandingInv, MemoryInv
<1>10. AllKeptInv'
  BY <1>1, <1>2, <1>4, PassFrame DEF BoardInv, AllKeptInv
<1>11. OldInv'
  BY <1>1, <1>4, OldStays DEF BoardInv
<1>12. CacheModelCovers'
  <2> SUFFICES ASSUME Modelled(fn) PROVE Covers(shadow)'
    BY <1>1, <1>6, CoversAtStart
  <2>1. Covers(shadow)
    BY <1>2 DEF BoardInv, CacheModelCovers, Simulated
  <2>2. \A w \in Op.writes : BaseOf[w] \in Bases(Op.writes)
    BY DEF Bases
  <2>3. \A w \in Op.reads : BaseOf[w] \in Bases(Op.reads)
    BY DEF Bases
  <2>4. shadow \in Cache
    BY DEF BoardInv, BoardTypeOK
  <2>5. OperandsOf(Op) = Op.reads
    BY <1>1 DEF OperandsOf
  <2>6. CASE inner = 0
    <3>1. /\ ~StepAt(at).accelerator
          /\ StepAt(at).reads = Bases(Op.reads) /\ StepAt(at).writes = Bases(Op.writes)
      BY <1>1, <2>5, <2>6, StepOfOp DEF PassInv, BoardInv, CallKinds
    <3>2. shadow' = HostWrite(Read(shadow, Bases(Op.reads)), Bases(Op.writes))
      BY <1>1, <2>6, <3>1 DEF ShadowStep, Left, Found, FlushWhen
    <3>3. /\ shadow'.dirty = shadow.dirty \cup Bases(Op.writes)
          /\ shadow'.resident = shadow.resident \cup Bases(Op.reads) \cup Bases(Op.writes)
          /\ shadow'.stale = shadow.stale \ Bases(Op.writes)
      BY <2>4, <3>2 DEF HostWrite, Read, Cache
    <3>4. \A w \in Window : line[w] = "old" /\ BaseOf[w] \in Bases(Op.writes) => w \in Op.writes
      BY <1>1, <2>6, HostCovers
    <3> QED BY <1>2, <1>3, <1>4, <2>1, <2>2, <2>3, <3>3, <3>4 DEF Covers
  <2>7. CASE inner # 0
    <3>1. shadow' = shadow
      BY <1>1, <2>7
    <3>2. Bases(Op.reads) \cup Bases(Op.writes) \subseteq StepAt(at).writes
      BY <1>1, <2>5, <2>7, StepOfOp DEF PassInv, BoardInv
    <3>3. StepAt(at).writes \subseteq shadow.resident \cap shadow.dirty
      BY <2>7 DEF BoardInv, RegionInv
    <3> QED BY <1>2, <1>3, <1>4, <2>1, <2>2, <2>3, <3>1, <3>2, <3>3 DEF Covers
  <2> QED BY <2>6, <2>7
<1> QED BY <1>7, <1>8, <1>9, <1>10, <1>11, <1>12 DEF BoardInv

LEMMA EnterLoopKeeps ==
    ASSUME SlicesKeptApart, PassInv, BoardInv, NEW n \in 0..MaxTrips, EnterLoop(n)
    PROVE  BoardInv'
<1> USE DEF PassInv, BoardInv
<1> DEFINE stays == n = 0 \/ fn.ops[at].body = <<>>
<1>1. /\ UNCHANGED <<passVars, stage, line, memory, page, seen, landing>>
      /\ mode = "done" /\ at \in 1..Size /\ inner = 0 /\ fn.ops[at].kind = "loop"
      /\ stays => at' = at + 1 /\ inner' = inner /\ trips' = trips
      /\ ~stays => inner' = 1 /\ trips' = n - 1 /\ at' = at
      /\ shadow' = ShadowStep
  BY DEF EnterLoop
<1>2. Op.kind \notin CallKinds /\ Op = fn.ops[at]
  BY <1>1 DEF Op, CallKinds, AcceleratorKinds
<1>3. stage = "start" /\ Size \in Nat /\ trips = 0 /\ StepAt(at) \in StepType
  BY <1>1, <1>2, FunctionType DEF PlaceInv
<1>4. ~stays => 1 \in DOMAIN fn.ops[at].body /\ n - 1 \in 0..MaxTrips
  <2>1. fn.ops[at] \in Loop
    <3>1. fn.ops \in Seq(Leaf \cup Loop) /\ at \in 1..Len(fn.ops)
      BY <1>1, FunctionAssumption DEF PassTypeOK, Size
    <3>2. fn.ops[at] \in Leaf \cup Loop
      BY <3>1
    <3> QED BY <1>1, <3>2 DEF Leaf, LeafKinds, AcceleratorKinds, OpaqueKinds
  <2>2. fn.ops[at].body \in Seq(Leaf)
    BY <2>1 DEF Loop
  <2>3. fn.ops[at].body # <<>> => 1 \in DOMAIN fn.ops[at].body
    BY <2>2
  <2> QED BY <2>3, TripAssumption
<1>5. shadow' \in Cache /\ shadow \in Cache
  <2>1. shadow \in Cache /\ kept[at] \in [Sides -> BOOLEAN]
    BY <1>1 DEF BoardTypeOK, PassTypeOK
  <2> QED BY <1>1, <1>3, <2>1, LeftType DEF ShadowStep
<1>6. BoardTypeOK'
  BY <1>1, <1>3, <1>4, <1>5, PassFrame DEF BoardTypeOK, Stages
<1>7. IdleInv' /\ LandingInv' /\ MemoryInv' /\ FlushedInv' /\ AllKeptInv' /\ OldInv'
  BY <1>1, <1>3, PassFrame, OldStays DEF IdleInv, LandingInv, MemoryInv, FlushedInv, AllKeptInv
<1>8. PlaceInv' /\ CallerInv'
  BY <1>1, <1>3, PassFrame DEF PlaceInv, CallerInv
<1>9. PageInv'
  <2>1. \A j \in 1..Size : j < at' /\ fn.ops[j].kind \in CallKinds => j < at
    BY <1>1, <1>2, <1>3
  <2> QED BY <1>1, <1>3, <2>1, PassFrame DEF PageInv, Pointer
<1>10. /\ shadow'.dirty = shadow.dirty \cup StepAt(at).writes
       /\ shadow'.resident = shadow.resident \cup StepAt(at).writes
       /\ shadow'.stale = shadow.stale \ StepAt(at).writes
  <2>1. ~StepAt(at).accelerator /\ StepAt(at).reads = StepAt(at).writes
    BY <1>1, StepOfLoop
  <2>2. shadow' = HostWrite(Read(shadow, StepAt(at).writes), StepAt(at).writes)
    BY <1>1, <2>1 DEF ShadowStep, Left, Found, FlushWhen
  <2> QED BY <1>5, <2>2 DEF HostWrite, Read, Cache
<1>11. FollowsCert'
  <2> SUFFICES ASSUME Closed(cert, kept) PROVE Place' \in cert
    BY <1>1, PassFrame DEF FollowsCert
  <2>1. StaysIn(<<at, shadow>>, kept, cert)
    BY <1>1 DEF FollowsCert, Place, Closed
  <2>2. at # 0 /\ at # Size + 1
    BY <1>1, <1>3
  <2>3. <<at + 1, ShadowStep>> \in cert
    BY <2>1, <2>2 DEF StaysIn, ShadowStep
  <2> QED BY <1>1, <2>3 DEF Place
<1>12. StaleInv'
  <2> SUFFICES ASSUME Modelled(fn), Closed(cert, kept), NEW b \in shadow'.stale
               PROVE  \E j \in 1..Size : UnreadSince(fn, j, b, at + 1)
    BY <1>1, PassFrame DEF StaleInv, Place
  <2>1. shadow' = Left(StepAt(at), kept[at], shadow)
    BY <1>1 DEF ShadowStep
  <2>2. StaysIn(<<at, shadow>>, kept, cert)
    BY <1>1 DEF FollowsCert, Place, Closed
  <2>3. at # 0 /\ at # Size + 1
    BY <1>1, <1>3
  <2>4. ~Misread(StepAt(at), Found(StepAt(at), kept[at], shadow))
    BY <2>2, <2>3 DEF StaysIn
  <2>5. \A c \in shadow.stale : \E j \in 1..Size : UnreadSince(fn, j, c, at)
    BY <1>1 DEF StaleInv, Place
  <2> QED BY <1>1, <1>5, <2>1, <2>4, <2>5, StalePastOp
<1>13. RegionInv'
  <2> SUFFICES ASSUME inner' # 0
               PROVE  /\ StepAt(at)'.writes \subseteq shadow'.resident \cap shadow'.dirty
                      /\ StepAt(at)'.writes \cap shadow'.stale = {}
    BY DEF RegionInv
  <2>1. StepAt(at)' = StepAt(at)
    BY <1>1, PassFrame DEF StepAt
  <2> QED BY <1>10, <2>1
<1>14. CacheModelCovers'
  <2> SUFFICES ASSUME Modelled(fn) PROVE Covers(shadow)'
    BY <1>1, <1>3, CoversAtStart
  <2>1. Covers(shadow)
    BY <1>1, <1>3 DEF CacheModelCovers, Simulated
  <2>2. shadow.stale \cap StepAt(at).writes = {} \/ AllKept(kept)
    <3>1. CASE Closed(cert, kept)
      <4>1. StaysIn(<<at, shadow>>, kept, cert)
        BY <1>1, <3>1 DEF FollowsCert, Place, Closed
      <4>2. at # 0 /\ at # Size + 1
        BY <1>1, <1>3
      <4>3. ~Misread(StepAt(at), Found(StepAt(at), kept[at], shadow))
        BY <4>1, <4>2 DEF StaysIn
      <4>4. ~StepAt(at).accelerator /\ StepAt(at).reads = StepAt(at).writes
        BY <1>1, StepOfLoop
      <4> QED BY <4>3, <4>4 DEF Misread, Found, FlushWhen
    <3> QED BY <1>1, <3>1, DoneMeans
  <2>3. \A w \in Window : line[w] = "old" => BaseOf[w] \in shadow.stale \ StepAt(at).writes
    BY <1>3, <2>1, <2>2 DEF AllKeptInv, Covers
  <2> QED BY <1>1, <1>10, <2>1, <2>3 DEF Covers
<1> QED BY <1>6, <1>7, <1>8, <1>9, <1>11, <1>12, <1>13, <1>14

-----------------------------------------------------------------------------
(* The caller, and the hardware in its own time. *)

LEMMA EnterCallKeeps ==
    ASSUME SlicesKeptApart, PassInv, BoardInv,
           NEW ws \in SUBSET EscapingWindows, EnterCall(ws)
    PROVE  BoardInv'
<1> USE DEF PassInv, BoardInv
<1>1. /\ UNCHANGED <<passVars, inner, trips, stage, seen, landing>>
      /\ mode = "done" /\ at = 0 /\ at' = 1
      /\ line' = Store(line, ws)
      /\ memory' = [w \in Window |-> memory[w] /\ w \notin ws]
      /\ page' = HostPages({}, ws)
      /\ shadow' = HostWrite(shadow, fn.escaping)
  BY DEF EnterCall
<1>2. /\ Size \in Nat /\ fn.escaping \in SUBSET Buffer
      /\ at \notin 1..Size
      /\ ws \in SUBSET Window /\ \A w \in ws : BaseOf[w] \in fn.escaping
  BY <1>1, FunctionType DEF EscapingWindows
<1>3. /\ line \in [Window -> {"absent", "clean", "dirty", "old"}]
      /\ memory \in [Window -> BOOLEAN]
      /\ page \in [Window -> {"untouched", "read", "written"}]
      /\ seen \in SUBSET Window /\ shadow \in Cache
      /\ stage = "start" /\ inner = 0 /\ trips = 0 /\ landing = {}
      /\ \A w \in Window : memory[w] \/ line[w] = "dirty"
  BY <1>1, <1>2 DEF BoardTypeOK, PlaceInv, LandingInv, MemoryInv
<1>4. \A w \in Window : line'[w] = IF w \in ws THEN "dirty" ELSE line[w]
  BY <1>1 DEF Store
<1>5. /\ line' \in [Window -> {"absent", "clean", "dirty", "old"}]
      /\ memory' \in [Window -> BOOLEAN]
      /\ page' \in [Window -> {"untouched", "read", "written"}]
  BY <1>1, <1>2, <1>3 DEF Store, HostPages
<1>6. /\ shadow' \in Cache
      /\ shadow'.dirty = shadow.dirty \cup fn.escaping
      /\ shadow'.resident = shadow.resident \cup fn.escaping
      /\ shadow'.stale = shadow.stale \ fn.escaping
  BY <1>1, <1>2, <1>3, CacheOperations DEF HostWrite
<1>7. BoardTypeOK'
  BY <1>1, <1>2, <1>3, <1>5, <1>6, TripAssumption, PassFrame DEF BoardTypeOK, Stages
<1>8. IdleInv' /\ PlaceInv' /\ LandingInv' /\ FlushedInv' /\ CallerInv' /\ RegionInv'
  BY <1>1, <1>3, PassFrame
  DEF IdleInv, PlaceInv, LandingInv, FlushedInv, CallerInv, RegionInv
<1>9. MemoryInv' /\ AllKeptInv' /\ OldInv'
  BY <1>1, <1>3, <1>4, PassFrame, OldStays DEF MemoryInv, AllKeptInv
<1>10. PageInv'
  <2>1. \A w \in seen' : page'[w] = "written"
    BY <1>1, <1>3 DEF PageInv, HostPages
  <2>2. \A j \in 1..Size : ~(j < at')
    BY <1>1, <1>2
  <2> QED BY <1>1, <1>3, <2>1, <2>2, PassFrame DEF PageInv
<1>11. FollowsCert'
  <2> SUFFICES ASSUME Closed(cert, kept) PROVE Place' \in cert
    BY <1>1, PassFrame DEF FollowsCert
  <2>1. StaysIn(<<0, shadow>>, kept, cert)
    BY <1>1, <1>3 DEF FollowsCert, Place, Closed
  <2>2. <<1, HostWrite(shadow, fn.escaping)>> \in cert
    BY <1>2, <2>1 DEF StaysIn
  <2> QED BY <1>1, <1>3, <2>2 DEF Place
<1>12. CacheModelCovers'
  <2> SUFFICES ASSUME Modelled(fn) PROVE Covers(shadow)'
    BY <1>1, <1>3, CoversAtStart
  <2>1. Covers(shadow)
    BY <1>1, <1>3 DEF CacheModelCovers, Simulated
  <2>2. \A w \in Window : line[w] = "old" => BaseOf[w] \notin fn.escaping
    BY <1>1 DEF CallerInv, EscapingWindows
  <2> QED BY <1>2, <1>4, <1>6, <2>1, <2>2 DEF Covers
<1>13. StaleInv'
  <2> SUFFICES ASSUME Modelled(fn), Closed(cert, kept), NEW b \in shadow'.stale
               PROVE  \E j \in 1..Size : UnreadSince(fn, j, b, 1)
    BY <1>1, <1>3, PassFrame DEF StaleInv, Place
  <2>1. PICK j \in 1..Size : UnreadSince(fn, j, b, 0)
    BY <1>1, <1>3, <1>6 DEF StaleInv, Place
  <2>2. Since(fn, j, 1) = Since(fn, j, 0) /\ 1 <= j /\ 0 <= j
    BY <1>2 DEF Since, Size
  <2> QED BY <2>1, <2>2 DEF UnreadSince
<1> QED BY <1>7, <1>8, <1>9, <1>10, <1>11, <1>12, <1>13

LEMMA ReturnKeeps ==
    ASSUME SlicesKeptApart, PassInv, BoardInv, Return PROVE BoardInv'
<1> USE DEF PassInv, BoardInv
<1>1. /\ UNCHANGED <<passVars, inner, trips, stage, memory, seen, landing>>
      /\ mode = "done" /\ at = Size + 1 /\ at' = 0
      /\ line' = Fetch(EscapingWindows)
      /\ page' = HostPages(EscapingWindows, {})
      /\ shadow' = Read(shadow, fn.escaping)
  BY DEF Return
<1>2. /\ stage = "start" /\ inner = 0
      /\ \A w \in EscapingWindows : line[w] # "old" /\ (line[w] = "absent" => memory[w])
  BY <1>1, CallerSees, NotOldIsCurrent DEF EscapingWindows
<1>3. /\ Size \in Nat /\ fn.escaping \in SUBSET Buffer
      /\ line \in [Window -> {"absent", "clean", "dirty", "old"}]
      /\ memory \in [Window -> BOOLEAN]
      /\ page \in [Window -> {"untouched", "read", "written"}]
      /\ seen \in SUBSET Window /\ shadow \in Cache
      /\ trips = 0 /\ landing = {}
      /\ \A w \in Window : memory[w] \/ line[w] = "dirty"
  BY <1>2, FunctionType DEF BoardTypeOK, PlaceInv, LandingInv, MemoryInv
<1>4. \A w \in Window :
          line'[w] = IF w \in EscapingWindows /\ line[w] = "absent" THEN "clean" ELSE line[w]
  BY <1>1, <1>2 DEF Fetch
<1>5. /\ line' \in [Window -> {"absent", "clean", "dirty", "old"}]
      /\ page' \in [Window -> {"untouched", "read", "written"}]
  BY <1>1, <1>3 DEF Fetch, HostPages
<1>6. /\ shadow' \in Cache
      /\ shadow'.dirty = shadow.dirty /\ shadow'.stale = shadow.stale
      /\ shadow'.resident = shadow.resident \cup fn.escaping
  <2>1. Read(shadow, fn.escaping) \in Cache
    BY <1>3, CacheOperations
  <2> QED BY <1>1, <1>3, <2>1 DEF Read, Cache
<1>7. BoardTypeOK'
  BY <1>1, <1>2, <1>3, <1>5, <1>6, TripAssumption, PassFrame DEF BoardTypeOK, Stages
<1>8. IdleInv' /\ PlaceInv' /\ LandingInv' /\ FlushedInv' /\ RegionInv'
  BY <1>1, <1>2, <1>3, PassFrame DEF IdleInv, PlaceInv, LandingInv, FlushedInv, RegionInv
<1>9. MemoryInv' /\ AllKeptInv' /\ OldInv' /\ CallerInv'
  <2>1. MemoryInv' /\ AllKeptInv' /\ OldInv'
    BY <1>1, <1>2, <1>3, <1>4, PassFrame, OldStays DEF MemoryInv, AllKeptInv
  <2>2. \A w \in EscapingWindows : line'[w] # "old"
    BY <1>2, <1>4 DEF EscapingWindows
  <2>3. EscapingWindows' = EscapingWindows
    BY <1>1, PassFrame
  <2> QED BY <2>1, <2>2, <2>3 DEF CallerInv
<1>10. PageInv'
  <2>1. \A w \in seen' : page'[w] = "written"
    BY <1>1, <1>3 DEF PageInv, HostPages
  <2>2. \A j \in 1..Size : ~(j < at')
    BY <1>1, <1>3
  <2> QED BY <1>1, <1>2, <2>1, <2>2, PassFrame DEF PageInv
<1>11. FollowsCert'
  <2> SUFFICES ASSUME Closed(cert, kept) PROVE Place' \in cert
    BY <1>1, PassFrame DEF FollowsCert
  <2>1. StaysIn(<<Size + 1, shadow>>, kept, cert)
    BY <1>1, <1>2 DEF FollowsCert, Place, Closed
  <2>2. Size + 1 # 0 /\ Size + 1 \notin 1..Size
    BY <1>3
  <2>3. <<0, Read(shadow, fn.escaping)>> \in cert
    BY <2>1, <2>2 DEF StaysIn
  <2> QED BY <1>1, <1>2, <2>3 DEF Place
<1>12. CacheModelCovers'
  <2> SUFFICES ASSUME Modelled(fn) PROVE Covers(shadow)'
    BY <1>1, <1>2, CoversAtStart
  <2>1. Covers(shadow)
    BY <1>2 DEF CacheModelCovers, Simulated
  <2>2. \A w \in EscapingWindows : BaseOf[w] \in fn.escaping
    BY DEF EscapingWindows
  <2> QED BY <1>4, <1>6, <2>1, <2>2 DEF Covers
<1>13. StaleInv'
  <2> SUFFICES ASSUME Modelled(fn), Closed(cert, kept), NEW b \in shadow.stale
               PROVE  \E j \in 1..Size : UnreadSince(fn, j, b, 0)
    BY <1>1, <1>2, <1>6, PassFrame DEF StaleInv, Place
  <2>1. PICK j \in 1..Size : UnreadSince(fn, j, b, Size + 1)
    BY <1>1, <1>2 DEF StaleInv, Place
  <2>2. Since(fn, j, 0) \subseteq Since(fn, j, Size + 1)
    BY <1>3 DEF Since, Size
  <2>3. StaysIn(<<Size + 1, shadow>>, kept, cert)
    BY <1>1, <1>2 DEF FollowsCert, Place, Closed
  <2>4. b \notin fn.escaping
    BY <1>3, <2>3 DEF StaysIn
  <2> QED BY <2>1, <2>2, <2>4 DEF UnreadSince
<1> QED BY <1>7, <1>8, <1>9, <1>10, <1>11, <1>12, <1>13

LEMMA EvictKeeps ==
    ASSUME SlicesKeptApart, PassInv, BoardInv, NEW v \in Window, Evict(v) PROVE BoardInv'
<1> USE DEF PassInv, BoardInv
<1>1. /\ UNCHANGED <<passVars, at, inner, trips, stage, page, seen, landing, shadow>>
      /\ line[v] # "absent"
      /\ line' = [line EXCEPT ![v] = "absent"]
      /\ memory' = [memory EXCEPT ![v] = @ \/ line[v] = "dirty"]
  BY DEF Evict
<1>2. /\ line \in [Window -> {"absent", "clean", "dirty", "old"}]
      /\ memory \in [Window -> BOOLEAN]
  BY DEF BoardTypeOK
<1>3. /\ line' \in [Window -> {"absent", "clean", "dirty", "old"}]
      /\ memory' \in [Window -> BOOLEAN]
      /\ \A w \in Window : line'[w] = line[w] \/ line'[w] = "absent"
      /\ \A w \in Window : memory[w] \/ line[w] = "dirty" => memory'[w] \/ line'[w] = "dirty"
  BY <1>1, <1>2
<1>4. mode = "done"
  <2> SUFFICES ASSUME mode # "done" PROVE FALSE
    OBVIOUS
  <2>1. line = Emptied
    BY DEF IdleInv, BoardInit
  <2> QED BY <1>1, <2>1 DEF Emptied
<1>5. BoardTypeOK'
  BY <1>1, <1>3, PassFrame DEF BoardTypeOK
<1>6. IdleInv' /\ PlaceInv' /\ LandingInv' /\ PageInv' /\ RegionInv' /\ FollowsCert'
  BY <1>1, <1>4, PassFrame, OpFrame
  DEF IdleInv, PlaceInv, LandingInv, PageInv, RegionInv, FollowsCert, Place, Pointer
<1>7. MemoryInv' /\ FlushedInv' /\ StaleInv'
  BY <1>1, <1>3, OpFrame, StaleStays DEF MemoryInv, FlushedInv, Place
<1>8. AllKeptInv' /\ OldInv' /\ CallerInv'
  BY <1>1, <1>3, PassFrame, OldStays DEF AllKeptInv, CallerInv, EscapingWindows
<1>9. CacheModelCovers'
  <2> SUFFICES ASSUME Modelled(fn), inner = 0 \/ stage = "start"
               PROVE  Covers(IF inner = 0 THEN Simulated ELSE shadow)'
    BY <1>1, PassFrame DEF CacheModelCovers
  <2>1. Covers(IF inner = 0 THEN Simulated ELSE shadow)
    BY DEF CacheModelCovers
  <2>2. (IF inner = 0 THEN Simulated ELSE shadow)' = IF inner = 0 THEN Simulated ELSE shadow
    <3>1. UNCHANGED <<kept, at, stage, inner, shadow>> /\ StepAt(at)' = StepAt(at)
      BY <1>1, PassFrame DEF StepAt
    <3> QED BY <3>1 DEF Simulated, Found
  <2> QED BY <1>3, <2>1, <2>2 DEF Covers
<1> QED BY <1>5, <1>6, <1>7, <1>8, <1>9

\* A result lands in a page the host has written: its output has been seen.
LEMMA ResultLands ==
    ASSUME SlicesKeptApart, PassInv, BoardInv, NEW w \in landing
    PROVE  /\ stage = "busy" /\ w \in Op.writes /\ w \in Window
           /\ page[w] = "written"
<1>1. stage = "busy" /\ w \in Op.writes
  BY DEF BoardInv, LandingInv
<1>2. at \in 1..Size /\ Op.kind \in CallKinds
  BY <1>1 DEF BoardInv, PlaceInv
<1>3. w \in Window /\ Pointer(Op) = w
  BY <1>1, <1>2, CallShape DEF PassInv, BoardInv
<1>4. Pointer(Op) \in seen
  BY <1>1 DEF BoardInv, PageInv
<1> QED BY <1>1, <1>3, <1>4 DEF BoardInv, PageInv

LEMMA LandKeeps ==
    ASSUME SlicesKeptApart, PassInv, BoardInv, NEW v \in Window, Land(v) PROVE BoardInv'
<1> USE DEF PassInv, BoardInv
<1>1. /\ UNCHANGED <<passVars, at, inner, trips, stage, line, seen, shadow>>
      /\ v \in landing /\ landing' = landing \ {v}
      /\ memory' = [memory EXCEPT ![v] = page[v] = "written"]
      /\ page' = [page EXCEPT ![v] = "written"]
  BY DEF Land
<1>2. stage = "busy" /\ v \in Op.writes /\ page[v] = "written"
  BY <1>1, ResultLands
<1>3. /\ memory \in [Window -> BOOLEAN]
      /\ page \in [Window -> {"untouched", "read", "written"}]
      /\ landing \in SUBSET Window
  BY DEF BoardTypeOK
<1>4. memory' \in [Window -> BOOLEAN] /\ page' = page
      /\ \A w \in Window : memory'[w] = (memory[w] \/ w = v)
  BY <1>1, <1>2, <1>3
<1>5. mode = "done"
  BY <1>1 DEF IdleInv, BoardInit
<1>6. BoardTypeOK'
  BY <1>1, <1>3, <1>4, PassFrame DEF BoardTypeOK
<1>7. IdleInv' /\ PlaceInv' /\ PageInv' /\ RegionInv' /\ FollowsCert'
  BY <1>1, <1>4, <1>5, PassFrame, OpFrame
  DEF IdleInv, PlaceInv, PageInv, RegionInv, FollowsCert, Place, Pointer
<1>8. LandingInv' /\ FlushedInv' /\ AllKeptInv' /\ OldInv'
  BY <1>1, <1>2, PassFrame, OpFrame, OldStays DEF LandingInv, FlushedInv, AllKeptInv
<1>9. MemoryInv' /\ CallerInv' /\ StaleInv'
  BY <1>1, <1>2, <1>4, PassFrame, OpFrame, StaleStays DEF MemoryInv, CallerInv, Place
<1>10. CacheModelCovers'
  <2>1. Simulated' = Simulated
    <3>1. UNCHANGED <<kept, at, stage, inner, shadow>> /\ StepAt(at)' = StepAt(at)
      BY <1>1, PassFrame DEF StepAt
    <3> QED BY <3>1 DEF Simulated, Found
  <2> QED BY <1>1, <2>1, PassFrame DEF CacheModelCovers, Covers
<1> QED BY <1>6, <1>7, <1>8, <1>9, <1>10

-----------------------------------------------------------------------------
(* The invariant holds. *)

\* The pass compiles before anything runs, and ends with a flushed cache in
\* the simulation it accepted.
LEMMA CompileKeeps ==
    ASSUME PassInv, PassInv', BoardInv, Compile PROVE BoardInv'
<1> USE DEF PassInv, BoardInv
<1>1. UNCHANGED boardVars /\ mode # "done" /\ fn' = fn
  BY DEF Compile, PassNext, SkipFlush, TryWithout, FinishPass, OutOfRounds, CloseCycle,
         EnterRound, SimulateOp, LeaveRound, Verdict, Proceed
<1>2. BoardInit
  BY <1>1 DEF IdleInv
<1>3. /\ at' = 0 /\ inner' = 0 /\ trips' = 0 /\ stage' = "start" /\ line' = Emptied
      /\ memory' = [w \in Window |-> TRUE] /\ page' = [w \in Window |-> "untouched"]
      /\ seen' = {} /\ landing' = {} /\ shadow' = Flushed
  BY <1>1, <1>2 DEF BoardInit, boardVars
<1>4. BoardTypeOK'
  BY <1>1, <1>3, <1>2 DEF BoardTypeOK, boardVars, Size
<1>5. BoardInit'
  BY <1>3 DEF BoardInit, Emptied, Flushed
<1>6. IdleInv' /\ PlaceInv' /\ LandingInv' /\ MemoryInv'
  BY <1>3, <1>5 DEF IdleInv, PlaceInv, LandingInv, MemoryInv
<1>7. PageInv'
  BY <1>3, FunctionType DEF PageInv
<1>8. FlushedInv' /\ AllKeptInv' /\ OldInv' /\ CallerInv' /\ RegionInv'
  BY <1>3 DEF FlushedInv, AllKeptInv, OldInv, CallerInv, RegionInv, EscapingWindows, Emptied
<1>9. CacheModelCovers'
  BY <1>3 DEF CacheModelCovers, Covers, Simulated, Emptied
<1>10. FollowsCert' /\ StaleInv'
  BY <1>3 DEF FollowsCert, StaleInv, Place, Closed, Flushed
<1> QED BY <1>4, <1>6, <1>7, <1>8, <1>9, <1>10

LEMMA BoardStarts == PassInv /\ Init => BoardInv
<1> SUFFICES ASSUME PassInv, Init PROVE BoardInv
  OBVIOUS
<1>1. Size \in Nat
  BY FunctionType DEF PassInv
<1>2. /\ at = 0 /\ inner = 0 /\ trips = 0 /\ stage = "start" /\ line = Emptied
      /\ memory = [w \in Window |-> TRUE] /\ page = [w \in Window |-> "untouched"]
      /\ seen = {} /\ landing = {} /\ shadow = Flushed /\ BoardInit
  BY DEF Init, BoardInit
<1>3. BoardTypeOK
  BY <1>1, <1>2, TripAssumption DEF BoardTypeOK, Stages, Emptied, Flushed, Cache
<1>4. IdleInv /\ PlaceInv /\ LandingInv /\ MemoryInv /\ PageInv
  BY <1>1, <1>2 DEF IdleInv, PlaceInv, LandingInv, MemoryInv, PageInv
<1>5. FlushedInv /\ AllKeptInv /\ OldInv /\ CallerInv /\ RegionInv
  BY <1>2 DEF FlushedInv, AllKeptInv, OldInv, CallerInv, RegionInv, EscapingWindows, Emptied
<1>6. CacheModelCovers /\ FollowsCert /\ StaleInv
  BY <1>2 DEF CacheModelCovers, Covers, Simulated, Emptied, FollowsCert, StaleInv, Place,
              Closed, Flushed
<1> QED BY <1>3, <1>4, <1>5, <1>6 DEF BoardInv

LEMMA BoardStays ==
    ASSUME SlicesKeptApart, PassInv, PassInv', BoardInv, [Next]_vars PROVE BoardInv'
<1>1. CASE Compile
  BY <1>1, CompileKeeps
<1>2. CASE Run
  <2>1. ASSUME NEW ws \in SUBSET EscapingWindows, EnterCall(ws) PROVE BoardInv'
    BY <2>1, EnterCallKeeps
  <2>2. ASSUME NEW n \in 0..MaxTrips, EnterLoop(n) PROVE BoardInv'
    BY <2>2, EnterLoopKeeps
  <2>3. CASE Return
    BY <2>3, ReturnKeeps
  <2>4. CASE HostOp
    BY <2>4, HostOpKeeps
  <2>5. CASE FlushBefore
    BY <2>5, FlushBeforeKeeps
  <2>6. CASE Prepare
    BY <2>6, PrepareKeeps
  <2>7. CASE Issue
    BY <2>7, IssueKeeps
  <2>8. CASE Fence
    BY <2>8, FenceKeeps
  <2>9. CASE FlushAfter
    BY <2>9, FlushAfterKeeps
  <2> QED BY <1>2, <2>1, <2>2, <2>3, <2>4, <2>5, <2>6, <2>7, <2>8, <2>9 DEF Run
<1>3. ASSUME NEW w \in Window, Evict(w) \/ Land(w) PROVE BoardInv'
  BY <1>3, EvictKeeps, LandKeeps
<1>4. CASE UNCHANGED vars
  <2>1. UNCHANGED passVars /\ UNCHANGED boardVars
    BY <1>4 DEF vars
  <2>2. UNCHANGED <<at, inner, trips, stage, line, memory, page, seen, landing, shadow>>
    BY <2>1 DEF boardVars
  <2>3. BoardTypeOK' /\ IdleInv' /\ PlaceInv' /\ LandingInv' /\ MemoryInv' /\ PageInv'
    BY <2>1, <2>2, PassFrame, OpFrame
    DEF BoardInv, BoardTypeOK, IdleInv, BoardInit, Emptied, PlaceInv, LandingInv, MemoryInv,
        PageInv, Pointer
  <2>4. FlushedInv' /\ AllKeptInv' /\ OldInv' /\ CallerInv' /\ RegionInv' /\ FollowsCert'
    BY <2>1, <2>2, PassFrame, OpFrame, OldStays
    DEF BoardInv, FlushedInv, AllKeptInv, CallerInv, RegionInv, FollowsCert, Place
  <2>5. StaleInv'
    BY <2>1, <2>2, StaleStays DEF BoardInv, Place
  <2>6. CacheModelCovers'
    <3>1. Simulated' = Simulated
      <4>1. StepAt(at)' = StepAt(at)
        BY <2>1, <2>2, PassFrame DEF StepAt
      <4> QED BY <2>1, <2>2, <4>1, PassFrame DEF Simulated, Found
    <3> QED BY <2>1, <2>2, <3>1, PassFrame DEF BoardInv, CacheModelCovers, Covers
  <2> QED BY <2>3, <2>4, <2>5, <2>6 DEF BoardInv
<1> QED BY <1>1, <1>2, <1>3, <1>4 DEF Next

LEMMA BoardInvariant ==
    ASSUME SlicesKeptApart PROVE Spec => [](PassInv /\ BoardInv)
<1>1. PassInv /\ Init => BoardInv
  BY BoardStarts
<1>2. BoardInv /\ [Next]_vars /\ PassInv /\ PassInv' => BoardInv'
  BY BoardStays
<1> QED BY <1>1, <1>2, PassInvariant, PTL DEF Spec

-----------------------------------------------------------------------------
(* What it gives. *)

\* A compiled function never leaves its block, its regions or the vocabulary
\* of the board: of FlushedFunction, what every step preserves.
THEOREM BoardTypeCorrect ==
    ASSUME SlicesKeptApart PROVE Spec => []TypeOK
<1>1. PassInv /\ BoardInv => TypeOK
  BY DEF PassInv, BoardInv, TypeOK
<1> QED BY <1>1, BoardInvariant, PTL

\* The CacheState the pass simulates covers the host's L1, whatever it drops
\* and whenever the accelerator's writes land.
THEOREM SimulationCoversTheCache ==
    ASSUME SlicesKeptApart PROVE Spec => []CacheModelCovers
<1>1. PassInv /\ BoardInv => CacheModelCovers
  BY DEF BoardInv
<1> QED BY <1>1, BoardInvariant, PTL

\* With the flushes the pass leaves, no host operation and no caller looking at
\* a result reads anything but the last value, on the first call or on any later.
THEOREM HostNeverReadsStale ==
    ASSUME SlicesKeptApart PROVE Spec => []HostReadsCurrent
<1>1. PassInv /\ BoardInv => HostReadsCurrent
  <2> SUFFICES ASSUME PassInv, BoardInv PROVE HostReadsCurrent
    OBVIOUS
  <2> QED BY HostSees, CallerSees DEF HostReadsCurrent
<1> QED BY <1>1, BoardInvariant, PTL

\* Nor does an accelerator call: what it takes from memory is the last value,
\* from a page that is mapped, and the first touch has not erased it.
THEOREM AcceleratorNeverReadsStale ==
    ASSUME SlicesKeptApart PROVE Spec => []AcceleratorReadsCurrent
<1>1. PassInv /\ BoardInv => AcceleratorReadsCurrent
  <2> SUFFICES ASSUME PassInv, BoardInv, InCall("issue"), NEW v \in OperandsOf(Op)
               PROVE  memory[v] /\ page[v] # "untouched"
    BY DEF AcceleratorReadsCurrent
  <2>1. /\ mode = "done" /\ at \in 1..Size /\ stage = "issue" /\ Op.kind \in CallKinds
        /\ landing = {}
    BY DEF InCall, BoardInv, LandingInv
  <2>2. v \in Window /\ (v \notin Op.writes \/ v \in OperandsOf(Op))
    BY <2>1, CallShape DEF PassInv, BoardInv
  <2>3. page[v] # "untouched"
    BY <2>1 DEF BoardInv, PageInv
  <2>4. memory[v] \/ line[v] = "dirty"
    BY <2>1, <2>2 DEF BoardInv, MemoryInv
  <2>5. line[v] # "dirty"
    <3>1. CASE FlushesOn("before")
      BY <2>1, <2>2, <3>1 DEF BoardInv, FlushedInv
    <3>2. CASE ~FlushesOn("before")
      <4>1. inner = 0 /\ ~kept[at]["before"]
        BY <3>2 DEF FlushesOn
      <4>2. ~AllKept(kept)
        BY <2>1, <4>1 DEF AllKept, Sides
      <4>3. Closed(cert, kept) /\ Modelled(fn)
        BY <2>1, <4>2, DoneMeans
      <4>4. StepAt(at).accelerator
        BY <2>1, <4>1, <4>3, SeenCall DEF PassInv, BoardInv
      <4>5. StaysIn(<<at, shadow>>, kept, cert)
        BY <2>1, <4>1, <4>3 DEF BoardInv, FollowsCert, Place, Closed
      <4>6. at # 0 /\ at # Size + 1
        BY <2>1, FunctionType DEF PassInv
      <4>7. ~Misread(StepAt(at), Found(StepAt(at), kept[at], shadow))
        BY <4>5, <4>6 DEF StaysIn
      <4>8. Found(StepAt(at), kept[at], shadow) = shadow
        BY <4>1 DEF Found, FlushWhen
      <4>9. StepAt(at).reads \cap (shadow.stale \cup shadow.dirty) = {}
        BY <4>4, <4>7, <4>8 DEF Misread
      <4>10. BaseOf[v] \in StepAt(at).reads
        BY <2>1, <2>2, <4>1, StepOfOp
        DEF PassInv, BoardInv, CallKinds, LeafKinds, OpaqueKinds, Bases
      <4>11. Covers(Read(shadow, StepAt(at).reads))
        BY <2>1, <4>1, <4>3, <4>8 DEF BoardInv, CacheModelCovers, Simulated
      <4>12. shadow \in Cache
        BY DEF BoardInv, BoardTypeOK
      <4>13. /\ Read(shadow, StepAt(at).reads).dirty = shadow.dirty
             /\ Read(shadow, StepAt(at).reads).stale = shadow.stale
        BY <4>12 DEF Read, Cache
      <4> QED BY <2>2, <4>9, <4>10, <4>11, <4>13 DEF Covers
    <3> QED BY <3>1, <3>2
  <2> QED BY <2>3, <2>4, <2>5
<1> QED BY <1>1, BoardInvariant, PTL

\* No result is ever sent to a page where the accelerator's first write would
\* be lost: gemmlir_first_touch has written it.
THEOREM ResultsAreNeverLost ==
    ASSUME SlicesKeptApart PROVE Spec => []ResultsStick
<1>1. PassInv /\ BoardInv => ResultsStick
  <2> SUFFICES ASSUME SlicesKeptApart, PassInv, BoardInv, NEW w \in landing
               PROVE  page[w] = "written"
    BY DEF ResultsStick
  <2> QED BY ResultLands
<1> QED BY <1>1, BoardInvariant, PTL
=============================================================================
