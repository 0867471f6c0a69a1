----------------------------- MODULE MemrefCopy -----------------------------
(***************************************************************************)
(* memrefCopy of the board's runtime: the longest suffix of axes packed in    *)
(* both operands is one run, and an odometer walks the runs.  Memory is       *)
(* addressed in bytes; what a copy has moved is a set of moves [to, from,     *)
(* bytes, how].  Both operands have the shape sizes, as memref.copy has it.  *)
(***************************************************************************)
EXTENDS Integers, Functions, FiniteSetsExt

CONSTANTS
    Copies,   \* the copies asked for: [elem, rank, sizes, src, dst], an operand
              \* being its first element's address and its strides in elements
    MaxRank,  \* GEMMLIR_MAX_RANK: 8
    Word,     \* bytes of a word: 8
    ShortRun  \* bytes up to which a run is copied in line: 64

Operand(rank) == [base : Nat, strides : [1 .. rank -> Int]]

CopyOf(rank) ==
    [elem : Nat \ {0}, rank : {rank}, sizes : [1 .. rank -> Nat], src : Operand(rank), dst : Operand(rank)]

ASSUME CopiesAssumption == \A c \in Copies : c.rank \in Nat /\ c \in CopyOf(c.rank)
ASSUME WordAssumption == Word \in Nat \ {0}

VARIABLES
    copy,        \* the copy
    phase,       \* where it has got to
    run,         \* elements of a run
    outer,       \* axes outside the run: the first ones
    indices,     \* where the odometer stands on them
    readIndex,   \* and the bytes that makes in the source
    writeIndex,  \* and in the destination
    axis,        \* the axis a carry is at
    moves        \* auxiliary: what has been copied

vars == <<copy, phase, run, outer, indices, readIndex, writeIndex, axis, moves>>

sizes == copy.sizes
Rank == copy.rank
Axes == 1 .. Rank

SrcStep(d) == copy.src.strides[d] * copy.elem
DstStep(d) == copy.dst.strides[d] * copy.elem

Move(to, from, bytes, how) == [to |-> to, from |-> from, bytes |-> bytes, how |-> how]

Init ==
    /\ copy \in Copies
    /\ phase = "start"
    /\ run = 1 /\ outer = 0 /\ indices = <<>>
    /\ readIndex = 0 /\ writeIndex = 0 /\ axis = 0
    /\ moves = {}

-----------------------------------------------------------------------------
(* Before the walk. *)

NothingToCopy ==
    /\ phase = "start" /\ \E d \in Axes : sizes[d] = 0
    /\ phase' = "done"
    /\ UNCHANGED <<copy, run, outer, indices, readIndex, writeIndex, axis, moves>>

CopyScalar ==
    /\ phase = "start" /\ Rank = 0
    /\ moves' = {Move(copy.dst.base, copy.src.base, copy.elem, "memcpy")}
    /\ phase' = "done"
    /\ UNCHANGED <<copy, run, outer, indices, readIndex, writeIndex, axis>>

TooManyAxes ==
    /\ phase = "start" /\ \A d \in Axes : sizes[d] # 0
    /\ Rank > MaxRank
    /\ phase' = "exited"
    /\ UNCHANGED <<copy, run, outer, indices, readIndex, writeIndex, axis, moves>>

Begin ==
    /\ phase = "start" /\ \A d \in Axes : sizes[d] # 0
    /\ Rank \in 1 .. MaxRank
    /\ phase' = "collapse"
    /\ run' = 1 /\ outer' = Rank
    /\ UNCHANGED <<copy, indices, readIndex, writeIndex, axis, moves>>

\* Mutant: the destination's strides are not looked at.
PackedInSource == outer > 0 /\ copy.src.strides[outer] = run

Packed ==
    /\ outer > 0
    /\ copy.src.strides[outer] = run /\ copy.dst.strides[outer] = run

Collapse ==
    /\ phase = "collapse" /\ Packed
    /\ run' = run * sizes[outer]
    /\ outer' = outer - 1
    /\ UNCHANGED <<copy, phase, indices, readIndex, writeIndex, axis, moves>>

runBytes == run * copy.elem

AllPacked ==
    /\ phase = "collapse" /\ outer = 0
    /\ moves' = {Move(copy.dst.base, copy.src.base, runBytes, "memcpy")}
    /\ phase' = "done"
    /\ UNCHANGED <<copy, run, outer, indices, readIndex, writeIndex, axis>>

StartWalk ==
    /\ phase = "collapse" /\ outer > 0 /\ ~Packed
    /\ indices' = [d \in 1 .. outer |-> 0]
    /\ readIndex' = 0 /\ writeIndex' = 0
    /\ phase' = "row"
    /\ UNCHANGED <<copy, run, outer, axis, moves>>

-----------------------------------------------------------------------------
(* The walk: the innermost outer axis in a loop of its own, a row, and the    *)
(* odometer over the others.                                                 *)

\* Mutant: the steps of the innermost axis are not looked at.
WordwiseByBase ==
    /\ runBytes % Word = 0 /\ runBytes <= ShortRun
    /\ copy.src.base % Word = 0 /\ copy.dst.base % Word = 0
    /\ \A d \in 1 .. outer - 1 : SrcStep(d) % Word = 0 /\ DstStep(d) % Word = 0

Wordwise ==
    /\ runBytes % Word = 0 /\ runBytes <= ShortRun
    /\ copy.src.base % Word = 0 /\ copy.dst.base % Word = 0
    /\ \A d \in 1 .. outer : SrcStep(d) % Word = 0 /\ DstStep(d) % Word = 0

How == IF Wordwise THEN "words" ELSE IF runBytes <= ShortRun THEN "bytes" ELSE "memcpy"

inner == outer

Row ==
    {Move(copy.dst.base + writeIndex + k * DstStep(inner),
          copy.src.base + readIndex + k * SrcStep(inner), runBytes, How) :
        k \in 0 .. sizes[inner] - 1}

CopyRow ==
    /\ phase = "row"
    /\ moves' = moves \cup Row
    /\ phase' = IF inner = 1 THEN "done" ELSE "carry"
    /\ axis' = inner - 1
    /\ UNCHANGED <<copy, run, outer, indices, readIndex, writeIndex>>

Turn ==
    /\ phase = "carry"
    /\ indices[axis] + 1 # sizes[axis]
    /\ indices' = [indices EXCEPT ![axis] = @ + 1]
    /\ readIndex' = readIndex + SrcStep(axis)
    /\ writeIndex' = writeIndex + DstStep(axis)
    /\ phase' = "row"
    /\ UNCHANGED <<copy, run, outer, axis, moves>>

\* Mutant: nothing returns when the outermost axis is through.
LastRowTurns ==
    /\ phase = "carry" /\ axis = 1
    /\ indices[axis] + 1 = sizes[axis]
    /\ indices' = [indices EXCEPT ![axis] = 0]
    /\ readIndex' = readIndex + SrcStep(axis) - sizes[axis] * SrcStep(axis)
    /\ writeIndex' = writeIndex + DstStep(axis) - sizes[axis] * DstStep(axis)
    /\ phase' = "row"
    /\ UNCHANGED <<copy, run, outer, axis, moves>>

LastRow ==
    /\ phase = "carry" /\ axis = 1
    /\ indices[axis] + 1 = sizes[axis]
    /\ indices' = [indices EXCEPT ![axis] = @ + 1]
    /\ readIndex' = readIndex + SrcStep(axis)
    /\ writeIndex' = writeIndex + DstStep(axis)
    /\ phase' = "done"
    /\ UNCHANGED <<copy, run, outer, axis, moves>>

\* Mutant: the index is not reset.
CarryNotReset ==
    /\ phase = "carry" /\ axis > 1
    /\ indices[axis] + 1 = sizes[axis]
    /\ indices' = [indices EXCEPT ![axis] = @ + 1]
    /\ readIndex' = readIndex + SrcStep(axis) - sizes[axis] * SrcStep(axis)
    /\ writeIndex' = writeIndex + DstStep(axis) - sizes[axis] * DstStep(axis)
    /\ axis' = axis - 1
    /\ UNCHANGED <<copy, phase, run, outer, moves>>

Carry ==
    /\ phase = "carry" /\ axis > 1
    /\ indices[axis] + 1 = sizes[axis]
    /\ indices' = [indices EXCEPT ![axis] = 0]
    /\ readIndex' = readIndex + SrcStep(axis) - sizes[axis] * SrcStep(axis)
    /\ writeIndex' = writeIndex + DstStep(axis) - sizes[axis] * DstStep(axis)
    /\ axis' = axis - 1
    /\ UNCHANGED <<copy, phase, run, outer, moves>>

-----------------------------------------------------------------------------
Next ==
    \/ NothingToCopy \/ CopyScalar \/ TooManyAxes \/ Begin
    \/ Collapse \/ AllPacked \/ StartWalk
    \/ CopyRow \/ Turn \/ LastRow \/ Carry

Spec == Init /\ [][Next]_vars

FairSpec == Spec /\ WF_vars(Next)

-----------------------------------------------------------------------------
(* Properties. *)

Phases == {"start", "collapse", "row", "carry", "done", "exited"}

TypeOK ==
    /\ Rank \in Nat /\ copy \in CopyOf(Rank)
    /\ phase \in Phases
    /\ run \in Nat /\ outer \in 0 .. Rank
    /\ phase \in {"row", "carry"} =>
         /\ outer \in 1 .. Rank
         /\ indices \in [1 .. outer -> Nat]
         /\ \A d \in 1 .. outer : indices[d] < sizes[d]
    /\ phase = "carry" => axis \in 1 .. outer - 1
    /\ readIndex \in Int /\ writeIndex \in Int

\* The element-by-element definition: an element goes from the offset of its
\* indices in the one operand to their offset in the other.
Elements ==
    {e \in [Axes -> 0 .. Max({0} \cup {sizes[d] : d \in Axes})] :
        \A d \in Axes : e[d] < sizes[d]}

AddressOf(operand, e) ==
    operand.base + copy.elem * SumFunction([d \in Axes |-> e[d] * operand.strides[d]])

\* Bytes, as pairs of addresses.
BytesOf(to, from, bytes) == {<<to + b, from + b>> : b \in 0 .. bytes - 1}

ElementBytes ==
    UNION {BytesOf(AddressOf(copy.dst, e), AddressOf(copy.src, e), copy.elem) : e \in Elements}

MovedBytes == UNION {BytesOf(m.to, m.from, m.bytes) : m \in moves}

\* When the copy returns it has done what copying element by element does, and
\* nothing else: every element, to its own place, and no byte between or past
\* them.
CopiesTheElements == phase = "done" => MovedBytes = ElementBytes

\* A word is only read and written at an address of its own alignment,
\* wherever the walk has got to.
WordsAreAligned ==
    \A m \in moves : m.how = "words" =>
        m.to % Word = 0 /\ m.from % Word = 0 /\ m.bytes % Word = 0

\* The walk ends.
CopyEnds == <>(phase \in {"done", "exited"})
=============================================================================
