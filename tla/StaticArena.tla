---------------------------- MODULE StaticArena ----------------------------
(***************************************************************************)
(* --plan-static-buffers: the temporaries of a function become views at     *)
(* fixed offsets of one static arena -- and the function so rewritten,      *)
(* called over and over by a caller that keeps what it returns.             *)
(*                                                                          *)
(* A value is named by the position of the operation that makes it.  The    *)
(* run keeps, for every buffer the original function would have allocated,  *)
(* whether the bytes the rewritten one uses for it still hold what was      *)
(* last written through it.                                                 *)
(***************************************************************************)
EXTENDS Integers, Sequences, FiniteSets

CONSTANTS
    Functions,  \* the functions the pass is given
    MaxCalls,   \* bound on the calls of the rewritten function
    MaxTrips    \* bound on the times a region of it runs in one call

ASSUME BoundAssumption == MaxCalls \in Nat /\ MaxTrips \in Nat

OpKinds == {"alloc", "view", "alias", "write", "dealloc", "return"}

Operation == [kind : OpKinds, from : SUBSET Nat, nested : BOOLEAN,
              fixed : BOOLEAN, size : Nat, align : Int]

ASSUME FunctionAssumption ==
    \A f \in Functions :
        /\ f \in Seq(Operation)
        /\ \A i \in DOMAIN f : f[i].from \subseteq DOMAIN f

VARIABLES
    fn,        \* the function: a sequence of operations
    phase,     \* the stage of the pass, then "run"
    at,        \* the operation, or the slot, the stage has come to
    reachable, \* the allocation being considered and the views found of it
    todo,      \* those of them whose users are still to be looked at
    slots,     \* the allocations to place
    total,     \* the bytes of the arena laid out so far
    pieceOf,   \* pieceOf[i]: the slot allocation i became, 0 if none
    erased     \* the deallocations taken out

passVars == <<fn, phase, at, reachable, todo, slots, total, pieceOf, erased>>

VARIABLES
    calls,     \* calls begun
    trips,     \* times the current region has run in this call
    env,       \* env[i]: the buffer value i is bound to, 0 if none
    buffers,   \* the buffers the original function has allocated
    held       \* those of them the caller was given

runVars == <<calls, trips, env, buffers, held>>
vars == <<passVars, runVars>>

Ops == DOMAIN fn

\* Mutant: allocations inside a region are placed like the others.
PlaceableAnywhere(op) == op.kind = "alloc" /\ op.fixed

\* What an allocation has to be for the pass to place it.
Placeable(op) == op.kind = "alloc" /\ op.fixed /\ ~op.nested

\* Mutant: an alignment of zero is taken as it is.
\* The alignment an allocation asks for, -1 standing for none asked.
AlignOf(op) == IF op.align = -1 THEN 64 ELSE IF op.align < 1 THEN 1 ELSE op.align

\* Mutant: rounds down.
RoundDown(v, to) == (v \div to) * to

RoundUp(v, to) == ((v + to - 1) \div to) * to

Users(v) == {i \in Ops : v \in fn[i].from}

ViewsOf(v) == {i \in Users(v) : fn[i].kind = "view"}

Returned(v) == \E i \in Users(v) : fn[i].kind = "return"

SlotOf(i) == [op |-> i, size |-> fn[i].size, align |-> AlignOf(fn[i]), offset |-> 0]

-----------------------------------------------------------------------------
(* The pass. *)

PassInit ==
    /\ fn \in Functions
    /\ phase = "walk" /\ at = 1
    /\ reachable = {} /\ todo = {}
    /\ slots = <<>> /\ total = 0
    /\ pieceOf = [i \in DOMAIN fn |-> 0]
    /\ erased = {}

SkipOp ==
    /\ phase = "walk" /\ at \in Ops /\ ~Placeable(fn[at])
    /\ at' = at + 1
    /\ UNCHANGED <<fn, phase, reachable, todo, slots, total, pieceOf, erased, runVars>>

Consider ==
    /\ phase = "walk" /\ at \in Ops /\ Placeable(fn[at])
    /\ phase' = "trace"
    /\ reachable' = {at} /\ todo' = {at}
    /\ UNCHANGED <<fn, at, slots, total, pieceOf, erased, runVars>>

\* Mutant: the users of a view are not looked at.
TraceUnfollowed(v) ==
    /\ phase = "trace" /\ v \in todo
    /\ IF Returned(v)
       THEN /\ phase' = "walk" /\ at' = at + 1
            /\ reachable' = {} /\ todo' = {}
       ELSE /\ todo' = todo \ {v}
            /\ UNCHANGED <<phase, at, reachable>>
    /\ UNCHANGED <<fn, slots, total, pieceOf, erased, runVars>>

\* A view is followed; a return means the buffer is left to the allocator.
Trace(v) ==
    /\ phase = "trace" /\ v \in todo
    /\ IF Returned(v)
       THEN /\ phase' = "walk" /\ at' = at + 1
            /\ reachable' = {} /\ todo' = {}
       ELSE /\ reachable' = reachable \cup ViewsOf(v)
            /\ todo' = (todo \ {v}) \cup (ViewsOf(v) \ reachable)
            /\ UNCHANGED <<phase, at>>
    /\ UNCHANGED <<fn, slots, total, pieceOf, erased, runVars>>

KeepSlot ==
    /\ phase = "trace" /\ todo = {}
    /\ slots' = Append(slots, SlotOf(at))
    /\ phase' = "walk" /\ at' = at + 1
    /\ reachable' = {}
    /\ UNCHANGED <<fn, todo, total, pieceOf, erased, runVars>>

\* A function with nothing to place is left as it is.
EndWalk ==
    /\ phase = "walk" /\ at = Len(fn) + 1
    /\ phase' = IF slots = <<>> THEN "run" ELSE "layout"
    /\ at' = IF slots = <<>> THEN 0 ELSE 1
    /\ UNCHANGED <<fn, reachable, todo, slots, total, pieceOf, erased, runVars>>

LayOut ==
    /\ phase = "layout" /\ at \in DOMAIN slots
    /\ LET offset == RoundUp(total, slots[at].align)
       IN  /\ slots' = [slots EXCEPT ![at].offset = offset]
           /\ total' = offset + slots[at].size
    /\ at' = at + 1
    /\ UNCHANGED <<fn, phase, reachable, todo, pieceOf, erased, runVars>>

EndLayout ==
    /\ phase = "layout" /\ at = Len(slots) + 1
    /\ phase' = "replace" /\ at' = 1
    /\ UNCHANGED <<fn, reachable, todo, slots, total, pieceOf, erased, runVars>>

Replace ==
    /\ phase = "replace" /\ at \in DOMAIN slots
    /\ pieceOf' = [pieceOf EXCEPT ![slots[at].op] = at]
    /\ at' = at + 1
    /\ UNCHANGED <<fn, phase, reachable, todo, slots, total, erased, runVars>>

\* Mutant: every deallocation goes.
EraseEveryDealloc ==
    /\ phase = "replace" /\ at = Len(slots) + 1
    /\ erased' = {i \in Ops : fn[i].kind = "dealloc"}
    /\ phase' = "run" /\ at' = 0
    /\ UNCHANGED <<fn, reachable, todo, slots, total, pieceOf, runVars>>

\* The arena is never handed back, so neither are its pieces.
EraseDeallocs ==
    /\ phase = "replace" /\ at = Len(slots) + 1
    /\ erased' = {i \in Ops : /\ fn[i].kind = "dealloc"
                              /\ \E x \in fn[i].from : pieceOf[x] # 0}
    /\ phase' = "run" /\ at' = 0
    /\ UNCHANGED <<fn, reachable, todo, slots, total, pieceOf, runVars>>

PassNext ==
    \/ SkipOp \/ Consider \/ (\E v \in todo : Trace(v)) \/ KeepSlot \/ EndWalk
    \/ LayOut \/ EndLayout \/ Replace \/ EraseDeallocs

-----------------------------------------------------------------------------
(* The rewritten function, run beside the original. *)

RunInit ==
    /\ calls = 0 /\ trips = 0
    /\ env = [i \in DOMAIN fn |-> 0]
    /\ buffers = <<>> /\ held = {}

InArena(b) == pieceOf[buffers[b].op] # 0

Bytes(b) ==
    LET s == slots[pieceOf[buffers[b].op]]
    IN  s.offset .. s.offset + s.size - 1

SharesBytes(b, c) == InArena(b) /\ InArena(c) /\ Bytes(b) \cap Bytes(c) # {}

\* A write through one buffer spoils every other that has a byte in common.
Written(b) ==
    [c \in DOMAIN buffers |->
        [buffers[c] EXCEPT !.intact = c = b \/ (@ /\ ~SharesBytes(b, c))]]

Executes(kinds) == /\ phase = "run" /\ at \in Ops /\ fn[at].kind \in kinds
                   /\ at' = at + 1

Call ==
    /\ phase = "run" /\ at = 0 /\ calls < MaxCalls
    /\ calls' = calls + 1 /\ at' = 1 /\ trips' = 1
    /\ env' = [i \in Ops |-> 0]
    /\ UNCHANGED <<fn, phase, reachable, todo, slots, total, pieceOf, erased,
                   buffers, held>>

RunAlloc ==
    /\ Executes({"alloc"})
    /\ buffers' = Append(buffers, [op |-> at, intact |-> TRUE,
                                   dead |-> FALSE, freed |-> FALSE])
    /\ env' = [env EXCEPT ![at] = Len(buffers) + 1]
    /\ UNCHANGED <<fn, phase, reachable, todo, slots, total, pieceOf, erased,
                   calls, trips, held>>

\* A value a region carries is bound to none on the region's first trip.
RunView ==
    /\ Executes({"view", "alias"})
    /\ \E x \in fn[at].from : env' = [env EXCEPT ![at] = env[x]]
    /\ UNCHANGED <<fn, phase, reachable, todo, slots, total, pieceOf, erased,
                   calls, trips, buffers, held>>

RunWrite ==
    /\ Executes({"write"})
    /\ \E x \in fn[at].from :
           buffers' = IF env[x] = 0 THEN buffers ELSE Written(env[x])
    /\ UNCHANGED <<fn, phase, reachable, todo, slots, total, pieceOf, erased,
                   calls, trips, env, held>>

RunDealloc ==
    /\ Executes({"dealloc"})
    /\ \E x \in fn[at].from :
           buffers' = IF env[x] = 0 THEN buffers
                      ELSE [buffers EXCEPT ![env[x]].dead = TRUE,
                                           ![env[x]].freed = at \notin erased]
    /\ UNCHANGED <<fn, phase, reachable, todo, slots, total, pieceOf, erased,
                   calls, trips, env, held>>

\* The region that ends here runs once more.
LoopBack(first) ==
    /\ phase = "run" /\ at \in Ops /\ ~fn[at].nested /\ trips < MaxTrips
    /\ first \in 1 .. at - 1
    /\ \A i \in first .. at - 1 : fn[i].nested
    /\ first > 1 => ~fn[first - 1].nested
    /\ trips' = trips + 1 /\ at' = first
    /\ UNCHANGED <<fn, phase, reachable, todo, slots, total, pieceOf, erased,
                   calls, env, buffers, held>>

RunReturn ==
    /\ phase = "run" /\ at \in Ops /\ fn[at].kind = "return"
    /\ held' = held \cup ({env[x] : x \in fn[at].from} \ {0})
    /\ at' = 0
    /\ UNCHANGED <<fn, phase, reachable, todo, slots, total, pieceOf, erased,
                   calls, trips, env, buffers>>

RunNext ==
    \/ Call \/ RunAlloc \/ RunView \/ RunWrite \/ RunDealloc \/ RunReturn
    \/ \E first \in Ops : LoopBack(first)

-----------------------------------------------------------------------------
Init == PassInit /\ RunInit

Next == PassNext \/ RunNext

Spec == Init /\ [][Next]_vars

-----------------------------------------------------------------------------
(* What the pass promises. *)

\* The slots whose offset is final.
Laid == IF phase = "layout" THEN 1 .. at - 1
        ELSE IF phase \in {"replace", "run"} THEN DOMAIN slots
        ELSE {}

Buffer == [op : Nat, intact : BOOLEAN, dead : BOOLEAN, freed : BOOLEAN]

Slot == [op : Nat, size : Nat, align : Nat \ {0}, offset : Nat]

PassTypeOK ==
    /\ fn \in Functions
    /\ phase \in {"walk", "trace", "layout", "replace", "run"}
    /\ at \in Nat
    /\ reachable \subseteq Ops /\ todo \subseteq reachable
    /\ slots \in Seq(Slot)
    /\ total \in Nat
    /\ pieceOf \in [Ops -> Nat]
    /\ erased \subseteq Ops

\* Type correctness of the pass's variables and of the run's.
TypeOK ==
    /\ PassTypeOK
    /\ calls \in 0 .. MaxCalls
    /\ trips \in Nat
    /\ buffers \in Seq(Buffer)
    /\ env \in [Ops -> 0 .. Len(buffers)]
    /\ held \subseteq 1 .. Len(buffers)

\* No two slots have a byte in common, each starts at the alignment it was
\* asked for and ends inside the arena (the layout loop, lines 112-116).
SlotsApart ==
    /\ \A i \in Laid : /\ slots[i].offset % slots[i].align = 0
                       /\ slots[i].offset + slots[i].size <= total
    /\ \A i, j \in Laid :
           i < j => slots[i].offset + slots[i].size <= slots[j].offset

ClosedUnderViews(R) == \A v \in R : ViewsOf(v) \subseteq R

\* A buffer leaves the function if no set of values closed under views holds
\* it without holding a value returned.
Escapes(i) ==
    \A R \in SUBSET Ops :
        (i \in R /\ ClosedUnderViews(R)) => \E v \in R : Returned(v)

\* Gemmini needs a buffer that does not move between calls: every allocation
\* the pass can place is in the arena unless it leaves the function, and none
\* that leaves is (the worklist of lines 85-96, however its values are taken).
OnlyEscapingLeft ==
    (phase = "run" /\ calls = 0) =>
        \A i \in Ops : Placeable(fn[i]) => (pieceOf[i] = 0 <=> Escapes(i))

\* What was last written through a buffer is in its bytes for as long as
\* anyone can read it: the function during the call, the caller ever after,
\* calls of the function and trips of its regions included.
DataSurvives ==
    phase = "run" =>
        \A b \in held \cup (IF at = 0 THEN {} ELSE {env[i] : i \in Ops}) :
            b # 0 => buffers[b].dead \/ buffers[b].intact

\* The deallocations that remain are those of buffers the allocator made: the
\* arena is never handed back, and no other buffer leaks because of it.
FreedAsAllocated ==
    phase = "run" =>
        \A b \in DOMAIN buffers :
            buffers[b].freed <=> buffers[b].dead /\ ~InArena(b)

\* PlanStaticBuffersPass.cpp:83 says "Anything that hands the buffer, or a
\* view of it, to the caller takes ownership with it": what the caller holds
\* is never a piece of the arena.
CallerOwnsResult == phase = "run" => \A b \in held : ~InArena(b)
=============================================================================
