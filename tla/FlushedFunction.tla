-------------------------- MODULE FlushedFunction --------------------------
(***************************************************************************)
(* A compiled function running on the board, with the flushes               *)
(* --place-cache-flushes left in it.                                        *)
(*                                                                          *)
(* The caller calls it in a loop.  The lowering puts gemmlir_flush around   *)
(* each accelerator call where the pass kept it; the runtime's wrapper      *)
(* (runtime/gemmlir_rt.c) writes an output buffer the first time it sees    *)
(* it, touches every operand, issues the call and fences.  Underneath are   *)
(* the host's L1, which may drop a line whenever it likes, and the          *)
(* accelerator, whose writes land some time after the call is issued.       *)
(*                                                                          *)
(* Data is kept as the one bit a reader cares about: whether a copy holds   *)
(* the value of the last write to its window, in program order.             *)
(***************************************************************************)
EXTENDS PlaceCacheFlushes

CONSTANTS
    Span,     \* Span[w]: the windows between w's first and last byte
    First,    \* First[ws]: the window a view made of the windows ws begins with
    MaxTrips  \* bound on the iterations of a loop

ASSUME SpanAssumption == Span \in [Window -> SUBSET Window]
ASSUME FirstAssumption ==
    \A ws \in (SUBSET Window) \ {{}} : First[ws] \in ws
ASSUME TripAssumption == MaxTrips \in Nat

VARIABLES
    at,      \* 0 in the caller, i in operation i, n + 1 at the return
    inner,   \* position in the body of the loop at "at"; 0 outside
    trips,   \* iterations the loop still makes after this one
    stage,   \* how far the current operation has got
    line,    \* the host's L1: a window's line is absent, clean, dirty or old
    memory,  \* memory[w]: memory holds the last value written to w
    page,    \* a window's page: never touched, read by the host, written by it
    seen,    \* gemmlir_touched: the outputs already written once
    landing, \* windows the accelerator has yet to write
    shadow   \* auxiliary: the pass's CacheState, run along with the program

boardVars == <<at, inner, trips, stage, line, memory, page, seen, landing, shadow>>
vars == <<passVars, boardVars>>

Stages == {"start", "prepare", "issue", "busy", "flush"}

CallKinds == AcceleratorKinds \cup {"norm"}

Op == IF inner = 0 THEN fn.ops[at] ELSE fn.ops[at].body[inner]

InCall(s) == /\ mode = "done" /\ at \in 1..Size /\ stage = s
             /\ Op.kind \in CallKinds

\* Operations inside a region are never given an attribute.
FlushesOn(side) == inner # 0 \/ kept[at][side]

EscapingWindows == {w \in Window : BaseOf[w] \in fn.escaping}

-----------------------------------------------------------------------------
(* The host's L1 and memory. *)

\* A read returns the line if there is one and memory otherwise.
ReadsCurrent(w) ==
    IF line[w] = "absent" THEN memory[w] ELSE line[w] \in {"clean", "dirty"}

Fetch(ws) == [w \in Window |->
                IF w \in ws /\ line[w] = "absent"
                THEN IF memory[w] THEN "clean" ELSE "old"
                ELSE line[w]]

Store(lines, ws) == [w \in Window |-> IF w \in ws THEN "dirty" ELSE lines[w]]

Emptied == [w \in Window |-> "absent"]

\* Displacing a dirty line writes it back.  A line the accelerator has
\* overwritten since is not dirty any more: its write back does not show.
WrittenBack == [w \in Window |-> memory[w] \/ line[w] = "dirty"]

HostPages(reads, writes) ==
    [w \in Window |-> IF w \in writes THEN "written"
                      ELSE IF w \in reads /\ page[w] = "untouched" THEN "read"
                      ELSE page[w]]

Evict(w) ==
    /\ line[w] # "absent"
    /\ line' = [line EXCEPT ![w] = "absent"]
    /\ memory' = [memory EXCEPT ![w] = @ \/ line[w] = "dirty"]
    /\ UNCHANGED <<passVars, at, inner, trips, stage, page, seen, landing, shadow>>

\* The first write of the accelerator to a page the host never wrote is lost.
Land(w) ==
    /\ w \in landing
    /\ landing' = landing \ {w}
    /\ memory' = [memory EXCEPT ![w] = page[w] = "written"]
    /\ page' = [page EXCEPT ![w] = "written"]
    /\ UNCHANGED <<passVars, at, inner, trips, stage, line, seen, shadow>>

-----------------------------------------------------------------------------
(* The caller. *)

BoardInit ==
    /\ at = 0 /\ inner = 0 /\ trips = 0 /\ stage = "start"
    /\ line = Emptied
    /\ memory = [w \in Window |-> TRUE]
    /\ page = [w \in Window |-> "untouched"]
    /\ seen = {} /\ landing = {}
    /\ shadow = Flushed

\* It fills some of what it can see, and calls.
EnterCall(ws) ==
    /\ mode = "done" /\ at = 0
    /\ at' = 1
    /\ line' = Store(line, ws)
    /\ memory' = [w \in Window |-> memory[w] /\ w \notin ws]
    /\ page' = HostPages({}, ws)
    /\ shadow' = HostWrite(shadow, fn.escaping)
    /\ UNCHANGED <<passVars, inner, trips, stage, seen, landing>>

\* It reads what it can see.
Return ==
    /\ mode = "done" /\ at = Size + 1
    /\ at' = 0
    /\ line' = Fetch(EscapingWindows)
    /\ page' = HostPages(EscapingWindows, {})
    /\ shadow' = Read(shadow, fn.escaping)
    /\ UNCHANGED <<passVars, inner, trips, stage, memory, seen, landing>>

-----------------------------------------------------------------------------
(* The compiled function. *)

\* Control leaves the operation: to the next one of the loop's body, to its
\* next iteration, or to the operation after it.
Advance ==
    LET last == inner = 0 \/ inner = Len(fn.ops[at].body)
    IN  /\ stage' = "start"
        /\ inner' = IF ~last THEN inner + 1
                    ELSE IF inner # 0 /\ trips > 0 THEN 1 ELSE 0
        /\ trips' = IF last /\ trips > 0 THEN trips - 1 ELSE trips
        /\ at' = IF last /\ trips = 0 THEN at + 1 ELSE at

\* The pass treats the operation it is at as one step.
ShadowStep == Left(StepAt(at), kept[at], shadow)

EnterLoop(n) ==
    /\ mode = "done" /\ at \in 1..Size /\ inner = 0
    /\ fn.ops[at].kind = "loop"
    /\ IF n = 0 \/ fn.ops[at].body = <<>>
       THEN at' = at + 1 /\ UNCHANGED <<inner, trips>>
       ELSE inner' = 1 /\ trips' = n - 1 /\ UNCHANGED at
    /\ shadow' = ShadowStep
    /\ UNCHANGED <<passVars, stage, line, memory, page, seen, landing>>

HostOp ==
    /\ mode = "done" /\ at \in 1..Size
    /\ Op.kind \in {"host", "opaque"}
    /\ line' = Store(Fetch(Op.reads), Op.writes)
    /\ memory' = [w \in Window |-> memory[w] /\ w \notin Op.writes]
    /\ page' = HostPages(Op.reads, Op.writes)
    /\ shadow' = IF inner = 0 THEN ShadowStep ELSE shadow
    /\ Advance
    /\ UNCHANGED <<passVars, seen, landing>>

\* gemmlir_flush, where the attribute is absent.
FlushBefore ==
    /\ InCall("start")
    /\ IF FlushesOn("before")
       THEN line' = Emptied /\ memory' = WrittenBack
       ELSE UNCHANGED <<line, memory>>
    /\ stage' = "prepare"
    /\ UNCHANGED <<passVars, at, inner, trips, page, seen, landing, shadow>>

\* gemmlir_touched holds addresses: an output is known by its first byte.
Pointer(op) == First[op.writes]

\* What the wrapper sets to zero: a convolution its own slice, a matmul all
\* that lies between the first and the last element of C.
TouchedNowhere(op) == {}

TouchedBySpan(op) == UNION {Span[w] : w \in op.writes}

TouchedFirst(op) ==
    IF op.kind \in {"matmul", "accumulate"}
    THEN UNION {Span[w] : w \in op.writes} ELSE op.writes

\* The wrapper before the call: gemmlir_first_touch writes an output not seen
\* before and evicts; gemmlir_first_read reads every operand.
Prepare ==
    LET fresh  == Pointer(Op) \notin seen
        zeroed == IF fresh THEN TouchedFirst(Op) ELSE {}
        lines  == IF fresh THEN Emptied ELSE line
        mem    == [w \in Window |-> IF fresh THEN WrittenBack[w] /\ w \notin zeroed
                                    ELSE memory[w]]
    IN  /\ InCall("prepare")
        /\ seen' = seen \cup {Pointer(Op)}
        /\ memory' = mem
        /\ line' = [w \in Window |->
                      IF w \in OperandsOf(Op) /\ lines[w] = "absent"
                      THEN IF mem[w] THEN "clean" ELSE "old" ELSE lines[w]]
        /\ page' = HostPages(OperandsOf(Op), zeroed)
        /\ stage' = "issue"
        /\ UNCHANGED <<passVars, at, inner, trips, landing, shadow>>

\* The accelerator takes its operands from memory; its result is on its way.
Issue ==
    /\ InCall("issue")
    /\ landing' = landing \cup Op.writes
    /\ memory' = [w \in Window |-> memory[w] /\ w \notin Op.writes]
    /\ line' = [w \in Window |-> IF w \in Op.writes /\ line[w] # "absent"
                                 THEN "old" ELSE line[w]]
    /\ stage' = "busy"
    /\ UNCHANGED <<passVars, at, inner, trips, page, seen, shadow>>

\* The fence at the end of gemmini.h's matmul and resadd, or the wrapper's own.
FenceWithoutWaiting ==
    /\ InCall("busy")
    /\ stage' = "flush"
    /\ UNCHANGED <<passVars, at, inner, trips, line, memory, page, seen, landing, shadow>>

Fence ==
    /\ InCall("busy")
    /\ landing = {}
    /\ stage' = "flush"
    /\ UNCHANGED <<passVars, at, inner, trips, line, memory, page, seen, landing, shadow>>

FlushAfter ==
    /\ InCall("flush")
    /\ IF FlushesOn("after")
       THEN line' = Emptied /\ memory' = WrittenBack
       ELSE UNCHANGED <<line, memory>>
    /\ shadow' = IF inner = 0 THEN ShadowStep ELSE shadow
    /\ Advance
    /\ UNCHANGED <<passVars, page, seen, landing>>

-----------------------------------------------------------------------------
Init == PassInit /\ BoardInit

Compile == PassNext /\ UNCHANGED boardVars

Run ==
    \/ \E ws \in SUBSET EscapingWindows : EnterCall(ws)
    \/ Return
    \/ \E n \in 0..MaxTrips : EnterLoop(n)
    \/ HostOp
    \/ FlushBefore \/ Prepare \/ Issue \/ Fence \/ FlushAfter

Next == Compile \/ Run \/ \E w \in Window : Evict(w) \/ Land(w)

\* The host keeps running and the accelerator finishes what it was given.
Spec == Init /\ [][Next]_vars
             /\ WF_vars(Compile) /\ WF_vars(Run)
             /\ \A w \in Window : WF_vars(Land(w))
-----------------------------------------------------------------------------
(* Properties. *)

BoardTypeOK ==
    /\ at \in 0..Size + 1
    /\ inner \in Nat /\ trips \in 0..MaxTrips
    /\ inner # 0 => at \in 1..Size /\ inner \in DOMAIN fn.ops[at].body
    /\ stage \in Stages
    /\ line \in [Window -> {"absent", "clean", "dirty", "old"}]
    /\ memory \in [Window -> BOOLEAN]
    /\ page \in [Window -> {"untouched", "read", "written"}]
    /\ seen \subseteq Window /\ landing \subseteq Window
    /\ shadow \in Cache

\* Type correctness of the pass and of the board under it.
TypeOK == BoardTypeOK /\ PassTypeOK

AtHostOp == mode = "done" /\ at \in 1..Size /\ Op.kind \in {"host", "opaque"}

\* No host operation, and no caller looking at a result, reads a line the
\* accelerator has overwritten since or a value that has not landed yet.
HostReadsCurrent ==
    /\ AtHostOp => \A w \in Op.reads : ReadsCurrent(w)
    /\ at = Size + 1 => \A w \in EscapingWindows : ReadsCurrent(w)

\* No accelerator call takes an operand past a store the host still holds in
\* its L1, from a page that is not mapped, or after the first touch erased it.
AcceleratorReadsCurrent ==
    InCall("issue") =>
        \A w \in OperandsOf(Op) : memory[w] /\ page[w] # "untouched"

\* No result is sent to a page the host has never written, where the first
\* write of the accelerator is lost.
ResultsStick == \A w \in landing : page[w] = "written"

\* The CacheState the pass would be in after the steps the program has made.
Simulated ==
    LET step  == StepAt(at)
        found == Found(step, kept[at], shadow)
        read  == Read(found, step.reads)
    IN  CASE stage = "start"            -> shadow
          [] stage = "prepare"          -> found
          [] stage = "issue"            -> read
          [] stage \in {"busy", "flush"} -> AcceleratorWrite(read, step.writes)

Covers(c) ==
    \A w \in Window :
        /\ line[w] # "absent" => BaseOf[w] \in c.resident
        /\ line[w] = "dirty"  => BaseOf[w] \in c.dirty \cup c.stale
        /\ line[w] = "old"    => BaseOf[w] \in c.stale

\* What the pass simulates covers what the board does: a line the host holds
\* is one the simulated cache says it may hold, in a state it says it may be.
\* Inside a region the pass says nothing between the two flushes of a call.
CacheModelCovers ==
    Modelled(fn) /\ (inner = 0 \/ stage = "start") =>
        Covers(IF inner = 0 THEN Simulated ELSE shadow)

\* The pass ends, and every call of the function returns to its caller.
EveryCallReturns ==
    /\ <>(mode = "done")
    /\ (at # 0) ~> (at = 0)
=============================================================================
