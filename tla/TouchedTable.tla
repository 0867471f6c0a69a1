---------------------------- MODULE TouchedTable ----------------------------
(***************************************************************************)
(* The runtime's table of output buffers already touched: open addressing,   *)
(* doubled when it is three quarters full (gemmlir_touched_slot,             *)
(* gemmlir_touched_room and gemmlir_unseen of runtime/gemmlir_rt.c).  Every  *)
(* accelerator call asks it whether it has seen its output before.  A key is  *)
(* an output pointer; Null is the null pointer and an empty slot.            *)
(***************************************************************************)
EXTENDS OpenAddressing, FiniteSets

CONSTANT
    InitialCap  \* slots of the first table: 1024

\* A quarter of the table is at least one slot.
ASSUME CapAssumption == InitialCap \in Nat /\ InitialCap >= 4

VARIABLES
    table,  \* gemmlir_touched
    cap,    \* gemmlir_touched_cap
    count,  \* gemmlir_touched_count
    pc,     \* where gemmlir_unseen has got to
    p,      \* its argument
    i,      \* the slot probed
    grown,  \* the table being filled
    want,   \* its capacity
    k,      \* the slot of the old table being moved
    answer  \* what gemmlir_unseen last returned

vars == <<table, cap, count, pc, p, i, grown, want, k, answer>>

\* Mutant: the table grows when it is full.
RoomyUntilFull == cap # 0 /\ count < cap

\* Mutant: the table grows when it is more than full.
RoomyOnceFull == cap # 0 /\ count <= cap

Roomy == cap # 0 /\ count * 4 < cap * 3

Init ==
    /\ table = Empty(0) /\ cap = 0 /\ count = 0
    /\ pc = "idle" /\ p = Null /\ i = 0
    /\ grown = Empty(0) /\ want = 0 /\ k = 0
    /\ answer = FALSE

-----------------------------------------------------------------------------
(* gemmlir_unseen, called with q. *)

Ask(q) ==
    /\ pc = "idle"
    /\ pc' = "called" /\ p' = q
    /\ UNCHANGED <<table, cap, count, i, grown, want, k, answer>>

NoBuffer ==
    /\ pc = "called" /\ p = Null
    /\ pc' = "idle" /\ answer' = FALSE
    /\ UNCHANGED <<table, cap, count, p, i, grown, want, k>>

HasRoom ==
    /\ pc = "called" /\ p # Null /\ Roomy
    /\ pc' = "probe" /\ i' = Home(p, cap)
    /\ UNCHANGED <<table, cap, count, p, grown, want, k, answer>>

-----------------------------------------------------------------------------
(* gemmlir_touched_room, when there is none left. *)

Grow ==
    /\ pc = "called" /\ p # Null /\ ~Roomy
    /\ want' = IF cap # 0 THEN cap * 2 ELSE InitialCap
    /\ grown' = Empty(want') /\ k' = 0
    /\ pc' = "move"
    /\ UNCHANGED <<table, cap, count, p, i, answer>>

\* calloc has nothing to give: the program stops.
OutOfMemory ==
    /\ pc = "called" /\ p # Null /\ ~Roomy
    /\ pc' = "aborted"
    /\ UNCHANGED <<table, cap, count, p, i, grown, want, k, answer>>

MoveEmpty ==
    /\ pc = "move" /\ k < cap /\ table[k] = Null
    /\ k' = k + 1
    /\ UNCHANGED <<table, cap, count, pc, p, i, grown, want, answer>>

\* Mutant: an entry's home is looked for in the table it comes from.
MoveEntryByOldCap ==
    /\ pc = "move" /\ k < cap /\ table[k] # Null
    /\ pc' = "place" /\ i' = Home(table[k], cap)
    /\ UNCHANGED <<table, cap, count, p, grown, want, k, answer>>

MoveEntry ==
    /\ pc = "move" /\ k < cap /\ table[k] # Null
    /\ pc' = "place" /\ i' = Home(table[k], want)
    /\ UNCHANGED <<table, cap, count, p, grown, want, k, answer>>

PlaceProbe ==
    /\ pc = "place" /\ Occupied(grown, i, table[k])
    /\ i' = NextSlot(i, want)
    /\ UNCHANGED <<table, cap, count, pc, p, grown, want, k, answer>>

Place ==
    /\ pc = "place" /\ ~Occupied(grown, i, table[k])
    /\ grown' = [grown EXCEPT ![i] = table[k]]
    /\ k' = k + 1 /\ pc' = "move"
    /\ UNCHANGED <<table, cap, count, p, i, want, answer>>

\* Mutant: the capacity stays that of the old table.
SwapTableOnly ==
    /\ pc = "move" /\ k = cap
    /\ table' = grown
    /\ pc' = "probe" /\ i' = Home(p, want)
    /\ UNCHANGED <<cap, count, p, grown, want, k, answer>>

Swap ==
    /\ pc = "move" /\ k = cap
    /\ table' = grown /\ cap' = want
    /\ pc' = "probe" /\ i' = Home(p, want)
    /\ UNCHANGED <<count, p, grown, want, k, answer>>

-----------------------------------------------------------------------------
(* gemmlir_touched_slot on the table, and what gemmlir_unseen does with it. *)

Probe ==
    /\ pc = "probe" /\ Occupied(table, i, p)
    /\ i' = NextSlot(i, cap)
    /\ UNCHANGED <<table, cap, count, pc, p, grown, want, k, answer>>

Found ==
    /\ pc = "probe" /\ table[i] = p
    /\ answer' = FALSE /\ pc' = "idle"
    /\ UNCHANGED <<table, cap, count, p, i, grown, want, k>>

\* Mutant: the new entry is not counted.
RecordUncounted ==
    /\ pc = "probe" /\ table[i] = Null
    /\ table' = [table EXCEPT ![i] = p]
    /\ answer' = TRUE /\ pc' = "idle"
    /\ UNCHANGED <<cap, count, p, i, grown, want, k>>

Record ==
    /\ pc = "probe" /\ table[i] = Null
    /\ table' = [table EXCEPT ![i] = p]
    /\ count' = count + 1
    /\ answer' = TRUE /\ pc' = "idle"
    /\ UNCHANGED <<cap, p, i, grown, want, k>>

-----------------------------------------------------------------------------
Step == NoBuffer \/ HasRoom \/ Grow \/ OutOfMemory \/ MoveEmpty \/ MoveEntry
            \/ PlaceProbe \/ Place \/ Swap \/ Probe \/ Found \/ Record

Next == Step \/ \E q \in Keys \cup {Null} : Ask(q)

Spec == Init /\ [][Next]_vars

\* The runtime runs until it answers; nothing makes its caller ask again.
FairSpec == Spec /\ WF_vars(Step)

-----------------------------------------------------------------------------
(* Properties. *)

TypeOK ==
    /\ cap \in Nat /\ (cap = 0 \/ cap >= 4)
    /\ table \in [Slots(cap) -> Keys \cup {Null}]
    /\ count \in Nat
    /\ pc \in {"idle", "called", "move", "place", "probe", "aborted"}
    /\ p \in Keys \cup {Null}
    /\ i \in Nat
    /\ want \in Nat
    /\ grown \in [Slots(want) -> Keys \cup {Null}]
    /\ k \in Nat
    /\ answer \in BOOLEAN

\* The table is the set of buffers seen: a buffer is new exactly once, however
\* often the table has grown in between and wherever its probe wraps around.
Promise ==
    INSTANCE SeenOutputs WITH
        Pointers <- Keys,
        seen <- Entries(table, Slots(cap)),
        asking <- pc # "idle",
        about <- p

ImplementsSeenOutputs == Promise!Spec

\* A probe always meets an empty slot: three quarters full is not full, in the
\* table probed and in the one being filled.
RoomToStop ==
    /\ cap # 0 => \E j \in Slots(cap) : table[j] = Null
    /\ pc \in {"move", "place"} => \E j \in Slots(want) : grown[j] = Null

\* The count is that of the buffers in the table (it decides when to grow).
CountIsEntries == count = Cardinality(Entries(table, Slots(cap)))

\* A question is answered, or the program is out of memory.
EveryQuestionAnswered == (pc = "called") ~> (pc \in {"idle", "aborted"})
=============================================================================
