------------------------- MODULE TouchedTableProofs -------------------------
(***************************************************************************)
(* The table of touched outputs is the set of buffers seen, for any set of   *)
(* pointers, any hash and any initial capacity of at least four, and its     *)
(* probes always have an empty slot to stop at.                              *)
(***************************************************************************)
EXTENDS TouchedTable, OpenAddressingProofs

-----------------------------------------------------------------------------
(* The invariant: where a probe or a move has got to, and that the table     *)
(* never holds more than three quarters of its capacity and one.             *)

LoadInv ==
    /\ IF cap = 0 THEN count = 0 ELSE count * 4 < cap * 3 + 4
    /\ IsFiniteSet(Entries(table, Slots(cap)))
    /\ CountIsEntries

ProbeInv ==
    pc = "probe" =>
        /\ p \in Keys /\ cap # 0 /\ count * 4 < cap * 3
        /\ i \in Slots(cap) /\ Clean(table, cap, p, i)

MoveInv ==
    pc \in {"move", "place"} =>
        /\ p \in Keys
        /\ want >= 4 /\ cap <= want /\ count * 4 < want * 3
        /\ k \in 0 .. cap
        /\ Findable(grown, want)
        /\ Entries(grown, Slots(want)) = Entries(table, 0 .. k - 1)

PlaceInv ==
    pc = "place" =>
        /\ k < cap /\ table[k] # Null
        /\ i \in Slots(want) /\ Clean(grown, want, table[k], i)

TableInv ==
    TypeOK /\ Findable(table, cap) /\ LoadInv /\ ProbeInv /\ MoveInv /\ PlaceInv

LEMMA InitEstablishes == Init => TableInv
<1> SUFFICES ASSUME Init PROVE TableInv
  OBVIOUS
<1> USE DEF Init
<1>1. /\ Empty(0) \in Table(0) /\ Findable(Empty(0), 0)
      /\ Entries(Empty(0), Slots(0)) = {}
  BY EmptyIsFindable
<1>2. LoadInv
  BY <1>1, FS_EmptySet DEF LoadInv, CountIsEntries
<1>3. TypeOK
  BY <1>1 DEF TypeOK, Table
<1> QED BY <1>1, <1>2, <1>3 DEF TableInv, ProbeInv, MoveInv, PlaceInv

\* Steps that leave the tables alone and end outside probes and moves.
LEMMA QuietStep ==
    ASSUME TableInv, TypeOK', table' = table, cap' = cap, count' = count,
           pc' \in {"idle", "called", "aborted"}
    PROVE  TableInv'
  BY DEF TableInv, Findable, LoadInv, CountIsEntries, ProbeInv, MoveInv, PlaceInv,
         Entries, Before, Steps, Slots, Home

LEMMA HasRoomKeeps == ASSUME TableInv, HasRoom PROVE TableInv'
<1> USE DEF TableInv
<1>1. /\ table' = table /\ cap' = cap /\ count' = count /\ p' = p
      /\ grown' = grown /\ want' = want /\ k' = k /\ answer' = answer
      /\ pc' = "probe" /\ i' = Home(p, cap)
      /\ p \in Keys /\ cap \in Nat \ {0} /\ count * 4 < cap * 3
  BY DEF HasRoom, Roomy, TypeOK
<1>2. i' \in Slots(cap) /\ Clean(table, cap, p, Home(p, cap))
  BY <1>1, HomeIsSlot, CleanAtHome
<1>3. TypeOK'
  BY <1>1, <1>2 DEF TypeOK, Slots
<1>4. ProbeInv'
  BY <1>1, <1>2 DEF ProbeInv
<1>5. Findable(table, cap)' /\ LoadInv' /\ MoveInv' /\ PlaceInv'
  BY <1>1 DEF LoadInv, CountIsEntries, MoveInv, PlaceInv
<1> QED BY <1>3, <1>4, <1>5

LEMMA GrowKeeps == ASSUME TableInv, Grow PROVE TableInv'
<1> USE DEF TableInv
<1>1. /\ table' = table /\ cap' = cap /\ count' = count /\ p' = p /\ i' = i
      /\ answer' = answer /\ pc' = "move" /\ k' = 0
      /\ want' = (IF cap # 0 THEN cap * 2 ELSE InitialCap)
      /\ grown' = Empty(want')
      /\ p \in Keys /\ cap \in Nat /\ count \in Nat
      /\ cap = 0 \/ cap >= 4
  BY DEF Grow, TypeOK
<1>2. want' \in Nat /\ want' >= 4 /\ cap <= want' /\ count * 4 < want' * 3
  <2>1. CASE cap = 0
    BY <1>1, <2>1, CapAssumption DEF LoadInv
  <2>2. CASE cap # 0
    BY <1>1, <2>2 DEF LoadInv
  <2> QED BY <2>1, <2>2
<1>3. /\ grown' \in Table(want') /\ Findable(grown', want')
      /\ Entries(grown', Slots(want')) = {}
  BY <1>1, <1>2, EmptyIsFindable
<1>4. TypeOK'
  BY <1>1, <1>2, <1>3 DEF TypeOK, Table
<1>5. MoveInv'
  <2>1. Entries(table', 0 .. k' - 1) = {}
    <3>1. 0 .. k' - 1 = {}
      BY <1>1
    <3> QED BY <3>1 DEF Entries
  <2>2. k' \in 0 .. cap'
    BY <1>1
  <2> QED BY <1>1, <1>2, <1>3, <2>1, <2>2 DEF MoveInv
<1>6. Findable(table, cap)' /\ LoadInv' /\ ProbeInv' /\ PlaceInv'
  BY <1>1 DEF LoadInv, CountIsEntries, ProbeInv, PlaceInv
<1> QED BY <1>4, <1>5, <1>6

LEMMA MoveEmptyKeeps == ASSUME TableInv, MoveEmpty PROVE TableInv'
<1> USE DEF TableInv
<1>1. /\ table' = table /\ cap' = cap /\ count' = count /\ p' = p /\ i' = i
      /\ grown' = grown /\ want' = want /\ answer' = answer
      /\ pc = "move" /\ pc' = "move" /\ k' = k + 1 /\ k \in Nat
      /\ k < cap /\ table[k] = Null /\ cap \in Nat
  BY DEF MoveEmpty, TypeOK
<1>2. Entries(table, 0 .. k' - 1) = Entries(table, 0 .. k - 1)
  <2>1. 0 .. k' - 1 = (0 .. k - 1) \cup {k}
    BY <1>1
  <2> QED BY <1>1, <2>1 DEF Entries
<1>3. TypeOK'
  BY <1>1 DEF TypeOK
<1>4. MoveInv'
  BY <1>1, <1>2 DEF MoveInv
<1>5. Findable(table, cap)' /\ LoadInv' /\ ProbeInv' /\ PlaceInv'
  BY <1>1 DEF LoadInv, CountIsEntries, ProbeInv, PlaceInv
<1> QED BY <1>3, <1>4, <1>5

LEMMA MoveEntryKeeps == ASSUME TableInv, MoveEntry PROVE TableInv'
<1> USE DEF TableInv
<1>1. /\ table' = table /\ cap' = cap /\ count' = count /\ p' = p
      /\ grown' = grown /\ want' = want /\ answer' = answer /\ k' = k
      /\ pc = "move" /\ pc' = "place" /\ i' = Home(table[k], want)
      /\ k < cap /\ k \in Nat /\ table[k] # Null /\ want \in Nat \ {0} /\ cap \in Nat
  BY DEF MoveEntry, TypeOK, MoveInv
<1>2. table[k] \in Keys
  BY <1>1 DEF TypeOK, Slots
<1>3. i' \in Slots(want) /\ Clean(grown, want, table[k], i')
  BY <1>1, <1>2, HomeIsSlot, CleanAtHome
<1>4. TypeOK'
  BY <1>1, <1>3 DEF TypeOK, Slots
<1>5. MoveInv' /\ PlaceInv'
  BY <1>1, <1>3 DEF MoveInv, PlaceInv
<1>6. Findable(table, cap)' /\ LoadInv' /\ ProbeInv'
  BY <1>1 DEF LoadInv, CountIsEntries, ProbeInv
<1> QED BY <1>4, <1>5, <1>6

LEMMA PlaceProbeKeeps == ASSUME TableInv, PlaceProbe PROVE TableInv'
<1> USE DEF TableInv
<1>1. /\ table' = table /\ cap' = cap /\ count' = count /\ p' = p
      /\ grown' = grown /\ want' = want /\ answer' = answer /\ k' = k
      /\ pc = "place" /\ pc' = "place" /\ i' = NextSlot(i, want)
      /\ grown[i] \notin {Null, table[k]} /\ i \in Slots(want)
      /\ k < cap /\ k \in Nat /\ table[k] # Null /\ want \in Nat \ {0} /\ cap \in Nat
      /\ Clean(grown, want, table[k], i)
  BY DEF PlaceProbe, Occupied, TypeOK, MoveInv, PlaceInv
<1>2. table[k] \in Keys
  BY <1>1 DEF TypeOK, Slots
<1>3. i' \in Slots(want) /\ Clean(grown, want, table[k], i')
  BY <1>1, <1>2, NextSlotIs, CleanStep
<1>4. TypeOK'
  BY <1>1, <1>3 DEF TypeOK, Slots
<1>5. MoveInv' /\ PlaceInv'
  BY <1>1, <1>3 DEF MoveInv, PlaceInv
<1>6. Findable(table, cap)' /\ LoadInv' /\ ProbeInv'
  BY <1>1 DEF LoadInv, CountIsEntries, ProbeInv
<1> QED BY <1>4, <1>5, <1>6

LEMMA PlaceKeeps == ASSUME TableInv, Place PROVE TableInv'
<1> USE DEF TableInv
<1>1. /\ table' = table /\ cap' = cap /\ count' = count /\ p' = p /\ i' = i
      /\ grown' = [grown EXCEPT ![i] = table[k]] /\ want' = want /\ answer' = answer
      /\ pc = "place" /\ pc' = "move" /\ k' = k + 1
      /\ grown[i] \in {Null, table[k]} /\ i \in Slots(want)
      /\ k < cap /\ k \in Nat /\ table[k] # Null /\ want \in Nat \ {0} /\ cap \in Nat
      /\ Clean(grown, want, table[k], i) /\ grown \in Table(want)
      /\ Findable(grown, want)
      /\ Entries(grown, Slots(want)) = Entries(table, 0 .. k - 1)
  BY DEF Place, Occupied, TypeOK, MoveInv, PlaceInv, Table
<1>2. table[k] \in Keys
  BY <1>1 DEF TypeOK, Slots
<1>3. /\ grown' \in Table(want) /\ Findable(grown', want)
      /\ Entries(grown', Slots(want)) = Entries(grown, Slots(want)) \cup {table[k]}
  <2>1. CASE grown[i] = Null
    <3> DEFINE q == table[k]
               u == [grown EXCEPT ![i] = q]
    <3>0. /\ want \in Nat \ {0} /\ grown \in Table(want) /\ q \in Keys
          /\ i \in Slots(want) /\ Findable(grown, want) /\ Clean(grown, want, q, i)
          /\ grown[i] = Null
      BY <1>1, <1>2, <2>1
    <3> HIDE DEF q
    <3>1. /\ u \in Table(want) /\ Findable(u, want)
          /\ Entries(u, Slots(want)) = Entries(grown, Slots(want)) \cup {q}
      BY <3>0, InsertAtEmpty
    <3> QED BY <1>1, <3>1 DEF q
  <2>2. CASE grown[i] = table[k]
    <3>1. grown' = grown
      BY <1>1, <2>2 DEF Table
    <3> QED BY <1>1, <2>2, <3>1 DEF Entries
  <2> QED BY <1>1, <2>1, <2>2
<1>4. Entries(table, 0 .. k' - 1) = Entries(table, 0 .. k - 1) \cup {table[k]}
  <2>1. 0 .. k' - 1 = (0 .. k - 1) \cup {k}
    BY <1>1
  <2> QED BY <1>1, <2>1 DEF Entries
<1>5. TypeOK'
  BY <1>1, <1>3 DEF TypeOK, Table
<1>6. MoveInv'
  <2>1. k' \in 0 .. cap
    BY <1>1
  <2>2. Entries(grown', Slots(want)) = Entries(table, 0 .. k' - 1)
    BY <1>1, <1>3, <1>4
  <2>3. p \in Keys /\ want >= 4 /\ cap <= want /\ count * 4 < want * 3
    BY <1>1 DEF MoveInv
  <2> QED BY <1>1, <1>3, <2>1, <2>2, <2>3 DEF MoveInv
<1>7. Findable(table, cap)' /\ LoadInv' /\ ProbeInv' /\ PlaceInv'
  BY <1>1 DEF LoadInv, CountIsEntries, ProbeInv, PlaceInv
<1> QED BY <1>5, <1>6, <1>7

LEMMA SwapKeeps == ASSUME TableInv, Swap PROVE TableInv'
<1> USE DEF TableInv
<1>1. /\ table' = grown /\ cap' = want /\ count' = count /\ p' = p
      /\ grown' = grown /\ want' = want /\ answer' = answer /\ k' = k
      /\ pc = "move" /\ pc' = "probe" /\ i' = Home(p, want) /\ k = cap
      /\ p \in Keys /\ want \in Nat \ {0} /\ want >= 4 /\ cap \in Nat
      /\ count \in Nat /\ count * 4 < want * 3
      /\ Findable(grown, want)
      /\ Entries(grown, Slots(want)) = Entries(table, Slots(cap))
  BY DEF Swap, TypeOK, MoveInv, Slots
<1>2. i' \in Slots(want) /\ Clean(grown, want, p, Home(p, want))
  BY <1>1, HomeIsSlot, CleanAtHome
<1>3. TypeOK'
  BY <1>1, <1>2 DEF TypeOK, Slots
<1>4. LoadInv'
  BY <1>1 DEF LoadInv, CountIsEntries
<1>5. Findable(table, cap)' /\ ProbeInv' /\ MoveInv' /\ PlaceInv'
  BY <1>1, <1>2 DEF ProbeInv, MoveInv, PlaceInv
<1> QED BY <1>3, <1>4, <1>5

LEMMA ProbeKeeps == ASSUME TableInv, Probe PROVE TableInv'
<1> USE DEF TableInv
<1>1. /\ table' = table /\ cap' = cap /\ count' = count /\ p' = p
      /\ grown' = grown /\ want' = want /\ answer' = answer /\ k' = k
      /\ pc = "probe" /\ pc' = "probe" /\ i' = NextSlot(i, cap)
      /\ table[i] \notin {Null, p} /\ i \in Slots(cap) /\ p \in Keys
      /\ cap \in Nat \ {0} /\ Clean(table, cap, p, i)
  BY DEF Probe, Occupied, TypeOK, ProbeInv
<1>2. i' \in Slots(cap) /\ Clean(table, cap, p, i')
  BY <1>1, NextSlotIs, CleanStep
<1>3. TypeOK'
  BY <1>1, <1>2 DEF TypeOK, Slots
<1>4. ProbeInv'
  BY <1>1, <1>2 DEF ProbeInv
<1>5. Findable(table, cap)' /\ LoadInv' /\ MoveInv' /\ PlaceInv'
  BY <1>1 DEF LoadInv, CountIsEntries, MoveInv, PlaceInv
<1> QED BY <1>3, <1>4, <1>5

\* The pointer recorded was not in the table, and is now.
LEMMA RecordKeeps ==
    ASSUME TableInv, Record
    PROVE  /\ TableInv'
           /\ p \in Keys \ Entries(table, Slots(cap))
           /\ Entries(table, Slots(cap))' = Entries(table, Slots(cap)) \cup {p}
<1> USE DEF TableInv
<1>1. /\ table' = [table EXCEPT ![i] = p] /\ cap' = cap /\ count' = count + 1 /\ p' = p
      /\ grown' = grown /\ want' = want /\ answer' = TRUE /\ k' = k /\ i' = i
      /\ pc = "probe" /\ pc' = "idle"
      /\ table[i] = Null /\ i \in Slots(cap) /\ p \in Keys
      /\ cap \in Nat \ {0} /\ Clean(table, cap, p, i) /\ table \in Table(cap)
      /\ count \in Nat /\ count * 4 < cap * 3
  BY DEF Record, TypeOK, ProbeInv, Table
<1>2. p \notin Entries(table, Slots(cap))
  BY <1>1, AbsentAtEmpty
<1>3. /\ table' \in Table(cap) /\ Findable(table', cap)
      /\ Entries(table', Slots(cap)) = Entries(table, Slots(cap)) \cup {p}
  <2> DEFINE u == [table EXCEPT ![i] = p]
  <2>1. /\ u \in Table(cap) /\ Findable(u, cap)
        /\ Entries(u, Slots(cap)) = Entries(table, Slots(cap)) \cup {p}
    BY <1>1, InsertAtEmpty
  <2> QED BY <1>1, <2>1
<1>4. TypeOK'
  BY <1>1, <1>3 DEF TypeOK, Table
<1>5. LoadInv'
  <2>1. /\ IsFiniteSet(Entries(table', Slots(cap)))
        /\ Cardinality(Entries(table', Slots(cap))) = count + 1
    BY <1>2, <1>3, FS_AddElement DEF LoadInv, CountIsEntries
  <2> QED BY <1>1, <2>1 DEF LoadInv, CountIsEntries
<1>6. Findable(table, cap)' /\ ProbeInv' /\ MoveInv' /\ PlaceInv'
  BY <1>1, <1>3 DEF ProbeInv, MoveInv, PlaceInv
<1> QED BY <1>1, <1>2, <1>3, <1>4, <1>5, <1>6

-----------------------------------------------------------------------------
LEMMA TableInvariant == Spec => []TableInv
<1>1. TableInv /\ [Next]_vars => TableInv'
  <2> SUFFICES ASSUME TableInv, [Next]_vars PROVE TableInv'
    OBVIOUS
  <2>1. ASSUME NEW q \in Keys \cup {Null}, Ask(q) PROVE TableInv'
    <3>1. TypeOK'
      BY <2>1 DEF Ask, TypeOK, TableInv
    <3> QED BY <2>1, <3>1, QuietStep DEF Ask
  <2>2. CASE NoBuffer
    <3>1. TypeOK'
      BY <2>2 DEF NoBuffer, TypeOK, TableInv
    <3> QED BY <2>2, <3>1, QuietStep DEF NoBuffer
  <2>3. CASE HasRoom
    BY <2>3, HasRoomKeeps
  <2>4. CASE Grow
    BY <2>4, GrowKeeps
  <2>5. CASE OutOfMemory
    <3>1. TypeOK'
      BY <2>5 DEF OutOfMemory, TypeOK, TableInv
    <3> QED BY <2>5, <3>1, QuietStep DEF OutOfMemory
  <2>6. CASE MoveEmpty
    BY <2>6, MoveEmptyKeeps
  <2>7. CASE MoveEntry
    BY <2>7, MoveEntryKeeps
  <2>8. CASE PlaceProbe
    BY <2>8, PlaceProbeKeeps
  <2>9. CASE Place
    BY <2>9, PlaceKeeps
  <2>10. CASE Swap
    BY <2>10, SwapKeeps
  <2>11. CASE Probe
    BY <2>11, ProbeKeeps
  <2>12. CASE Found
    <3>1. TypeOK'
      BY <2>12 DEF Found, TypeOK, TableInv
    <3> QED BY <2>12, <3>1, QuietStep DEF Found
  <2>13. CASE Record
    BY <2>13, RecordKeeps
  <2>14. CASE UNCHANGED vars
    BY <2>14 DEF vars, TableInv, TypeOK, LoadInv, CountIsEntries, ProbeInv, MoveInv, PlaceInv
  <2> QED
    BY <2>1, <2>2, <2>3, <2>4, <2>5, <2>6, <2>7, <2>8, <2>9, <2>10, <2>11, <2>12, <2>13,
       <2>14 DEF Next, Step
<1> QED BY InitEstablishes, <1>1, PTL DEF Spec

\* The tables, their indices and capacities keep their types.
THEOREM TableTypeCorrect == Spec => []TypeOK
<1>1. TableInv => TypeOK
  BY DEF TableInv
<1> QED BY <1>1, TableInvariant, PTL

\* A probe of gemmlir_touched_slot ends, in the table and in the one being
\* filled: neither is ever full.
THEOREM ProbesHaveRoom == Spec => []RoomToStop
<1>1. TableInv => RoomToStop
  <2> SUFFICES ASSUME TableInv PROVE RoomToStop
    OBVIOUS
  <2> USE DEF TableInv
  <2>0. /\ cap \in Nat /\ want \in Nat /\ count \in Nat
        /\ table \in Table(cap) /\ grown \in Table(want)
        /\ cap = 0 \/ cap >= 4
    BY DEF TypeOK, Table
  <2>1. ASSUME cap # 0 PROVE \E j \in Slots(cap) : table[j] = Null
    <3>1. Cardinality(Entries(table, Slots(cap))) < cap
      BY <2>0, <2>1 DEF LoadInv, CountIsEntries
    <3> QED BY <2>0, <2>1, <3>1, FewerEntriesThanSlots
  <2>2. ASSUME pc \in {"move", "place"} PROVE \E j \in Slots(want) : grown[j] = Null
    <3>1. /\ want >= 4 /\ count * 4 < want * 3 /\ k \in 0 .. cap
          /\ Findable(grown, want)
          /\ Entries(grown, Slots(want)) = Entries(table, 0 .. k - 1)
      BY <2>2 DEF MoveInv
    <3>2. Entries(table, 0 .. k - 1) \subseteq Entries(table, Slots(cap))
      <4>1. 0 .. k - 1 \subseteq Slots(cap)
        BY <2>0, <3>1 DEF Slots
      <4> QED BY <4>1 DEF Entries
    <3>3. /\ Cardinality(Entries(grown, Slots(want))) <= count
          /\ Cardinality(Entries(grown, Slots(want))) \in Nat
      BY <3>1, <3>2, FS_Subset, FS_CardinalityType DEF LoadInv, CountIsEntries
    <3>4. Cardinality(Entries(grown, Slots(want))) < want
      BY <2>0, <3>1, <3>3
    <3> QED BY <2>0, <3>1, <3>4, FewerEntriesThanSlots
  <2> QED BY <2>1, <2>2 DEF RoomToStop
<1> QED BY <1>1, TableInvariant, PTL

\* The count that decides when to grow is the number of buffers recorded.
THEOREM CountIsRight == Spec => []CountIsEntries
<1>1. TableInv => CountIsEntries
  BY DEF TableInv, LoadInv
<1> QED BY <1>1, TableInvariant, PTL

\* A reply of the set, from what it does to each variable.
LEMMA Replies ==
    ASSUME pc # "idle", pc' = "idle", p' = p,
           answer' \in BOOLEAN,
           answer' <=> p \in Keys \ Entries(table, Slots(cap)),
           Entries(table, Slots(cap))' = Entries(table, Slots(cap)) \cup ({p} \ {Null})
    PROVE  Promise!Reply
<1>1. answer' = (p \in Keys \ Entries(table, Slots(cap)))
  OBVIOUS
<1>2. (pc # "idle")' = FALSE
  OBVIOUS
<1> QED BY <1>1, <1>2 DEF Promise!Reply

\* The table is the set of buffers seen: every answer of gemmlir_unseen is the
\* answer of the set, growing included.
THEOREM TableIsSet == Spec => ImplementsSeenOutputs
<1> DEFINE E == Entries(table, Slots(cap))
<1>1. Init => Promise!Init
  BY DEF Init, Promise!Init, Entries, Empty
<1>2. TableInv /\ [Next]_vars => [Promise!Next]_Promise!vars
  <2> SUFFICES ASSUME TableInv, [Next]_vars PROVE [Promise!Next]_Promise!vars
    OBVIOUS
  <2> USE DEF Promise!Next, Promise!vars
  <2>1. ASSUME NEW q \in Keys \cup {Null}, Ask(q) PROVE Promise!Ask(q)
    BY <2>1 DEF Ask, Promise!Ask
  <2>2. CASE NoBuffer
    <3>1. /\ pc # "idle" /\ pc' = "idle" /\ answer' = FALSE /\ p = Null /\ p' = p
          /\ p \notin Keys /\ E' = E
      BY <2>2, NullAssumption DEF NoBuffer
    <3> QED BY <3>1, Replies
  <2>3. CASE Swap
    <3>1. E' = E
      BY <2>3 DEF Swap, TableInv, MoveInv, TypeOK, Slots
    <3> QED BY <2>3, <3>1 DEF Swap
  <2>4. CASE Found
    <3>1. p \in Keys /\ p \in E
      BY <2>4, NullAssumption DEF Found, TableInv, ProbeInv, Entries
    <3>2. pc # "idle" /\ pc' = "idle" /\ answer' = FALSE /\ p' = p /\ E' = E
      BY <2>4 DEF Found
    <3> QED BY <3>1, <3>2, Replies
  <2>5. CASE Record
    <3>1. p \in Keys \ E /\ E' = E \cup {p}
      BY <2>5, RecordKeeps
    <3>2. pc # "idle" /\ pc' = "idle" /\ answer' = TRUE /\ p' = p
      BY <2>5 DEF Record
    <3> QED BY <3>1, <3>2, NullAssumption, Replies
  <2>6. CASE HasRoom \/ Grow \/ OutOfMemory \/ MoveEmpty \/ MoveEntry
                 \/ PlaceProbe \/ Place \/ Probe
    BY <2>6 DEF HasRoom, Grow, OutOfMemory, MoveEmpty, MoveEntry, PlaceProbe, Place, Probe
  <2>7. CASE UNCHANGED vars
    BY <2>7 DEF vars
  <2> QED BY <2>1, <2>2, <2>3, <2>4, <2>5, <2>6, <2>7 DEF Next, Step
<1> QED
  BY <1>1, <1>2, TableInvariant, PTL DEF Spec, ImplementsSeenOutputs, Promise!Spec
=============================================================================
