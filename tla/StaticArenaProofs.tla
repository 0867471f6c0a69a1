------------------------- MODULE StaticArenaProofs -------------------------
(***************************************************************************)
(* Theorems about --plan-static-buffers, for functions of any length with    *)
(* buffers of any size and alignment, called any number of times.            *)
(***************************************************************************)
EXTENDS StaticArena, TLAPS

-----------------------------------------------------------------------------
(* The layout. *)

\* Rounding up gives the next multiple: not below the value, and less than one
\* step above it (roundUp, line 41).
LEMMA RoundUpIsNextMultiple ==
    ASSUME NEW v \in Nat, NEW to \in Nat \ {0}
    PROVE  /\ RoundUp(v, to) \in Nat
           /\ v <= RoundUp(v, to) /\ RoundUp(v, to) < v + to
           /\ RoundUp(v, to) % to = 0
<1> DEFINE q == (v + to - 1) \div to
<1>1. q \in Nat /\ q * to <= v + to - 1 /\ v + to - 1 < q * to + to
  BY Z3
<1>2. RoundUp(v, to) = q * to
  BY DEF RoundUp
<1>3. (q * to) % to = 0
  BY <1>1, Z3
<1> QED BY <1>1, <1>2, <1>3

SlotOps == {slots[k].op : k \in DOMAIN slots}

\* What the pass knows while it walks: the values reachable from the
\* allocation it is looking at are in every closed set that holds it, and all
\* but those still to do have been looked at.
TraceInv ==
    phase = "trace" =>
        /\ at \in Ops /\ Placeable(fn[at]) /\ at \in reachable
        /\ \A v \in reachable \ todo : ~Returned(v) /\ ViewsOf(v) \subseteq reachable
        /\ \A R \in SUBSET Ops : (at \in R /\ ClosedUnderViews(R)) => reachable \subseteq R

\* The allocations decided so far have a slot exactly when they stay.
Decided(i) == phase \in {"walk", "trace"} => i < at

SlotsInv ==
    /\ \A i \in SlotOps : i \in Ops /\ Placeable(fn[i]) /\ Decided(i)
    /\ \A i \in Ops : (Placeable(fn[i]) /\ Decided(i)) => (i \in SlotOps <=> ~Escapes(i))

\* The allocations replaced so far are those of the slots gone through.
PieceInv ==
    \A i \in Ops :
        pieceOf[i] # 0 <=> /\ phase \in {"replace", "run"}
                           /\ \E k \in DOMAIN slots :
                                  slots[k].op = i /\ (phase = "replace" => k < at)

PositionInv ==
    /\ phase \in {"walk", "trace"} => at \in 1 .. Len(fn) + 1 /\ total = 0
    /\ phase \in {"layout", "replace"} => at \in 1 .. Len(slots) + 1

PassInv == PassTypeOK /\ PositionInv /\ TraceInv /\ SlotsInv /\ PieceInv /\ SlotsApart

-----------------------------------------------------------------------------
(* One lemma for each stage of the pass. *)

LEMMA InitEstablishes == PassInit => PassInv
<1> SUFFICES ASSUME PassInit PROVE PassInv
  OBVIOUS
<1> USE DEF PassInit
<1>0. fn \in Seq(Operation)
  BY FunctionAssumption
<1>1. Len(fn) \in Nat /\ Ops = 1 .. Len(fn)
  BY <1>0 DEF Ops
<1>2. PassTypeOK
  BY <1>0 DEF PassTypeOK, Ops
<1>3. PositionInv
  BY <1>1 DEF PositionInv
<1>4. TraceInv /\ SlotsInv /\ PieceInv /\ SlotsApart
  BY <1>1 DEF TraceInv, SlotsInv, SlotOps, Decided, PieceInv, SlotsApart, Laid, Ops
<1> QED BY <1>2, <1>3, <1>4 DEF PassInv

\* What every step needs of the types.
LEMMA FunctionShape ==
    ASSUME PassTypeOK
    PROVE  /\ Len(fn) \in Nat /\ Ops = 1 .. Len(fn)
           /\ \A i \in Ops : fn[i].size \in Nat /\ fn[i].align \in Int
           /\ Len(slots) \in Nat /\ DOMAIN slots = 1 .. Len(slots)
<1>1. fn \in Seq(Operation)
  BY FunctionAssumption DEF PassTypeOK
<1>2. Len(fn) \in Nat /\ Ops = 1 .. Len(fn)
  BY <1>1 DEF Ops
<1>3. \A i \in Ops : fn[i].size \in Nat /\ fn[i].align \in Int
  <2>1. \A i \in Ops : fn[i] \in Operation
    BY <1>1, <1>2
  <2> QED BY <2>1 DEF Operation
<1>4. slots \in Seq(Slot)
  BY DEF PassTypeOK
<1> QED BY <1>2, <1>3, <1>4

LEMMA SkipOpKeeps ==
    ASSUME PassInv, SkipOp PROVE PassInv'
<1> USE DEF PassInv
<1>1. /\ Len(fn) \in Nat /\ Ops = 1 .. Len(fn) /\ Len(slots) \in Nat
      /\ Ops' = Ops /\ at \in Ops /\ at' = at + 1
      /\ phase = "walk" /\ phase' = "walk"
  BY FunctionShape DEF SkipOp, Ops
<1>2. PassTypeOK'
  BY <1>1 DEF SkipOp, PassTypeOK
<1>3. PositionInv' /\ TraceInv' /\ SlotsApart'
  BY <1>1 DEF SkipOp, PositionInv, TraceInv, SlotsApart, Laid
<1>4. PieceInv'
  BY <1>1 DEF SkipOp, PieceInv
<1>5. SlotsInv'
  <2>1. SlotOps' = SlotOps /\ \A i \in Ops : Escapes(i)' <=> Escapes(i)
    BY <1>1 DEF SkipOp, SlotOps, Escapes, ClosedUnderViews, ViewsOf, Returned, Users
  <2>2. \A i \in Ops : (Placeable(fn[i]) /\ Decided(i)') => Decided(i)
    BY <1>1 DEF SkipOp, Decided
  <2> QED BY <1>1, <2>1, <2>2 DEF SkipOp, SlotsInv, Decided
<1> QED BY <1>2, <1>3, <1>4, <1>5

LEMMA ConsiderKeeps ==
    ASSUME PassInv, Consider PROVE PassInv'
<1> USE DEF PassInv
<1>1. /\ Len(fn) \in Nat /\ Ops = 1 .. Len(fn) /\ Len(slots) \in Nat
      /\ Ops' = Ops /\ at \in Ops /\ at' = at /\ fn' = fn
      /\ phase = "walk" /\ phase' = "trace"
  BY FunctionShape DEF Consider, Ops
<1>2. PassTypeOK'
  BY <1>1 DEF Consider, PassTypeOK
<1>3. PositionInv' /\ SlotsApart'
  BY <1>1 DEF Consider, PositionInv, SlotsApart, Laid
<1>4. TraceInv'
  BY <1>1 DEF Consider, TraceInv
<1>5. PieceInv'
  BY <1>1 DEF Consider, PieceInv
<1>6. SlotsInv'
  <2>1. SlotOps' = SlotOps /\ \A i \in Ops : Escapes(i)' <=> Escapes(i)
    BY <1>1 DEF Consider, SlotOps, Escapes, ClosedUnderViews, ViewsOf, Returned, Users
  <2> QED BY <1>1, <2>1 DEF Consider, SlotsInv, Decided
<1> QED BY <1>2, <1>3, <1>4, <1>5, <1>6

LEMMA TraceKeeps ==
    ASSUME PassInv, NEW v \in todo, Trace(v) PROVE PassInv'
<1> USE DEF PassInv
<1>1. /\ Len(fn) \in Nat /\ Ops = 1 .. Len(fn) /\ Len(slots) \in Nat
      /\ Ops' = Ops /\ fn' = fn /\ slots' = slots /\ phase = "trace"
      /\ at \in Ops /\ Placeable(fn[at]) /\ at \in reachable /\ v \in reachable
  BY FunctionShape DEF Trace, Ops, TraceInv, PassTypeOK
<1>2. SlotOps' = SlotOps /\ \A i \in Ops : Escapes(i)' <=> Escapes(i)
  BY <1>1 DEF SlotOps, Escapes, ClosedUnderViews, ViewsOf, Returned, Users
<1>3. CASE Returned(v)
  <2>1. phase' = "walk" /\ at' = at + 1
    BY <1>3 DEF Trace
  <2>2. Escapes(at)
    BY <1>1, <1>3 DEF TraceInv, Escapes
  <2>3. SlotsInv'
    <3>1. \A i \in Ops : (i # at /\ Decided(i)') => Decided(i)
      BY <1>1, <2>1 DEF Decided
    <3>2. at \notin SlotOps
      BY <1>1 DEF SlotsInv, Decided
    <3>3. \A i \in SlotOps : Decided(i)'
      BY <1>1, <2>1 DEF SlotsInv, Decided
    <3> QED BY <1>1, <1>2, <2>2, <3>1, <3>2, <3>3 DEF SlotsInv
  <2>4. PassTypeOK' /\ PositionInv' /\ TraceInv' /\ PieceInv' /\ SlotsApart'
    BY <1>1, <1>3, <2>1 DEF Trace, PassTypeOK, PositionInv, TraceInv, PieceInv, SlotsApart, Laid
  <2> QED BY <2>3, <2>4
<1>4. CASE ~Returned(v)
  <2>1. /\ phase' = "trace" /\ at' = at
        /\ reachable' = reachable \cup ViewsOf(v)
        /\ todo' = (todo \ {v}) \cup (ViewsOf(v) \ reachable)
    BY <1>1, <1>4 DEF Trace
  <2>2. ViewsOf(v) \subseteq Ops
    BY DEF ViewsOf, Users
  <2>3. TraceInv'
    <3>1. \A w \in reachable' \ todo' : ~Returned(w) /\ ViewsOf(w) \subseteq reachable'
      BY <1>4, <2>1, <1>1 DEF TraceInv
    <3>2. \A R \in SUBSET Ops : (at \in R /\ ClosedUnderViews(R)) => reachable' \subseteq R
      BY <1>1, <2>1 DEF TraceInv, ClosedUnderViews
    <3>3. \A w : (Returned(w)' <=> Returned(w)) /\ ViewsOf(w)' = ViewsOf(w)
      BY <1>1 DEF ViewsOf, Returned, Users
    <3>4. \A R : ClosedUnderViews(R)' <=> ClosedUnderViews(R)
      BY <3>3 DEF ClosedUnderViews
    <3> QED BY <1>1, <2>1, <3>1, <3>2, <3>3, <3>4 DEF TraceInv
  <2>4. SlotsInv'
    BY <1>1, <1>2, <2>1 DEF SlotsInv, Decided
  <2>5. PassTypeOK' /\ PositionInv' /\ PieceInv' /\ SlotsApart'
    BY <1>1, <2>1, <2>2 DEF Trace, PassTypeOK, PositionInv, PieceInv, SlotsApart, Laid
  <2> QED BY <2>3, <2>4, <2>5
<1> QED BY <1>3, <1>4

LEMMA KeepSlotKeeps ==
    ASSUME PassInv, KeepSlot PROVE PassInv'
<1> USE DEF PassInv
<1>1. /\ Len(fn) \in Nat /\ Ops = 1 .. Len(fn) /\ Len(slots) \in Nat
      /\ DOMAIN slots = 1 .. Len(slots)
      /\ Ops' = Ops /\ fn' = fn /\ phase = "trace" /\ phase' = "walk" /\ at' = at + 1
      /\ at \in Ops /\ Placeable(fn[at]) /\ at \in reachable /\ todo = {}
      /\ slots \in Seq(Slot) /\ slots' = Append(slots, SlotOf(at))
  BY FunctionShape DEF KeepSlot, Ops, TraceInv, PassTypeOK
<1>2. SlotOf(at) \in Slot
  BY <1>1, FunctionShape DEF SlotOf, Slot, AlignOf
<1>3. /\ slots' \in Seq(Slot) /\ DOMAIN slots' = 1 .. Len(slots) + 1
      /\ \A k \in 1 .. Len(slots) : slots'[k] = slots[k]
      /\ slots'[Len(slots) + 1] = SlotOf(at)
  BY <1>1, <1>2
<1>4. SlotOps' = SlotOps \cup {at}
  <2>1. SlotOf(at).op = at
    BY DEF SlotOf
  <2> QED BY <1>1, <1>3, <2>1 DEF SlotOps
<1>5. ~Escapes(at)
  <2>1. reachable \in SUBSET Ops /\ ClosedUnderViews(reachable)
        /\ \A v \in reachable : ~Returned(v)
    BY <1>1 DEF TraceInv, ClosedUnderViews, PassTypeOK
  <2> QED BY <1>1, <2>1 DEF Escapes
<1>6. SlotsInv'
  <2>1. \A i \in Ops : Escapes(i)' <=> Escapes(i)
    BY <1>1 DEF Escapes, ClosedUnderViews, ViewsOf, Returned, Users
  <2>2. \A i \in Ops : (i # at /\ Decided(i)') => Decided(i)
    BY <1>1 DEF Decided
  <2>3. \A i \in SlotOps \cup {at} : i \in Ops /\ Placeable(fn[i]) /\ Decided(i)'
    BY <1>1 DEF SlotsInv, Decided
  <2> QED BY <1>1, <1>4, <1>5, <2>1, <2>2, <2>3 DEF SlotsInv
<1>7. PassTypeOK' /\ PositionInv' /\ TraceInv' /\ SlotsApart'
  BY <1>1, <1>3 DEF KeepSlot, PassTypeOK, PositionInv, TraceInv, SlotsApart, Laid
<1>8. PieceInv'
  BY <1>1 DEF KeepSlot, PieceInv
<1> QED BY <1>6, <1>7, <1>8

LEMMA EndWalkKeeps ==
    ASSUME PassInv, EndWalk PROVE PassInv'
<1> USE DEF PassInv
<1>1. /\ Len(fn) \in Nat /\ Ops = 1 .. Len(fn) /\ Len(slots) \in Nat
      /\ DOMAIN slots = 1 .. Len(slots) /\ Ops' = Ops /\ fn' = fn /\ slots' = slots
      /\ phase = "walk" /\ at = Len(fn) + 1
      /\ phase' = (IF slots = <<>> THEN "run" ELSE "layout")
      /\ at' = (IF slots = <<>> THEN 0 ELSE 1)
      /\ slots # <<>> => Len(slots) > 0
  BY FunctionShape DEF EndWalk, Ops, PassTypeOK
<1>2. SlotOps' = SlotOps /\ \A i \in Ops : Escapes(i)' <=> Escapes(i)
  BY <1>1 DEF SlotOps, Escapes, ClosedUnderViews, ViewsOf, Returned, Users
<1>3. SlotsInv'
  BY <1>1, <1>2 DEF SlotsInv, Decided
<1>4. PassTypeOK' /\ PositionInv' /\ TraceInv'
  BY <1>1 DEF EndWalk, PassTypeOK, PositionInv, TraceInv
<1>5. PieceInv' /\ SlotsApart'
  BY <1>1 DEF EndWalk, PieceInv, SlotsApart, Laid
<1> QED BY <1>3, <1>4, <1>5

\* The slot laid out next starts where the last one ended, or after.
LEMMA LayOutKeeps ==
    ASSUME PassInv, LayOut PROVE PassInv'
<1> USE DEF PassInv
<1> DEFINE offset == RoundUp(total, slots[at].align)
<1>1. /\ Len(slots) \in Nat /\ DOMAIN slots = 1 .. Len(slots)
      /\ Ops' = Ops /\ fn' = fn /\ phase = "layout" /\ phase' = "layout" /\ at' = at + 1
      /\ at \in 1 .. Len(slots) /\ slots \in Seq(Slot) /\ total \in Nat
      /\ slots' = [slots EXCEPT ![at].offset = offset]
      /\ total' = offset + slots[at].size
  BY FunctionShape DEF LayOut, Ops, PassTypeOK
<1>2. \A k \in 1 .. Len(slots) : /\ slots[k] \in Slot
                                 /\ slots[k].size \in Nat /\ slots[k].offset \in Nat
                                 /\ slots[k].align \in Nat \ {0}
  <2>1. \A k \in 1 .. Len(slots) : slots[k] \in Slot
    BY <1>1
  <2> QED BY <2>1 DEF Slot
<1>3. offset \in Nat /\ total <= offset /\ offset % slots[at].align = 0
  BY <1>1, <1>2, RoundUpIsNextMultiple
<1> HIDE DEF offset
<1>4. /\ slots' \in Seq(Slot) /\ Len(slots') = Len(slots)
      /\ DOMAIN slots' = 1 .. Len(slots)
      /\ \A k \in 1 .. Len(slots) : k # at => slots'[k] = slots[k]
      /\ slots'[at] = [slots[at] EXCEPT !.offset = offset]
  <2>1. [slots[at] EXCEPT !.offset = offset] \in Slot
    BY <1>1, <1>2, <1>3 DEF Slot
  <2> QED BY <1>1, <2>1
<1>5. /\ slots'[at].offset = offset /\ slots'[at].size = slots[at].size
      /\ slots'[at].align = slots[at].align /\ slots'[at].op = slots[at].op
  BY <1>1, <1>2, <1>4 DEF Slot
<1>6. SlotsApart'
  <2>1. Laid' = 1 .. at /\ Laid = 1 .. at - 1
    BY <1>1 DEF Laid
  <2>2. \A k \in 1 .. at - 1 : /\ slots'[k] = slots[k]
                               /\ slots[k].offset % slots[k].align = 0
                               /\ slots[k].offset + slots[k].size <= total
    BY <1>1, <1>4, <2>1 DEF SlotsApart
  <2>3. \A k \in Laid' : /\ slots'[k].offset % slots'[k].align = 0
                         /\ slots'[k].offset + slots'[k].size <= total'
    <3> SUFFICES ASSUME NEW k \in 1 .. at
                 PROVE  /\ slots'[k].offset % slots'[k].align = 0
                        /\ slots'[k].offset + slots'[k].size <= total'
      BY <2>1
    <3>1. CASE k = at
      BY <3>1, <1>1, <1>2, <1>3, <1>5
    <3>2. CASE k # at
      BY <3>2, <1>1, <1>2, <1>3, <2>2
    <3> QED BY <3>1, <3>2
  <2>4. \A i, j \in Laid' :
            i < j => slots'[i].offset + slots'[i].size <= slots'[j].offset
    <3> SUFFICES ASSUME NEW i \in 1 .. at, NEW j \in 1 .. at, i < j
                 PROVE  slots'[i].offset + slots'[i].size <= slots'[j].offset
      BY <2>1
    <3>1. CASE j = at
      <4>1. i \in 1 .. at - 1 /\ slots'[j].offset = offset
        BY <3>1, <1>1, <1>5
      <4>2. slots'[i].offset + slots'[i].size \in Nat
            /\ slots'[i].offset + slots'[i].size <= total
        BY <4>1, <1>1, <1>2, <2>2
      <4> QED BY <4>1, <4>2, <1>1, <1>3
    <3>2. CASE j # at
      BY <3>2, <1>1, <2>1, <2>2 DEF SlotsApart
    <3> QED BY <3>1, <3>2
  <2> QED BY <2>3, <2>4 DEF SlotsApart
<1>7. SlotOps' = SlotOps
  BY <1>1, <1>4, <1>5 DEF SlotOps
<1>8. SlotsInv'
  <2>1. \A i \in Ops : Escapes(i)' <=> Escapes(i)
    BY <1>1 DEF Escapes, ClosedUnderViews, ViewsOf, Returned, Users
  <2> QED BY <1>1, <1>7, <2>1 DEF SlotsInv, Decided
<1>9. PassTypeOK' /\ PositionInv' /\ TraceInv' /\ PieceInv'
  BY <1>1, <1>2, <1>3, <1>4 DEF LayOut, PassTypeOK, PositionInv, TraceInv, PieceInv
<1> QED BY <1>6, <1>8, <1>9

LEMMA EndLayoutKeeps ==
    ASSUME PassInv, EndLayout PROVE PassInv'
<1> USE DEF PassInv
<1>1. /\ Len(slots) \in Nat /\ DOMAIN slots = 1 .. Len(slots)
      /\ Ops' = Ops /\ fn' = fn /\ slots' = slots /\ pieceOf' = pieceOf /\ total' = total
      /\ phase = "layout" /\ phase' = "replace" /\ at = Len(slots) + 1 /\ at' = 1
  BY FunctionShape DEF EndLayout, Ops, PassTypeOK
<1>2. SlotsInv'
  <2>1. SlotOps' = SlotOps /\ \A i \in Ops : Escapes(i)' <=> Escapes(i)
    BY <1>1 DEF SlotOps, Escapes, ClosedUnderViews, ViewsOf, Returned, Users
  <2> QED BY <1>1, <2>1 DEF SlotsInv, Decided
<1>3. PassTypeOK' /\ PositionInv' /\ TraceInv'
  BY <1>1 DEF EndLayout, PassTypeOK, PositionInv, TraceInv
<1>4. PieceInv' /\ SlotsApart'
  BY <1>1 DEF PieceInv, SlotsApart, Laid
<1> QED BY <1>2, <1>3, <1>4

LEMMA ReplaceKeeps ==
    ASSUME PassInv, Replace PROVE PassInv'
<1> USE DEF PassInv
<1>1. /\ Len(slots) \in Nat /\ DOMAIN slots = 1 .. Len(slots)
      /\ Ops' = Ops /\ fn' = fn /\ slots' = slots /\ total' = total
      /\ phase = "replace" /\ phase' = "replace" /\ at \in 1 .. Len(slots) /\ at' = at + 1
      /\ pieceOf \in [Ops -> Nat] /\ pieceOf' = [pieceOf EXCEPT ![slots[at].op] = at]
  BY FunctionShape DEF Replace, Ops, PassTypeOK
<1>2. SlotsInv'
  <2>1. SlotOps' = SlotOps /\ \A i \in Ops : Escapes(i)' <=> Escapes(i)
    BY <1>1 DEF SlotOps, Escapes, ClosedUnderViews, ViewsOf, Returned, Users
  <2> QED BY <1>1, <2>1 DEF SlotsInv, Decided
<1>3. PassTypeOK' /\ PositionInv' /\ TraceInv' /\ SlotsApart'
  <2>0. slots[at].op \in Ops /\ at \in Nat
    BY <1>1 DEF SlotsInv, SlotOps
  <2>1. pieceOf' \in [Ops -> Nat] /\ at' \in Nat
    BY <2>0, <1>1
  <2>2. PassTypeOK'
    BY <1>1, <2>1 DEF Replace, PassTypeOK
  <2> QED BY <1>1, <2>2 DEF Replace, PositionInv, TraceInv, SlotsApart, Laid
<1>4. PieceInv'
  <2>1. slots[at].op \in Ops
    BY <1>1 DEF SlotsInv, SlotOps
  <2> SUFFICES ASSUME NEW i \in Ops
               PROVE  pieceOf'[i] # 0 <=> \E k \in 1 .. Len(slots) :
                                              slots[k].op = i /\ k < at + 1
    BY <1>1 DEF PieceInv
  <2>2. pieceOf[i] # 0 <=> \E k \in 1 .. Len(slots) : slots[k].op = i /\ k < at
    BY <1>1 DEF PieceInv
  <2>3. CASE i = slots[at].op
    BY <1>1, <2>1, <2>3
  <2>4. CASE i # slots[at].op
    BY <1>1, <2>1, <2>2, <2>4
  <2> QED BY <2>3, <2>4
<1> QED BY <1>2, <1>3, <1>4

LEMMA EraseDeallocsKeeps ==
    ASSUME PassInv, EraseDeallocs PROVE PassInv'
<1> USE DEF PassInv
<1>1. /\ Len(slots) \in Nat /\ DOMAIN slots = 1 .. Len(slots)
      /\ Ops' = Ops /\ fn' = fn /\ slots' = slots /\ total' = total /\ pieceOf' = pieceOf
      /\ phase = "replace" /\ phase' = "run" /\ at = Len(slots) + 1
  BY FunctionShape DEF EraseDeallocs, Ops, PassTypeOK
<1>2. SlotsInv'
  <2>1. SlotOps' = SlotOps /\ \A i \in Ops : Escapes(i)' <=> Escapes(i)
    BY <1>1 DEF SlotOps, Escapes, ClosedUnderViews, ViewsOf, Returned, Users
  <2> QED BY <1>1, <2>1 DEF SlotsInv, Decided
<1>3. PassTypeOK' /\ PositionInv' /\ TraceInv' /\ SlotsApart'
  BY <1>1 DEF EraseDeallocs, PassTypeOK, PositionInv, TraceInv, SlotsApart, Laid
<1>4. PieceInv'
  BY <1>1 DEF PieceInv
<1> QED BY <1>2, <1>3, <1>4

\* Running the function changes nothing the pass decided.
LEMMA RunKeeps ==
    ASSUME PassInv, RunNext PROVE PassInv'
<1> USE DEF PassInv
<1>1. /\ phase = "run" /\ phase' = "run" /\ fn' = fn /\ slots' = slots /\ total' = total
      /\ pieceOf' = pieceOf /\ erased' = erased /\ reachable' = reachable /\ todo' = todo
      /\ Ops' = Ops /\ at' \in Nat
  BY FunctionShape DEF RunNext, Call, RunAlloc, RunView, RunWrite, RunDealloc, RunReturn,
         LoopBack, Executes, Ops, PassTypeOK
<1>2. SlotsInv'
  <2>1. SlotOps' = SlotOps /\ \A i \in Ops : Escapes(i)' <=> Escapes(i)
    BY <1>1 DEF SlotOps, Escapes, ClosedUnderViews, ViewsOf, Returned, Users
  <2> QED BY <1>1, <2>1 DEF SlotsInv, Decided
<1>3. PassTypeOK' /\ PositionInv' /\ TraceInv' /\ SlotsApart' /\ PieceInv'
  BY <1>1 DEF PassTypeOK, PositionInv, TraceInv, SlotsApart, Laid, PieceInv
<1> QED BY <1>2, <1>3

LEMMA StutterKeeps ==
    ASSUME PassInv, UNCHANGED vars PROVE PassInv'
<1> USE DEF PassInv
<1>1. /\ phase' = phase /\ fn' = fn /\ slots' = slots /\ total' = total /\ at' = at
      /\ pieceOf' = pieceOf /\ erased' = erased /\ reachable' = reachable /\ todo' = todo
      /\ Ops' = Ops
  BY DEF vars, passVars, Ops
<1>2. /\ SlotOps' = SlotOps /\ (\A v : ViewsOf(v)' = ViewsOf(v))
      /\ (\A v : Returned(v)' <=> Returned(v))
  BY <1>1 DEF SlotOps, ViewsOf, Returned, Users
<1>3. /\ (\A R : ClosedUnderViews(R)' <=> ClosedUnderViews(R))
      /\ (\A i \in Ops : Escapes(i)' <=> Escapes(i))
  BY <1>1, <1>2 DEF ClosedUnderViews, Escapes
<1>4. SlotsInv'
  BY <1>1, <1>2, <1>3 DEF SlotsInv, Decided
<1>5. TraceInv'
  BY <1>1, <1>2, <1>3 DEF TraceInv
<1>6. PassTypeOK' /\ PositionInv' /\ SlotsApart' /\ PieceInv'
  BY <1>1 DEF PassTypeOK, PositionInv, SlotsApart, Laid, PieceInv
<1> QED BY <1>4, <1>5, <1>6

-----------------------------------------------------------------------------
(* The pass, and every call after it. *)

LEMMA PassInvariant == Spec => []PassInv
<1>1. Init => PassInv
  BY InitEstablishes DEF Init
<1>2. PassInv /\ [Next]_vars => PassInv'
  <2> SUFFICES ASSUME PassInv, [Next]_vars PROVE PassInv'
    OBVIOUS
  <2>1. CASE SkipOp
    BY <2>1, SkipOpKeeps
  <2>2. CASE Consider
    BY <2>2, ConsiderKeeps
  <2>3. ASSUME NEW v \in todo, Trace(v) PROVE PassInv'
    BY <2>3, TraceKeeps
  <2>4. CASE KeepSlot
    BY <2>4, KeepSlotKeeps
  <2>5. CASE EndWalk
    BY <2>5, EndWalkKeeps
  <2>6. CASE LayOut
    BY <2>6, LayOutKeeps
  <2>7. CASE EndLayout
    BY <2>7, EndLayoutKeeps
  <2>8. CASE Replace
    BY <2>8, ReplaceKeeps
  <2>9. CASE EraseDeallocs
    BY <2>9, EraseDeallocsKeeps
  <2>10. CASE RunNext
    BY <2>10, RunKeeps
  <2>11. CASE UNCHANGED vars
    BY <2>11, StutterKeeps
  <2> QED
    BY <2>1, <2>2, <2>3, <2>4, <2>5, <2>6, <2>7, <2>8, <2>9, <2>10, <2>11 DEF Next, PassNext
<1> QED BY <1>1, <1>2, PTL DEF Spec

\* The slots of the arena never overlap, are aligned as asked and end inside
\* it, whatever the sizes and alignments (PlanStaticBuffersPass.cpp:112-116).
THEOREM SlotsNeverOverlap == Spec => []SlotsApart
<1>1. PassInv => SlotsApart
  BY DEF PassInv
<1> QED BY <1>1, PassInvariant, PTL

\* An allocation the pass can place is left to the allocator exactly when a
\* view of it is returned (PlanStaticBuffersPass.cpp:63-97).
THEOREM OnlyEscapingAreLeft == Spec => []OnlyEscapingLeft
<1>1. PassInv => OnlyEscapingLeft
  <2> SUFFICES ASSUME PassInv, phase = "run", NEW i \in Ops, Placeable(fn[i])
               PROVE  pieceOf[i] = 0 <=> Escapes(i)
    BY DEF OnlyEscapingLeft
  <2>1. i \in SlotOps <=> ~Escapes(i)
    BY DEF PassInv, SlotsInv, Decided
  <2>2. pieceOf[i] # 0 <=> i \in SlotOps
    BY DEF PassInv, PieceInv, SlotOps
  <2> QED BY <2>1, <2>2
<1> QED BY <1>1, PassInvariant, PTL

-----------------------------------------------------------------------------
(* Who owns what is returned, in functions whose only other names for a      *)
(* buffer are the views the pass knows.                                      *)

OnlyViews == \A f \in Functions : \A i \in DOMAIN f : f[i].kind # "alias"

\* Value j is a view of the buffer allocation i made, or the buffer itself.
NameOf(i, j) == \A R \in SUBSET Ops : (i \in R /\ ClosedUnderViews(R)) => j \in R

\* A name of a buffer is bound to it, and what the caller holds had a name
\* that was returned.
OwnersInv ==
    /\ phase # "run" => buffers = <<>> /\ held = {} /\ env = [i \in Ops |-> 0]
    /\ buffers \in Seq(Buffer)
    /\ \A b \in 1 .. Len(buffers) : buffers[b].op \in Ops
    /\ env \in [Ops -> 0 .. Len(buffers)]
    /\ \A j \in Ops : env[j] # 0 => NameOf(buffers[env[j]].op, j)
    /\ held \subseteq 1 .. Len(buffers)
    /\ \A b \in held : \E j \in Ops : Returned(j) /\ NameOf(buffers[b].op, j)

LEMMA FunctionIsSequence ==
    ASSUME NEW n \in Nat, NEW S, NEW f \in [1 .. n -> S]
    PROVE  f \in Seq(S) /\ Len(f) = n
  OBVIOUS

\* A step that keeps every buffer's origin and binds nothing new.
LEMMA SameOwners ==
    ASSUME OwnersInv, fn' = fn, phase' = phase,
           buffers' \in Seq(Buffer), Len(buffers') = Len(buffers),
           \A b \in 1 .. Len(buffers) : buffers'[b].op = buffers[b].op,
           phase # "run" => buffers' = buffers,
           env' = env, held' = held
    PROVE  OwnersInv'
<1>1. Ops' = Ops /\ (\A v : Returned(v)' <=> Returned(v))
      /\ (\A i, j : NameOf(i, j)' <=> NameOf(i, j))
  BY DEF Ops, NameOf, ClosedUnderViews, ViewsOf, Returned, Users
<1> QED BY <1>1 DEF OwnersInv

LEMMA PassKeepsOwners ==
    ASSUME OwnersInv, PassTypeOK, PassNext PROVE OwnersInv'
<1>1. /\ fn' = fn /\ phase # "run"
      /\ buffers' = buffers /\ held' = held /\ env' = env
  BY DEF PassNext, SkipOp, Consider, Trace, KeepSlot, EndWalk, LayOut, EndLayout,
         Replace, EraseDeallocs, runVars
<1>2. Ops' = Ops
  BY <1>1 DEF Ops
<1>3. buffers = <<>> /\ held = {} /\ env = [i \in Ops |-> 0]
  BY <1>1 DEF OwnersInv
<1> QED BY <1>1, <1>2, <1>3 DEF OwnersInv

LEMMA RunKeepsOwners ==
    ASSUME OwnersInv, PassTypeOK, OnlyViews, RunNext PROVE OwnersInv'
<1>0. fn' = fn /\ phase = "run" /\ phase' = "run" /\ Len(buffers) \in Nat
  BY DEF OwnersInv, RunNext, Call, RunAlloc, RunView, RunWrite, RunDealloc, RunReturn,
         LoopBack, Executes
<1>1. Ops' = Ops /\ (\A v : Returned(v)' <=> Returned(v))
      /\ (\A i, j : NameOf(i, j)' <=> NameOf(i, j))
  BY <1>0 DEF Ops, NameOf, ClosedUnderViews, ViewsOf, Returned, Users
<1>2. ASSUME Call PROVE OwnersInv'
  BY <1>0, <1>1, <1>2 DEF Call, OwnersInv
<1>3. ASSUME RunAlloc PROVE OwnersInv'
  <2> DEFINE new == [op |-> at, intact |-> TRUE, dead |-> FALSE, freed |-> FALSE]
  <2>1. at \in Ops /\ new \in Buffer /\ new.op = at
    BY <1>3, FunctionShape DEF RunAlloc, Executes, Buffer
  <2>2. /\ buffers' = Append(buffers, new) /\ held' = held
        /\ env' = [env EXCEPT ![at] = Len(buffers) + 1]
    BY <1>3 DEF RunAlloc
  <2> HIDE DEF new
  <2>3. /\ buffers' \in Seq(Buffer) /\ Len(buffers') = Len(buffers) + 1
        /\ buffers'[Len(buffers) + 1] = new
        /\ \A b \in 1 .. Len(buffers) : buffers'[b] = buffers[b]
    BY <2>1, <2>2, <1>0 DEF OwnersInv
  <2>4. env' \in [Ops -> 0 .. Len(buffers')]
    BY <2>1, <2>2, <2>3, <1>0 DEF OwnersInv
  <2>5. \A j \in Ops : env'[j] # 0 => NameOf(buffers'[env'[j]].op, j)
    <3> SUFFICES ASSUME NEW j \in Ops, env'[j] # 0
                 PROVE  NameOf(buffers'[env'[j]].op, j)
      OBVIOUS
    <3>1. CASE j = at
      <4>1. buffers'[env'[j]].op = j
        BY <3>1, <2>1, <2>2, <2>3 DEF OwnersInv
      <4> QED BY <4>1 DEF NameOf
    <3>2. CASE j # at
      <4>1. env'[j] = env[j] /\ env[j] \in 1 .. Len(buffers)
        BY <3>2, <2>2, <1>0 DEF OwnersInv
      <4> QED BY <4>1, <2>3 DEF OwnersInv
    <3> QED BY <3>1, <3>2
  <2>6. \A b \in 1 .. Len(buffers') : buffers'[b].op \in Ops
    BY <2>1, <2>3, <1>0 DEF OwnersInv
  <2> QED BY <1>0, <1>1, <2>2, <2>3, <2>4, <2>5, <2>6 DEF OwnersInv
<1>4. ASSUME RunView PROVE OwnersInv'
  <2>1. at \in Ops /\ fn[at].kind = "view" /\ buffers' = buffers /\ held' = held
    BY <1>4 DEF RunView, Executes, OnlyViews, PassTypeOK, Ops
  <2>2. PICK x \in fn[at].from : env' = [env EXCEPT ![at] = env[x]]
    BY <1>4 DEF RunView
  <2>3. x \in Ops
    BY <2>1, <2>2, FunctionAssumption DEF PassTypeOK, Ops
  <2>4. env' \in [Ops -> 0 .. Len(buffers)]
    BY <2>1, <2>2, <2>3 DEF OwnersInv
  <2>5. \A j \in Ops : env'[j] # 0 => NameOf(buffers[env'[j]].op, j)
    <3> SUFFICES ASSUME NEW j \in Ops, env'[j] # 0
                 PROVE  NameOf(buffers[env'[j]].op, j)
      OBVIOUS
    <3>1. CASE j = at
      <4>1. env'[j] = env[x] /\ NameOf(buffers[env[x]].op, x)
        BY <3>1, <2>2, <2>3 DEF OwnersInv
      <4>2. at \in ViewsOf(x)
        BY <2>1, <2>2 DEF ViewsOf, Users
      <4> QED BY <3>1, <4>1, <4>2 DEF NameOf, ClosedUnderViews
    <3>2. CASE j # at
      BY <3>2, <2>2 DEF OwnersInv
    <3> QED BY <3>1, <3>2
  <2> QED BY <1>0, <1>1, <2>1, <2>4, <2>5 DEF OwnersInv
<1>5. ASSUME RunWrite PROVE OwnersInv'
  <2>1. PICK x \in fn[at].from :
            buffers' = IF env[x] = 0 THEN buffers ELSE Written(env[x])
    BY <1>5 DEF RunWrite
  <2>2. env' = env /\ held' = held
    BY <1>5 DEF RunWrite
  <2>3. /\ buffers' \in Seq(Buffer) /\ Len(buffers') = Len(buffers)
        /\ \A b \in 1 .. Len(buffers) : buffers'[b].op = buffers[b].op
    <3>1. \A b \in 1 .. Len(buffers) : buffers[b] \in Buffer
      BY DEF OwnersInv
    <3>2. DOMAIN buffers = 1 .. Len(buffers)
      BY DEF OwnersInv
    <3>3. \A c \in 1 .. Len(buffers) :
              /\ Written(env[x])[c] \in Buffer
              /\ Written(env[x])[c].op = buffers[c].op
      BY <3>1, <3>2 DEF Written, Buffer
    <3>4. Written(env[x]) \in Seq(Buffer) /\ Len(Written(env[x])) = Len(buffers)
      <4>1. DOMAIN Written(env[x]) = 1 .. Len(buffers)
        BY <3>2 DEF Written
      <4>2. Written(env[x]) \in [1 .. Len(buffers) -> Buffer]
        BY <3>2, <3>3 DEF Written
      <4> QED BY <1>0, <4>1, <4>2
    <3>5. CASE env[x] = 0
      BY <3>5, <2>1 DEF OwnersInv
    <3>6. CASE env[x] # 0
      BY <3>6, <2>1, <3>3, <3>4
    <3> QED BY <3>5, <3>6
  <2> QED BY <1>0, <2>2, <2>3, SameOwners
<1>6. ASSUME RunDealloc PROVE OwnersInv'
  <2>1. PICK x \in fn[at].from :
            buffers' = IF env[x] = 0 THEN buffers
                       ELSE [buffers EXCEPT ![env[x]].dead = TRUE,
                                            ![env[x]].freed = at \notin erased]
    BY <1>6 DEF RunDealloc
  <2>2. env' = env /\ held' = held
    BY <1>6 DEF RunDealloc
  <2>3. /\ buffers' \in Seq(Buffer) /\ Len(buffers') = Len(buffers)
        /\ \A b \in 1 .. Len(buffers) : buffers'[b].op = buffers[b].op
    <3>1. \A b \in 1 .. Len(buffers) : buffers[b] \in Buffer
      BY DEF OwnersInv
    <3>2. \A b \in 1 .. Len(buffers) :
              LET r == [[buffers[b] EXCEPT !.dead = TRUE] EXCEPT !.freed = at \notin erased]
              IN  r \in Buffer /\ r.op = buffers[b].op
      BY <3>1 DEF Buffer
    <3>3. x \in Ops
      BY <1>6, FunctionAssumption, <2>1 DEF RunDealloc, Executes, PassTypeOK, Ops
    <3>4. CASE env[x] = 0
      BY <3>4, <2>1 DEF OwnersInv
    <3>5. CASE env[x] # 0
      <4> DEFINE d == [buffers EXCEPT ![env[x]].dead = TRUE]
                 e == [d EXCEPT ![env[x]].freed = at \notin erased]
                 r(b) == [[buffers[b] EXCEPT !.dead = TRUE] EXCEPT !.freed = at \notin erased]
      <4>1. buffers' = e
        BY <3>5, <2>1
      <4>2. DOMAIN buffers = 1 .. Len(buffers) /\ env[x] \in 1 .. Len(buffers)
        BY <3>3, <3>5, <1>0 DEF OwnersInv
      <4>3. /\ DOMAIN e = 1 .. Len(buffers)
            /\ \A b \in 1 .. Len(buffers) : e[b] = IF b = env[x] THEN r(b) ELSE buffers[b]
        BY <4>2
      <4>4. \A b \in 1 .. Len(buffers) : e[b] \in Buffer /\ e[b].op = buffers[b].op
        BY <3>1, <3>2, <4>3
      <4>5. e \in [1 .. Len(buffers) -> Buffer]
        BY <4>3, <4>4
      <4> HIDE DEF e
      <4>6. e \in Seq(Buffer) /\ Len(e) = Len(buffers)
        BY <1>0, <4>5, FunctionIsSequence
      <4> QED BY <4>1, <4>4, <4>6
    <3> QED BY <3>4, <3>5
  <2> QED BY <1>0, <2>2, <2>3, SameOwners
<1>7. ASSUME RunReturn PROVE OwnersInv'
  <2>1. /\ buffers' = buffers /\ env' = env /\ at \in Ops /\ fn[at].kind = "return"
        /\ held' = held \cup ({env[x] : x \in fn[at].from} \ {0})
    BY <1>7 DEF RunReturn
  <2>2. \A x \in fn[at].from : x \in Ops /\ Returned(x)
    BY <2>1, FunctionAssumption DEF PassTypeOK, Ops, Returned, Users
  <2>3. held' \subseteq 1 .. Len(buffers)
    <3>1. \A x \in fn[at].from : env[x] \in 0 .. Len(buffers)
      BY <2>2 DEF OwnersInv
    <3>2. {env[x] : x \in fn[at].from} \ {0} \subseteq 1 .. Len(buffers)
      BY <3>1, <1>0
    <3> QED BY <2>1, <3>2 DEF OwnersInv
  <2>4. \A b \in held' : \E j \in Ops : Returned(j) /\ NameOf(buffers[b].op, j)
    BY <2>1, <2>2 DEF OwnersInv
  <2> QED BY <1>0, <1>1, <2>1, <2>3, <2>4 DEF OwnersInv
<1>8. ASSUME NEW first \in Ops, LoopBack(first) PROVE OwnersInv'
  <2>1. buffers' = buffers /\ env' = env /\ held' = held
    BY <1>8 DEF LoopBack
  <2> QED BY <1>0, <2>1, SameOwners DEF OwnersInv
<1> QED BY <1>2, <1>3, <1>4, <1>5, <1>6, <1>7, <1>8 DEF RunNext

LEMMA OwnersInvariant ==
    ASSUME OnlyViews PROVE Spec => [](PassInv /\ OwnersInv)
<1>1. Init => OwnersInv
  BY DEF Init, PassInit, RunInit, OwnersInv, Ops, Buffer
<1>2. OwnersInv /\ PassInv /\ [Next]_vars => OwnersInv'
  <2> SUFFICES ASSUME OwnersInv, PassInv, [Next]_vars PROVE OwnersInv'
    OBVIOUS
  <2>0. PassTypeOK
    BY DEF PassInv
  <2>1. CASE PassNext
    BY <2>0, <2>1, PassKeepsOwners
  <2>2. CASE RunNext
    BY <2>0, <2>2, RunKeepsOwners
  <2>3. CASE UNCHANGED vars
    BY <2>3, SameOwners DEF vars, passVars, runVars, OwnersInv
  <2> QED BY <2>1, <2>2, <2>3 DEF Next
<1> QED BY <1>1, <1>2, PassInvariant, PTL DEF Spec

\* An allocation with a name that is returned has no slot.
LEMMA HeldIsNoPiece ==
    ASSUME OwnersInv, PassInv, phase = "run", NEW b \in held
    PROVE  ~InArena(b)
<1> SUFFICES ASSUME pieceOf[buffers[b].op] # 0 PROVE FALSE
  BY DEF InArena
<1> DEFINE i == buffers[b].op
<1>1. i \in Ops
  BY DEF OwnersInv
<1>2. PICK j \in Ops : Returned(j) /\ NameOf(i, j)
  BY DEF OwnersInv
<1>3. i \in SlotOps
  BY <1>1 DEF PassInv, PieceInv, SlotOps
<1>4. ~Escapes(i)
  BY <1>1, <1>3 DEF PassInv, SlotsInv
<1> QED BY <1>2, <1>4 DEF Escapes, NameOf

\* What the function returns is never a piece of the arena, on no call, if
\* its buffers reach the return through the views isView lists
\* (PlanStaticBuffersPass.cpp:26-30 and 83-96).
THEOREM ResultIsCallers == OnlyViews => (Spec => []CallerOwnsResult)
<1> SUFFICES ASSUME OnlyViews PROVE Spec => []CallerOwnsResult
  OBVIOUS
<1>1. OwnersInv /\ PassInv => CallerOwnsResult
  BY HeldIsNoPiece DEF CallerOwnsResult
<1> QED BY <1>1, OwnersInvariant, PTL

-----------------------------------------------------------------------------
(* What was written survives. *)

\* An allocation that was replaced is the one of the slot it became.
PlacedInv ==
    \A i \in Ops : pieceOf[i] # 0 => /\ pieceOf[i] \in DOMAIN slots
                                     /\ slots[pieceOf[i]].op = i

LEMMA PlacedKeeps ==
    ASSUME PassInv, PlacedInv, [Next]_vars PROVE PlacedInv'
<1> USE DEF PassInv
<1>1. /\ slots \in Seq(Slot) /\ Len(slots) \in Nat /\ DOMAIN slots = 1 .. Len(slots)
      /\ pieceOf \in [Ops -> Nat]
  BY FunctionShape DEF PassTypeOK
<1>2. CASE UNCHANGED <<fn, slots, pieceOf>>
  BY <1>2 DEF PlacedInv, Ops
<1>3. CASE KeepSlot
  <2>1. /\ fn' = fn /\ pieceOf' = pieceOf /\ slots' = Append(slots, SlotOf(at))
        /\ phase = "trace"
    BY <1>3 DEF KeepSlot
  <2>2. \A i \in Ops : pieceOf[i] = 0
    BY <2>1 DEF PieceInv
  <2> QED BY <2>1, <2>2 DEF PlacedInv, Ops
<1>4. CASE LayOut
  <2>1. fn' = fn /\ pieceOf' = pieceOf /\ phase = "layout"
    BY <1>4 DEF LayOut
  <2>2. \A i \in Ops : pieceOf[i] = 0
    BY <2>1 DEF PieceInv
  <2> QED BY <2>1, <2>2 DEF PlacedInv, Ops
<1>5. CASE Replace
  BY <1>1, <1>5 DEF Replace, PlacedInv, Ops
<1>6. \/ UNCHANGED <<fn, slots, pieceOf>> \/ KeepSlot \/ LayOut \/ Replace
  BY DEF Next, PassNext, SkipOp, Consider, Trace, EndWalk, EndLayout, EraseDeallocs,
         RunNext, Call, RunAlloc, RunView, RunWrite, RunDealloc, RunReturn, LoopBack,
         vars, passVars
<1> QED BY <1>2, <1>3, <1>4, <1>5, <1>6

\* Buffers that have a byte in common are of one allocation, outside any region.
LEMMA SharingIsReuse ==
    ASSUME PassInv, PlacedInv, OwnersInv, phase = "run",
           NEW b \in 1 .. Len(buffers), NEW c \in 1 .. Len(buffers), SharesBytes(b, c)
    PROVE  buffers[b].op = buffers[c].op /\ ~fn[buffers[b].op].nested
<1> USE DEF PassInv
<1> DEFINE i == buffers[b].op
           j == buffers[c].op
<1>1. i \in Ops /\ j \in Ops /\ pieceOf[i] # 0 /\ pieceOf[j] # 0
  BY DEF OwnersInv, SharesBytes, InArena
<1>2. /\ pieceOf[i] \in DOMAIN slots /\ slots[pieceOf[i]].op = i
      /\ pieceOf[j] \in DOMAIN slots /\ slots[pieceOf[j]].op = j
  BY <1>1 DEF PlacedInv
<1>3. ~fn[i].nested
  BY <1>1, <1>2 DEF SlotsInv, SlotOps, Placeable
<1>4. i = j
  <2> SUFFICES ASSUME pieceOf[i] # pieceOf[j] PROVE FALSE
    BY <1>2
  <2> DEFINE p == pieceOf[i]
             q == pieceOf[j]
  <2>1. /\ p \in Nat /\ q \in Nat /\ p # q
        /\ slots[p].offset \in Nat /\ slots[p].size \in Nat
        /\ slots[q].offset \in Nat /\ slots[q].size \in Nat
    <3>1. \A k \in DOMAIN slots : slots[k] \in Slot
      BY DEF PassTypeOK
    <3> QED BY <1>1, <1>2, <3>1 DEF PassTypeOK, Slot
  <2>2. \/ slots[p].offset + slots[p].size <= slots[q].offset
        \/ slots[q].offset + slots[q].size <= slots[p].offset
    <3>1. p \in Laid /\ q \in Laid
      BY <1>2 DEF Laid
    <3>2. p < q \/ q < p
      BY <2>1
    <3> QED BY <3>1, <3>2 DEF SlotsApart
  <2>3. PICK n \in Bytes(b) : n \in Bytes(c)
    BY DEF SharesBytes
  <2>4. /\ n \in slots[p].offset .. slots[p].offset + slots[p].size - 1
        /\ n \in slots[q].offset .. slots[q].offset + slots[q].size - 1
    BY <2>3 DEF Bytes
  <2> DEFINE a == slots[p].offset
             e == slots[q].offset
             f == slots[p].size
             g == slots[q].size
  <2>5. a \in Nat /\ e \in Nat /\ f \in Nat /\ g \in Nat
    BY <2>1
  <2>6. a + f <= e \/ e + g <= a
    BY <2>2
  <2>7. n \in a .. a + f - 1 /\ n \in e .. e + g - 1
    BY <2>4
  <2> HIDE DEF a, e, f, g
  <2> QED BY <2>5, <2>6, <2>7
<1> QED BY <1>3, <1>4

\* An allocation outside any region runs once in a call, so that of its buffers
\* only one has names; what has a name or is held has its last bytes.
DataInv ==
    /\ \A j \in Ops : env[j] # 0 => buffers[env[j]].intact
    /\ \A b \in held : buffers[b].intact
    /\ \A j \in Ops : (env[j] # 0 /\ ~fn[buffers[env[j]].op].nested /\ at # 0) =>
                          buffers[env[j]].op < at
    /\ \A j, k \in Ops :
           (/\ env[j] # 0 /\ env[k] # 0
            /\ buffers[env[j]].op = buffers[env[k]].op
            /\ ~fn[buffers[env[j]].op].nested) => env[j] = env[k]

LEMMA WriteKeepsData ==
    ASSUME PassInv, PlacedInv, OwnersInv, DataInv, phase = "run",
           NEW x \in Ops, env[x] # 0, NEW c \in 1 .. Len(buffers),
           c \in held \/ \E j \in Ops : env[j] = c
    PROVE  Written(env[x])[c].intact
<1>1. env[x] \in 1 .. Len(buffers) /\ DOMAIN buffers = 1 .. Len(buffers)
  BY DEF OwnersInv
<1>2. buffers[c] \in Buffer /\ buffers[c].intact
  BY <1>1 DEF OwnersInv, DataInv
<1>3. c = env[x] \/ ~SharesBytes(env[x], c)
  <2> SUFFICES ASSUME SharesBytes(env[x], c) PROVE c = env[x]
    OBVIOUS
  <2>1. buffers[env[x]].op = buffers[c].op /\ ~fn[buffers[c].op].nested
    BY <1>1, SharingIsReuse
  <2>2. c \notin held
    BY HeldIsNoPiece DEF SharesBytes
  <2> QED BY <1>1, <2>1, <2>2 DEF DataInv
<1> QED BY <1>1, <1>2, <1>3 DEF Written, Buffer

LEMMA RunKeepsData ==
    ASSUME PassInv, PlacedInv, OwnersInv, OwnersInv', DataInv, OnlyViews, RunNext
    PROVE  DataInv'
<1> USE DEF PassInv
<1>0. /\ fn' = fn /\ phase = "run" /\ pieceOf' = pieceOf /\ Ops' = Ops
      /\ Len(buffers) \in Nat /\ DOMAIN buffers = 1 .. Len(buffers)
      /\ Len(fn) \in Nat /\ Ops = 1 .. Len(fn)
      /\ \A j \in Ops : env[j] \in 0 .. Len(buffers)
      /\ held \subseteq 1 .. Len(buffers)
      /\ \A b \in 1 .. Len(buffers) : buffers[b] \in Buffer /\ buffers[b].op \in Ops
  BY FunctionShape DEF OwnersInv, RunNext, Call, RunAlloc, RunView, RunWrite, RunDealloc,
         RunReturn, LoopBack, Executes, Ops
<1>1. ASSUME Call PROVE DataInv'
  BY <1>0, <1>1 DEF Call, DataInv
<1>2. ASSUME RunAlloc PROVE DataInv'
  <2> DEFINE new == [op |-> at, intact |-> TRUE, dead |-> FALSE, freed |-> FALSE]
             n == Len(buffers) + 1
  <2>1. /\ at \in Ops /\ at' = at + 1 /\ held' = held
        /\ buffers' = Append(buffers, new) /\ env' = [env EXCEPT ![at] = n]
        /\ new.op = at /\ new.intact
    BY <1>2 DEF RunAlloc, Executes
  <2> HIDE DEF new
  <2>2. /\ \A b \in 1 .. Len(buffers) : buffers'[b] = buffers[b]
        /\ buffers'[n] = new
    BY <1>0, <2>1 DEF OwnersInv
  <2>3. \A j \in Ops : /\ j = at => env'[j] = n
                       /\ j # at => env'[j] = env[j]
    BY <2>1 DEF OwnersInv
  <2>4. \A j \in Ops : (env[j] # 0 /\ ~fn[buffers[env[j]].op].nested) => buffers[env[j]].op < at
    BY <1>0, <2>1 DEF DataInv
  <2>5. \A j \in Ops : env'[j] # 0 =>
            \/ env'[j] = n /\ buffers'[env'[j]] = new
            \/ env'[j] = env[j] /\ buffers'[env'[j]] = buffers[env[j]] /\ env[j] \in 1 .. Len(buffers)
    BY <1>0, <2>2, <2>3
  <2>6. /\ \A j \in Ops : env'[j] # 0 => buffers'[env'[j]].intact
        /\ \A b \in held' : buffers'[b].intact
    BY <1>0, <2>1, <2>2, <2>5 DEF DataInv
  <2>7. \A j \in Ops : (env'[j] # 0 /\ ~fn[buffers'[env'[j]].op].nested /\ at' # 0) =>
                           buffers'[env'[j]].op < at'
    <3> SUFFICES ASSUME NEW j \in Ops, env'[j] # 0, ~fn[buffers'[env'[j]].op].nested
                 PROVE  buffers'[env'[j]].op < at'
      OBVIOUS
    <3>1. CASE buffers'[env'[j]] = new
      BY <1>0, <2>1, <3>1
    <3>2. CASE env'[j] = env[j] /\ buffers'[env'[j]] = buffers[env[j]] /\ env[j] \in 1 .. Len(buffers)
      <4>1. buffers[env[j]].op < at /\ buffers[env[j]].op \in 1 .. Len(fn)
        BY <1>0, <2>4, <3>2
      <4> QED BY <1>0, <2>1, <3>2, <4>1
    <3> QED BY <2>5, <3>1, <3>2
  <2>8. \A j, k \in Ops :
           (/\ env'[j] # 0 /\ env'[k] # 0
            /\ buffers'[env'[j]].op = buffers'[env'[k]].op
            /\ ~fn[buffers'[env'[j]].op].nested) => env'[j] = env'[k]
    <3> SUFFICES ASSUME NEW j \in Ops, NEW k \in Ops, env'[j] # 0, env'[k] # 0,
                        buffers'[env'[j]].op = buffers'[env'[k]].op,
                        ~fn[buffers'[env'[j]].op].nested
                 PROVE  env'[j] = env'[k]
      OBVIOUS
    <3>1. \A m \in Ops : (env'[m] # 0 /\ buffers'[env'[m]] = buffers[env[m]] /\ env'[m] = env[m]
                          /\ ~fn[buffers[env[m]].op].nested) => buffers[env[m]].op # at
      BY <1>0, <2>1, <2>4
    <3> QED BY <2>1, <2>5, <3>1 DEF DataInv
  <2> QED BY <1>0, <2>6, <2>7, <2>8 DEF DataInv
<1>3. ASSUME RunView PROVE DataInv'
  <2>1. PICK x \in fn[at].from : env' = [env EXCEPT ![at] = env[x]]
    BY <1>3 DEF RunView
  <2>2. /\ at \in Ops /\ at' = at + 1 /\ buffers' = buffers /\ held' = held /\ x \in Ops
    BY <1>3, <2>1, FunctionAssumption DEF RunView, Executes, PassTypeOK, Ops
  <2>3. \A j \in Ops : \E k \in Ops : env'[j] = env[k]
    BY <2>1, <2>2 DEF OwnersInv
  <2>4. \A j \in Ops : (env[j] # 0 /\ ~fn[buffers[env[j]].op].nested) => buffers[env[j]].op < at'
    <3> SUFFICES ASSUME NEW j \in Ops, env[j] # 0, ~fn[buffers[env[j]].op].nested
                 PROVE  buffers[env[j]].op < at'
      OBVIOUS
    <3>1. buffers[env[j]].op < at /\ buffers[env[j]].op \in 1 .. Len(fn)
      BY <1>0, <2>2 DEF DataInv
    <3> QED BY <1>0, <2>2, <3>1
  <2>5. \A j \in Ops : env'[j] # 0 => buffers[env'[j]].intact
    BY <2>3 DEF DataInv
  <2>6. \A j \in Ops : (env'[j] # 0 /\ ~fn[buffers[env'[j]].op].nested) =>
                             buffers[env'[j]].op < at'
    BY <2>3, <2>4
  <2>7. \A j, k \in Ops :
           (/\ env'[j] # 0 /\ env'[k] # 0
            /\ buffers[env'[j]].op = buffers[env'[k]].op
            /\ ~fn[buffers[env'[j]].op].nested) => env'[j] = env'[k]
    BY <2>3 DEF DataInv
  <2> QED BY <1>0, <2>2, <2>5, <2>6, <2>7 DEF DataInv
<1>4. ASSUME RunWrite PROVE DataInv'
  <2>1. PICK x \in fn[at].from : buffers' = IF env[x] = 0 THEN buffers ELSE Written(env[x])
    BY <1>4 DEF RunWrite
  <2>2. /\ at \in Ops /\ at' = at + 1 /\ env' = env /\ held' = held /\ x \in Ops
    BY <1>4, <2>1, FunctionAssumption DEF RunWrite, Executes, PassTypeOK, Ops
  <2>3. \A c \in 1 .. Len(buffers) : buffers'[c].op = buffers[c].op
    BY <1>0, <2>1 DEF Written, Buffer
  <2>4. \A c \in 1 .. Len(buffers) : (c \in held \/ \E j \in Ops : env[j] = c) => buffers'[c].intact
    <3> SUFFICES ASSUME NEW c \in 1 .. Len(buffers), c \in held \/ \E j \in Ops : env[j] = c
                 PROVE  buffers'[c].intact
      OBVIOUS
    <3>1. CASE env[x] = 0
      BY <1>0, <2>1, <3>1 DEF DataInv
    <3>2. CASE env[x] # 0
      BY <1>0, <2>1, <2>2, <3>2, WriteKeepsData
    <3> QED BY <3>1, <3>2
  <2>5. \A j \in Ops : (env[j] # 0 /\ ~fn[buffers[env[j]].op].nested) => buffers[env[j]].op < at'
    <3> SUFFICES ASSUME NEW j \in Ops, env[j] # 0, ~fn[buffers[env[j]].op].nested
                 PROVE  buffers[env[j]].op < at'
      OBVIOUS
    <3>1. buffers[env[j]].op < at /\ buffers[env[j]].op \in 1 .. Len(fn)
      BY <1>0, <2>2 DEF DataInv
    <3> QED BY <1>0, <2>2, <3>1
  <2>6. \A j \in Ops : env[j] # 0 => env[j] \in 1 .. Len(buffers)
    BY <1>0
  <2>7. \A j \in Ops : env[j] # 0 => /\ buffers'[env[j]].op = buffers[env[j]].op
                                   /\ buffers'[env[j]].intact
    BY <2>3, <2>4, <2>6 DEF DataInv
  <2>8. \A b \in held : buffers'[b].intact
    BY <1>0, <2>3, <2>4 DEF DataInv
  <2>9. \A j, k \in Ops :
           (/\ env[j] # 0 /\ env[k] # 0
            /\ buffers'[env[j]].op = buffers'[env[k]].op
            /\ ~fn[buffers'[env[j]].op].nested) => env[j] = env[k]
    BY <2>7 DEF DataInv
  <2>10. \A j \in Ops : (env[j] # 0 /\ ~fn[buffers'[env[j]].op].nested) =>
                              buffers'[env[j]].op < at'
    BY <2>5, <2>7
  <2> QED BY <1>0, <2>2, <2>7, <2>8, <2>9, <2>10 DEF DataInv
<1>5. ASSUME RunDealloc PROVE DataInv'
  <2>1. PICK x \in fn[at].from :
            buffers' = IF env[x] = 0 THEN buffers
                       ELSE [buffers EXCEPT ![env[x]].dead = TRUE,
                                            ![env[x]].freed = at \notin erased]
    BY <1>5 DEF RunDealloc
  <2>2. /\ at \in Ops /\ at' = at + 1 /\ env' = env /\ held' = held /\ x \in Ops
    BY <1>5, <2>1, FunctionAssumption DEF RunDealloc, Executes, PassTypeOK, Ops
  <2>3. \A c \in 1 .. Len(buffers) : /\ buffers'[c].op = buffers[c].op
                                     /\ buffers'[c].intact = buffers[c].intact
    BY <1>0, <2>1, <2>2 DEF Buffer
  <2>5. \A j \in Ops : (env[j] # 0 /\ ~fn[buffers[env[j]].op].nested) => buffers[env[j]].op < at'
    <3> SUFFICES ASSUME NEW j \in Ops, env[j] # 0, ~fn[buffers[env[j]].op].nested
                 PROVE  buffers[env[j]].op < at'
      OBVIOUS
    <3>1. buffers[env[j]].op < at /\ buffers[env[j]].op \in 1 .. Len(fn)
      BY <1>0, <2>2 DEF DataInv
    <3> QED BY <1>0, <2>2, <3>1
  <2>6. \A j \in Ops : env[j] # 0 => env[j] \in 1 .. Len(buffers)
    BY <1>0
  <2>7. \A j \in Ops : env[j] # 0 => /\ buffers'[env[j]].op = buffers[env[j]].op
                                   /\ buffers'[env[j]].intact
    BY <2>3, <2>6 DEF DataInv
  <2>8. \A b \in held : buffers'[b].intact
    BY <1>0, <2>3 DEF DataInv
  <2>9. \A j, k \in Ops :
           (/\ env[j] # 0 /\ env[k] # 0
            /\ buffers'[env[j]].op = buffers'[env[k]].op
            /\ ~fn[buffers'[env[j]].op].nested) => env[j] = env[k]
    BY <2>7 DEF DataInv
  <2>10. \A j \in Ops : (env[j] # 0 /\ ~fn[buffers'[env[j]].op].nested) =>
                              buffers'[env[j]].op < at'
    BY <2>5, <2>7
  <2> QED BY <1>0, <2>2, <2>7, <2>8, <2>9, <2>10 DEF DataInv
<1>6. ASSUME RunReturn PROVE DataInv'
  <2>1. /\ buffers' = buffers /\ env' = env /\ at' = 0 /\ at \in Ops
        /\ held' = held \cup ({env[x] : x \in fn[at].from} \ {0})
    BY <1>6 DEF RunReturn
  <2>2. \A x \in fn[at].from : x \in Ops
    BY <2>1, FunctionAssumption DEF PassTypeOK, Ops
  <2>3. \A b \in held' : buffers[b].intact
    BY <2>1, <2>2 DEF DataInv
  <2> QED BY <1>0, <2>1, <2>3 DEF DataInv
<1>7. ASSUME NEW first \in Ops, LoopBack(first) PROVE DataInv'
  <2>1. /\ buffers' = buffers /\ env' = env /\ held' = held /\ at \in Ops /\ at' = first
        /\ first \in 1 .. at - 1 /\ \A i \in first .. at - 1 : fn[i].nested
    BY <1>7 DEF LoopBack
  <2>2. \A j \in Ops : (env[j] # 0 /\ ~fn[buffers[env[j]].op].nested) => buffers[env[j]].op < first
    <3> SUFFICES ASSUME NEW j \in Ops, env[j] # 0, ~fn[buffers[env[j]].op].nested
                 PROVE  buffers[env[j]].op < first
      OBVIOUS
    <3>1. buffers[env[j]].op < at /\ buffers[env[j]].op \in 1 .. Len(fn)
      BY <1>0, <2>1 DEF DataInv
    <3>2. buffers[env[j]].op \notin first .. at - 1
      BY <2>1
    <3> QED BY <1>0, <2>1, <3>1, <3>2
  <2> QED BY <1>0, <2>1, <2>2 DEF DataInv
<1> QED BY <1>1, <1>2, <1>3, <1>4, <1>5, <1>6, <1>7 DEF RunNext

\* What was last written through a buffer stays in its bytes while the function
\* has a name for it or the caller holds it, on every call and every trip of a
\* region, for functions whose buffers have no name but the pass's views: placing
\* an allocation once for all calls loses nothing.
THEOREM WrittenDataSurvives == OnlyViews => (Spec => []DataSurvives)
<1> SUFFICES ASSUME OnlyViews PROVE Spec => []DataSurvives
  OBVIOUS
<1>1. Init => PlacedInv /\ DataInv
  BY DEF Init, PassInit, RunInit, PlacedInv, DataInv, Ops
<1>2. /\ PassInv /\ OwnersInv /\ (PassInv /\ OwnersInv)' /\ PlacedInv /\ DataInv /\ [Next]_vars
      => PlacedInv' /\ DataInv'
  <2> SUFFICES ASSUME PassInv, OwnersInv, PassInv', OwnersInv', PlacedInv, DataInv, [Next]_vars
               PROVE  PlacedInv' /\ DataInv'
    OBVIOUS
  <2>1. PlacedInv'
    BY PlacedKeeps
  <2>2. CASE PassNext
    <3>1. held = {} /\ env = [i \in Ops |-> 0] /\ fn' = fn /\ held' = held /\ env' = env
      BY <2>2 DEF OwnersInv, PassNext, SkipOp, Consider, Trace, KeepSlot, EndWalk, LayOut,
             EndLayout, Replace, EraseDeallocs, runVars
    <3> QED BY <2>1, <3>1 DEF DataInv, Ops
  <2>3. CASE RunNext
    BY <2>1, <2>3, RunKeepsData
  <2>4. CASE UNCHANGED vars
    BY <2>1, <2>4 DEF DataInv, Ops, vars, passVars, runVars
  <2> QED BY <2>2, <2>3, <2>4 DEF Next
<1>3. OwnersInv /\ DataInv => DataSurvives
  BY DEF DataInv, DataSurvives
<1> QED BY <1>1, <1>2, <1>3, OwnersInvariant, PTL DEF Spec

-----------------------------------------------------------------------------
(* What is given back. *)

\* A deallocation names the allocation it gives back, as the pass expects of
\* the deallocations among an allocation's users.
DeallocsNameAllocations ==
    \A f \in Functions : \A i \in DOMAIN f :
        f[i].kind = "dealloc" => \E x \in DOMAIN f : f[i].from = {x} /\ f[x].kind = "alloc"

\* The deallocations taken out are those of the pieces, an allocation's value is
\* bound to a buffer it made, and each buffer is given back as it was made.
FreedInv ==
    /\ phase # "run" => erased = {}
    /\ phase = "run" =>
           \A i \in Ops : fn[i].kind = "dealloc" =>
               (i \in erased <=> \E x \in fn[i].from : pieceOf[x] # 0)
    /\ \A j \in Ops : (fn[j].kind = "alloc" /\ env[j] # 0) => buffers[env[j]].op = j
    /\ \A b \in 1 .. Len(buffers) : buffers[b].freed <=> buffers[b].dead /\ ~InArena(b)

LEMMA PassKeepsFreed ==
    ASSUME PassInv, OwnersInv, FreedInv, PassNext PROVE FreedInv'
<1>1. /\ fn' = fn /\ Ops' = Ops /\ phase # "run"
      /\ buffers' = <<>> /\ env' = [i \in Ops |-> 0] /\ erased = {}
  BY DEF OwnersInv, FreedInv, PassNext, SkipOp, Consider, Trace, KeepSlot, EndWalk, LayOut,
         EndLayout, Replace, EraseDeallocs, runVars, Ops
<1>2. CASE EndWalk /\ slots = <<>>
  <2>1. erased' = {} /\ pieceOf' = pieceOf /\ \A i \in Ops : pieceOf[i] = 0
    BY <1>1, <1>2 DEF EndWalk, PassInv, PieceInv
  <2>2. \A i \in Ops : fn[i].from \subseteq Ops
    BY FunctionAssumption DEF PassInv, PassTypeOK, Ops
  <2> QED BY <1>1, <2>1, <2>2 DEF FreedInv
<1>3. CASE EraseDeallocs
  <2>1. /\ erased' = {i \in Ops : fn[i].kind = "dealloc" /\ \E x \in fn[i].from : pieceOf[x] # 0}
        /\ pieceOf' = pieceOf /\ phase' = "run"
    BY <1>3 DEF EraseDeallocs
  <2> QED BY <1>1, <2>1 DEF FreedInv
<1>4. CASE phase' # "run" /\ erased' = erased
  BY <1>1, <1>4 DEF FreedInv
<1>5. \/ EndWalk /\ slots = <<>>
      \/ EraseDeallocs
      \/ phase' # "run" /\ erased' = erased
  <2>1. CASE SkipOp \/ LayOut \/ Replace
    BY <1>1, <2>1 DEF SkipOp, LayOut, Replace
  <2>2. CASE Consider \/ KeepSlot \/ EndLayout
    BY <2>2 DEF Consider, KeepSlot, EndLayout
  <2>3. CASE \E v \in todo : Trace(v)
    BY <1>1, <2>3 DEF Trace
  <2>4. CASE EndWalk
    <3>1. slots = <<>> \/ (phase' = "layout" /\ erased' = erased)
      BY <2>4 DEF EndWalk
    <3> QED BY <2>4, <3>1
  <2> QED BY <2>1, <2>2, <2>3, <2>4 DEF PassNext
<1> QED BY <1>2, <1>3, <1>4, <1>5

LEMMA RunKeepsFreed ==
    ASSUME PassInv, OwnersInv, FreedInv, OnlyViews, DeallocsNameAllocations, RunNext
    PROVE  FreedInv'
<1> USE DEF PassInv
<1>0. /\ fn' = fn /\ phase = "run" /\ phase' = "run" /\ pieceOf' = pieceOf /\ Ops' = Ops
      /\ erased' = erased
      /\ Len(buffers) \in Nat /\ DOMAIN buffers = 1 .. Len(buffers)
      /\ \A j \in Ops : env[j] \in 0 .. Len(buffers)
      /\ \A b \in 1 .. Len(buffers) : buffers[b] \in Buffer
  BY DEF OwnersInv, RunNext, Call, RunAlloc, RunView, RunWrite, RunDealloc, RunReturn,
         LoopBack, Executes, Ops
<1>1. CASE buffers' = buffers /\ \A j \in Ops : env'[j] # 0 /\ fn[j].kind = "alloc" => env'[j] = env[j]
  BY <1>0, <1>1 DEF FreedInv, InArena
<1>2. CASE Call
  <2>1. buffers' = buffers /\ env' = [i \in Ops |-> 0]
    BY <1>2 DEF Call
  <2> QED BY <1>1, <2>1
<1>3. CASE RunAlloc
  <2> DEFINE new == [op |-> at, intact |-> TRUE, dead |-> FALSE, freed |-> FALSE]
             n == Len(buffers) + 1
  <2>1. /\ at \in Ops /\ buffers' = Append(buffers, new) /\ env' = [env EXCEPT ![at] = n]
        /\ new.op = at /\ new.dead = FALSE /\ new.freed = FALSE
    BY <1>3 DEF RunAlloc, Executes
  <2> HIDE DEF new
  <2>2. /\ \A b \in 1 .. Len(buffers) : buffers'[b] = buffers[b]
        /\ buffers'[n] = new /\ Len(buffers') = n
    BY <1>0, <2>1 DEF OwnersInv
  <2>3. \A j \in Ops : env'[j] = IF j = at THEN n ELSE env[j]
    BY <2>1 DEF OwnersInv
  <2>4. \A j \in Ops : (fn[j].kind = "alloc" /\ env'[j] # 0) => buffers'[env'[j]].op = j
    BY <1>0, <2>1, <2>2, <2>3 DEF FreedInv
  <2>5. \A b \in 1 .. n : buffers'[b].freed <=> buffers'[b].dead /\ ~(pieceOf[buffers'[b].op] # 0)
    <3> SUFFICES ASSUME NEW b \in 1 .. n
                 PROVE  buffers'[b].freed <=> buffers'[b].dead /\ ~(pieceOf[buffers'[b].op] # 0)
      OBVIOUS
    <3>1. CASE b = n
      BY <2>1, <2>2, <3>1
    <3>2. CASE b \in 1 .. Len(buffers)
      BY <2>2, <3>2 DEF FreedInv, InArena
    <3> QED BY <1>0, <3>1, <3>2
  <2> QED BY <1>0, <2>2, <2>4, <2>5 DEF FreedInv, InArena
<1>4. CASE RunView
  <2>1. PICK x \in fn[at].from : env' = [env EXCEPT ![at] = env[x]]
    BY <1>4 DEF RunView
  <2>2. buffers' = buffers /\ fn[at].kind # "alloc"
    BY <1>4 DEF RunView, Executes
  <2>3. \A j \in Ops : j # at => env'[j] = env[j]
    BY <2>1 DEF OwnersInv
  <2> QED BY <1>1, <2>2, <2>3
<1>5. CASE RunWrite
  <2>1. PICK x \in fn[at].from : buffers' = IF env[x] = 0 THEN buffers ELSE Written(env[x])
    BY <1>5 DEF RunWrite
  <2>2. env' = env
    BY <1>5 DEF RunWrite
  <2>3. CASE env[x] = 0
    BY <1>1, <2>1, <2>2, <2>3
  <2>4. CASE env[x] # 0
    <3>1. Len(buffers') = Len(buffers)
      <4>1. Written(env[x]) \in [1 .. Len(buffers) -> {Written(env[x])[c] : c \in 1 .. Len(buffers)}]
        BY <1>0 DEF Written
      <4> QED BY <1>0, <2>1, <2>4, <4>1, FunctionIsSequence
    <3>2. \A b \in 1 .. Len(buffers) : /\ buffers'[b].op = buffers[b].op
                                       /\ buffers'[b].dead = buffers[b].dead
                                       /\ buffers'[b].freed = buffers[b].freed
      BY <1>0, <2>1, <2>4 DEF Written, Buffer
    <3>3. \A j \in Ops : env[j] # 0 => env[j] \in 1 .. Len(buffers)
      BY <1>0
    <3> QED BY <1>0, <2>2, <3>1, <3>2, <3>3 DEF FreedInv, InArena
  <2> QED BY <2>3, <2>4
<1>6. CASE RunDealloc
  <2>1. PICK x \in fn[at].from :
            buffers' = IF env[x] = 0 THEN buffers
                       ELSE [buffers EXCEPT ![env[x]].dead = TRUE,
                                            ![env[x]].freed = at \notin erased]
    BY <1>6 DEF RunDealloc
  <2>2. env' = env /\ at \in Ops /\ fn[at].kind = "dealloc"
    BY <1>6 DEF RunDealloc, Executes
  <2>3. fn[at].from = {x} /\ x \in Ops /\ fn[x].kind = "alloc"
    BY <2>1, <2>2 DEF DeallocsNameAllocations, PassTypeOK, Ops
  <2>4. CASE env[x] = 0
    BY <1>1, <2>1, <2>2, <2>4
  <2>5. CASE env[x] # 0
    <3> DEFINE f == at \notin erased
    <3>1. buffers[env[x]].op = x /\ env[x] \in 1 .. Len(buffers)
      BY <1>0, <2>3, <2>5 DEF FreedInv
    <3>2. f <=> ~InArena(env[x])
      BY <1>0, <2>2, <2>3, <3>1 DEF FreedInv, InArena
    <3>3. /\ DOMAIN buffers' = 1 .. Len(buffers)
          /\ \A b \in 1 .. Len(buffers) :
                 /\ buffers'[b].op = buffers[b].op
                 /\ b # env[x] => buffers'[b] = buffers[b]
                 /\ b = env[x] => buffers'[b].dead = TRUE /\ buffers'[b].freed = f
      BY <1>0, <2>1, <2>5, <3>1 DEF Buffer
    <3>4. Len(buffers') = Len(buffers)
      <4>1. buffers' \in [1 .. Len(buffers) -> {buffers'[c] : c \in 1 .. Len(buffers)}]
        BY <1>0, <2>1, <2>5, <3>1
      <4> QED BY <1>0, <4>1, FunctionIsSequence
    <3> HIDE DEF f
    <3>5. \A b \in 1 .. Len(buffers) : buffers'[b].freed <=> buffers'[b].dead /\ ~(pieceOf[buffers'[b].op] # 0)
      BY <3>1, <3>2, <3>3 DEF FreedInv, InArena
    <3>6. \A j \in Ops : env[j] # 0 => env[j] \in 1 .. Len(buffers)
      BY <1>0
    <3> QED BY <1>0, <2>2, <3>3, <3>4, <3>5, <3>6 DEF FreedInv, InArena
  <2> QED BY <2>4, <2>5
<1>7. CASE RunReturn \/ \E first \in Ops : LoopBack(first)
  <2>1. buffers' = buffers /\ env' = env
    BY <1>7 DEF RunReturn, LoopBack
  <2> QED BY <1>1, <2>1
<1> QED BY <1>2, <1>3, <1>4, <1>5, <1>6, <1>7 DEF RunNext

\* The allocator is given back what it made and nothing else, on every call: the
\* deallocations that are left are those of the allocations that are.
THEOREM FreesAsAllocated ==
    OnlyViews /\ DeallocsNameAllocations => (Spec => []FreedAsAllocated)
<1> SUFFICES ASSUME OnlyViews, DeallocsNameAllocations PROVE Spec => []FreedAsAllocated
  OBVIOUS
<1>1. Init => FreedInv
  BY DEF Init, PassInit, RunInit, FreedInv, Ops
<1>2. PassInv /\ OwnersInv /\ FreedInv /\ [Next]_vars => FreedInv'
  <2> SUFFICES ASSUME PassInv, OwnersInv, FreedInv, [Next]_vars PROVE FreedInv'
    OBVIOUS
  <2>1. CASE PassNext
    BY <2>1, PassKeepsFreed
  <2>2. CASE RunNext
    BY <2>2, RunKeepsFreed
  <2>3. CASE UNCHANGED vars
    BY <2>3 DEF FreedInv, InArena, Ops, vars, passVars, runVars
  <2> QED BY <2>1, <2>2, <2>3 DEF Next
<1>3. OwnersInv /\ FreedInv => FreedAsAllocated
  BY DEF OwnersInv, FreedInv, FreedAsAllocated
<1> QED BY <1>1, <1>2, <1>3, OwnersInvariant, PTL DEF Spec
=============================================================================
