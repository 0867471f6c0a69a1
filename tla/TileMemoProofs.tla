--------------------------- MODULE TileMemoProofs ---------------------------
(***************************************************************************)
(* The tiling memo changes no call, whatever the keys, their hashes, the     *)
(* search and the checks, in programs that run no key the checks refuse both  *)
(* on the CPU and on the accelerator.                                        *)
(***************************************************************************)
EXTENDS TileMemo, OpenAddressingProofs

Known(m) == Entries(keys[m], Slots(Cap))

\* What a memo holds, between stores.
MemoInv(m) ==
    /\ Findable(keys[m], Cap)
    /\ used[m] * 4 < Cap * 3 + 4
    /\ IsFiniteSet(Known(m)) /\ used[m] = Cardinality(Known(m))
    /\ \A s \in Slots(Cap) : keys[m][s] # Null => tilings[m][s] = Search[m][keys[m][s]]
    /\ lastKey[m] # Null => lastTiling[m] = Search[m][lastKey[m]] /\ lastKey[m] \in Known(m)

StoreInv == \A m \in Memos : MemoInv(m)

\* What the call under way has found out.
ProbeInv ==
    /\ pc \in {"get", "put"} => Clean(keys[w], Cap, q, i)
    /\ pc = "put" => used[w] * 4 < Cap * 3

ArgsInv == pc \in {"found", "put", "enter", "take", "body"} => args = Search[w][q]

HitInv ==
    /\ pc \in {"search", "found", "put"} => ~hit
    /\ pc \in {"enter", "take", "body"} /\ hit => q \in Known(w)
    /\ pc = "take" => validated = hit
    /\ pc = "body" => preChecked = hit

OutcomeInv == outcome = Plain!Exits => pc = "exited"

CallInv == ProbeInv /\ ArgsInv /\ HitInv /\ OutcomeInv

Inv == TypeOK /\ StoreInv /\ CallInv

\* What the memo knows has passed the checks, or is about to meet them, or is
\* run on the CPU as well, or never on the accelerator.
VouchedInv ==
    /\ checked \subseteq Legal
    /\ pc # "exited" =>
         \A c \in Calls :
            c.type = "WS" /\ c.key \in Known(c.memo) =>
               \/ <<c.memo, c.key>> \in checked \cup CpuKeys
               \/ pc \in {"enter", "take", "body"} /\ ~hit /\ w = c.memo /\ q = c.key

-----------------------------------------------------------------------------
(* Facts about the call and the memo. *)

LEMMA CallFields ==
    ASSUME TypeOK
    PROVE  /\ w \in Memos /\ q \in Keys /\ q # Null
           /\ call.type \in {"WS", "OS", "CPU"} /\ call.clash \in BOOLEAN
           /\ keys[w] \in Table(Cap)
           /\ Search[w][q] \in Tilings
           /\ Cap \in Nat \ {0}
<1>1. call \in [memo : Memos, key : Keys, type : {"WS", "OS", "CPU"}, clash : BOOLEAN]
  BY CallsAssumption DEF TypeOK
<1>2. w \in Memos /\ q \in Keys
  BY <1>1 DEF w, q
<1>3. Search[w][q] \in Tilings
  BY <1>2, SearchAssumption
<1> QED BY <1>1, <1>2, <1>3, NullAssumption, CapAssumption DEF TypeOK, Table

LEMMA InitEstablishes == Init => Inv /\ VouchedInv
<1> SUFFICES ASSUME Init PROVE Inv /\ VouchedInv
  OBVIOUS
<1> USE DEF Init
<1>1. /\ Cap \in Nat /\ Empty(Cap) \in Table(Cap) /\ Findable(Empty(Cap), Cap)
      /\ Entries(Empty(Cap), Slots(Cap)) = {}
  BY EmptyIsFindable, CapAssumption
<1>2. TypeOK
  <2>1. 0 \in Slots(Cap) /\ 0 \in 0 .. Cap
    BY CapAssumption DEF Slots
  <2>2. keys \in [Memos -> [Slots(Cap) -> Keys \cup {Null}]]
    BY <1>1 DEF Table
  <2> QED BY <2>1, <2>2 DEF TypeOK, Places
<1>3. \A m \in Memos : Known(m) = {}
  BY <1>1 DEF Known
<1>4. StoreInv
  <2> SUFFICES ASSUME NEW m \in Memos PROVE MemoInv(m)
    BY DEF StoreInv
  <2>1. keys[m] = Empty(Cap) /\ used[m] = 0 /\ lastKey[m] = Null
    OBVIOUS
  <2>2. \A s \in Slots(Cap) : keys[m][s] = Null
    BY <2>1 DEF Empty
  <2>3. IsFiniteSet(Known(m)) /\ used[m] = Cardinality(Known(m))
    BY <1>3, <2>1, FS_EmptySet
  <2>4. used[m] * 4 < Cap * 3 + 4
    BY <2>1, CapAssumption
  <2> QED BY <1>1, <2>1, <2>2, <2>3, <2>4 DEF MemoInv
<1>5. CallInv
  BY DEF CallInv, ProbeInv, ArgsInv, HitInv, OutcomeInv, Plain!NoOutcome, Plain!Exits
<1>6. VouchedInv
  <2>1. \A c \in Calls : c.memo \in Memos
    BY CallsAssumption
  <2> QED BY <1>3, <2>1 DEF VouchedInv
<1> QED BY <1>2, <1>4, <1>5, <1>6 DEF Inv

\* Steps that leave the memo alone leave what it holds alone.
LEMMA MemoKept == ASSUME StoreInv, UNCHANGED memo PROVE StoreInv'
  BY DEF StoreInv, MemoInv, Known, memo

-----------------------------------------------------------------------------
(* One lemma for each step that does something to the memo or to a probe. *)

LEMMA LookUpKeeps == ASSUME Inv, LookUp PROVE Inv'
<1> USE DEF Inv
<1>1. i' = Home(q, Cap) /\ pc' = "get" /\ UNCHANGED <<memo, call, outcome>> /\ pc = "lookup"
  BY DEF LookUp
<1>2. i' \in Slots(Cap) /\ Clean(keys[w], Cap, q, i')
  BY <1>1, CallFields, HomeIsSlot, CleanAtHome
<1>3. TypeOK'
  BY <1>2 DEF LookUp, TypeOK, memo, Places
<1>4. StoreInv'
  BY <1>1, MemoKept
<1>5. CallInv'
  BY <1>1, <1>2 DEF CallInv, ProbeInv, ArgsInv, HitInv, OutcomeInv, memo, w, q
<1> QED BY <1>3, <1>4, <1>5

LEMMA ProbeKeeps == ASSUME Inv, Probe PROVE Inv'
<1> USE DEF Inv
<1>1. /\ i' = NextSlot(i, Cap) /\ pc \in {"get", "put"} /\ pc' = pc
      /\ keys[w][i] \notin {Null, q} /\ i \in Slots(Cap) /\ Clean(keys[w], Cap, q, i)
      /\ UNCHANGED <<memo, call, args, hit, outcome, validated, preChecked>>
  BY DEF Probe, Occupied, TypeOK, CallInv, ProbeInv
<1>2. i' \in Slots(Cap) /\ Clean(keys[w], Cap, q, i')
  BY <1>1, CallFields, NextSlotIs, CleanStep
<1>3. TypeOK'
  BY <1>2 DEF Probe, TypeOK, memo
<1>4. StoreInv'
  BY <1>1, MemoKept
<1>5. CallInv'
  BY <1>1, <1>2 DEF CallInv, ProbeInv, ArgsInv, HitInv, OutcomeInv, memo, w, q, Known
<1> QED BY <1>3, <1>4, <1>5

LEMMA PutKeeps == ASSUME Inv, Put PROVE Inv'
<1> USE DEF Inv
<1>1. /\ i' = Home(q, Cap) /\ pc = "found" /\ pc' = "put"
      /\ ~(used[w] * 4 >= Cap * 3)
      /\ UNCHANGED <<memo, call, args, hit, outcome, validated, preChecked>>
  BY DEF Put, Full
<1>2. i' \in Slots(Cap) /\ Clean(keys[w], Cap, q, i')
  BY <1>1, CallFields, HomeIsSlot, CleanAtHome
<1>3. TypeOK'
  BY <1>2 DEF Put, TypeOK, memo, Places
<1>4. StoreInv'
  BY <1>1, MemoKept
<1>5. used[w] \in Nat
  BY CallFields, CapAssumption DEF TypeOK
<1>6. CallInv'
  BY <1>1, <1>2, <1>5, CallFields DEF CallInv, ProbeInv, ArgsInv, HitInv, OutcomeInv, memo, w, q
<1> QED BY <1>3, <1>4, <1>6

LEMMA AnswerLastKeeps == ASSUME Inv, AnswerLast PROVE Inv'
<1> USE DEF Inv
<1>1. /\ args' = lastTiling[w] /\ lastKey[w] = q /\ hit' = TRUE
      /\ pc = "lookup" /\ pc' = "enter" /\ UNCHANGED <<memo, call, outcome>>
  BY DEF AnswerLast
<1>2. args' = Search[w][q] /\ q \in Known(w)
  BY <1>1, CallFields DEF StoreInv, MemoInv
<1>3. TypeOK'
  BY <1>2, CallFields DEF AnswerLast, TypeOK, memo, Places
<1>4. StoreInv'
  BY <1>1, MemoKept
<1>5. CallInv'
  BY <1>1, <1>2 DEF CallInv, ProbeInv, ArgsInv, HitInv, OutcomeInv, memo, w, q, Known
<1> QED BY <1>3, <1>4, <1>5

\* Remembering an entry of the table.
LEMMA RememberKeeps ==
    ASSUME Inv, UNCHANGED <<keys, tilings, used>>, Remember(Search[w][q]), q \in Known(w)
    PROVE  StoreInv'
<1> USE DEF Inv
<1>1. /\ w \in Memos
      /\ lastKey' = [lastKey EXCEPT ![w] = q]
      /\ lastTiling' = [lastTiling EXCEPT ![w] = Search[w][q]]
      /\ lastKey \in [Memos -> Keys \cup {Null}]
      /\ lastTiling \in [Memos -> Tilings \cup {NoTiling}]
  BY CallFields DEF Remember, TypeOK
<1> SUFFICES ASSUME NEW m \in Memos PROVE MemoInv(m)'
  BY DEF StoreInv
<1>2. Known(m)' = Known(m) /\ MemoInv(m)
  BY DEF Known, StoreInv
<1>3. lastKey'[m] # Null =>
        lastTiling'[m] = Search[m][lastKey'[m]] /\ lastKey'[m] \in Known(m)
  <2>1. CASE m = w
    BY <1>1, <2>1
  <2>2. CASE m # w
    BY <1>1, <1>2, <2>2 DEF MemoInv
  <2> QED BY <2>1, <2>2
<1> QED BY <1>2, <1>3 DEF MemoInv

LEMMA GetFoundKeeps == ASSUME Inv, GetFound PROVE Inv'
<1> USE DEF Inv
<1>1. /\ keys[w][i] = q /\ i \in Slots(Cap) /\ args' = tilings[w][i] /\ hit' = TRUE
      /\ pc' = "enter" /\ Remember(tilings[w][i])
      /\ UNCHANGED <<keys, tilings, used, call, outcome>> /\ pc = "get"
  BY DEF GetFound, TypeOK
<1>2. tilings[w][i] = Search[w][q]
  BY <1>1, CallFields DEF StoreInv, MemoInv
<1>3. q \in Known(w)
  BY <1>1, CallFields DEF Known, Entries
<1>4. StoreInv'
  BY <1>1, <1>2, <1>3, RememberKeeps
<1>5. TypeOK'
  BY <1>1, <1>2, CallFields DEF GetFound, Remember, TypeOK, Places
<1>6. CallInv'
  BY <1>1, <1>2, <1>3 DEF CallInv, ProbeInv, ArgsInv, HitInv, OutcomeInv, w, q, Known
<1> QED BY <1>4, <1>5, <1>6

\* Storing keeps every key findable and the table short of full.
LEMMA StoreKeeps ==
    ASSUME Inv, Store
    PROVE  /\ Inv'
           /\ \A m \in Memos : Known(m)' = IF m = w THEN Known(m) \cup {q} ELSE Known(m)
<1> USE DEF Inv
<1>1. /\ pc = "put" /\ pc' = "enter" /\ keys[w][i] \in {Null, q}
      /\ keys' = [keys EXCEPT ![w][i] = q]
      /\ tilings' = [tilings EXCEPT ![w][i] = args]
      /\ used' = IF keys[w][i] = Null THEN [used EXCEPT ![w] = @ + 1] ELSE used
      /\ lastKey' = [lastKey EXCEPT ![w] = q]
      /\ lastTiling' = [lastTiling EXCEPT ![w] = args]
      /\ UNCHANGED <<validated, call, i, args, hit, preChecked, outcome, checked>>
  BY DEF Store, Remember, Occupied
<1>2. /\ w \in Memos /\ q \in Keys /\ q # Null /\ Cap \in Nat \ {0} /\ Cap >= 4
      /\ keys[w] \in Table(Cap) /\ Findable(keys[w], Cap) /\ i \in Slots(Cap)
      /\ args = Search[w][q] /\ args \in Tilings /\ ~hit
      /\ Clean(keys[w], Cap, q, i) /\ used[w] * 4 < Cap * 3 /\ used[w] \in Nat
      /\ IsFiniteSet(Known(w)) /\ used[w] = Cardinality(Known(w))
  <2>1. args = Search[w][q]
    BY <1>1 DEF CallInv, ArgsInv
  <2>2. used[w] \in Nat
    BY CallFields, CapAssumption DEF TypeOK
  <2> QED
    BY <1>1, <2>1, <2>2, CallFields, CapAssumption
       DEF TypeOK, StoreInv, MemoInv, CallInv, ProbeInv, HitInv
<1>3. keys' = [keys EXCEPT ![w] = [keys[w] EXCEPT ![i] = q]]
  BY <1>1
<1>4. keys'[w] = [keys[w] EXCEPT ![i] = q] /\ \A m \in Memos : m # w => keys'[m] = keys[m]
  BY <1>2, <1>3 DEF TypeOK
<1>5. /\ keys'[w] \in Table(Cap) /\ Findable(keys'[w], Cap)
      /\ Known(w)' = Known(w) \cup {q}
      /\ used'[w] = Cardinality(Known(w)') /\ IsFiniteSet(Known(w)')
      /\ used'[w] \in Nat /\ used'[w] <= used[w] + 1
  <2>0. Known(w)' = Entries(keys'[w], Slots(Cap))
    BY <1>1 DEF Known, w
  <2>1. CASE keys[w][i] = Null
    <3>1. /\ keys'[w] \in Table(Cap) /\ Findable(keys'[w], Cap)
          /\ Known(w)' = Known(w) \cup {q} /\ q \notin Known(w)
      <4> DEFINE t == keys[w]
                 k == q
      <4>0. /\ Cap \in Nat \ {0} /\ t \in Table(Cap) /\ k \in Keys /\ i \in Slots(Cap)
            /\ Findable(t, Cap) /\ Clean(t, Cap, k, i) /\ t[i] = Null
        BY <1>2, <2>1
      <4> HIDE DEF t, k
      <4>1. /\ [t EXCEPT ![i] = k] \in Table(Cap) /\ Findable([t EXCEPT ![i] = k], Cap)
            /\ Entries([t EXCEPT ![i] = k], Slots(Cap)) = Entries(t, Slots(Cap)) \cup {k}
        BY <4>0, InsertAtEmpty
      <4>2. k \notin Entries(t, Slots(Cap))
        BY <4>0, AbsentAtEmpty
      <4> QED BY <1>4, <2>0, <4>1, <4>2 DEF t, k, Known
    <3>2. used'[w] = used[w] + 1
      BY <1>1, <1>2, <2>1 DEF TypeOK
    <3>3. /\ IsFiniteSet(Known(w) \cup {q})
          /\ Cardinality(Known(w) \cup {q}) = Cardinality(Known(w)) + 1
      BY <1>2, <3>1, FS_AddElement
    <3> QED BY <1>2, <3>1, <3>2, <3>3
  <2>2. CASE keys[w][i] = q
    <3>1. keys'[w] = keys[w] /\ q \in Known(w)
      BY <1>2, <1>4, <2>2 DEF Table, Known, Entries
    <3>2. used' = used /\ Known(w)' = Known(w)
      BY <1>1, <1>2, <2>0, <2>2, <3>1 DEF Known
    <3> QED BY <1>2, <3>1, <3>2
  <2> QED BY <1>1, <2>1, <2>2
<1>6. ASSUME NEW m \in Memos, m # w PROVE Known(m)' = Known(m) /\ MemoInv(m)'
  <2>1. /\ keys'[m] = keys[m] /\ tilings'[m] = tilings[m] /\ used'[m] = used[m]
        /\ lastKey'[m] = lastKey[m] /\ lastTiling'[m] = lastTiling[m]
    BY <1>1, <1>2, <1>4, <1>6 DEF TypeOK
  <2> QED BY <2>1 DEF StoreInv, MemoInv, Known
<1>7. MemoInv(w)'
  <2>1. /\ tilings'[w][i] = args
        /\ \A s \in Slots(Cap) : s # i => tilings'[w][s] = tilings[w][s]
    BY <1>1, <1>2 DEF TypeOK
  <2>2. /\ keys'[w][i] = q
        /\ \A s \in Slots(Cap) : s # i => keys'[w][s] = keys[w][s]
    BY <1>2, <1>4 DEF Table
  <2>3. lastKey'[w] = q /\ lastTiling'[w] = args
    BY <1>1, <1>2 DEF TypeOK
  <2>4. ASSUME NEW s \in Slots(Cap), keys'[w][s] # Null
        PROVE  tilings'[w][s] = Search[w][keys'[w][s]]
    BY <1>2, <2>1, <2>2, <2>4 DEF StoreInv, MemoInv
  <2>5. used'[w] * 4 < Cap * 3 + 4
    BY <1>2, <1>5
  <2>6. w' = w
    BY <1>1 DEF w
  <2> QED BY <1>2, <1>5, <2>3, <2>4, <2>5, <2>6 DEF MemoInv
<1>8. TypeOK'
  <2>1. keys' \in [Memos -> Table(Cap)]
    BY <1>1, <1>2 DEF TypeOK, Table
  <2>2. tilings' \in [Memos -> [Slots(Cap) -> Tilings \cup {NoTiling}]]
    BY <1>1, <1>2 DEF TypeOK
  <2>3. used' \in [Memos -> 0 .. Cap]
    <3>1. used'[w] \in 0 .. Cap
      BY <1>2, <1>5
    <3>2. used' = [used EXCEPT ![w] = used'[w]]
      BY <1>1, <1>2 DEF TypeOK
    <3> QED BY <3>1, <3>2 DEF TypeOK
  <2>4. /\ lastKey' \in [Memos -> Keys \cup {Null}]
        /\ lastTiling' \in [Memos -> Tilings \cup {NoTiling}]
    BY <1>1, <1>2 DEF TypeOK
  <2> QED BY <1>1, <2>1, <2>2, <2>3, <2>4 DEF TypeOK, Table, Places
<1>9. StoreInv'
  <2>1. w' = w
    BY <1>1 DEF w
  <2> QED BY <1>6, <1>7, <2>1 DEF StoreInv
<1>10. CallInv'
  BY <1>1, <1>2, <1>5 DEF CallInv, ProbeInv, ArgsInv, HitInv, OutcomeInv, w, q
<1>11. ASSUME NEW m \in Memos
       PROVE  Known(m)' = IF m = w THEN Known(m) \cup {q} ELSE Known(m)
  <2>1. CASE m = w
    <3>1. w' = w
      BY <1>1 DEF w
    <3> QED BY <2>1, <3>1, <1>5
  <2> QED BY <2>1, <1>6
<1> QED BY <1>8, <1>9, <1>10, <1>11

-----------------------------------------------------------------------------
(* The steps that touch neither. *)

Quiet == GetMissing \/ SearchTiling \/ PutNothing \/ Enter \/ Take
             \/ Refuse \/ RunOnCpu \/ SkipChecks \/ PassChecks \/ FailChecks

LEMMA QuietKeeps == ASSUME Inv, Quiet \/ \E c \in Calls : Call(c) PROVE Inv'
<1> USE DEF Inv, TypeOK, CallInv, ProbeInv, ArgsInv, HitInv, OutcomeInv, Places, memo, Known, w, q
<1>1. StoreInv'
  <2>1. UNCHANGED memo
    BY DEF Quiet, GetMissing, SearchTiling, PutNothing, Enter, Take, Refuse, RunOnCpu,
           SkipChecks, PassChecks, FailChecks, End, Call
  <2> QED BY <2>1, MemoKept
<1>2. Search[w][q] \in Tilings
  BY CallFields
<1>3. CASE GetMissing
  BY <1>1, <1>3 DEF GetMissing
<1>4. CASE SearchTiling
  BY <1>1, <1>2, <1>4 DEF SearchTiling
<1>5. CASE PutNothing
  BY <1>1, <1>5 DEF PutNothing
<1>6. CASE Enter
  BY <1>1, <1>6 DEF Enter
<1>7. CASE Take
  BY <1>1, <1>7 DEF Take
<1>8. CASE Refuse
  BY <1>1, <1>8 DEF Refuse, End
<1>9. CASE RunOnCpu
  BY <1>1, <1>9 DEF RunOnCpu, End, Plain!OnCpu, Plain!Exits
<1>10. CASE SkipChecks
  BY <1>1, <1>10 DEF SkipChecks, End, Plain!OnAccelerator, Plain!Exits
<1>11. CASE PassChecks
  <2>1. w \in Memos /\ q \in Keys
    BY CallFields
  <2> QED BY <1>1, <1>11, <2>1 DEF PassChecks, End, Plain!OnAccelerator, Plain!Exits
<1>12. CASE FailChecks
  BY <1>1, <1>12 DEF FailChecks, End
<1>13. CASE \E c \in Calls : Call(c)
  BY <1>1, <1>13 DEF Call
<1> QED
  BY <1>3, <1>4, <1>5, <1>6, <1>7, <1>8, <1>9, <1>10, <1>11, <1>12, <1>13 DEF Quiet

LEMMA StutterKeeps == ASSUME Inv, UNCHANGED vars PROVE Inv'
<1>1. StoreInv'
  BY MemoKept DEF Inv, vars
<1> QED
  BY <1>1 DEF vars, memo, Inv, TypeOK, CallInv, ProbeInv, ArgsInv, HitInv, OutcomeInv, Known, w, q

LEMMA NextKeeps == Inv /\ [Next]_vars => Inv'
  BY LookUpKeeps, ProbeKeeps, PutKeeps, AnswerLastKeeps, GetFoundKeeps, StoreKeeps,
     QuietKeeps, StutterKeeps DEF Next, Step, Quiet

LEMMA Invariant == Spec => []Inv
  BY InitEstablishes, NextKeeps, PTL DEF Spec

\* Type correctness, and that the table, the one entry in front of it and the
\* count agree with the search.
THEOREM MemoTypeCorrect == Spec => []TypeOK
<1>1. Inv => TypeOK
  BY DEF Inv
<1> QED BY <1>1, Invariant, PTL

\* There is always a slot at which the probe for a key not there stops.
THEOREM SlotIsLeft == Spec => []SlotLeft
<1>1. Inv => SlotLeft
  <2> SUFFICES ASSUME Inv, NEW m \in Memos
               PROVE  \E s \in Slots(Cap) : keys[m][s] = Null
    BY DEF SlotLeft
  <2>1. /\ Cap \in Nat \ {0} /\ keys[m] \in Table(Cap) /\ Findable(keys[m], Cap)
        /\ Cardinality(Entries(keys[m], Slots(Cap))) = used[m]
        /\ used[m] * 4 < Cap * 3 + 4 /\ used[m] \in Nat /\ Cap >= 4
    BY CapAssumption DEF Inv, TypeOK, StoreInv, MemoInv, Known, Table
  <2>2. used[m] < Cap
    BY <2>1
  <2> QED BY <2>1, <2>2, FewerEntriesThanSlots
<1> QED BY <1>1, Invariant, PTL

-----------------------------------------------------------------------------
(* What the memo vouches for has passed the checks. *)

LEMMA KnownKept == ASSUME UNCHANGED keys PROVE \A m : Known(m)' = Known(m)
  BY DEF Known

LEMMA VouchedKept ==
    ASSUME Inv, VouchedInv, [Next]_vars
    PROVE  VouchedInv'
<1> USE DEF VouchedInv, w, q
<1>0. /\ call.type \in {"WS", "OS", "CPU"} /\ call \in Calls /\ w \in Memos
      /\ \A c \in Calls : c.memo \in Memos
  BY CallFields, CallsAssumption DEF Inv, TypeOK
<1>1. CASE Store
  <2>1. /\ \A m \in Memos : Known(m)' = IF m = w THEN Known(m) \cup {q} ELSE Known(m)
        /\ pc' = "enter" /\ pc = "put" /\ ~hit /\ UNCHANGED <<call, hit, checked>>
    BY <1>1, StoreKeeps DEF Store, Inv, CallInv, HitInv
  <2> QED BY <2>1, <1>0
<1>2. CASE AnswerLast \/ LookUp \/ Probe \/ GetFound \/ GetMissing \/ SearchTiling
             \/ PutNothing \/ Put
  <2>1. /\ UNCHANGED <<keys, call, checked>>
        /\ pc \notin {"enter", "take", "body", "exited"} /\ pc' # "exited"
    BY <1>2 DEF AnswerLast, LookUp, Probe, GetFound, GetMissing, SearchTiling, PutNothing,
                Put, memo
  <2> QED BY <2>1, KnownKept
<1>3. CASE Enter \/ Take
  <2>1. /\ UNCHANGED <<keys, call, hit, checked>>
        /\ pc \in {"enter", "take"} /\ pc' \in {"take", "body"}
    BY <1>3 DEF Enter, Take, memo
  <2> QED BY <2>1, KnownKept
<1>4. CASE Refuse \/ FailChecks
  BY <1>4 DEF Refuse, FailChecks, End
<1>5. CASE RunOnCpu
  <2>1. /\ UNCHANGED <<keys, checked>> /\ pc = "body" /\ pc' = "idle" /\ call.type = "CPU"
    BY <1>5 DEF RunOnCpu, End, memo
  <2>2. <<w, q>> \in CpuKeys
    BY <2>1, <1>0 DEF CpuKeys
  <2> QED BY <2>1, <2>2, KnownKept
<1>6. CASE SkipChecks
  <2>1. /\ UNCHANGED <<keys, checked>> /\ pc = "body" /\ pc' = "idle" /\ hit
    BY <1>6 DEF SkipChecks, OnAccelerator, End, memo, Inv, CallInv, HitInv
  <2> QED BY <2>1, KnownKept
<1>7. CASE PassChecks
  <2>1. /\ UNCHANGED keys /\ pc = "body" /\ pc' = "idle"
        /\ checked' = checked \cup {<<w, q>>} /\ <<w, q>> \in Legal
    BY <1>7 DEF PassChecks, OnAccelerator, End, memo
  <2> QED BY <2>1, KnownKept
<1>8. CASE \E c \in Calls : Call(c)
  <2>1. UNCHANGED <<keys, checked>> /\ pc = "idle" /\ pc' = "lookup"
    BY <1>8 DEF Call, memo
  <2> QED BY <2>1, KnownKept
<1>9. CASE UNCHANGED vars
  BY <1>9, KnownKept DEF vars, memo
<1> QED BY <1>1, <1>2, <1>3, <1>4, <1>5, <1>6, <1>7, <1>8, <1>9 DEF Next, Step

LEMMA Vouched == Spec => [](Inv /\ VouchedInv)
<1>1. Init => Inv /\ VouchedInv
  BY InitEstablishes
<1>2. Inv /\ VouchedInv /\ [Next]_vars => Inv' /\ VouchedInv'
  BY NextKeeps, VouchedKept
<1> QED BY <1>1, <1>2, PTL DEF Spec

LEMMA SkippedAreVouched == Inv /\ VouchedInv => SkippedWereChecked
<1> SUFFICES ASSUME Inv, VouchedInv, OnAccelerator, preChecked
             PROVE  <<w, q>> \in checked \cup CpuKeys
  BY DEF SkippedWereChecked
<1>1. pc = "body" /\ call.type = "WS" /\ hit /\ q \in Known(w) /\ call \in Calls
  BY DEF OnAccelerator, Inv, CallInv, HitInv, TypeOK
<1> QED BY <1>1 DEF VouchedInv, w, q

\* A hit is a proof that the checks ran and passed, but for the keys a call on
\* the CPU may have stored.
THEOREM HitsWereChecked == Spec => []SkippedWereChecked
  BY Vouched, SkippedAreVouched, PTL

\* Where those too would pass the checks the memo changes no call: the tiling
\* is the one the search finds, the program stops where it would have, and on
\* nothing else.
THEOREM MemoChangesNothing ==
    ASSUME SharedKeysPass
    PROVE  Spec => ImplementsTiledCalls
<1> USE DEF Plain!Next, Plain!vars
<1>1. Init => Plain!Init
  BY DEF Init, Plain!Init
<1>2. Inv /\ VouchedInv /\ [Next]_vars => [Plain!Next]_Plain!vars
  <2> SUFFICES ASSUME Inv, VouchedInv, [Next]_vars PROVE [Plain!Next]_Plain!vars
    OBVIOUS
  <2>0. /\ call.type \in {"WS", "OS", "CPU"}
        /\ pc = "body" => args = Search[w][q]
    BY CallFields DEF Inv, CallInv, ArgsInv
  <2> DEFINE running == pc \notin {"idle", "exited"}
  <2>1. ASSUME NEW c \in Calls, Call(c) PROVE Plain!Ask(c)
    <3>1. pc = "idle" /\ pc' = "lookup" /\ call' = c /\ outcome' = outcome
      BY <2>1 DEF Call
    <3>2. outcome # Plain!Exits
      BY <3>1 DEF Inv, CallInv, OutcomeInv
    <3>3. ~running /\ (running' = TRUE)
      BY <3>1
    <3> QED BY <3>1, <3>2, <3>3 DEF Plain!Ask
  <2>2. ASSUME pc = "body", pc' \in {"idle", "exited"}, call' = call,
               outcome' = Plain!Outcome(call)
        PROVE  Plain!End
    <3>1. running /\ (running' = FALSE)
      BY <2>2
    <3> QED BY <2>2, <3>1 DEF Plain!End
  <2>3. CASE Refuse
    <3>1. outcome' = Plain!Outcome(call)
      BY <2>3 DEF Refuse, End, Plain!Outcome
    <3> QED BY <2>2, <2>3, <3>1 DEF Refuse, End
  <2>4. CASE RunOnCpu
    <3>1. outcome' = Plain!Outcome(call)
      BY <2>4 DEF RunOnCpu, End, Plain!Outcome
    <3> QED BY <2>2, <2>4, <3>1 DEF RunOnCpu, End
  <2>5. CASE SkipChecks
    <3>1. <<w, q>> \in Legal
      <4>1. <<w, q>> \in checked \cup CpuKeys /\ call.type = "WS" /\ call \in Calls
        BY <2>5, SkippedAreVouched
           DEF SkippedWereChecked, SkipChecks, OnAccelerator, Inv, TypeOK
      <4> QED BY <4>1 DEF VouchedInv, SharedKeysPass, w, q
    <3>2. outcome' = Plain!Outcome(call)
      BY <2>0, <2>5, <3>1 DEF SkipChecks, OnAccelerator, End, Plain!Outcome, w, q
    <3> QED BY <2>2, <2>5, <3>2 DEF SkipChecks, OnAccelerator, End
  <2>6. CASE PassChecks
    <3>1. outcome' = Plain!Outcome(call)
      BY <2>0, <2>6 DEF PassChecks, OnAccelerator, End, Plain!Outcome, w, q
    <3> QED BY <2>2, <2>6, <3>1 DEF PassChecks, OnAccelerator, End
  <2>7. CASE FailChecks
    <3>1. outcome' = Plain!Outcome(call)
      BY <2>7 DEF FailChecks, OnAccelerator, End, Plain!Outcome, w, q
    <3> QED BY <2>2, <2>7, <3>1 DEF FailChecks, OnAccelerator, End
  <2>8. CASE AnswerLast \/ LookUp \/ Probe \/ GetFound \/ GetMissing \/ SearchTiling
               \/ PutNothing \/ Put \/ Store \/ Enter \/ Take
    <3>1. /\ UNCHANGED <<call, outcome>>
          /\ pc \notin {"idle", "exited"} /\ pc' \notin {"idle", "exited"}
      BY <2>8 DEF AnswerLast, LookUp, Probe, GetFound, GetMissing, SearchTiling,
                  PutNothing, Put, Store, Enter, Take
    <3> QED BY <3>1
  <2>9. CASE UNCHANGED vars
    BY <2>9 DEF vars
  <2> QED
    BY <2>1, <2>3, <2>4, <2>5, <2>6, <2>7, <2>8, <2>9 DEF Next, Step
<1> QED
  BY <1>1, <1>2, Vouched, PTL DEF Spec, ImplementsTiledCalls, Plain!Spec
=============================================================================
