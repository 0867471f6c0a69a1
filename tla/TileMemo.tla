------------------------------ MODULE TileMemo ------------------------------
(***************************************************************************)
(* The convolution calls of gemmini.h with the tiling memo in front of the   *)
(* search: a table of tilings found before, its last entry in front of it,   *)
(* and the flag by which a hit tells the call's body that the checks of      *)
(* that tiling have run.  A key is what the search reads of a call; Null is  *)
(* an entry that is not live.                                                *)
(***************************************************************************)
EXTENDS OpenAddressing, FiniteSets

CONSTANTS
    Memos,      \* the calls that keep one: convolutions and depthwise ones
    Cap,        \* GEMMLIR_TILE_SLOTS, a power of two there
    Tilings,    \* what a search can find
    NoTiling,   \* the zeros in an entry never written
    Search,     \* Search[w][k]: the tiling the search of memo w finds for k
    Legal,      \* {<<w, k>>}: what passes the checks with that tiling
    Calls       \* the calls the program makes: [memo, key, type, clash]

\* A quarter of the table is at least one slot.
ASSUME CapAssumption == Cap \in Nat /\ Cap >= 4
ASSUME SearchAssumption == Search \in [Memos -> [Keys -> Tilings]]
ASSUME CallsAssumption ==
    /\ Calls # {}
    /\ Calls \subseteq [memo : Memos, key : Keys, type : {"WS", "OS", "CPU"}, clash : BOOLEAN]

VARIABLES
    keys,        \* gemmlir_tile_cache: its keys, where live,
    tilings,     \* and its tilings
    used,        \* gemmlir_tile_used
    lastKey,     \* gemmlir_tile_last_key, where live,
    lastTiling,  \* and gemmlir_tile_last_args
    validated,   \* gemmlir_tile_validated
    pc,          \* where the call has got to
    call,        \* the call
    i,           \* the slot probed
    args,        \* the tiling it will run with
    hit,         \* the memo had it
    preChecked,  \* what the body took the flag for
    outcome,     \* how the last call ended
    checked      \* auxiliary: what has passed the checks

memo == <<keys, tilings, used, lastKey, lastTiling>>
vars == <<memo, validated, pc, call, i, args, hit, preChecked, outcome, checked>>

Plain ==
    INSTANCE TiledCalls WITH running <- pc \notin {"idle", "exited"}

w == call.memo
q == call.key

Init ==
    /\ keys = [m \in Memos |-> Empty(Cap)]
    /\ tilings = [m \in Memos |-> [s \in Slots(Cap) |-> NoTiling]]
    /\ used = [m \in Memos |-> 0]
    /\ lastKey = [m \in Memos |-> Null] /\ lastTiling = [m \in Memos |-> NoTiling]
    /\ validated = FALSE
    /\ pc = "idle" /\ call \in Calls
    /\ i = 0 /\ args = NoTiling /\ hit = FALSE /\ preChecked = FALSE
    /\ outcome = Plain!NoOutcome
    /\ checked = {}

Call(c) ==
    /\ pc = "idle"
    /\ pc' = "lookup" /\ call' = c
    /\ UNCHANGED <<memo, validated, i, args, hit, preChecked, outcome, checked>>

-----------------------------------------------------------------------------
(* gemmlir_tile_get. *)

Remember(tiling) ==
    /\ lastKey' = [lastKey EXCEPT ![w] = q]
    /\ lastTiling' = [lastTiling EXCEPT ![w] = tiling]

AnswerLast ==
    /\ pc = "lookup" /\ lastKey[w] = q
    /\ args' = lastTiling[w] /\ hit' = TRUE
    /\ pc' = "enter"
    /\ UNCHANGED <<memo, validated, call, i, preChecked, outcome, checked>>

LookUp ==
    /\ pc = "lookup" /\ lastKey[w] # q
    /\ i' = Home(q, Cap)
    /\ pc' = "get"
    /\ UNCHANGED <<memo, validated, call, args, hit, preChecked, outcome, checked>>

Probe ==
    /\ pc \in {"get", "put"} /\ Occupied(keys[w], i, q)
    /\ i' = NextSlot(i, Cap)
    /\ UNCHANGED <<memo, validated, pc, call, args, hit, preChecked, outcome, checked>>

GetFound ==
    /\ pc = "get" /\ keys[w][i] = q
    /\ args' = tilings[w][i] /\ hit' = TRUE
    /\ Remember(tilings[w][i])
    /\ pc' = "enter"
    /\ UNCHANGED <<keys, tilings, used, validated, call, i, preChecked, outcome, checked>>

GetMissing ==
    /\ pc = "get" /\ keys[w][i] = Null
    /\ hit' = FALSE
    /\ pc' = "search"
    /\ UNCHANGED <<memo, validated, call, i, args, preChecked, outcome, checked>>

SearchTiling ==
    /\ pc = "search"
    /\ args' = Search[w][q]
    /\ pc' = "found"
    /\ UNCHANGED <<memo, validated, call, i, hit, preChecked, outcome, checked>>

-----------------------------------------------------------------------------
(* gemmlir_tile_put. *)

\* Mutant: entries are stored until there is no slot left.
FullAtLast == used[w] >= Cap

Full == used[w] * 4 >= Cap * 3

\* Mutant: the key is remembered although its tiling is not.
PutNothingButKey ==
    /\ pc = "found" /\ Full
    /\ lastKey' = [lastKey EXCEPT ![w] = q]
    /\ pc' = "enter"
    /\ UNCHANGED <<keys, tilings, used, lastTiling, validated, call, i, args, hit,
                   preChecked, outcome, checked>>

PutNothing ==
    /\ pc = "found" /\ Full
    /\ pc' = "enter"
    /\ UNCHANGED <<memo, validated, call, i, args, hit, preChecked, outcome, checked>>

Put ==
    /\ pc = "found" /\ ~Full
    /\ i' = Home(q, Cap)
    /\ pc' = "put"
    /\ UNCHANGED <<memo, validated, call, args, hit, preChecked, outcome, checked>>

Store ==
    /\ pc = "put" /\ ~Occupied(keys[w], i, q)
    /\ used' = IF keys[w][i] = Null THEN [used EXCEPT ![w] = @ + 1] ELSE used
    /\ keys' = [keys EXCEPT ![w][i] = q]
    /\ tilings' = [tilings EXCEPT ![w][i] = args]
    /\ Remember(args)
    /\ pc' = "enter"
    /\ UNCHANGED <<validated, call, i, args, hit, preChecked, outcome, checked>>

-----------------------------------------------------------------------------
(* The call's body, tiled_conv or tiled_conv_dw. *)

\* Mutant: the flag is set for every call.
EnterValidated ==
    /\ pc = "enter"
    /\ validated' = TRUE
    /\ pc' = "take"
    /\ UNCHANGED <<memo, call, i, args, hit, preChecked, outcome, checked>>

Enter ==
    /\ pc = "enter"
    /\ validated' = hit
    /\ pc' = "take"
    /\ UNCHANGED <<memo, call, i, args, hit, preChecked, outcome, checked>>

Take ==
    /\ pc = "take"
    /\ preChecked' = validated /\ validated' = FALSE
    /\ pc' = "body"
    /\ UNCHANGED <<memo, call, i, args, hit, outcome, checked>>

End(how, then) ==
    /\ outcome' = how /\ pc' = then
    /\ UNCHANGED <<memo, validated, call, i, args, hit, preChecked>>

\* Two transformations of the weights, or a dataflow convolutions do not have.
Refuse ==
    /\ pc = "body" /\ (call.clash \/ call.type = "OS")
    /\ End(Plain!Exits, "exited") /\ UNCHANGED checked

RunOnCpu ==
    /\ pc = "body" /\ ~call.clash /\ call.type = "CPU"
    /\ End(Plain!OnCpu, "idle") /\ UNCHANGED checked

OnAccelerator == pc = "body" /\ ~call.clash /\ call.type = "WS"

SkipChecks ==
    /\ OnAccelerator /\ preChecked
    /\ End(Plain!OnAccelerator(args), "idle") /\ UNCHANGED checked

PassChecks ==
    /\ OnAccelerator /\ ~preChecked /\ <<w, q>> \in Legal
    /\ End(Plain!OnAccelerator(args), "idle")
    /\ checked' = checked \cup {<<w, q>>}

FailChecks ==
    /\ OnAccelerator /\ ~preChecked /\ <<w, q>> \notin Legal
    /\ End(Plain!Exits, "exited") /\ UNCHANGED checked

-----------------------------------------------------------------------------
Step == AnswerLast \/ LookUp \/ Probe \/ GetFound \/ GetMissing \/ SearchTiling
            \/ PutNothing \/ Put \/ Store \/ Enter \/ Take
            \/ Refuse \/ RunOnCpu \/ SkipChecks \/ PassChecks \/ FailChecks

Next == Step \/ \E c \in Calls : Call(c)

Spec == Init /\ [][Next]_vars

\* A call runs until it ends; nothing makes the program call again.
FairSpec == Spec /\ WF_vars(Step)

-----------------------------------------------------------------------------
(* Properties. *)

Places == {"idle", "lookup", "get", "search", "found", "put", "enter", "take", "body", "exited"}

TypeOK ==
    /\ keys \in [Memos -> [Slots(Cap) -> Keys \cup {Null}]]
    /\ tilings \in [Memos -> [Slots(Cap) -> Tilings \cup {NoTiling}]]
    /\ used \in [Memos -> 0 .. Cap]
    /\ lastKey \in [Memos -> Keys \cup {Null}]
    /\ lastTiling \in [Memos -> Tilings \cup {NoTiling}]
    /\ validated \in BOOLEAN /\ hit \in BOOLEAN /\ preChecked \in BOOLEAN
    /\ pc \in Places
    /\ call \in Calls
    /\ i \in Slots(Cap)
    /\ args \in Tilings \cup {NoTiling}
    /\ checked \subseteq Memos \X Keys

\* The keys of the calls on the CPU, which store a tiling and check nothing.
CpuKeys == {<<c.memo, c.key>> : c \in {d \in Calls : d.type = "CPU"}}

\* What is run both on the CPU and on the accelerator would pass the checks.
SharedKeysPass ==
    \A c \in Calls :
        c.type = "WS" /\ <<c.memo, c.key>> \in CpuKeys => <<c.memo, c.key>> \in Legal

\* The memo changes no call: it runs with the tiling the search would have
\* found, and stops the program where the checks would have.
ImplementsTiledCalls == Plain!Spec

\* The body skips the checks only of what has passed them, or of what a call
\* on the CPU, which returns before them, may have stored.
SkippedWereChecked == OnAccelerator /\ preChecked => <<w, q>> \in checked \cup CpuKeys

\* A probe for any key stops, before the table is three quarters full and after.
SlotLeft == \A m \in Memos : \E s \in Slots(Cap) : keys[m][s] = Null

\* Every call ends, at the latest in the exit of a check.
EveryCallEnds == (pc = "lookup") ~> (pc \in {"idle", "exited"})
=============================================================================
