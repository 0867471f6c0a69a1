--------------------------- MODULE OpenAddressing ---------------------------
(***************************************************************************)
(* A table of cap slots, probed from a key's home slot one slot at a time    *)
(* and around the end: what the table of touched outputs                     *)
(* (runtime/gemmlir_rt.c) and the tiling memo (gemmini.h) have in common.    *)
(***************************************************************************)
EXTENDS Integers

CONSTANTS
    Keys,  \* what is looked up
    Null,  \* in an empty slot
    Hash   \* Hash[q]: what a key hashes to

ASSUME NullAssumption == Null \notin Keys
ASSUME HashAssumption == Hash \in [Keys -> Nat]

Slots(cap) == 0 .. cap - 1

Empty(cap) == [j \in Slots(cap) |-> Null]

Home(q, cap) == Hash[q] % cap

NextSlot(i, cap) == (i + 1) % cap

\* The steps from home to slot i.
Steps(home, i, cap) == IF home <= i THEN i - home ELSE i - home + cap

\* The slots probed before slot i.
Before(home, i, cap) ==
    {x \in Slots(cap) : Steps(home, x, cap) < Steps(home, i, cap)}

\* The probe for q goes on past slot i.
Occupied(t, i, q) == t[i] \notin {Null, q}

Entries(t, S) == {t[j] : j \in S} \ {Null}
=============================================================================
