------------------------ MODULE OpenAddressingProofs ------------------------
(***************************************************************************)
(* What probing does, for tables of any size.                                *)
(***************************************************************************)
EXTENDS OpenAddressing, FiniteSetTheorems, TLAPS

\* The next slot is one further, or the first after the last.
LEMMA NextSlotIs ==
    ASSUME NEW c \in Nat \ {0}, NEW i \in Slots(c)
    PROVE  /\ NextSlot(i, c) \in Slots(c)
           /\ NextSlot(i, c) = IF i + 1 = c THEN 0 ELSE i + 1
  BY Z3 DEF NextSlot, Slots

\* Hashes are brought into the table.
LEMMA RemainderIsSlot ==
    ASSUME NEW c \in Nat \ {0}, NEW n \in Nat
    PROVE  n % c \in Slots(c)
  BY Z3 DEF Slots

\* Nothing is probed before the home slot.
LEMMA NothingBeforeHome ==
    ASSUME NEW c \in Nat \ {0}, NEW h \in Slots(c)
    PROVE  Before(h, h, c) = {}
  BY DEF Before, Steps, Slots

\* A step of the probe adds the slot it leaves to those it has been through,
\* or starts over.
LEMMA ProbeStep ==
    ASSUME NEW c \in Nat \ {0}, NEW h \in Slots(c), NEW i \in Slots(c)
    PROVE  Before(h, NextSlot(i, c), c) \subseteq Before(h, i, c) \cup {i}
<1> DEFINE n == NextSlot(i, c)
<1>1. n \in Slots(c) /\ n = IF i + 1 = c THEN 0 ELSE i + 1
  BY NextSlotIs
<1> HIDE DEF n
<1> SUFFICES ASSUME NEW x \in Slots(c), Steps(h, x, c) < Steps(h, n, c), x # i
             PROVE  Steps(h, x, c) < Steps(h, i, c)
  BY DEF Before, n
<1>2. CASE i + 1 = c
  BY <1>1, <1>2 DEF Steps, Slots
<1>3. CASE i + 1 # c
  BY <1>1, <1>3 DEF Steps, Slots
<1> QED BY <1>2, <1>3

\* Of two slots the probe meets one first.
LEMMA OneIsFirst ==
    ASSUME NEW c \in Nat \ {0}, NEW h \in Slots(c), NEW i \in Slots(c), NEW j \in Slots(c)
    PROVE  /\ i = j \/ i \in Before(h, j, c) \/ j \in Before(h, i, c)
           /\ i \notin Before(h, i, c)
  BY DEF Before, Steps, Slots

-----------------------------------------------------------------------------
(* Tables that are filled at the first empty slot of a probe. *)

\* No probe that looks for an entry stops before it.
Findable(t, c) ==
    \A j \in Slots(c) :
        t[j] # Null => \A x \in Before(Home(t[j], c), j, c) : t[x] \notin {Null, t[j]}

\* The probe for q has come to slot n without stopping.
Clean(t, c, q, n) == \A x \in Before(Home(q, c), n, c) : t[x] \notin {Null, q}

Table(c) == [Slots(c) -> Keys \cup {Null}]

LEMMA HomeIsSlot ==
    ASSUME NEW c \in Nat \ {0}, NEW q \in Keys
    PROVE  Home(q, c) \in Slots(c)
<1>1. Hash[q] \in Nat
  BY HashAssumption
<1> QED BY <1>1, RemainderIsSlot DEF Home

\* An empty table.
LEMMA EmptyIsFindable ==
    ASSUME NEW c \in Nat
    PROVE  /\ Empty(c) \in Table(c) /\ Findable(Empty(c), c)
           /\ Entries(Empty(c), Slots(c)) = {}
  BY DEF Empty, Table, Findable, Entries

\* A probe begins with nothing behind it.
LEMMA CleanAtHome ==
    ASSUME NEW c \in Nat \ {0}, NEW t, NEW q \in Keys
    PROVE  Clean(t, c, q, Home(q, c))
  BY HomeIsSlot, NothingBeforeHome DEF Clean

\* It stays clean past a slot that is neither empty nor the key's.
LEMMA CleanStep ==
    ASSUME NEW c \in Nat \ {0}, NEW t, NEW q \in Keys, NEW n \in Slots(c),
           Clean(t, c, q, n), t[n] \notin {Null, q}
    PROVE  Clean(t, c, q, NextSlot(n, c))
  BY HomeIsSlot, ProbeStep DEF Clean

\* A key that is not there by the first empty slot of its probe is nowhere.
LEMMA AbsentAtEmpty ==
    ASSUME NEW c \in Nat \ {0}, NEW t \in Table(c), NEW q \in Keys, NEW n \in Slots(c),
           Findable(t, c), Clean(t, c, q, n), t[n] = Null
    PROVE  q \notin Entries(t, Slots(c))
<1> SUFFICES ASSUME NEW j \in Slots(c), t[j] = q PROVE FALSE
  BY DEF Entries
<1>1. q # Null
  BY NullAssumption
<1>2. n \notin Before(Home(q, c), j, c)
  BY <1>1 DEF Findable
<1>3. j \notin Before(Home(q, c), n, c)
  BY DEF Clean
<1> QED BY <1>1, <1>2, <1>3, HomeIsSlot, OneIsFirst

\* Putting it there keeps every entry findable.
LEMMA InsertAtEmpty ==
    ASSUME NEW c \in Nat \ {0}, NEW t \in Table(c), NEW q \in Keys, NEW n \in Slots(c),
           Findable(t, c), Clean(t, c, q, n), t[n] = Null
    PROVE  /\ [t EXCEPT ![n] = q] \in Table(c) /\ Findable([t EXCEPT ![n] = q], c)
           /\ Entries([t EXCEPT ![n] = q], Slots(c)) = Entries(t, Slots(c)) \cup {q}
<1> DEFINE u == [t EXCEPT ![n] = q]
<1>0. q # Null
  BY NullAssumption
<1>1. u \in Table(c) /\ u[n] = q /\ \A x \in Slots(c) : x # n => u[x] = t[x]
  BY DEF Table
<1> HIDE DEF u
<1>2. Findable(u, c)
  <2> SUFFICES ASSUME NEW j \in Slots(c), u[j] # Null,
                      NEW x \in Before(Home(u[j], c), j, c)
               PROVE  u[x] \notin {Null, u[j]}
    BY DEF Findable
  <2>1. x \in Slots(c)
    BY DEF Before
  <2>2. CASE j = n
    <3>1. u[j] = q /\ x \in Before(Home(q, c), n, c)
      BY <2>2, <1>1
    <3>2. x # n
      BY <3>1, HomeIsSlot, OneIsFirst
    <3> QED BY <3>1, <3>2, <2>1, <1>1 DEF Clean
  <2>3. CASE j # n
    <3>1. u[j] = t[j] /\ t[x] \notin {Null, t[j]}
      BY <2>3, <1>1 DEF Findable
    <3>2. x # n
      BY <3>1
    <3> QED BY <3>1, <3>2, <2>1, <1>1
  <2> QED BY <2>2, <2>3
<1>3. Entries(u, Slots(c)) = Entries(t, Slots(c)) \cup {q}
  BY <1>0, <1>1 DEF Entries
<1> QED BY <1>1, <1>2, <1>3 DEF u

\* A findable table holds every pointer once.
LEMMA FindableIsOnce ==
    ASSUME NEW c \in Nat \ {0}, NEW t \in Table(c), Findable(t, c),
           NEW j \in Slots(c), NEW m \in Slots(c), t[j] = t[m], t[j] # Null
    PROVE  j = m
<1>1. t[j] \in Keys
  BY DEF Table
<1>2. j \notin Before(Home(t[j], c), m, c) /\ m \notin Before(Home(t[j], c), j, c)
  BY DEF Findable
<1> QED BY <1>1, <1>2, HomeIsSlot, OneIsFirst

\* So a table with fewer entries than slots has an empty slot.
LEMMA FewerEntriesThanSlots ==
    ASSUME NEW c \in Nat \ {0}, NEW t \in Table(c), Findable(t, c),
           Cardinality(Entries(t, Slots(c))) < c
    PROVE  \E j \in Slots(c) : t[j] = Null
<1> SUFFICES ASSUME \A j \in Slots(c) : t[j] # Null PROVE FALSE
  OBVIOUS
<1> DEFINE S == Slots(c)
           E == Entries(t, S)
<1>1. t \in [S -> E]
  BY DEF Table, Entries
<1>2. \A j, m \in S : t[j] = t[m] => j = m
  BY FindableIsOnce
<1>3. \A e \in E : \E j \in S : t[j] = e
  BY DEF Entries
<1>4. t \in Bijection(S, E)
  <2>1. DOMAIN t = S
    BY <1>1
  <2> QED BY <1>1, <1>2, <1>3, <2>1 DEF Bijection, Injection, IsInjective, Surjection
<1>5. IsFiniteSet(S) /\ Cardinality(S) = c
  BY FS_Interval DEF Slots
<1>6. ExistsBijection(S, E)
  BY <1>4 DEF ExistsBijection
<1>7. Cardinality(E) = c
  BY <1>5, <1>6, FS_Bijection
<1> QED BY <1>7
=============================================================================
