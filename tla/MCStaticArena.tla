--------------------------- MODULE MCStaticArena ---------------------------
(***************************************************************************)
(* Functions of two allocations, two operations on them, the deallocation   *)
(* of what is not returned, and a return.                                   *)
(***************************************************************************)
EXTENDS StaticArena

Op(kind, from, nested) ==
    [kind |-> kind, from |-> from, nested |-> nested,
     fixed |-> FALSE, size |-> 0, align |-> -1]

Alloc(fixed, nested, size, align) ==
    [Op("alloc", {}, nested) EXCEPT !.fixed = fixed, !.size = size, !.align = align]

\* Static temporaries, one of dynamic shape and one inside a region.
Allocs ==
    {Alloc(TRUE, FALSE, 65, align) : align \in {-1, 32}}
        \cup {Alloc(TRUE, FALSE, 1, 0), Alloc(FALSE, FALSE, 1, -1), Alloc(TRUE, TRUE, 1, -1)}

Makes(f, v) == f[v].kind \in {"alloc", "view"}

\* Both allocations, then an operation on one, then on one or on a view.
Bodies ==
    {f \in {<<a, b, Op(k, {x}, FALSE), Op(l, {y}, FALSE)>> :
                a \in Allocs, b \in Allocs, k \in {"view", "write"}, x \in 1 .. 2,
                l \in {"view", "write"}, y \in 1 .. 3} :
        \A v \in f[4].from : Makes(f, v)}

\* The allocation a value of a body is, or views.
Origin(f, v) ==
    LET up(w) == IF f[w].kind = "view" THEN CHOOSE x \in f[w].from : TRUE ELSE w
    IN  up(up(v))

\* What the body's owner deallocates is what it neither returns nor allocates
\* in a region.
Ended(f, result) ==
    LET owned == {b \in 1 .. 2 : ~f[b].nested} \ {Origin(f, v) : v \in result}
        free(b) == IF b \in owned THEN <<Op("dealloc", {b}, FALSE)>> ELSE <<>>
    IN  f \o free(1) \o free(2) \o <<Op("return", result, FALSE)>>

StraightLines ==
    {Ended(f, r) : f \in Bodies, r \in {{}, {1}, {1, 2}}}
        \cup {Ended(f, {v}) : f \in {g \in Bodies : Makes(g, 3)}, v \in {3}}
        \cup {Ended(f, {v}) : f \in {g \in Bodies : Makes(g, 4)}, v \in {4}}

\* A region that allocates, writes, and reads the buffer of the trip before.
CarriedBuffer ==
    <<Alloc(TRUE, FALSE, 65, -1),
      Op("alias", {3}, TRUE),
      Alloc(TRUE, TRUE, 65, -1),
      Op("write", {3}, TRUE),
      Op("write", {1}, FALSE),
      Op("dealloc", {1}, FALSE),
      Op("return", {}, FALSE)>>

SomeFunctions == StraightLines \cup {CarriedBuffer}
=============================================================================
