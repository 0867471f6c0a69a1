----------------------------- MODULE MCNanLicence -----------------------------
(***************************************************************************)
(* --select-to-minmax alone, on bodies that bound a float which may be a NaN  *)
(* on both sides before they convert it.                                      *)
(***************************************************************************)
EXTENDS ScalarFunctions

Bounds == {"nothing", "relu", "ordered relu", "relu to 0", "below 6"}
Init == /\ ahead = <<"select-to-minmax">>
        /\ now \in {Body("float", <<"mul 3", a, b, "div 4", "round", "to i32">>) : a, b \in Bounds}
        /\ answer = Table(now)
        /\ rewrites = 0 /\ group = "scalars"
Spec == Init /\ [][ScalarStep]_rewriting

\* A body whose values end in conversions may hand back the other operand of a
\* bound on a NaN: what it is converted to was poison, so that nothing defined
\* is changed.
LicenceIsARefinement == Refines(Table(now), answer)
=============================================================================
