---------------------------- MODULE MCPlacement ----------------------------
(* The pass alone, on every small function. *)
EXTENDS PlaceCacheFlushes, SmallFunctions
=============================================================================
