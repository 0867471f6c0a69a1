---------------------------- MODULE SeenOutputs ----------------------------
(***************************************************************************)
(* What gemmlir_unseen promises: each buffer is new once, the first time it  *)
(* is asked about, and the null pointer never is.                            *)
(***************************************************************************)
CONSTANTS Pointers, Null

VARIABLES
    seen,    \* the buffers asked about before
    asking,  \* a question has been put and not answered
    about,   \* the pointer it was about
    answer   \* the last answer

vars == <<seen, asking, about, answer>>

Init == seen = {} /\ ~asking /\ about = Null /\ ~answer

Ask(q) ==
    /\ ~asking
    /\ asking' = TRUE /\ about' = q
    /\ UNCHANGED <<seen, answer>>

Reply ==
    /\ asking
    /\ asking' = FALSE
    /\ answer' = (about \in Pointers \ seen)
    /\ seen' = seen \cup ({about} \ {Null})
    /\ UNCHANGED about

Next == (\E q \in Pointers \cup {Null} : Ask(q)) \/ Reply

Spec == Init /\ [][Next]_vars
=============================================================================
