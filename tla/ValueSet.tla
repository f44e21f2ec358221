------------------------------- MODULE ValueSet -----------------------------
(***************************************************************************)
(* What nall's two sets promise (nall/set.hpp, nall/hashset.hpp): a value  *)
(* is in the set from insert to remove, and each call says what was there. *)
(***************************************************************************)

VARIABLES
    members,    \* the values in the set
    reply       \* what the last call returned

Inserts(x) == members' = members \union {x} /\ reply' = (x \notin members)
Removes(x) == members' = members \ {x} /\ reply' = (x \in members)
Finds(x) == UNCHANGED members /\ reply' = (x \in members)
Clears == members' = {} /\ reply' = TRUE
Stays == UNCHANGED members /\ reply' = TRUE
=============================================================================
