---------------------------- MODULE MCRadioGroup ----------------------------
(***************************************************************************)
(* Small instances of RadioGroup: items are interchangeable.               *)
(***************************************************************************)
EXTENDS RadioGroup, TLC

\* No constant distinguishes two items, and no liveness is checked.
ItemSymmetry == Permutations(Items)
=============================================================================
