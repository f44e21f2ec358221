--------------------------- MODULE MCSizableTree ----------------------------
(***************************************************************************)
(* Small instances of SizableTree.                                         *)
(***************************************************************************)
EXTENDS SizableTree, TLC

\* Boxes are interchangeable, and so are plain widgets.
TreeSymmetry == Permutations(Boxes) \union Permutations(Plain)
=============================================================================
