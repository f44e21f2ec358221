-------------------------- MODULE MCPriorityQueue ---------------------------
(***************************************************************************)
(* PriorityQueue with counters of three or four bits.                     *)
(***************************************************************************)
EXTENDS PriorityQueue, TLC

CONSTANTS e1, e2, e3, e4, e5, e6

EventSymmetry == Permutations(Events)
=============================================================================
