------------------------------ MODULE Closures ------------------------------
(***************************************************************************)
(* The nodes a walk over an object tree reaches.  `kids' gives the nodes a *)
(* walk goes on to from each node; a recursive function of the source that *)
(* visits them all visits Closure(kids, seed).  Stated as a least fixed    *)
(* point, so that it can be reasoned about without recursion.              *)
(***************************************************************************)

\* The sets of nodes that hold seed and that a walk along kids does not leave.
Closed(kids, seed) ==
    {S \in SUBSET DOMAIN kids : seed \subseteq S /\ \A y \in S : kids[y] \subseteq S}

\* Everything a walk from seed reaches, seed included.
Closure(kids, seed) ==
    LET closed == Closed(kids, seed)
    IN  {x \in DOMAIN kids : \A S \in closed : x \in S}
=============================================================================
