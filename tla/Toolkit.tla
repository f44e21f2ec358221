------------------------------- MODULE Toolkit ------------------------------
(***************************************************************************)
(* What the modules about single controls share.  phoenix is compiled for  *)
(* one of four toolkits; each has its own implementation of every control  *)
(* (phoenix/{windows,gtk,qt,cocoa}/widget) under one portable object       *)
(* (phoenix/core).                                                         *)
(***************************************************************************)
EXTENDS Integers, Sequences, SequencesExt

VARIABLE toolkit    \* the one compiled in

Toolkits == {"windows", "gtk", "qt", "cocoa"}

\* Where row i of a native list is after row k has been deleted; -1 is none.
After(i, k) == IF i = k THEN -1 ELSE IF i > k THEN i - 1 ELSE i
=============================================================================
