------------------------------ MODULE DataLists -----------------------------
(***************************************************************************)
(* What nall's vectors promise (nall/vector.hpp): each is a sequence of    *)
(* data, whatever memory it is kept in; what is not there is not taken     *)
(* out.                                                                    *)
(***************************************************************************)
EXTENDS Integers, Sequences, SequencesExt

CONSTANTS Data, Blank, Thrown

VARIABLES
    items,      \* the sequence of each vector
    result      \* what the last call returned, or Thrown

listsVars == <<items, result>>

\* items[v] becomes s, and the call returns r.
Becomes(v, s, r) == items' = [items EXCEPT ![v] = s] /\ result' = r

\* The first n of s, filled up with zeros.
Sized(s, n) == [i \in 1..n |-> IF i <= Len(s) THEN s[i] ELSE Blank]

\* s without the n elements from place p on, counted from 0.
Cut(s, p, n) == SubSeq(s, 1, p) \o SubSeq(s, p + n + 1, Len(s))

DoPrepend(v, d) == Becomes(v, <<d>> \o items[v], d)
DoAppend(v, d) == Becomes(v, Append(items[v], d), d)
DoResize(v, n) == Becomes(v, Sized(items[v], n), Blank)
DoReserve == UNCHANGED items /\ result' = Blank
DoReset(v) == Becomes(v, <<>>, Blank)
DoReverse(v) == Becomes(v, Reverse(items[v]), Blank)

\* A new datum is appended; one that is there already is not.
DoAppendOnce(v, d) ==
    IF Contains(items[v], d) THEN UNCHANGED items /\ result' = FALSE
    ELSE Becomes(v, Append(items[v], d), TRUE)

\* Element p is set, in a sequence made long enough.
DoSet(v, p, d) ==
    LET n == IF p < Len(items[v]) THEN Len(items[v]) ELSE p + 1
    IN  Becomes(v, [Sized(items[v], n) EXCEPT ![p + 1] = d], d)

\* What is there is taken out; what is not is refused.
DoCut(v, p, n) ==
    IF p + n <= Len(items[v])
    THEN Becomes(v, Cut(items[v], p, n), Blank)
    ELSE UNCHANGED items /\ result' = Thrown

\* One that is there is taken out and returned.
DoTake(v, p) == p < Len(items[v]) /\ Becomes(v, Cut(items[v], p, 1), items[v][p + 1])

DoCopy(v, w) == Becomes(v, items[w], Blank)
DoMove(v, w) == items' = [items EXCEPT ![v] = items[w], ![w] = <<>>] /\ result' = Blank
=============================================================================
