------------------------------- MODULE Chooser ------------------------------
(***************************************************************************)
(* What a list of rows with one chosen row promises to the program that    *)
(* fills it (phoenix/core/core.cpp, ComboButton), whichever toolkit draws  *)
(* it: the choice stays with its row, only the user's choices are told,    *)
(* and moving the widget elsewhere in the window changes nothing.          *)
(***************************************************************************)
EXTENDS Integers, Sequences, SequencesExt

VARIABLES
    rows,       \* the texts of the rows, from row 0 on
    choice,     \* the chosen row, -1 when there is none
    told        \* onChange ran in the last step

\* A new row goes last; the first one is chosen at once.
AddRow(t) ==
    /\ rows' = Append(rows, t)
    /\ choice' = IF rows = <<>> THEN 0 ELSE choice
    /\ told' = FALSE

\* The choice stays with its row; when that row goes, some other row is chosen.
DropRow(k) ==
    /\ rows' = RemoveAt(rows, k + 1)
    /\ IF rows' = <<>> THEN choice' = -1
       ELSE IF k = choice THEN choice' \in 0..Len(rows) - 2
       ELSE choice' = IF k < choice THEN choice - 1 ELSE choice
    /\ told' = FALSE

DropAll == rows' = <<>> /\ choice' = -1 /\ told' = FALSE

Rename(k, t) ==
    /\ rows' = ReplaceAt(rows, k + 1, t)
    /\ UNCHANGED choice /\ told' = FALSE

\* The program chooses and is not told; the user chooses and the program is
\* told of every change.
Choose(k) == choice' = k /\ told' = FALSE /\ UNCHANGED rows
Pick(k) == choice' = k /\ (k # choice => told') /\ UNCHANGED rows

\* Nothing changes, and nobody is told.
Rest == UNCHANGED <<rows, choice>> /\ told' = FALSE
=============================================================================
