------------------------------ MODULE ListRows ------------------------------
(***************************************************************************)
(* ListView (phoenix/core/core.cpp) over its four backends                 *)
(* (phoenix/{windows,gtk,qt,cocoa}/widget/list-view.cpp): its rows, the    *)
(* check mark of each and the selected row, in the object and in the       *)
(* native list.  Texts and images are left out except for the signals they *)
(* cause.  Rows are numbered from 0; -1 is the native "no row".            *)
(*                                                                         *)
(* On Qt each native row carries the index it was appended at (its         *)
(* UserRole), and the slots write to the object by that index.  On Cocoa   *)
(* the native table has no rows of its own: it asks the object.  Lists are *)
(* checkable from the start.                                               *)
(***************************************************************************)
EXTENDS Toolkit

CONSTANT MaxLines   \* the most rows a program makes

ASSUME ListAssumption == MaxLines \in Nat

VARIABLES
    checked,    \* state.checked, one per row
    selected,   \* state.selected
    chosen,     \* state.selection
    native,     \* the native rows: the mark each shows, on Qt the role it carries
    lit,        \* the native row that is highlighted, -1 for none
    current,    \* Qt: the current item, highlighted or not
    changed,    \* onChange ran in the last step
    toggled,    \* the row onToggle was told of in the last step, -1 for none
    gentle      \* history: the program has kept to the rules of this module

objectVars == <<checked, selected, chosen>>
nativeVars == <<native, lit, current>>
listVars == <<toolkit, objectVars, nativeVars, changed, toggled, gentle>>

ListInit ==
    /\ toolkit \in Toolkits
    /\ checked = <<>> /\ selected = FALSE /\ chosen = 0
    /\ native = <<>> /\ lit = -1 /\ current = -1
    /\ changed = FALSE /\ toggled = -1 /\ gentle = TRUE

Lines == 0..Len(checked) - 1
Line(k) == IF k \in Lines THEN k ELSE -1

\* A native row made as the k-th, which Qt notes in its role.
NativeRow(b, k) == [mark |-> b, role |-> IF toolkit = "qt" THEN k ELSE 0]

\* The native list highlights row k, or none; Qt makes it the current one.
Light(k) == lit' = k /\ current' = IF toolkit = "qt" THEN k ELSE -1

\* What the object says of the selection from now on.
Says(s, k) == selected' = s /\ chosen' = k

NoToggle == toggled' = -1

\* onChange does not run, or runs if c holds; a step keeps to the rules if r.
ListSilentIf(r) == changed' = FALSE /\ gentle' = (gentle /\ r) /\ UNCHANGED toolkit
ListSilent == ListSilentIf(TRUE)
Tells(c) == changed' = c /\ UNCHANGED <<toolkit, gentle>>

-----------------------------------------------------------------------------
\* Mutant of AppendRow: Qt counts its rows when the new one is among them.
AppendCounted ==
    /\ Len(checked) < MaxLines
    /\ checked' = Append(checked, FALSE)
    /\ native' = Append(native, NativeRow(FALSE, Len(native) + 1))
    /\ ListSilent /\ NoToggle
    /\ UNCHANGED <<selected, chosen, lit, current>>

\* append.  Qt numbers the row; it is the slot of its signal that writes the
\* mark, unchecked, to the object again.
AppendRow ==
    /\ Len(checked) < MaxLines
    /\ checked' = Append(checked, FALSE)
    /\ native' = Append(native, NativeRow(FALSE, Len(native)))
    /\ ListSilent /\ NoToggle
    /\ UNCHANGED <<selected, chosen, lit, current>>

\* The natives, once row k of n has been deleted.  Windows and GTK drop the
\* highlight with its row and say nothing the backend listens to.  Qt makes the
\* next row current, or the one before if there is none, and its slot stores
\* the role of that row, or "not selected".  Cocoa's table keeps the index
\* highlighted while there is such a row, and may notify when there is not.
HighlightLeft(k, n) ==
    CASE toolkit \in {"windows", "gtk"} ->
           Light(After(lit, k)) /\ UNCHANGED <<selected, chosen>>
      [] toolkit = "qt" /\ k # current ->
           /\ lit' = After(lit, k) /\ current' = After(current, k)
           /\ UNCHANGED <<selected, chosen>>
      [] toolkit = "qt" /\ k = current ->
           IF n = 1 THEN Light(-1) /\ Says(FALSE, 0)
           ELSE LET next == IF k < n - 1 THEN k ELSE k - 1
                IN  Light(next) /\ Says(TRUE, native'[next + 1].role)
      [] toolkit = "cocoa" /\ lit < n - 1 ->
           UNCHANGED <<lit, current, selected, chosen>>
      [] toolkit = "cocoa" /\ lit = n - 1 ->
           /\ Light(-1)
           /\ Says(TRUE, -1) \/ UNCHANGED <<selected, chosen>>

\* The rule for removal: a program deselects before the selected row or one
\* before it goes, and on Qt, whose roles go stale, takes out the last row only.
MayRemove(k) == CASE toolkit = "qt" -> k = Len(checked) - 1
                  [] toolkit = "cocoa" -> TRUE
                  [] OTHER -> selected => k > chosen

RemoveRow(k) ==
    /\ k \in Lines
    /\ checked' = RemoveAt(checked, k + 1)
    /\ native' = RemoveAt(native, k + 1)
    /\ HighlightLeft(k, Len(checked))
    /\ ListSilentIf(MayRemove(k)) /\ NoToggle

\* reset: only GTK's backend clears the selection of the object; Qt's slot does
\* if there is a current item, and tells the program.
ResetRows ==
    /\ checked' = <<>> /\ native' = <<>> /\ Light(-1) /\ NoToggle
    /\ CASE toolkit = "gtk" -> Says(FALSE, 0) /\ ListSilent
         [] toolkit = "qt" /\ current # -1 ->
              Says(FALSE, 0) /\ Tells(<<selected, chosen>> # <<FALSE, 0>>)
         [] toolkit = "cocoa" /\ lit # -1 ->
              \/ Says(TRUE, -1) /\ Tells(TRUE)
              \/ UNCHANGED <<selected, chosen>> /\ ListSilent
         [] OTHER -> UNCHANGED <<selected, chosen>> /\ ListSilentIf(~selected)

\* Qt's slot onToggle: the mark of the native row goes to the row of its role;
\* outside of the vector it throws, and the program ends there (Slotted).
Slotted(k) == toolkit = "qt" => native[k + 1].role \in Lines
Stored(marks, k, b) == [marks EXCEPT ![native[k + 1].role + 1] = b]

\* Mutant of SetChecked: the native row is not told.
SetCheckedUnsent(k, b) ==
    /\ k \in Lines
    /\ checked' = [checked EXCEPT ![k + 1] = b]
    /\ ListSilent /\ NoToggle
    /\ UNCHANGED <<selected, chosen, nativeVars>>

\* setChecked: the object first; then Qt's slot stores the new mark once more.
SetChecked(k, b) ==
    /\ k \in Lines /\ (native[k + 1].mark # b => Slotted(k))
    /\ checked' = LET set == [checked EXCEPT ![k + 1] = b]
                  IN  IF toolkit = "qt" /\ native[k + 1].mark # b THEN Stored(set, k, b) ELSE set
    /\ native' = [native EXCEPT ![k + 1].mark = b]
    /\ ListSilent /\ NoToggle
    /\ UNCHANGED <<selected, chosen, lit, current>>

\* The user ticks row k.  Windows turns the object's mark over, the others set
\* it; Qt tells of the row of the role.
OnToggle(k) ==
    /\ k \in Lines /\ Slotted(k)
    /\ LET b == ~native[k + 1].mark
       IN  /\ native' = [native EXCEPT ![k + 1].mark = b]
           /\ checked' = CASE toolkit \in {"windows", "gtk"} -> [checked EXCEPT ![k + 1] = ~@]
                           [] toolkit = "qt" -> Stored(checked, k, b)
                           [] OTHER -> [checked EXCEPT ![k + 1] = b]
    /\ toggled' = IF toolkit = "qt" THEN native[k + 1].role ELSE k
    /\ ListSilent
    /\ UNCHANGED <<selected, chosen, lit, current>>

\* setText and, not locked, setImage: on Qt either is a change of the item, and
\* its slot stores the mark; for an image it tells of a toggle.
Repaint(k, image) ==
    /\ k \in Lines /\ Slotted(k)
    /\ IF toolkit = "qt"
       THEN /\ checked' = Stored(checked, k, native[k + 1].mark)
            /\ toggled' = IF image THEN native[k + 1].role ELSE -1
       ELSE UNCHANGED checked /\ NoToggle
    /\ ListSilentIf(~(toolkit = "qt" /\ image))
    /\ UNCHANGED <<selected, chosen, nativeVars>>

\* setSelection.  Qt's slot stores the role, Cocoa notifies if that is a change.
SetRow(k) ==
    /\ k \in Lines
    /\ Says(TRUE, IF toolkit = "qt" /\ k # current THEN native[k + 1].role ELSE k)
    /\ Light(k) /\ NoToggle
    /\ Tells(toolkit = "cocoa" /\ k # lit)
    /\ UNCHANGED <<checked, native>>

\* setSelected.  Windows and GTK highlight the row the object names or none;
\* Qt changes the highlight of the current item; Cocoa only clears it, which
\* notifies, and the notification says "selected".
SetSelected(s) ==
    /\ CASE toolkit \in {"windows", "gtk"} ->
              Says(s, chosen) /\ Light(IF s THEN Line(chosen) ELSE -1) /\ ListSilent
         [] toolkit = "qt" ->
              /\ Says(s, chosen) /\ lit' = (IF s THEN current ELSE -1) /\ UNCHANGED current
              /\ ListSilentIf(FALSE)
         [] toolkit = "cocoa" /\ (s \/ lit = -1) ->
              Says(s, chosen) /\ UNCHANGED <<lit, current>> /\ ListSilentIf(FALSE)
         [] toolkit = "cocoa" /\ ~s /\ lit # -1 -> Says(TRUE, -1) /\ Light(-1) /\ Tells(TRUE)
    /\ NoToggle
    /\ UNCHANGED <<checked, native>>

\* The user selects row k.  GTK tells of changes, Qt of those of the current
\* item only.
OnSelect(k) ==
    /\ k \in Lines /\ k # lit
    /\ LET now == IF toolkit = "qt" THEN native[k + 1].role ELSE k
       IN  IF toolkit = "qt" /\ k = current
           THEN UNCHANGED <<selected, chosen>> /\ ListSilent
           ELSE /\ Says(TRUE, now)
                /\ Tells(toolkit \in {"gtk", "qt"} => <<selected, chosen>> # <<TRUE, now>>)
    /\ Light(k) /\ NoToggle
    /\ UNCHANGED <<checked, native>>

\* The user clears the highlight: nobody is told, but for Cocoa, which stores
\* the index of no row as selected.
OnDeselect ==
    /\ lit # -1
    /\ lit' = -1 /\ UNCHANGED current
    /\ IF toolkit = "cocoa" THEN Says(TRUE, -1) /\ Tells(TRUE)
       ELSE UNCHANGED <<selected, chosen>> /\ ListSilent
    /\ NoToggle
    /\ UNCHANGED <<checked, native>>

\* Mutant of OrphanList: the row is highlighted again whether selected or not.
OrphanLights ==
    /\ toolkit # "cocoa"
    /\ checked' = IF toolkit = "qt" THEN [k \in DOMAIN checked |-> FALSE] ELSE checked
    /\ native' = [k \in DOMAIN checked |-> NativeRow(checked'[k], k - 1)]
    /\ Light(Line(chosen))
    /\ ListSilentIf(toolkit = "qt" => checked' = checked) /\ NoToggle
    /\ UNCHANGED <<selected, chosen>>

\* orphan, and on GTK setHeaderText: the native list is made again from the
\* object.  On Qt appending a row again runs the slot, which unchecks it in the
\* object before its mark is restored.
OrphanList ==
    /\ toolkit # "cocoa"
    /\ checked' = IF toolkit = "qt" THEN [k \in DOMAIN checked |-> FALSE] ELSE checked
    /\ native' = [k \in DOMAIN checked |-> NativeRow(checked'[k], k - 1)]
    /\ Light(IF selected THEN Line(chosen) ELSE -1)
    /\ ListSilentIf(toolkit = "qt" => checked' = checked) /\ NoToggle
    /\ UNCHANGED <<selected, chosen>>

ListNext ==
    \/ AppendRow \/ ResetRows \/ OnDeselect \/ OrphanList
    \/ \E k \in Lines : RemoveRow(k) \/ OnToggle(k) \/ SetRow(k) \/ OnSelect(k)
    \/ \E k \in Lines, b \in BOOLEAN : SetChecked(k, b) \/ Repaint(k, b)
    \/ \E s \in BOOLEAN : SetSelected(s)

ListSpec == ListInit /\ [][ListNext]_listVars

-----------------------------------------------------------------------------
\* Every variable has its type; both sides have the same rows.
ListTypeOK ==
    /\ toolkit \in Toolkits /\ changed \in BOOLEAN /\ gentle \in BOOLEAN
    /\ checked \in Seq(BOOLEAN) /\ Len(checked) <= MaxLines
    /\ selected \in BOOLEAN /\ chosen \in -1..MaxLines
    /\ native \in Seq([mark : BOOLEAN, role : 0..MaxLines]) /\ Len(native) = Len(checked)
    /\ lit \in -1..Len(native) - 1 /\ current \in -1..Len(native) - 1
    /\ toggled \in -1..MaxLines

\* The marks on screen are those of the object: whatever the program does on
\* Windows, GTK and Cocoa, and for gentle programs on Qt.
MarksAgree ==
    toolkit # "qt" \/ gentle => \A k \in DOMAIN checked : native[k].mark = checked[k]

\* A highlighted row is the one the object names, if the program keeps to the
\* rules: no row is highlighted that nobody selected.
LitIsChosen == gentle /\ lit # -1 => selected /\ chosen = lit

\* When onToggle is told of a row, the mark of that row has changed in the
\* object and no other has: Qt's roles and Windows' turning over included.
TogglesTold ==
    [][gentle' /\ toggled' # -1 =>
         {k \in Lines : checked'[k + 1] # checked[k + 1]} = {toggled'}]_listVars
=============================================================================
