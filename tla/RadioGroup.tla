----------------------------- MODULE RadioGroup -----------------------------
(***************************************************************************)
(* Radio buttons (phoenix/core/core.cpp, RadioButton) over the Windows     *)
(* backend (phoenix/windows/widget/radio-button.cpp).                      *)
(*                                                                         *)
(* Every item keeps its own copy of the group it was last put in, so the   *)
(* copies can disagree.  The native button is a non-automatic check box:   *)
(* it shows what the last BM_SETCHECK sent to it said, whatever            *)
(* state.checked is.  nall::group is a duplicate-free vector whose order   *)
(* matters only through first(): a group is a set here, and group() takes  *)
(* its first element as a second argument.                                 *)
(***************************************************************************)
EXTENDS Naturals, FiniteSets

CONSTANTS
    Items,      \* the addresses at which items are constructed
    NoItem      \* "no item"

ASSUME RadioAssumption == NoItem \notin Items

VARIABLES
    alive,      \* the items constructed and not destroyed
    group,      \* state.group of each item, as a set
    checked,    \* state.checked of each item
    native,     \* the check mark of each item's HWND
    activated,  \* the item whose onActivate callback the last step ran
    whole       \* history: the program has regrouped whole groups only (see Whole)

vars == <<alive, group, checked, native, activated, whole>>

Init ==
    /\ alive = {}
    /\ group = [i \in Items |-> {}]
    /\ checked = [i \in Items |-> FALSE]
    /\ native = [i \in Items |-> FALSE]
    /\ activated = NoItem /\ whole = TRUE

-----------------------------------------------------------------------------
\* pRadioButton::setChecked: one BM_SETCHECK to each member of i's own group.
\* An item in no group sends nothing, not even to itself.
NativeSetChecked(nat, i) ==
    [j \in Items |-> IF j \in group[i] THEN j = i ELSE nat[j]]

\* A walk over i's group touches live objects only; a step that would touch a
\* destroyed one is undefined and the model does not go past it.
Reachable(i) == group[i] \subseteq alive

\* The constructor: checked is TRUE by default, the group empty, and the new
\* HWND unchecked since setChecked finds nobody to send to.
New(i) ==
    /\ i \notin alive
    /\ alive' = alive \union {i}
    /\ group' = [group EXCEPT ![i] = {}]
    /\ checked' = [checked EXCEPT ![i] = TRUE]
    /\ native' = [native EXCEPT ![i] = FALSE]
    /\ activated' = NoItem
    /\ UNCHANGED whole

\* A list that takes every item together with all of the item's group.
Whole(list) == \A i \in list : group[i] \subseteq list

\* Mutant of Group: the first item is not checked afterwards.
GroupUnchecked(list, first) ==
    /\ list \subseteq alive /\ first \in list
    /\ group' = [i \in Items |-> IF i \in list THEN list ELSE group[i]]
    /\ checked' = [i \in Items |-> IF i \in list THEN FALSE ELSE checked[i]]
    /\ native' = [i \in Items |-> IF i \in list THEN FALSE ELSE native[i]]
    /\ activated' = NoItem /\ whole' = (whole /\ Whole(list))
    /\ UNCHANGED alive

\* RadioButton::group: each item gets a copy of the list, then the first one
\* is checked, which walks its new group.
Group(list, first) ==
    /\ list \subseteq alive /\ first \in list
    /\ group' = [i \in Items |-> IF i \in list THEN list ELSE group[i]]
    /\ checked' = [i \in Items |-> IF i \in list THEN i = first ELSE checked[i]]
    /\ native' = [i \in Items |-> IF i \in list THEN i = first ELSE native[i]]
    /\ activated' = NoItem /\ whole' = (whole /\ Whole(list))
    /\ UNCHANGED alive

\* Mutant of Check: the rest of the group stays checked.
CheckKeepsOthers(i) ==
    /\ i \in alive /\ Reachable(i)
    /\ checked' = [checked EXCEPT ![i] = TRUE]
    /\ native' = NativeSetChecked(native, i)
    /\ UNCHANGED <<alive, group, whole>>

\* RadioButton::setChecked without the bookkeeping of the callback: state
\* first, over the group and then the item itself, then the natives.
Check(i) ==
    /\ i \in alive /\ Reachable(i)
    /\ checked' = [j \in Items |-> IF j = i THEN TRUE
                                   ELSE IF j \in group[i] THEN FALSE ELSE checked[j]]
    /\ native' = NativeSetChecked(native, i)
    /\ UNCHANGED <<alive, group, whole>>

\* The program checks an item: no callback.
SetChecked(i) ==
    /\ Check(i)
    /\ activated' = NoItem

\* The user clicks an item: pRadioButton::onActivate.
OnActivate(i) ==
    /\ i \in alive
    /\ ~checked[i]
    /\ Check(i)
    /\ activated' = i

\* Mutant of Orphan: the new HWND is left unchecked.
OrphanForgets(i) ==
    /\ i \in alive /\ Reachable(i)
    /\ native' = [native EXCEPT ![i] = FALSE]
    /\ activated' = NoItem
    /\ UNCHANGED <<alive, group, checked, whole>>

\* pRadioButton::orphan, when the widget moves to another parent window: the
\* HWND is destroyed and made again, unchecked; the constructor then restores
\* the check mark by checking it again among the group.
Orphan(i) ==
    /\ i \in alive /\ Reachable(i)
    /\ native' = LET fresh == [native EXCEPT ![i] = FALSE]
                 IN  IF checked[i] THEN NativeSetChecked(fresh, i) ELSE fresh
    /\ activated' = NoItem
    /\ UNCHANGED <<alive, group, checked, whole>>

\* Mutant of Destroy: the group keeps its reference.
DestroyDangles(i) ==
    /\ i \in alive /\ Reachable(i)
    /\ alive' = alive \ {i}
    /\ activated' = NoItem
    /\ UNCHANGED <<group, checked, native, whole>>

\* ~RadioButton: the item leaves the groups of the members of its own group,
\* and of those only.
Destroy(i) ==
    /\ i \in alive /\ Reachable(i)
    /\ alive' = alive \ {i}
    /\ group' = [j \in Items |-> IF j \in group[i] /\ j # i
                                 THEN group[j] \ {i} ELSE group[j]]
    /\ activated' = NoItem
    /\ UNCHANGED <<checked, native, whole>>

Next ==
    \/ \E i \in Items : New(i)
    \/ \E list \in SUBSET Items : \E first \in list : Group(list, first)
    \/ \E i \in Items : SetChecked(i)
    \/ \E i \in Items : OnActivate(i)
    \/ \E i \in Items : Orphan(i)
    \/ \E i \in Items : Destroy(i)

Spec == Init /\ [][Next]_vars

-----------------------------------------------------------------------------
\* Every variable has its type.
TypeOK ==
    /\ alive \subseteq Items
    /\ group \in [Items -> SUBSET Items]
    /\ checked \in [Items -> BOOLEAN]
    /\ native \in [Items -> BOOLEAN]
    /\ activated \in Items \union {NoItem}
    /\ whole \in BOOLEAN

\* i and j each list the other.
Mutual(i, j) == i # j /\ i \in group[j] /\ j \in group[i]

\* Whatever regrouping and destroying went before, two live items that list
\* each other are never both checked, in state or on screen: the copies of
\* the group each RadioButton keeps are enough for exclusion.
MutualExclusion ==
    \A i, j \in alive : Mutual(i, j) => /\ ~(checked[i] /\ checked[j])
                                        /\ ~(native[i] /\ native[j])

\* With whole regrouping no live item lists a destroyed one: ~RadioButton
\* reaches everyone who lists it, so no walk over a group is undefined.
NoDangling == whole => \A i \in alive : group[i] \subseteq alive

\* With whole regrouping the screen of a grouped item shows its state, across
\* regrouping, clicks and the re-creation of the HWND in orphan.
NativeMatches ==
    whole => \A i \in alive : group[i] # {} => (native[i] <=> checked[i])

\* The members of i's group that are checked.
Choice(i) == {j \in group[i] : checked[j]}

\* With whole regrouping a group with a selection keeps one as long as nobody
\* is destroyed, whatever is clicked, regrouped or re-created.
SelectionKept ==
    [][whole' /\ alive \subseteq alive' =>
         \A i \in alive : Choice(i) # {} => Choice(i)' # {}]_vars

\* A callback runs for the one item of its group that is checked, and nobody
\* but its group lost the mark, however the program regroups.
CallbackSeesChoice ==
    [][\A i \in Items : activated' = i =>
         /\ group[i] # {} => Choice(i)' = {i}
         /\ \A j \in alive : checked[j] /\ ~checked'[j] => j \in group[i]]_vars
=============================================================================
