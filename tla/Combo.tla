-------------------------------- MODULE Combo -------------------------------
(***************************************************************************)
(* ComboButton (phoenix/core/core.cpp) over its four backends              *)
(* (phoenix/{windows,gtk,qt,cocoa}/widget/combo-button.cpp).  The core     *)
(* changes its own state and then calls the backend.  What the native      *)
(* control does to its selection when rows come and go is the toolkit's;   *)
(* each backend repairs it in its own way.  Rows are numbered from 0 as in *)
(* the code; -1 is the native "no row", which reads as 2^32-1 when it      *)
(* reaches state.selection.  The rows of the native control are those of   *)
(* the object (on Cocoa only if no two are equal: an NSPopUpButton         *)
(* replaces an item of the same title).                                    *)
(***************************************************************************)
EXTENDS Toolkit

CONSTANTS
    Texts,      \* the texts of rows
    MaxRows     \* the most rows a program makes

ASSUME ComboAssumption == MaxRows \in Nat

VARIABLES
    text,       \* state.text
    selection,  \* state.selection
    active,     \* the selected row of the native control
    told,       \* onChange ran in the last step
    careful     \* history: the program has kept to the rule Careful so far

comboVars == <<toolkit, text, selection, active, told, careful>>

ComboInit ==
    /\ toolkit \in Toolkits
    /\ text = <<>> /\ selection = 0 /\ active = -1
    /\ told = FALSE /\ careful = TRUE

Rows == 0..Len(text) - 1
Shown(k) == IF k \in Rows THEN k ELSE -1    \* what selecting row k selects

\* The rule: a program does not take out a row before the selected one (on Qt,
\* the row just before it), nor, on Cocoa, the selected one.
Careful(k) ==
    CASE toolkit = "qt" -> k # selection - 1
      [] toolkit = "cocoa" -> k > selection
      [] OTHER -> k >= selection

\* A step that runs no callback, and keeps to the rule if r holds.
SilentIf(r) == told' = FALSE /\ careful' = (careful /\ r) /\ UNCHANGED toolkit
Silent == SilentIf(TRUE)

-----------------------------------------------------------------------------
\* The toolkits: where the native selection may be once row k is deleted and n
\* rows are left.  A selection follows its row.  When the selected row goes,
\* Windows and GTK select nothing, Qt the row in its place or the last one;
\* Cocoa does not say.
Landing(k, n) ==
    IF k # active \/ n = 0 \/ toolkit \in {"windows", "gtk"} THEN {After(active, k)}
    ELSE IF toolkit = "qt" THEN {IF k < n THEN k ELSE n - 1}
    ELSE 0..n - 1

\* append: the first row becomes the native selection.  GTK calls the core's
\* setSelection(0) and Qt's slot stores the index, so there the object follows.
AddText(t) ==
    /\ Len(text) < MaxRows
    /\ text' = Append(text, t)
    /\ active' = IF text = <<>> THEN 0 ELSE active
    /\ selection' = IF text = <<>> /\ toolkit \in {"gtk", "qt"} THEN 0 ELSE selection
    /\ Silent

\* pComboButton::remove, once the native row k has gone and row a is left
\* selected.  Qt's slot has stored a; then each backend but Cocoa's resets the
\* selection to the first entry if the row removed is the one the object names.
Removed(k, a) ==
    LET seen == IF toolkit = "qt" THEN a ELSE selection
        reset == k = seen /\ text' # <<>> /\ toolkit # "cocoa"
    IN  /\ selection' = IF reset THEN 0 ELSE seen
        /\ active' = IF reset THEN 0 ELSE a

RemoveText(k) ==
    /\ k \in Rows
    /\ text' = RemoveAt(text, k + 1)
    /\ \E a \in Landing(k, Len(text) - 1) : Removed(k, a)
    /\ SilentIf(Careful(k))

\* reset: Qt takes the rows out one by one, and its slot ends up storing -1.
ResetTexts ==
    /\ text' = <<>> /\ active' = -1
    /\ selection' = IF toolkit = "qt" /\ text # <<>> THEN -1 ELSE 0
    /\ Silent

\* setSelection, with the natives' notifications locked out.
SetSelection(k) ==
    /\ k \in Rows
    /\ selection' = k /\ active' = k
    /\ Silent
    /\ UNCHANGED text

\* Mutant of SetText: the selection is not put back.
SetTextUnselects(k, t) ==
    /\ k \in Rows
    /\ text' = ReplaceAt(text, k + 1, t)
    /\ active' = IF toolkit \in {"windows", "gtk"} /\ active = k THEN -1 ELSE active
    /\ Silent
    /\ UNCHANGED selection

\* setText: Windows and GTK delete the row, insert another one and select the
\* object's selection; Qt and Cocoa change the title in place.
SetText(k, t) ==
    /\ k \in Rows
    /\ text' = ReplaceAt(text, k + 1, t)
    /\ active' = IF toolkit \in {"windows", "gtk"} THEN Shown(selection) ELSE active
    /\ Silent
    /\ UNCHANGED selection

\* Mutant of OrphanCombo: Qt restores the selection its slot has overwritten.
OrphanUnsaved ==
    /\ toolkit # "cocoa"
    /\ selection' = IF toolkit \in {"gtk", "qt"} /\ text # <<>> THEN 0 ELSE selection
    /\ active' = Shown(selection')
    /\ SilentIf(toolkit = "gtk" => selection = 0)
    /\ UNCHANGED text

\* orphan: the native control is destroyed and made again, every row appended
\* again and the selection restored.  GTK's first append overwrites what it is
\* about to restore: moving a GTK combo button whose selection is not its first
\* row breaks the rule.  Qt saves the selection first.  Cocoa moves the control
\* itself.
OrphanCombo ==
    /\ toolkit # "cocoa"
    /\ selection' = IF text # <<>> /\ (toolkit = "gtk" \/ (toolkit = "qt" /\ selection \notin Rows))
                    THEN 0 ELSE selection
    /\ active' = Shown(selection')
    /\ SilentIf(toolkit = "gtk" => selection = 0)
    /\ UNCHANGED text

\* The user picks row k.  GTK and Qt signal changes only; Windows drops what
\* the object already has; Cocoa tells of every pick.
OnChange(k) ==
    /\ k \in Rows
    /\ toolkit \in {"gtk", "qt"} => k # active
    /\ active' = k /\ selection' = k
    /\ told' = (toolkit = "windows" => k # selection)
    /\ UNCHANGED <<toolkit, text, careful>>

ComboNext ==
    \/ \E t \in Texts : AddText(t)
    \/ \E k \in Rows : RemoveText(k) \/ SetSelection(k) \/ OnChange(k)
    \/ ResetTexts
    \/ \E k \in Rows, t \in Texts : SetText(k, t)
    \/ OrphanCombo

ComboSpec == ComboInit /\ [][ComboNext]_comboVars

-----------------------------------------------------------------------------
\* Every variable has its type; the native selection is one of the rows.
ComboTypeOK ==
    /\ toolkit \in Toolkits /\ told \in BOOLEAN /\ careful \in BOOLEAN
    /\ text \in Seq(Texts) /\ Len(text) <= MaxRows
    /\ selection \in -1..MaxRows - 1
    /\ active \in -1..Len(text) - 1

\* While there are rows the row selected on screen is the one the object
\* names, so text() reads a row that is there: for every program on Qt, for
\* careful ones elsewhere, across removal, renaming and re-creation.
SameRow == (careful \/ toolkit = "qt") /\ text # <<>> => selection = active /\ active \in Rows

\* For careful programs every backend implements Chooser, call by call: the
\* choice stays with its row whatever is added, removed, renamed or re-created,
\* and the program is told of the user's changes and of no other.
Choice == INSTANCE Chooser WITH
    rows <- text, choice <- IF text = <<>> THEN -1 ELSE selection
Chooses ==
    [][careful' =>
          /\ ResetTexts => Choice!DropAll
          /\ OrphanCombo => Choice!Rest
          /\ \A t \in Texts : AddText(t) => Choice!AddRow(t)
          /\ \A k \in Rows : /\ RemoveText(k) => Choice!DropRow(k)
                             /\ SetSelection(k) => Choice!Choose(k)
                             /\ OnChange(k) => Choice!Pick(k)
                             /\ \A t \in Texts : SetText(k, t) => Choice!Rename(k, t)
      ]_comboVars
=============================================================================
