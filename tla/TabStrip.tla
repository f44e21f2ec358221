------------------------------ MODULE TabStrip ------------------------------
(***************************************************************************)
(* The tabs of a TabFrame (phoenix/core/core.cpp) over its four backends   *)
(* (phoenix/{windows,gtk,qt,cocoa}/widget/tab-frame.cpp): which tab is in  *)
(* front, in the object and natively, and which tabs' layouts are shown.   *)
(* What is inside the layouts is SizableTree's.  Windows notifies the      *)
(* backend of the user's changes only, the others of the program's too.    *)
(*                                                                         *)
(* On GTK and Qt a TabFrame that is taken out of its window is made again  *)
(* without its tabs; this module does not go past that.                    *)
(***************************************************************************)
EXTENDS Toolkit

CONSTANT MaxTabs    \* the most tabs a program makes

ASSUME TabAssumption == MaxTabs \in Nat

VARIABLES
    layouts,    \* state.layout: of each tab "none", or whether its layout is "shown" or "hidden"
    tab,        \* state.selection
    front,      \* the native tab in front, -1 for none
    placed,     \* the frame has been put in a window
    switched,   \* onChange ran in the last step
    orderly     \* history: the program has kept to the rules of this module

tabVars == <<toolkit, layouts, tab, front, placed, switched, orderly>>

TabInit ==
    /\ toolkit \in Toolkits
    /\ layouts = <<>> /\ tab = 0 /\ front = -1
    /\ placed = FALSE /\ switched = FALSE /\ orderly = TRUE

Tabs == 0..Len(layouts) - 1

\* Mutant of Synchronized: the tab before stays shown.
SynchronizedAlso(ls, k) ==
    [n \in DOMAIN ls |-> IF ls[n] # "none" /\ n = k + 1 THEN "shown" ELSE ls[n]]

\* pTabFrame::synchronizeLayout
Synchronized(ls, k) ==
    [n \in DOMAIN ls |-> IF ls[n] = "none" THEN "none"
                         ELSE IF n = k + 1 THEN "shown" ELSE "hidden"]

\* The native frame brings tab k to the front and notifies: onChange,
\* TabFrame_change, didSelectTabViewItem.
Switch(ls, k) ==
    /\ front' = k /\ tab' = k
    /\ layouts' = Synchronized(ls, k)
    /\ switched' = TRUE

\* The native frame has tab k in front, and does not say so.
Still(ls, k) ==
    /\ front' = k /\ layouts' = ls
    /\ switched' = FALSE
    /\ UNCHANGED tab

\* append: the first tab is in front at once.
AppendTab ==
    /\ Len(layouts) < MaxTabs
    /\ LET ls == Append(layouts, "none")
       IN  IF layouts # <<>> THEN Still(ls, front)
           ELSE IF toolkit = "windows" THEN Still(ls, 0)
           ELSE Switch(ls, 0)
    /\ UNCHANGED <<toolkit, placed, orderly>>

\* remove.  When the tab in front goes, Windows has none in front, GTK and Qt
\* the next one or else the one before, Cocoa some other one, and these notify.
\* Qt also notifies when the index of the tab in front changes.
\* The rule: no tab before the one selected is removed but on Qt, and on
\* Windows not that one either.
RemoveTab(k) ==
    /\ k \in Tabs
    /\ LET ls == RemoveAt(layouts, k + 1)
           next == IF toolkit = "cocoa" THEN 0..Len(ls) - 1
                   ELSE {IF k < Len(ls) THEN k ELSE k - 1}
       IN  IF k = front /\ toolkit # "windows" /\ ls # <<>>
           THEN \E j \in next : Switch(ls, j)
           ELSE IF toolkit = "qt" /\ k <= front
           THEN Switch(ls, After(front, k))
           ELSE Still(ls, After(front, k))
    /\ orderly' = (orderly /\ CASE toolkit = "qt" -> TRUE
                                [] toolkit = "windows" -> k > tab
                                [] OTHER -> k >= tab)
    /\ UNCHANGED <<toolkit, placed>>

\* setSelection, unchecked: the object names any tab, the native frame stays
\* where it is if there is none such, and a Cocoa program ends there.  Windows
\* does not notify, the others do if that is a change; all but GTK synchronize
\* the layouts in any case.  The rule: only tabs there are are selected.
SelectTab(k) ==
    /\ toolkit = "cocoa" => k \in Tabs
    /\ tab' = k /\ front' = IF k \in Tabs THEN k ELSE front
    /\ layouts' = IF toolkit = "gtk" /\ front' = front THEN layouts ELSE Synchronized(layouts, k)
    /\ switched' = (toolkit # "windows" /\ front' # front)
    /\ orderly' = (orderly /\ k \in Tabs)
    /\ UNCHANGED <<toolkit, placed>>

\* setLayout: nothing synchronizes the layouts, so a new one, which is visible,
\* shows with the one in front.  The rule: once the frame is placed, layouts
\* are set for the tab in front only.
SetTabLayout(k) ==
    /\ k \in Tabs
    /\ Still([layouts EXCEPT ![k + 1] = "shown"], front)
    /\ orderly' = (orderly /\ (placed => k = tab))
    /\ UNCHANGED <<toolkit, placed>>

\* The frame is put in a window or resized there.  On Windows it is made again:
\* the tabs are appended and the selection is restored (SetCurSel of a tab that
\* is not there leaves the first in front).  Elsewhere setGeometry synchronizes.
Place ==
    /\ placed' = TRUE
    /\ front' = IF toolkit = "windows" /\ layouts # <<>>
                THEN IF tab \in Tabs THEN tab ELSE 0
                ELSE front
    /\ layouts' = Synchronized(layouts, tab)
    /\ switched' = FALSE
    /\ UNCHANGED <<toolkit, tab, orderly>>

\* The user clicks another tab.
OnTab(k) ==
    /\ k \in Tabs /\ k # front
    /\ Switch(layouts, k)
    /\ UNCHANGED <<toolkit, placed, orderly>>

TabNext ==
    \/ AppendTab \/ Place
    \/ \E k \in Tabs : RemoveTab(k) \/ SetTabLayout(k) \/ OnTab(k)
    \/ \E k \in 0..MaxTabs - 1 : SelectTab(k)

TabSpec == TabInit /\ [][TabNext]_tabVars

-----------------------------------------------------------------------------
\* Every variable has its type; the native tab in front exists.
TabTypeOK ==
    /\ toolkit \in Toolkits
    /\ layouts \in Seq({"none", "shown", "hidden"}) /\ Len(layouts) <= MaxTabs
    /\ tab \in -1..MaxTabs - 1 /\ front \in -1..Len(layouts) - 1
    /\ placed \in BOOLEAN /\ switched \in BOOLEAN /\ orderly \in BOOLEAN

\* For programs that keep to the rules the tab in front is the one the object
\* names and, once the frame is in a window, its layout is the one shown:
\* whoever selects, and whatever tabs come and go.
FrontShown ==
    orderly /\ layouts # <<>> =>
        /\ front = tab
        /\ placed => \A n \in DOMAIN layouts :
                        layouts[n] # "none" => (layouts[n] = "shown" <=> n - 1 = front)
=============================================================================
