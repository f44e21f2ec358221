-------------------------------- MODULE Menus -------------------------------
(***************************************************************************)
(* The menu bar of a window: Menu, CheckItem and RadioItem                 *)
(* (phoenix/core/core.cpp) over the Windows backend                        *)
(* (phoenix/windows/action/*.cpp, updateMenu in phoenix/windows/window.cpp *)
(* and WM_COMMAND in phoenix/windows/utility.cpp).  Windows cannot hide an *)
(* entry of a menu, so every change destroys the native menus and makes    *)
(* them again from the state.  setText and setImage go the way of          *)
(* setEnabled; Item and Separator are CheckItems that nobody checks.  The  *)
(* radio items are one group, formed when they are made (RadioGroup has    *)
(* the groups).                                                            *)
(*                                                                         *)
(* A program has each action in one place at a time, as the one parentMenu *)
(* of the backend supposes; and the window outlives its menus.             *)
(***************************************************************************)
EXTENDS Closures, Integers, Sequences, SequencesExt

CONSTANTS
    MenusMade, ChecksMade, RadiosMade,  \* the actions there are
    NoAction,                           \* "no action", "no menu"
    Hideable, Dimmable                  \* the actions a program hides, and disables (a bound)

Actions == MenusMade \union ChecksMade \union RadiosMade

\* An object has one type.
ASSUME MenuAssumption ==
    /\ NoAction \notin Actions
    /\ MenusMade \intersect (ChecksMade \union RadiosMade) = {}

VARIABLES
    actions,        \* the actions not yet destroyed
    bar,            \* window.state.menu
    entries,        \* state.action of each menu
    action,         \* state.enabled, visible and checked of each
    parentMenu,     \* pAction::parentMenu of each
    parentWindow,   \* the actions whose pAction::parentWindow is set
    strip,          \* the native menu bar: the menus in it
    popup,          \* hmenu of each menu: the entries of the native menu, <<>> if it is gone
    picked,         \* the entry the user chose in the last step, or NoAction
    emptied         \* history: no menu was destroyed with actions in it

menuVars == <<actions, bar, entries, action, parentMenu, parentWindow, strip, popup, picked, emptied>>

MenuInit ==
    /\ actions = Actions /\ bar = <<>>
    /\ entries = [m \in MenusMade |-> <<>>]
    /\ action \in {[a \in Actions |-> [enabled |-> TRUE, visible |-> TRUE, checked |-> a = first]] :
                     first \in IF RadiosMade = {} THEN {NoAction} ELSE RadiosMade}
    /\ parentMenu = [a \in Actions |-> NoAction] /\ parentWindow = {}
    /\ strip = <<>> /\ popup = [m \in MenusMade |-> <<>>]
    /\ picked = NoAction /\ emptied = TRUE

-----------------------------------------------------------------------------
Members(s) == {s[i] : i \in DOMAIN s}

\* Those of the sequence s that are in S, in order.
Kept(s, S) ==
    LET kept[n \in 0 .. Len(s)] ==
          IF n = 0 THEN <<>>
          ELSE IF s[n] \in S THEN Append(kept[n - 1], s[n]) ELSE kept[n - 1]
    IN  kept[Len(s)]
Without(s, a) == Kept(s, Actions \ {a})
VisibleActions(act) == {a \in Actions : act[a].visible}

\* The menus a walk from the menus in `seed' reaches, going on from each to those in kids.
Walk(kids, seed) == Closure(kids, seed)

\* The visible menus in each menu, and those in its native menu.
Visible(es, act) == [m \in MenusMade |-> Members(es[m]) \intersect MenusMade \intersect VisibleActions(act)]
Attached == [m \in MenusMade |-> {popup[m][i].of : i \in DOMAIN popup[m]} \intersect MenusMade]

\* The entries pMenu::update makes for menu m.
Look(a, act) == [of |-> a, enabled |-> act[a].enabled, ticked |-> a \notin MenusMade /\ act[a].checked]
Made(m, es, act) ==
    LET shown == Kept(es[m], VisibleActions(act))
    IN  [i \in DOMAIN shown |-> Look(shown[i], act)]

\* Mutant of Parented: hidden actions are not told the window they are in.
ParentedVisible(reached, es, act) ==
    {a \in UNION {Members(es[m]) : m \in reached} : act[a].visible}

\* The actions pMenu::update sets the parents of.
Parented(reached, es, act) == UNION {Members(es[m]) : m \in reached}

\* pWindow::updateMenu with the menus b in the bar: the native menus are destroyed with
\* all that is attached to them, and made again from the state.
Updated(b, es, act, parents) ==
    LET reached == Walk(Visible(es, act), Members(b))
        gone == Walk(Attached, Members(strip) \union reached)
        inside == Parented(reached, es, act)
    IN  /\ strip' = Kept(b, VisibleActions(act))
        /\ popup' = [m \in MenusMade |-> IF m \in reached THEN Made(m, es, act)
                                         ELSE IF m \in gone THEN <<>> ELSE popup[m]]
        /\ parentWindow' = parentWindow \union Members(b) \union inside
        /\ parentMenu' = [a \in Actions |->
             IF a \in inside THEN CHOOSE m \in reached : a \in Members(es[m])
             ELSE IF a \in Members(b) THEN NoAction ELSE parents[a]]

\* The window updates its menus if `told' says that somebody knows it.
Update(told, b, es, act, parents) ==
    IF told THEN Updated(b, es, act, parents)
    ELSE parentMenu' = parents /\ UNCHANGED <<strip, popup, parentWindow>>

-----------------------------------------------------------------------------
\* A call of the program; the user chooses nothing in it.
Calls == picked' = NoAction

Housed(a) == a \in Members(bar) \/ \E m \in MenusMade : a \in Members(entries[m])
Beneath(a) == Walk([m \in MenusMade |-> Members(entries[m]) \intersect MenusMade], {a})

\* Menu::append of one action.  A menu beneath itself would be walked for ever.
AppendAction(m, a) ==
    LET es == [entries EXCEPT ![m] = Append(@, a)]
    IN  /\ {m, a} \subseteq actions /\ ~Housed(a)
        /\ a \in MenusMade => m \notin Beneath(a)
        /\ entries' = es
        /\ Update(m \in parentWindow, bar, es, action, [parentMenu EXCEPT ![a] = m])
        /\ UNCHANGED <<actions, bar, action, emptied>>

\* Menu::remove, which returns after the first action of its list that it finds.
Dropped(m, a) ==
    LET es == [entries EXCEPT ![m] = Without(@, a)]
    IN  /\ entries' = es
        /\ Update(m \in parentWindow, bar, es, action, [parentMenu EXCEPT ![a] = NoAction])
        /\ UNCHANGED bar

RemoveAction(m, a) ==
    /\ m \in actions /\ a \in Members(entries[m])
    /\ Dropped(m, a)
    /\ UNCHANGED <<actions, action, emptied>>

\* Window::append and Window::remove; a removed menu keeps its parentWindow.
AppendMenu(m) ==
    /\ m \in actions /\ ~Housed(m)
    /\ bar' = Append(bar, m)
    /\ Updated(bar', entries, action, parentMenu)
    /\ UNCHANGED <<actions, entries, action, emptied>>

Unlisted(m) ==
    /\ bar' = Without(bar, m)
    /\ Updated(bar', entries, action, parentMenu)
    /\ UNCHANGED entries

RemoveMenu(m) ==
    /\ m \in Members(bar)
    /\ Unlisted(m)
    /\ UNCHANGED <<actions, action, emptied>>

\* Action::setEnabled (with setText and setImage) and Action::setVisible.
Set(a, look) ==
    /\ a \in actions
    /\ action' = [action EXCEPT ![a] = look]
    /\ Update(a \in parentWindow, bar, entries, action', parentMenu)
    /\ UNCHANGED <<actions, bar, entries, emptied>>

SetActionEnabled(a) == a \in Dimmable /\ Set(a, [action[a] EXCEPT !.enabled = ~@])
SetActionVisible(a) == a \in Hideable /\ Set(a, [action[a] EXCEPT !.visible = ~@])

\* The mark of each of S is set in the native menu its parentMenu has; a menu that was
\* destroyed has none, and to look for it is undefined: the model does not go past it.
Marked(S, act) ==
    /\ \A a \in S : parentMenu[a] \in actions \union {NoAction}
    /\ action' = act
    /\ popup' = [m \in MenusMade |-> [i \in DOMAIN popup[m] |->
         LET a == popup[m][i].of
         IN  IF a \in S /\ parentMenu[a] = m THEN [popup[m][i] EXCEPT !.ticked = act[a].checked]
             ELSE popup[m][i]]]
    /\ UNCHANGED <<actions, bar, entries, parentMenu, parentWindow, strip, emptied>>

\* CheckItem::setChecked
CheckItem(c, on) ==
    /\ c \in ChecksMade \intersect actions
    /\ Marked({c}, [action EXCEPT ![c].checked = on])

\* RadioItem::setChecked, with its group.
CheckRadio(r) ==
    /\ r \in RadiosMade \intersect actions
    /\ LET list == RadiosMade \intersect actions
       IN  Marked(list, [a \in Actions |-> IF a \in list THEN [action[a] EXCEPT !.checked = a = r]
                                           ELSE action[a]])

\* Mutant of Destroy: the destructor of a menu asks its window first.
DestroyByWindow(a) ==
    /\ a \in actions
    /\ parentMenu[a] \in actions \union {NoAction}
    /\ actions' = actions \ {a}
    /\ CASE a \in MenusMade /\ a \in parentWindow -> Unlisted(a)
         [] a \notin parentWindow /\ parentMenu[a] # NoAction -> Dropped(parentMenu[a], a)
         [] OTHER -> UNCHANGED <<bar, entries, parentMenu, parentWindow, strip, popup>>
    /\ emptied' = (emptied /\ (a \in MenusMade => entries[a] = <<>>))
    /\ UNCHANGED action

\* The destructors: an action leaves the menu it knows of, a menu else the window.
Destroy(a) ==
    /\ a \in actions
    /\ parentMenu[a] \in actions \union {NoAction}
    /\ actions' = actions \ {a}
    /\ CASE parentMenu[a] # NoAction -> Dropped(parentMenu[a], a)
         [] parentMenu[a] = NoAction /\ a \in Members(bar) -> Unlisted(a)
         [] OTHER -> UNCHANGED <<bar, entries, parentMenu, parentWindow, strip, popup>>
    /\ emptied' = (emptied /\ (a \in MenusMade => entries[a] = <<>>))
    /\ UNCHANGED action

\* The native menus the user can open, and the entries to choose from in them.
Open == Walk([m \in MenusMade |-> {n \in Attached[m] :
                 \E i \in DOMAIN popup[m] : popup[m][i].of = n /\ popup[m][i].enabled}],
             Members(strip))

\* The user chooses an entry.  WM_COMMAND has a case for Item and CheckItem
\* (pCheckItem::onToggle) and none for RadioItem.
Choose(a) ==
    /\ a \notin MenusMade
    /\ \E m \in Open : \E i \in DOMAIN popup[m] : popup[m][i].of = a /\ popup[m][i].enabled
    /\ picked' = a
    /\ IF a \in ChecksMade THEN CheckItem(a, ~action[a].checked)
       ELSE UNCHANGED <<actions, bar, entries, action, parentMenu, parentWindow, strip, popup, emptied>>

MenuNext ==
    \/ /\ Calls
       /\ \/ \E m \in MenusMade : AppendMenu(m) \/ RemoveMenu(m)
          \/ \E m \in MenusMade, a \in Actions : AppendAction(m, a) \/ RemoveAction(m, a)
          \/ \E a \in Actions : SetActionEnabled(a) \/ SetActionVisible(a) \/ Destroy(a) \/ CheckRadio(a)
          \/ \E c \in ChecksMade, on \in BOOLEAN : CheckItem(c, on)
    \/ \E a \in Actions : Choose(a)

MenuSpec == MenuInit /\ [][MenuNext]_menuVars

-----------------------------------------------------------------------------
\* Every variable has its type.
MenuTypeOK ==
    /\ actions \subseteq Actions /\ parentWindow \subseteq Actions
    /\ Members(bar) \union Members(strip) \subseteq MenusMade
    /\ \A m \in MenusMade : /\ Members(entries[m]) \subseteq Actions
                            /\ popup[m] \in Seq([of : Actions, enabled : BOOLEAN, ticked : BOOLEAN])
    /\ action \in [Actions -> [enabled : BOOLEAN, visible : BOOLEAN, checked : BOOLEAN]]
    /\ parentMenu \in [Actions -> Actions \union {NoAction}]
    /\ picked \in Actions \union {NoAction} /\ emptied \in BOOLEAN

\* The user sees the state: the visible menus of the window in the bar, and in each of
\* them and of those below the visible actions, in order, enabled and checked as they are,
\* whatever was appended, hidden, removed and put elsewhere before it came there.
MenuShown ==
    /\ strip = Kept(bar, VisibleActions(action))
    /\ \A m \in Walk(Visible(entries, action), Members(strip)) : popup[m] = Made(m, entries, action)

\* Nothing that is destroyed is in a menu or in the bar, so an update walks over live
\* actions; and if menus are emptied before they are destroyed, each action knows the
\* menu it is in and no other, which is what its destructor goes by.
NothingDead ==
    /\ Members(bar) \subseteq actions
    /\ \A m \in MenusMade \intersect actions : Members(entries[m]) \subseteq actions
    /\ emptied => \A a \in actions, m \in MenusMade :
                    parentMenu[a] = m <=> m \in actions /\ a \in Members(entries[m])

\* A radio item the user chooses is checked then, as pRadioItem::onActivate would see to.
ChosenChecked == picked \in RadiosMade => action[picked].checked
=============================================================================
