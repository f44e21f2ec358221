---------------------------- MODULE SizableTree -----------------------------
(***************************************************************************)
(* The tree of sizables of one window: phoenix/core/core.cpp (Window,      *)
(* Sizable, Layout, Widget, Frame, TabFrame), phoenix/core/layout/ and the *)
(* native windows of phoenix/windows/window.cpp and windows/widget/.       *)
(*                                                                         *)
(* A layout lists its children, a Frame or TabFrame (a holder) has one     *)
(* content layout, and the window registers the layouts and, in a flat     *)
(* list, every widget below them.  A widget's HWND is destroyed and made   *)
(* again whenever it is registered or unregistered.  Geometry, enabling    *)
(* (which recurses exactly as visibility does) and fonts are left out; a   *)
(* TabFrame has one tab.                                                   *)
(***************************************************************************)
EXTENDS Closures, FiniteSets

CONSTANTS
    Boxes,      \* horizontal and vertical layouts
    Fixed,      \* fixed layouts
    Plain,      \* widgets that hold nothing
    Frames,
    TabFrames,
    None,       \* the null pointer, and the parent HWND of unregistered widgets
    TheWindow,  \* the HWND of the window
    Lost        \* a parent HWND that has been destroyed

Layouts  == Boxes \union Fixed
Holders  == Frames \union TabFrames
Widgets  == Plain \union Holders
Sizables == Layouts \union Widgets
Hosts    == TabFrames \union {None, TheWindow, Lost}

ASSUME TreeAssumption ==
    /\ Layouts \intersect Widgets = {} /\ Boxes \intersect Fixed = {}
    /\ Plain \intersect Holders = {} /\ Frames \intersect TabFrames = {}
    /\ None \notin Sizables /\ TheWindow \notin Sizables /\ Lost \notin Sizables
    /\ None # TheWindow /\ None # Lost /\ TheWindow # Lost

VARIABLES
    alive,      \* the sizables constructed and not destroyed
    parent,     \* Sizable::state.parent
    window,     \* whether Sizable::state.window is the window or null
    visible,    \* Sizable::state.visible
    children,   \* the children of each layout
    content,    \* Frame::state.layout and TabFrame::state.layout[0]
    roots,      \* Window::state.layout
    registered, \* Window::state.widget
    made,       \* whether the widget's HWND exists
    host,       \* pWidget::parentHwnd
    shown,      \* whether the HWND has been shown
    single,     \* history: the program has held each sizable in one place
    tidy        \* history: and has emptied each subtree before taking it out

core == <<alive, parent, window, children, content, roots, registered>>
native == <<visible, made, host, shown>>
vars == <<core, native, single, tidy>>

Init ==
    /\ alive = Sizables
    /\ parent = [s \in Sizables |-> None]
    /\ window = [s \in Sizables |-> FALSE]
    /\ visible = [s \in Sizables |-> TRUE]
    /\ children = [l \in Layouts |-> {}]
    /\ content = [f \in Holders |-> None]
    /\ roots = {}
    /\ registered = {}
    /\ made = [x \in Widgets |-> TRUE]
    /\ host = [x \in Widgets |-> None]
    /\ shown = [x \in Widgets |-> FALSE]
    /\ single = TRUE
    /\ tidy = TRUE

-----------------------------------------------------------------------------
\* What is directly below a sizable.
Kids(ch, ct) ==
    [s \in Sizables |-> IF s \in Layouts THEN ch[s] ELSE
                        IF s \in Holders THEN {ct[s]} \ {None} ELSE {}]

\* s and the sizables above it.
Ancestors(par, s) == Closure([y \in Sizables |-> {par[y]} \ {None}], {s})

\* Sizable::visibleToAll.
VisibleToAll(par, vis, s) == \A a \in Ancestors(par, s) : vis[a]

\* Mutant of NearestHost: the content layout below the TabFrame, which is
\* what GetParentWidgetLayout returns, is taken for it.
NearestLayout(par, x) ==
    LET below == {l \in Ancestors(par, x) : par[l] \in TabFrames}
    IN  IF below = {} THEN TheWindow ELSE CHOOSE l \in below : TRUE

\* Mutant of NearestHost: tabs are not asked for.
AlwaysWindow(par, x) == TheWindow

\* GetParentWidget, then pWindow::append: the HWND to put x in is that of the
\* nearest TabFrame above x, or else the window's.
NearestHost(par, x) ==
    LET tabs == (Ancestors(par, x) \ {x}) \intersect TabFrames
        nearest == {t \in tabs : tabs \subseteq Ancestors(par, t)}
    IN  IF nearest = {} THEN TheWindow ELSE CHOOSE t \in nearest : TRUE

\* x and the TabFrames whose HWNDs x is inside of.
HostChain(hst, x) ==
    Closure([y \in Widgets |-> {hst[y]} \intersect TabFrames], {x})

\* Mutant of Orphan: constructors do not end in synchronize.
OrphanHidden(X, par, hst, ch, ct) ==
    /\ host' = hst
    /\ made' = [y \in Widgets |-> y \in X \/ made[y]]
    /\ shown' = [y \in Widgets |-> shown[y] /\ y \notin X]
    /\ UNCHANGED visible

\* pWidget::orphan of the widgets X, whose parents are par and whose parent
\* HWNDs are hst: each HWND is destroyed, and the HWNDs inside it with it, and
\* made again in its parent, if that still exists.  The constructor of a
\* TabFrame shows the content of its selected tab whatever it was, and ends,
\* like every constructor, in synchronize, which applies visibility to the
\* widget and to all below it.
Orphan(X, par, hst, ch, ct) ==
    LET tabs == X \intersect TabFrames
        killed == {y \in Widgets \ X : HostChain(host, y) \intersect tabs # {}}
        hst2 == [y \in Widgets |-> IF y \in killed THEN Lost ELSE hst[y]]
        alive2(y) == y \in X \/ (made[y] /\ y \notin killed)
        made2 == [y \in Widgets |->
                    /\ alive2(y)
                    /\ y \in X => \A z \in HostChain(hst2, y) :
                                      alive2(z) /\ hst2[z] # Lost]
        vis2 == [s \in Sizables |->
                    visible[s] \/ \E t \in tabs : ct[t] = s]
        seen == Closure(Kids(ch, ct), X)
    IN  /\ host' = hst2
        /\ made' = made2
        /\ visible' = vis2
        /\ shown' = [y \in Widgets |->
             /\ made2[y]
             /\ IF y \in seen THEN par[y] # None /\ VisibleToAll(par, vis2, y)
                              ELSE shown[y]]

-----------------------------------------------------------------------------
\* Mutant of Visited: Frame and TabFrame do not override synchronizeLayout.
VisitedLayouts(l, win, ch, ct) ==
    Closure([s \in Sizables |-> IF s \in Layouts THEN ch[s] ELSE {}], {l})

\* The sizables that synchronizeLayout of l visits when the layout tree is ch
\* and ct: the children of each layout, and the content of each holder that
\* Window::append registers on the way.
Visited(l, win, ch, ct) ==
    Closure([s \in Sizables |->
               IF s \in Layouts \/ (win /\ s \notin registered)
               THEN Kids(ch, ct)[s] ELSE {}], {l})

\* Who gives s its parent when the layouts `visited' are walked: each that lists
\* s does, the one that has just come to list it last.
Lister(s, visited, ch, ct) ==
    LET listers == {p \in visited : s \in Kids(ch, ct)[p]}
        fresh == {p \in listers : s \notin Kids(children, content)[p]}
    IN  CHOOSE p \in listers : fresh = {} \/ p \in fresh

\* synchronizeLayout of the layout l, itself put below `above' and in the
\* window or not: each visited sizable gets its parent and window, and each
\* widget not yet registered is registered and its HWND re-created there.
Synchronize(l, above, win, ch, ct) ==
    LET visited == Visited(l, win, ch, ct)
        par == [s \in Sizables |->
                  IF s = l THEN above
                  ELSE IF s \in visited THEN Lister(s, visited, ch, ct)
                  ELSE parent[s]]
        new == IF win THEN (visited \intersect Widgets) \ registered ELSE {}
    IN  /\ parent' = par
        /\ window' = [s \in Sizables |-> IF s \in visited THEN win ELSE window[s]]
        /\ registered' = registered \union new
        /\ Orphan(new, par,
                  [x \in Widgets |-> IF x \in new THEN NearestHost(par, x) ELSE host[x]],
                  ch, ct)

\* A sizable that nobody holds.  No append asks for it.
Free(s) == parent[s] = None /\ s \notin roots

\* No walk from s meets a destroyed object.
Living(s) == Closure(Kids(children, content), Ancestors(parent, s)) \subseteq alive

\* The bound on misuse: with a sizable in two places, layouts are appended to
\* and taken apart no further.
Sound(s) == single /\ Living(s)

\* What the program keeps to, it has kept to so far.
Noted(rule) == single' = (single /\ rule) /\ tidy' = (tidy /\ rule)

-----------------------------------------------------------------------------
\* Window::append(Layout&): only the window's own list is searched.
WindowAppend(l) ==
    /\ l \in alive /\ l \notin roots /\ Sound(l)
    /\ Noted(Free(l))
    /\ roots' = roots \union {l}
    /\ Synchronize(l, None, TRUE, children, content)
    /\ UNCHANGED <<alive, children, content>>

\* Window::remove(Layout&): only the layout itself hears of it.
WindowRemove(l) ==
    /\ l \in roots
    /\ tidy' = (tidy /\ children[l] = {})
    /\ roots' = roots \ {l}
    /\ window' = [window EXCEPT ![l] = FALSE]
    /\ UNCHANGED <<alive, parent, children, content, registered, native, single>>

\* append of a layout l: the new child is listed, then every child of l is
\* appended again.  A box searches its own list first, a fixed layout not even
\* that; what is above l cannot go below it, the walk would not end.
Append(l, s) ==
    /\ {l, s} \subseteq alive /\ s \notin Ancestors(parent, l)
    /\ l \in Boxes => s \notin children[l]
    /\ Sound(l) /\ Sound(s)
    /\ Noted(Free(s))
    /\ LET ch == [children EXCEPT ![l] = @ \union {s}]
       IN  /\ children' = ch
           /\ Synchronize(l, parent[l], window[l], ch, content)
    /\ UNCHANGED <<alive, content, roots>>

\* Frame::setLayout and TabFrame::setLayout, which forget what was there.
SetLayout(f, l) ==
    /\ {f, l} \subseteq alive /\ l \notin Ancestors(parent, f)
    /\ Sound(f) /\ Sound(l)
    /\ Noted(Free(l) /\ content[f] = None)
    /\ content' = [content EXCEPT ![f] = l]
    /\ Synchronize(l, f, window[f], children, content')
    /\ UNCHANGED <<alive, children, roots>>

-----------------------------------------------------------------------------
\* The widgets that reset of the layouts ls unregisters: those directly in a
\* layout that still has a window, down the nested box layouts.
ResetWidgets(ls) ==
    LET walked == Closure([s \in Sizables |->
                    IF s \in Boxes /\ window[s] THEN children[s] \intersect Layouts ELSE {}], ls)
    IN  {x \in registered : \E l \in walked \intersect Layouts : window[l] /\ x \in children[l]}

\* The widgets that remove of the children S of the layout l unregisters: S
\* themselves, and what the box layouts among S reset if l is a box.
Dismissed(l, S) ==
    (IF l \in Boxes THEN ResetWidgets(S \intersect Layouts) ELSE {})
      \union {x \in S \intersect registered : window[x]}

\* Mutant of Detach: Window::remove leaves the widget's window.
DetachKeepsWindow(S, out) ==
    /\ registered' = registered \ out
    /\ window' = [s \in Sizables |-> window[s] /\ s \notin S]
    /\ parent' = [s \in Sizables |-> IF s \in S THEN None ELSE parent[s]]
    /\ Orphan(out, parent, host, children, content)

\* Mutant of Detach: Layout::remove leaves the child's parent.
DetachKeepsParent(S, out) ==
    /\ registered' = registered \ out
    /\ window' = [s \in Sizables |-> window[s] /\ s \notin S \union out]
    /\ Orphan(out, parent, host, children, content)
    /\ UNCHANGED parent

\* Layout::remove of S and Window::remove of the widgets out: these lose the
\* window and S parent and window.  Layouts nested below S keep their window.
Detach(S, out) ==
    /\ registered' = registered \ out
    /\ window' = [s \in Sizables |-> window[s] /\ s \notin S \union out]
    /\ parent' = [s \in Sizables |-> IF s \in S THEN None ELSE parent[s]]
    /\ Orphan(out, parent, host, children, content)

\* What tidy clients take out of a layout: widgets that hold nothing, layouts
\* with neither nested layouts nor filled holders; from a fixed layout, which
\* does not reset what it lets go, empty layouts only.
Emptied(l, s) ==
    /\ s \in Holders => content[s] = None
    /\ s \in Layouts => /\ children[s] \intersect Layouts = {}
                        /\ \A f \in children[s] \intersect Holders : content[f] = None
                        /\ l \in Fixed => children[s] = {}

\* remove of a layout.
Remove(l, s) ==
    /\ l \in alive /\ s \in children[l]
    /\ Sound(l)
    /\ tidy' = (tidy /\ Emptied(l, s))
    /\ children' = [children EXCEPT ![l] = @ \ {s}]
    /\ Detach({s}, Dismissed(l, {s}))
    /\ UNCHANGED <<alive, content, roots, single>>

\* The destructor of a layout lets go its children, then leaves its own layout
\* (as a plain Layout by then, with nothing to reset) or the window.
DestroyLayout(l) ==
    /\ l \in alive /\ parent[l] \notin Holders
    /\ Sound(l)
    /\ tidy' = (tidy /\ parent[l] = None /\ \A s \in children[l] : Emptied(l, s))
    /\ alive' = alive \ {l}
    /\ roots' = roots \ {l}
    /\ children' = [m \in Layouts |-> IF m = l THEN {} ELSE children[m] \ {l}]
    /\ Detach(children[l] \union {l}, Dismissed(l, children[l]))
    /\ UNCHANGED <<content, single>>

\* The destructor of a widget: its HWND goes, and ~Sizable leaves the layout,
\* but is no longer a Widget then, so the window keeps it in its list.
DestroyWidget(x) ==
    /\ x \in alive /\ x \in Plain
    /\ Sound(x)
    /\ tidy' = (tidy /\ parent[x] = None)
    /\ alive' = alive \ {x}
    /\ children' = [l \in Layouts |-> children[l] \ {x}]
    /\ parent' = [parent EXCEPT ![x] = None]
    /\ window' = [window EXCEPT ![x] = FALSE]
    /\ made' = [made EXCEPT ![x] = FALSE]
    /\ shown' = [shown EXCEPT ![x] = FALSE]
    /\ UNCHANGED <<content, roots, registered, visible, host, single>>

\* A widget constructed at an address that was freed.
NewWidget(x) ==
    /\ x \notin alive /\ x \in Plain
    /\ alive' = alive \union {x}
    /\ made' = [made EXCEPT ![x] = TRUE]
    /\ host' = [host EXCEPT ![x] = None]
    /\ visible' = [visible EXCEPT ![x] = TRUE]
    /\ UNCHANGED <<parent, window, children, content, roots, registered, shown, single, tidy>>

\* setVisible: layouts and holders pass it on to all below them; each widget
\* is shown when it has a parent and everything above it is visible.
SetVisible(s, v) ==
    /\ s \in alive /\ Living(s)
    /\ visible' = [visible EXCEPT ![s] = v]
    /\ shown' = [x \in Widgets |->
         IF x \in Closure(Kids(children, content), {s})
         THEN made[x] /\ parent[x] # None /\ VisibleToAll(parent, visible', x)
         ELSE shown[x]]
    /\ UNCHANGED <<core, made, host, single, tidy>>

Next ==
    \/ \E l \in Layouts : WindowAppend(l) \/ WindowRemove(l) \/ DestroyLayout(l)
    \/ \E l \in Layouts, s \in Sizables : Append(l, s) \/ Remove(l, s)
    \/ \E f \in Holders, l \in Layouts : SetLayout(f, l)
    \/ \E x \in Plain : DestroyWidget(x) \/ NewWidget(x)
    \/ \E s \in Sizables, v \in BOOLEAN : SetVisible(s, v)

Spec == Init /\ [][Next]_vars

-----------------------------------------------------------------------------
\* Every variable has its type.
TypeOK ==
    /\ alive \subseteq Sizables
    /\ parent \in [Sizables -> Layouts \union Holders \union {None}]
    /\ window \in [Sizables -> BOOLEAN]
    /\ visible \in [Sizables -> BOOLEAN]
    /\ children \in [Layouts -> SUBSET Sizables]
    /\ content \in [Holders -> Layouts \union {None}]
    /\ roots \subseteq Layouts
    /\ registered \subseteq Widgets
    /\ made \in [Widgets -> BOOLEAN]
    /\ host \in [Widgets -> Hosts]
    /\ shown \in [Widgets -> BOOLEAN]
    /\ single \in BOOLEAN
    /\ tidy \in BOOLEAN

\* What a layout lists has it as parent, and what has a layout as parent is
\* listed there.
Listed == \A l \in Layouts, s \in Sizables : s \in children[l] <=> parent[s] = l

\* Children and parents agree for every program that puts a sizable in one
\* place at a time, whatever it takes out and destroys, freed and reused
\* addresses included: what is taken out is forgotten on both sides.
ParentsAgree == single => Listed

\* A sizable is in the window exactly when what holds it is.
Inherited ==
    \A s \in Sizables : window[s] <=> IF parent[s] # None THEN window[parent[s]]
                                      ELSE s \in roots

\* The window's flat list is exactly the widgets that say they are in it.
Flat == registered = {x \in Widgets : window[x]}

\* With tidy clients a sizable is in the window exactly when what holds it
\* is: appending, removing and re-appending subtrees leaves no part behind.
WindowInherited == tidy => Inherited

\* With tidy clients the window's flat list is exactly the widgets that say
\* they are in it.
Registered == tidy => Flat

\* With tidy clients each registered widget has its HWND inside that of the nearest TabFrame
\* above it, or else inside the window's.
Hosted ==
    tidy => \A x \in registered :
      LET tabs == (Ancestors(parent, x) \ {x}) \intersect TabFrames
      IN  /\ made[x]
          /\ tabs = {} => host[x] = TheWindow
          /\ tabs # {} => host[x] \in tabs /\ tabs \subseteq Ancestors(parent, host[x])

\* With tidy clients each registered widget is shown exactly when it and all above it are
\* visible, whatever the order in which the tree was built and shown.
ShownAsVisible ==
    tidy => \A x \in registered : shown[x] <=> VisibleToAll(parent, visible, x)
=============================================================================
