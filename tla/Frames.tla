------------------------------- MODULE Frames -------------------------------
(***************************************************************************)
(* The frame of a window: its geometry, full screen, border, menu bar and  *)
(* status bar (phoenix/core/core.cpp, Window) over the Windows backend     *)
(* (phoenix/windows/window.cpp).  The object keeps the geometry of the     *)
(* client area; the native window has an outer one, and what lies between  *)
(* depends on its style, its menu bar and its status bar.                  *)
(*                                                                         *)
(* A geometry is its height here: menu bar and status bar add to it, and   *)
(* borders as they do on every side.  Native windows are external:         *)
(* SetWindowLongPtr sets the whole style, WS_VISIBLE with it.              *)
(***************************************************************************)
EXTENDS Integers

CONSTANTS
    Heights,                    \* the client heights programs and users ask for
    Screen,                     \* the height of the screen
    Thin, Thick,                \* what fixed and resizable borders add to the client area
    MenuBar, StatusBar          \* what these add

Styles == {"fixed", "resizable", "popup"}

ASSUME FrameAssumption ==
    /\ Heights \subseteq Nat /\ Heights # {} /\ Screen \in Nat
    /\ {Thin, Thick, MenuBar, StatusBar} \subseteq Nat

VARIABLES
    window,     \* state: geometry, fullScreen, resizable, menuVisible, statusVisible, visible
    hwnd,       \* the native window: outer height, style, whether it has a menu bar and
                \* a status bar, whether it is shown
    asked,      \* history: the height last asked for, by the program or by the user
    steady      \* history: the program has kept to the rules of this module

frameVars == <<window, hwnd, asked, steady>>

FrameInit ==
    /\ asked \in Heights
    /\ window = [geometry |-> asked, fullScreen |-> FALSE, resizable |-> TRUE,
                 menuVisible |-> FALSE, statusVisible |-> FALSE, visible |-> FALSE]
    /\ hwnd = [outer |-> asked + Thick, style |-> "resizable",
               menu |-> FALSE, status |-> FALSE, shown |-> FALSE]
    /\ steady = TRUE

-----------------------------------------------------------------------------
\* What a menu bar and a status bar take.
Bars(menu, status) == (IF menu THEN MenuBar ELSE 0) + (IF status THEN StatusBar ELSE 0)

Border(style) == CASE style = "fixed" -> Thin [] style = "resizable" -> Thick [] OTHER -> 0

\* The style the state asks for outside of full screen, and pWindow::frameMargin.
Style(w) == IF w.resizable THEN "resizable" ELSE "fixed"
FrameMargin(w) ==
    (IF w.fullScreen THEN 0 ELSE Border(Style(w))) + Bars(w.menuVisible, w.statusVisible)

\* The height the native window has for its layouts, and what pWindow::geometry takes it for.
Client(n) == n.outer - Border(n.style) - Bars(n.menu, n.status)
Geometry(w, n) == n.outer - FrameMargin(w)

\* Mutant of Heard: the lock is not looked at.
HeardLocked(w, n, locked) == [w EXCEPT !.geometry = Geometry(w, n)]

\* The state after WM_SIZE: pWindow::onSize
Heard(w, n, locked) == IF locked THEN w ELSE [w EXCEPT !.geometry = Geometry(w, n)]

\* The native window after pWindow::setGeometry, which is locked.
Outer(w, n, h) == [n EXCEPT !.outer = h + FrameMargin(w)]

\* A call of the program, by the rules if r.  In full screen it calls for nothing but an
\* end of that: all else goes by the geometry outside of it.
Request(r) == steady' = (steady /\ r)
Windowed == ~window.fullScreen

\* Window::setGeometry
SetGeometry(h) ==
    /\ window' = [window EXCEPT !.geometry = h]
    /\ hwnd' = Outer(window', hwnd, h)
    /\ asked' = h /\ Request(Windowed)

\* Window::synchronizeLayout, after any change in the layouts of the window.
Resized(w, n) == IF w.visible THEN [w EXCEPT !.geometry = Geometry(w, n)] ELSE w
ResizedHwnd(w, n) == IF w.visible THEN Outer(w, n, Geometry(w, n)) ELSE n

SynchronizeLayout ==
    /\ window' = Resized(window, hwnd)
    /\ hwnd' = ResizedHwnd(window, hwnd)
    /\ UNCHANGED asked /\ Request(Windowed)

\* Window::setVisible: a window that is shown for the first time gets WM_SIZE.
ShowFrame(on) ==
    LET w == [window EXCEPT !.visible = on]
        n == ResizedHwnd(w, hwnd)
    IN  /\ \/ window' = Resized(w, hwnd)
           \/ on /\ window' = Heard(Resized(w, hwnd), n, FALSE)
        /\ hwnd' = [n EXCEPT !.shown = on]
        /\ UNCHANGED asked /\ Request(Windowed)

\* Window::setMenuVisible: SetMenu changes the client area at once, and WM_SIZE tells of it.
SetMenuVisible(on) ==
    LET w == [window EXCEPT !.menuVisible = on]
        n == [hwnd EXCEPT !.menu = on]
    IN  /\ window' = Heard(w, n, TRUE)
        /\ hwnd' = Outer(w, n, window'.geometry)
        /\ UNCHANGED asked /\ Request(Windowed)

\* Window::setStatusVisible
SetStatusVisible(on) ==
    /\ window' = [window EXCEPT !.statusVisible = on]
    /\ hwnd' = Outer(window', [hwnd EXCEPT !.status = on], window.geometry)
    /\ UNCHANGED asked /\ Request(Windowed)

\* Window::setResizable: the new style is without WS_VISIBLE.
SetResizable(on) ==
    /\ window' = [window EXCEPT !.resizable = on]
    /\ hwnd' = Outer(window', [hwnd EXCEPT !.style = Style(window'), !.shown = FALSE],
                      window.geometry)
    /\ UNCHANGED asked /\ Request(Windowed /\ ~window.visible)

\* Mutant of SetFullScreen: the margin is taken before the state says full screen.
SetFullScreenEarly(on) ==
    LET w == [window EXCEPT !.fullScreen = on]
        h == IF on THEN Screen - FrameMargin(window) ELSE window.geometry
    IN  /\ window' = w
        /\ hwnd' = Outer(w, [hwnd EXCEPT !.style = IF on THEN "popup" ELSE Style(w),
                                          !.shown = TRUE], h)
        /\ UNCHANGED asked /\ Request(window.visible)

\* Window::setFullScreen: the new style has WS_VISIBLE.
SetFullScreen(on) ==
    LET w == [window EXCEPT !.fullScreen = on]
        h == IF on THEN Screen - FrameMargin(w) ELSE window.geometry
    IN  /\ window' = w
        /\ hwnd' = Outer(w, [hwnd EXCEPT !.style = IF on THEN "popup" ELSE Style(w),
                                          !.shown = TRUE], h)
        /\ UNCHANGED asked /\ Request(window.visible)

\* The user drags the border: WM_SIZE
Resize(h) ==
    /\ hwnd.shown /\ hwnd.style = "resizable"
    /\ hwnd' = [hwnd EXCEPT !.outer = @ - Client(hwnd) + h]
    /\ window' = Heard(window, hwnd', FALSE)
    /\ asked' = h
    /\ UNCHANGED steady

FrameNext ==
    \/ \E h \in Heights : SetGeometry(h) \/ Resize(h)
    \/ \E on \in BOOLEAN : \/ ShowFrame(on) \/ SetMenuVisible(on) \/ SetStatusVisible(on)
                           \/ SetResizable(on) \/ SetFullScreen(on)
    \/ SynchronizeLayout

FrameSpec == FrameInit /\ [][FrameNext]_frameVars

-----------------------------------------------------------------------------
\* The states of a window and of a native one.
FrameStates == [geometry : Int, fullScreen : BOOLEAN, resizable : BOOLEAN,
                menuVisible : BOOLEAN, statusVisible : BOOLEAN, visible : BOOLEAN]
Hwnds == [outer : Int, style : Styles, menu : BOOLEAN, status : BOOLEAN, shown : BOOLEAN]

\* Every variable has its type.
FrameTypeOK ==
    /\ window \in FrameStates /\ hwnd \in Hwnds
    /\ asked \in Heights /\ steady \in BOOLEAN

\* If the program keeps to the rules, the native window is what the state says: shown when
\* visible, with its bars, and outside of full screen with its style and a client area of
\* its geometry; in full screen it covers the screen.
FrameAgrees ==
    steady => /\ hwnd.shown = window.visible
              /\ hwnd.menu = window.menuVisible /\ hwnd.status = window.statusVisible
              /\ IF window.fullScreen THEN hwnd.style = "popup" /\ hwnd.outer = Screen
                 ELSE hwnd.style = Style(window) /\ Client(hwnd) = window.geometry

\* And bars, borders and full screen come and go without a change of the client area that
\* somebody asked for: it is there again after them.
AsAsked == steady => window.geometry = asked
=============================================================================
