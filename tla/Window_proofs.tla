---------------------------- MODULE Window_proofs ---------------------------
(***************************************************************************)
(* Proofs about a window: its frame (Frames), its menus (Menus), the box   *)
(* layouts in it (Boxes), and the loops it waits in (ModalLoop).           *)
(*                                                                         *)
(* The frame: for every set of heights, every screen and every border and  *)
(* bar, the native window agrees with the state, and its client area is    *)
(* the one last asked for.  The two go together: what a call makes of the  *)
(* client area it computes from the outer one, so it leaves the height     *)
(* that was asked for only where the windows agree already.                *)
(*                                                                         *)
(* The menus: for every set of menus and items, the native menus show the  *)
(* state, and nothing destroyed is in one.  A call that does not update    *)
(* the window has to concern nothing that is on screen: that is because    *)
(* every action that an update would come by, visible or not, knows the    *)
(* window (Known).  A mark goes to one native menu: that is because every  *)
(* action is in one place and knows it (OnePlace).                         *)
(*                                                                         *)
(* The box layouts: for every number of children of any sizes whose sums   *)
(* do not overflow, the places are inside of the margin, in order and      *)
(* large enough.  That is arithmetic of sums over the children (Total),    *)
(* each by induction over how many of them there are (LeastOutside).       *)
(*                                                                         *)
(* The modal loops: for any number of windows and any depth, each modal    *)
(* window is listed and has its loop, and a careful program does not wait  *)
(* for a window nobody can close: one that is hidden is about to be let go *)
(* of (HiddenClosing).  The fairness of Spec, ModalLoop's, is not needed.  *)
(***************************************************************************)
EXTENDS Frames, Menus, Boxes, ModalLoop, SequenceTheorems, WellFoundedInduction, TLAPS

\* The invariant: each of the two parts needs the other.
FrameInv == FrameTypeOK /\ FrameAgrees /\ AsAsked

\* Margins, borders and bars are numbers.
LEMMA BorderNumbers ==
  /\ \A h \in Heights : h \in Int
  /\ Screen \in Int
  /\ \A s \in Styles : Border(s) \in Int
  /\ \A m, b \in BOOLEAN : Bars(m, b) \in Int
  /\ \A w \in FrameStates : FrameMargin(w) \in Int /\ Style(w) \in Styles
<1>1. /\ Thin \in Int /\ Thick \in Int /\ MenuBar \in Int /\ StatusBar \in Int
      /\ Screen \in Int /\ \A h \in Heights : h \in Int
  BY FrameAssumption
<1>2. \A s \in Styles : Border(s) \in Int
  BY <1>1 DEF Border, Styles
<1>3. \A m, b \in BOOLEAN : Bars(m, b) \in Int
  BY <1>1 DEF Bars
<1>4. ASSUME NEW w \in FrameStates PROVE FrameMargin(w) \in Int /\ Style(w) \in Styles
  <2>1. Style(w) \in Styles
    BY DEF Style, Styles
  <2>2. w.menuVisible \in BOOLEAN /\ w.statusVisible \in BOOLEAN
    BY DEF FrameStates
  <2> QED
    BY <1>2, <1>3, <2>1, <2>2 DEF FrameMargin
<1> QED
  BY <1>1, <1>2, <1>3, <1>4

\* The operators the calls are made of return states and native windows.
LEMMA Parts ==
  ASSUME NEW w \in FrameStates, NEW n \in Hwnds
  PROVE  /\ Geometry(w, n) \in Int /\ Client(n) \in Int
         /\ \A b \in BOOLEAN : Heard(w, n, b) \in FrameStates
         /\ \A h \in Int : Outer(w, n, h) \in Hwnds
         /\ Resized(w, n) \in FrameStates /\ ResizedHwnd(w, n) \in Hwnds
<1>1. Geometry(w, n) \in Int
  BY BorderNumbers DEF Geometry, Hwnds
<1>2. Client(n) \in Int
  <2>1. n.outer \in Int /\ n.style \in Styles /\ n.menu \in BOOLEAN /\ n.status \in BOOLEAN
    BY DEF Hwnds
  <2> QED
    BY <2>1, BorderNumbers DEF Client
<1>3. [w EXCEPT !.geometry = Geometry(w, n)] \in FrameStates
  BY <1>1 DEF FrameStates
<1>4. ASSUME NEW h \in Int PROVE Outer(w, n, h) \in Hwnds
  <2>1. h + FrameMargin(w) \in Int
    BY BorderNumbers
  <2> QED
    BY <2>1 DEF Outer, Hwnds
<1> QED
  BY <1>1, <1>2, <1>3, <1>4 DEF Heard, Resized, ResizedHwnd

\* Where the two agree outside of full screen, the geometry the backend reads
\* off the native window is the state's.
LEMMA ReadsBack ==
  ASSUME FrameInv, steady, Windowed
  PROVE  /\ Geometry(window, hwnd) = window.geometry
         /\ hwnd.outer = window.geometry + FrameMargin(window)
<1>1. /\ hwnd.style = Style(window) /\ hwnd.menu = window.menuVisible
      /\ hwnd.status = window.statusVisible /\ Client(hwnd) = window.geometry
      /\ window.fullScreen = FALSE
  BY DEF FrameInv, FrameAgrees, FrameTypeOK, FrameStates, Windowed
<1>2. FrameMargin(window) = Border(hwnd.style) + Bars(hwnd.menu, hwnd.status)
  BY <1>1 DEF FrameMargin
<1>3. /\ Border(hwnd.style) \in Int /\ Bars(hwnd.menu, hwnd.status) \in Int
      /\ hwnd.outer \in Int /\ window.geometry \in Int
  BY BorderNumbers DEF FrameInv, FrameTypeOK, FrameStates, Hwnds
<1> QED
  BY <1>1, <1>2, <1>3 DEF Client, Geometry

\* A program's call that comes with the rules kept, in a windowed state, and
\* that makes the native window anew from the state.
LEMMA Rebuilt ==
  ASSUME FrameTypeOK', window'.fullScreen = FALSE,
         hwnd'.style = Style(window'), hwnd'.menu = window'.menuVisible,
         hwnd'.status = window'.statusVisible, hwnd'.shown = window'.visible,
         hwnd'.outer = window'.geometry + FrameMargin(window')
  PROVE  FrameAgrees'
<1>1. FrameMargin(window') = Border(hwnd'.style) + Bars(hwnd'.menu, hwnd'.status)
  BY DEF FrameMargin
<1>2. /\ Border(hwnd'.style) \in Int /\ Bars(hwnd'.menu, hwnd'.status) \in Int
      /\ window'.geometry \in Int
  BY BorderNumbers DEF FrameTypeOK, FrameStates, Hwnds
<1>3. Client(hwnd') = window'.geometry
  BY <1>1, <1>2 DEF Client
<1> QED
  BY <1>3 DEF FrameAgrees

\* Every step keeps the types.
LEMMA FrameTypes ==
  ASSUME FrameTypeOK, [FrameNext]_frameVars
  PROVE  FrameTypeOK'
<1> USE DEF FrameTypeOK
<1>1. ASSUME NEW h \in Heights, SetGeometry(h) PROVE FrameTypeOK'
  <2>1. window' \in FrameStates
    BY <1>1, BorderNumbers DEF SetGeometry, FrameStates
  <2> QED
    BY <1>1, <2>1, BorderNumbers, Parts DEF SetGeometry, Request, Windowed
<1>2. ASSUME NEW h \in Heights, Resize(h) PROVE FrameTypeOK'
  <2>1. hwnd.outer - Client(hwnd) + h \in Int
    BY BorderNumbers, Parts DEF Hwnds
  <2>2. hwnd' \in Hwnds
    BY <1>2, <2>1 DEF Resize, Hwnds
  <2> QED
    BY <1>2, <2>2, Parts DEF Resize
<1>3. ASSUME NEW on \in BOOLEAN, ShowFrame(on) PROVE FrameTypeOK'
  <2> DEFINE w == [window EXCEPT !.visible = on]
             n == ResizedHwnd(w, hwnd)
  <2>1. w \in FrameStates
    BY DEF FrameStates
  <2>2. Resized(w, hwnd) \in FrameStates /\ n \in Hwnds
    BY <2>1, Parts
  <2>3. Heard(Resized(w, hwnd), n, FALSE) \in FrameStates
    BY <2>2, Parts
  <2> HIDE DEF n
  <2>4. [n EXCEPT !.shown = on] \in Hwnds
    BY <2>2 DEF Hwnds
  <2> QED
    BY <1>3, <2>2, <2>3, <2>4 DEF ShowFrame, Request, Windowed, n
<1>4. ASSUME NEW on \in BOOLEAN, SetMenuVisible(on) PROVE FrameTypeOK'
  <2> DEFINE w == [window EXCEPT !.menuVisible = on]
             n == [hwnd EXCEPT !.menu = on]
  <2>1. w \in FrameStates /\ n \in Hwnds /\ w.geometry \in Int
    BY DEF FrameStates, Hwnds
  <2>2. window' = w /\ hwnd' = Outer(w, n, w.geometry)
    BY <1>4 DEF SetMenuVisible, Heard
  <2> HIDE DEF w, n
  <2>3. Outer(w, n, w.geometry) \in Hwnds
    BY <2>1, Parts
  <2>4. asked' = asked /\ steady' \in BOOLEAN
    BY <1>4 DEF SetMenuVisible, Request, Windowed
  <2> QED
    BY <2>1, <2>2, <2>3, <2>4
<1>5. ASSUME NEW on \in BOOLEAN, SetStatusVisible(on) PROVE FrameTypeOK'
  <2> DEFINE w == [window EXCEPT !.statusVisible = on]
             n == [hwnd EXCEPT !.status = on]
  <2>1. w \in FrameStates /\ n \in Hwnds /\ window.geometry \in Int
    BY DEF FrameStates, Hwnds
  <2>2. window' = w /\ hwnd' = Outer(w, n, window.geometry)
    BY <1>5 DEF SetStatusVisible
  <2> HIDE DEF w, n
  <2>3. Outer(w, n, window.geometry) \in Hwnds
    BY <2>1, Parts
  <2>4. asked' = asked /\ steady' \in BOOLEAN
    BY <1>5 DEF SetStatusVisible, Request, Windowed
  <2> QED
    BY <2>1, <2>2, <2>3, <2>4
<1>6. ASSUME NEW on \in BOOLEAN, SetResizable(on) PROVE FrameTypeOK'
  <2> DEFINE w == [window EXCEPT !.resizable = on]
             n == [hwnd EXCEPT !.style = Style(w), !.shown = FALSE]
  <2>1. w \in FrameStates /\ window.geometry \in Int
    BY DEF FrameStates
  <2>2. n \in Hwnds
    BY <2>1, BorderNumbers DEF Hwnds
  <2>3. window' = w /\ hwnd' = Outer(w, n, window.geometry)
    BY <1>6 DEF SetResizable
  <2> HIDE DEF w, n
  <2>4. Outer(w, n, window.geometry) \in Hwnds
    BY <2>1, <2>2, Parts
  <2>5. asked' = asked /\ steady' \in BOOLEAN
    BY <1>6 DEF SetResizable, Request, Windowed
  <2> QED
    BY <2>1, <2>3, <2>4, <2>5
<1>7. ASSUME NEW on \in BOOLEAN, SetFullScreen(on) PROVE FrameTypeOK'
  <2> DEFINE w == [window EXCEPT !.fullScreen = on]
             n == [hwnd EXCEPT !.style = IF on THEN "popup" ELSE Style(w), !.shown = TRUE]
             h == IF on THEN Screen - FrameMargin(w) ELSE window.geometry
  <2>1. w \in FrameStates /\ window.geometry \in Int
    BY DEF FrameStates
  <2>2. n \in Hwnds
    BY <2>1, BorderNumbers DEF Hwnds, Styles
  <2>3. h \in Int
    BY <2>1, BorderNumbers
  <2>4. window' = w /\ hwnd' = Outer(w, n, h)
    BY <1>7 DEF SetFullScreen
  <2> HIDE DEF w, n, h
  <2>5. hwnd' \in Hwnds
    BY <2>1, <2>2, <2>3, <2>4, Parts
  <2> QED
    BY <1>7, <2>1, <2>4, <2>5 DEF SetFullScreen, Request, FrameStates
<1>8. CASE SynchronizeLayout
  BY <1>8, Parts DEF SynchronizeLayout, Request, Windowed
<1>9. CASE UNCHANGED frameVars
  BY <1>9 DEF frameVars
<1> QED
  BY <1>1, <1>2, <1>3, <1>4, <1>5, <1>6, <1>7, <1>8, <1>9 DEF FrameNext

\* Every step of a program that has kept to the rules leaves the two agreed,
\* and the client area at the height last asked for.
LEMMA FrameSteady ==
  ASSUME FrameInv, FrameTypeOK', steady', [FrameNext]_frameVars
  PROVE  FrameAgrees' /\ AsAsked'
<1> USE DEF FrameInv
<1>0. window \in FrameStates /\ hwnd \in Hwnds /\ window.geometry \in Int
  BY DEF FrameTypeOK, FrameStates
<1>1. ASSUME NEW h \in Heights, SetGeometry(h) PROVE FrameAgrees' /\ AsAsked'
  <2>1. steady /\ Windowed
    BY <1>1 DEF SetGeometry, Request
  <2>2. window' = [window EXCEPT !.geometry = h] /\ hwnd' = [hwnd EXCEPT !.outer = h + FrameMargin(window')]
    BY <1>1 DEF SetGeometry, Outer
  <2>3. FrameAgrees'
    BY <1>0, <2>1, <2>2, Rebuilt DEF FrameAgrees, FrameStates, Hwnds, Windowed, Style
  <2> QED
    BY <1>0, <1>1, <2>2, <2>3 DEF AsAsked, SetGeometry, FrameStates
<1>2. ASSUME NEW h \in Heights, Resize(h) PROVE FrameAgrees' /\ AsAsked'
  <2>1. steady /\ Windowed /\ hwnd.shown /\ hwnd.style = "resizable"
    BY <1>0, <1>2 DEF Resize, FrameAgrees, Windowed
  <2>2. hwnd' = [hwnd EXCEPT !.outer = hwnd.outer - Client(hwnd) + h]
        /\ window' = [window EXCEPT !.geometry = Geometry(window, hwnd')]
    BY <1>2 DEF Resize, Heard
  <2>3. Client(hwnd) = window.geometry /\ hwnd.outer = window.geometry + FrameMargin(window)
    BY <2>1, ReadsBack DEF FrameAgrees, Windowed
  <2>4. FrameMargin(window) \in Int /\ h \in Int
    BY <1>0, BorderNumbers
  <2>5. hwnd'.outer = h + FrameMargin(window)
    BY <1>0, <2>2, <2>3, <2>4 DEF Hwnds
  <2>6. Geometry(window, hwnd') = h
    BY <2>4, <2>5 DEF Geometry
  <2>7. window' = [window EXCEPT !.geometry = h]
    BY <2>2, <2>6
  <2>8. FrameMargin(window') = FrameMargin(window) /\ window'.geometry = h
    BY <1>0, <2>7 DEF FrameMargin, Style, FrameStates
  <2>9. FrameAgrees'
    BY <1>0, <2>1, <2>2, <2>5, <2>7, <2>8, Rebuilt DEF FrameAgrees, FrameStates, Hwnds, Windowed, Style
  <2> QED
    BY <1>2, <2>8, <2>9 DEF AsAsked, Resize
<1>3. ASSUME NEW on \in BOOLEAN, ShowFrame(on) PROVE FrameAgrees' /\ AsAsked'
  <2> DEFINE w == [window EXCEPT !.visible = on]
  <2>1. steady /\ Windowed
    BY <1>3 DEF ShowFrame, Request
  <2>2. FrameMargin(w) = FrameMargin(window) /\ w \in FrameStates /\ w.geometry = window.geometry
    BY <1>0 DEF FrameMargin, Style, FrameStates
  <2>3. Geometry(w, hwnd) = w.geometry /\ hwnd.outer = w.geometry + FrameMargin(w)
    BY <2>1, <2>2, ReadsBack DEF Geometry
  <2>4. Resized(w, hwnd) = w /\ ResizedHwnd(w, hwnd) = hwnd
    BY <1>0, <2>2, <2>3 DEF Resized, ResizedHwnd, Outer, FrameStates, Hwnds
  <2>5. Heard(w, hwnd, FALSE) = w
    BY <1>0, <2>2, <2>3 DEF Heard, FrameStates
  <2> HIDE DEF w
  <2>6. window' = w /\ hwnd' = [hwnd EXCEPT !.shown = on]
    BY <1>3, <2>4, <2>5 DEF ShowFrame, w
  <2>7. FrameAgrees'
    BY <1>0, <2>1, <2>2, <2>3, <2>6, Rebuilt DEF FrameAgrees, FrameStates, Hwnds, Windowed, Style, w
  <2> QED
    BY <1>3, <2>1, <2>2, <2>6, <2>7 DEF AsAsked, ShowFrame
<1>4. ASSUME NEW on \in BOOLEAN, SetMenuVisible(on) PROVE FrameAgrees' /\ AsAsked'
  <2>1. steady /\ Windowed
    BY <1>4 DEF SetMenuVisible, Request
  <2>2. window' = [window EXCEPT !.menuVisible = on]
        /\ hwnd' = Outer(window', [hwnd EXCEPT !.menu = on], window'.geometry)
    BY <1>4 DEF SetMenuVisible, Heard
  <2>3. hwnd' = [hwnd EXCEPT !.menu = on, !.outer = window'.geometry + FrameMargin(window')]
    BY <1>0, <2>2 DEF Outer, Hwnds
  <2>4. FrameAgrees'
    BY <1>0, <2>1, <2>2, <2>3, Rebuilt DEF FrameAgrees, FrameStates, Hwnds, Windowed, Style
  <2> QED
    BY <1>0, <1>4, <2>1, <2>2, <2>4 DEF AsAsked, SetMenuVisible, FrameStates
<1>5. ASSUME NEW on \in BOOLEAN, SetStatusVisible(on) PROVE FrameAgrees' /\ AsAsked'
  <2>1. steady /\ Windowed
    BY <1>5 DEF SetStatusVisible, Request
  <2>2. window' = [window EXCEPT !.statusVisible = on]
        /\ hwnd' = [hwnd EXCEPT !.status = on, !.outer = window.geometry + FrameMargin(window')]
    BY <1>0, <1>5 DEF SetStatusVisible, Outer, Hwnds
  <2>3. FrameAgrees'
    BY <1>0, <2>1, <2>2, Rebuilt DEF FrameAgrees, FrameStates, Hwnds, Windowed, Style
  <2> QED
    BY <1>0, <1>5, <2>1, <2>2, <2>3 DEF AsAsked, SetStatusVisible, FrameStates
<1>6. ASSUME NEW on \in BOOLEAN, SetResizable(on) PROVE FrameAgrees' /\ AsAsked'
  <2>1. steady /\ Windowed /\ ~window.visible
    BY <1>6 DEF SetResizable, Request
  <2>2. window' = [window EXCEPT !.resizable = on]
    BY <1>6 DEF SetResizable
  <2>3. hwnd' = [hwnd EXCEPT !.style = Style(window'), !.shown = FALSE,
                             !.outer = window.geometry + FrameMargin(window')]
    BY <1>0, <1>6 DEF SetResizable, Outer, Hwnds
  <2>4. FrameAgrees'
    BY <1>0, <2>1, <2>2, <2>3, Rebuilt DEF FrameAgrees, FrameStates, Hwnds, Windowed
  <2> QED
    BY <1>0, <1>6, <2>1, <2>2, <2>4 DEF AsAsked, SetResizable, FrameStates
<1>7. ASSUME NEW on \in BOOLEAN, SetFullScreen(on) PROVE FrameAgrees' /\ AsAsked'
  <2>1. steady /\ window.visible
    BY <1>7 DEF SetFullScreen, Request
  <2>2. window' = [window EXCEPT !.fullScreen = on]
    BY <1>7 DEF SetFullScreen
  <2>3. window' \in FrameStates /\ window'.visible = window.visible
        /\ window'.fullScreen = on /\ window'.geometry = window.geometry
    BY <1>0, <2>2 DEF FrameStates
  <2>4. FrameMargin(window') \in Int
    BY <2>3, BorderNumbers
  <2>5. ASSUME on PROVE FrameAgrees'
    <3>1. hwnd' = [hwnd EXCEPT !.style = "popup", !.shown = TRUE,
                               !.outer = Screen - FrameMargin(window') + FrameMargin(window')]
      BY <1>0, <1>7, <2>2, <2>5 DEF SetFullScreen, Outer, Hwnds
    <3>2. Screen - FrameMargin(window') + FrameMargin(window') = Screen
      BY <2>4, BorderNumbers
    <3> QED
      BY <1>0, <2>1, <2>2, <2>3, <2>5, <3>1, <3>2 DEF FrameAgrees, FrameStates, Hwnds
  <2>6. ASSUME ~on PROVE FrameAgrees'
    <3>1. hwnd' = [hwnd EXCEPT !.style = Style(window'), !.shown = TRUE,
                               !.outer = window.geometry + FrameMargin(window')]
      BY <1>0, <1>7, <2>2, <2>6 DEF SetFullScreen, Outer, Hwnds
    <3> QED
      BY <1>0, <2>1, <2>2, <2>3, <2>6, <3>1, Rebuilt DEF FrameAgrees, FrameStates, Hwnds
  <2> QED
    BY <1>7, <2>1, <2>3, <2>5, <2>6 DEF AsAsked, SetFullScreen
<1>8. CASE SynchronizeLayout
  <2>1. steady /\ Windowed
    BY <1>8 DEF SynchronizeLayout, Request
  <2>2. Geometry(window, hwnd) = window.geometry /\ hwnd.outer = window.geometry + FrameMargin(window)
    BY <2>1, ReadsBack
  <2>3. window' = window /\ hwnd' = hwnd
    BY <1>0, <1>8, <2>2 DEF SynchronizeLayout, Resized, ResizedHwnd, Outer, FrameStates, Hwnds
  <2> QED
    BY <1>8, <2>1, <2>3 DEF SynchronizeLayout, FrameAgrees, AsAsked, Client
<1>9. CASE UNCHANGED frameVars
  BY <1>9 DEF frameVars, FrameAgrees, AsAsked, Client
<1> QED
  BY <1>1, <1>2, <1>3, <1>4, <1>5, <1>6, <1>7, <1>8, <1>9 DEF FrameNext

\* A window starts resizable, hidden, without bars, at the height it asks for.
LEMMA FrameStarts == FrameInit => FrameInv
<1> SUFFICES ASSUME FrameInit PROVE FrameInv
  OBVIOUS
<1>1. asked \in Int /\ Thick \in Int
  BY FrameAssumption DEF FrameInit
<1>2. FrameTypeOK
  BY <1>1 DEF FrameInit, FrameTypeOK, FrameStates, Hwnds, Styles
<1>3. Client(hwnd) = window.geometry
  BY <1>1 DEF FrameInit, Client, Border, Bars
<1> QED
  BY <1>2, <1>3 DEF FrameInit, FrameInv, FrameAgrees, AsAsked, Style

\* Whatever sequence of calls within the rules and of drags by the user: the
\* native window has the visibility, bars, style and client area of the state,
\* and covers the screen in full screen.
THEOREM FrameFollowsState == FrameSpec => []FrameAgrees
<1>1. FrameInv /\ [FrameNext]_frameVars => FrameInv'
  BY FrameTypes, FrameSteady DEF FrameInv, FrameAgrees, AsAsked
<1>2. FrameInv => FrameAgrees
  BY DEF FrameInv
<1> QED
  BY <1>1, <1>2, FrameStarts, PTL DEF FrameSpec

\* And bars, borders and full screen come and go without a change of the
\* client area that was asked for.
THEOREM ClientKept == FrameSpec => []AsAsked
<1>1. FrameInv /\ [FrameNext]_frameVars => FrameInv'
  BY FrameTypes, FrameSteady DEF FrameInv, FrameAgrees, AsAsked
<1>2. FrameInv => AsAsked
  BY DEF FrameInv
<1> QED
  BY <1>1, <1>2, FrameStarts, PTL DEF FrameSpec

-----------------------------------------------------------------------------
\* Natural numbers that are not all in S have a least one outside it.
LEMMA LeastOutside ==
  ASSUME NEW S, NEW n \in Nat, n \notin S
  PROVE  \E k \in Nat : k \notin S /\ \A j \in Nat : j < k => j \in S
<1> DEFINE T == {k \in Nat : k \notin S}
<1>1. T \subseteq Nat /\ T # {}
  OBVIOUS
<1>2. IsWellFoundedOn(OpToRel(<, Nat), Nat)
  BY NatLessThanWellFounded
<1>3. PICK k \in T : \A j \in T : ~(<<j, k>> \in OpToRel(<, Nat))
  BY <1>1, <1>2, WFMin
<1>4. \A j \in T : ~(j < k)
  BY <1>1, <1>3 DEF OpToRel
<1> QED
  BY <1>3, <1>4

\* The beginnings of Kept(s, S), one for each beginning of s.
KeptFrom(s, S, n, f) ==
    f = [k \in 0 .. n |->
           IF k = 0 THEN <<>> ELSE IF s[k] \in S THEN Append(f[k - 1], s[k]) ELSE f[k - 1]]

\* There are such beginnings: for the empty one, and for each that is one longer.
LEMMA KeptExists ==
  ASSUME NEW s, NEW S, NEW n \in Nat
  PROVE  \E f : KeptFrom(s, S, n, f)
<1> DEFINE Good == {k \in Nat : \E f : KeptFrom(s, S, k, f)}
<1>1. SUFFICES ASSUME n \notin Good PROVE FALSE
  OBVIOUS
<1>2. PICK k \in Nat : k \notin Good /\ \A j \in Nat : j < k => j \in Good
  BY <1>1, LeastOutside
<1>3. CASE k = 0
  <2>1. KeptFrom(s, S, k, [j \in 0 .. 0 |-> <<>>])
    BY <1>3 DEF KeptFrom
  <2> QED
    BY <1>2, <2>1
<1>4. CASE k # 0
  <2>1. k - 1 \in Nat /\ k - 1 < k
    BY <1>4
  <2>2. PICK f : KeptFrom(s, S, k - 1, f)
    BY <1>2, <2>1
  <2> DEFINE last == IF s[k] \in S THEN Append(f[k - 1], s[k]) ELSE f[k - 1]
             g == [j \in 0 .. k |-> IF j = k THEN last ELSE f[j]]
  <2>3. f = [j \in 0 .. k - 1 |->
           IF j = 0 THEN <<>> ELSE IF s[j] \in S THEN Append(f[j - 1], s[j]) ELSE f[j - 1]]
    BY <2>2 DEF KeptFrom
  <2>4. ASSUME NEW j \in 0 .. k
        PROVE  g[j] = IF j = 0 THEN <<>>
                      ELSE IF s[j] \in S THEN Append(g[j - 1], s[j]) ELSE g[j - 1]
    <3>1. CASE j = k
      <4>1. g[k] = last /\ g[k - 1] = f[k - 1]
        BY <1>4, <2>1
      <4> QED
        BY <1>4, <3>1, <4>1
    <3>2. CASE j # k
      <4>1. j \in 0 .. k - 1 /\ g[j] = f[j]
        BY <3>2
      <4>2. j # 0 => g[j - 1] = f[j - 1]
        BY <3>2
      <4>3. f[j] = IF j = 0 THEN <<>> ELSE IF s[j] \in S THEN Append(f[j - 1], s[j]) ELSE f[j - 1]
        BY <2>3, <4>1
      <4> QED
        BY <4>1, <4>2, <4>3
    <3> QED
      BY <3>1, <3>2
  <2> HIDE DEF g
  <2>5. DOMAIN g = 0 .. k /\ g = [j \in 0 .. k |-> g[j]]
    BY DEF g
  <2>6. KeptFrom(s, S, k, g)
    BY <2>4, <2>5 DEF KeptFrom
  <2> QED
    BY <1>2, <2>6
<1> QED
  BY <1>3, <1>4

\* Kept is the last of them.
LEMMA KeptEnd ==
  ASSUME NEW s, NEW S, Len(s) \in Nat
  PROVE  \E f : KeptFrom(s, S, Len(s), f) /\ Kept(s, S) = f[Len(s)]
<1> DEFINE f == CHOOSE f : KeptFrom(s, S, Len(s), f)
<1>1. KeptFrom(s, S, Len(s), f)
  BY KeptExists
<1>2. Kept(s, S) = f[Len(s)]
  BY DEF Kept, KeptFrom
<1> QED
  BY <1>1, <1>2

\* Each beginning, in terms of the one before.
LEMMA KeptNext ==
  ASSUME NEW s, NEW S, NEW n \in Nat, NEW f, KeptFrom(s, S, n, f)
  PROVE  /\ f[0] = <<>>
         /\ \A k \in 1 .. n : f[k] = IF s[k] \in S THEN Append(f[k - 1], s[k]) ELSE f[k - 1]
<1>1. f = [k \in 0 .. n |->
           IF k = 0 THEN <<>> ELSE IF s[k] \in S THEN Append(f[k - 1], s[k]) ELSE f[k - 1]]
  BY DEF KeptFrom
<1>2. 0 \in 0 .. n /\ \A k \in 1 .. n : k \in 0 .. n /\ k # 0
  OBVIOUS
<1> QED
  BY <1>1, <1>2

\* Appending adds a member.
LEMMA AppendMembers ==
  ASSUME NEW V, NEW s \in Seq(V), NEW e
  PROVE  Members(Append(s, e)) = Members(s) \union {e}
<1>1. /\ DOMAIN s = 1 .. Len(s) /\ Len(s) \in Nat
      /\ DOMAIN Append(s, e) = 1 .. Len(s) + 1
      /\ \A i \in 1 .. Len(s) : Append(s, e)[i] = s[i]
      /\ Append(s, e)[Len(s) + 1] = e
  OBVIOUS
<1> QED
  BY <1>1 DEF Members

\* Kept keeps the members that are in S, and no others.
LEMMA KeptMembers ==
  ASSUME NEW V, NEW s \in Seq(V), NEW S
  PROVE  Kept(s, S) \in Seq(V) /\ Members(Kept(s, S)) = Members(s) \intersect S
<1>1. Len(s) \in Nat /\ \A i \in 1 .. Len(s) : s[i] \in V
  OBVIOUS
<1>2. PICK f : KeptFrom(s, S, Len(s), f) /\ Kept(s, S) = f[Len(s)]
  BY <1>1, KeptEnd
<1>3. /\ f[0] = <<>>
      /\ \A k \in 1 .. Len(s) : f[k] = IF s[k] \in S THEN Append(f[k - 1], s[k]) ELSE f[k - 1]
  BY <1>1, <1>2, KeptNext
<1> DEFINE Good == {k \in Nat : k <= Len(s) =>
                      f[k] \in Seq(V) /\ Members(f[k]) = {s[i] : i \in 1 .. k} \intersect S}
<1>4. ASSUME NEW n \in Nat, n \notin Good PROVE FALSE
  <2>1. PICK k \in Nat : k \notin Good /\ \A j \in Nat : j < k => j \in Good
    BY <1>4, LeastOutside
  <2>2. CASE k = 0
    <3>1. f[0] \in Seq(V) /\ Members(f[0]) = {} /\ 1 .. 0 = {}
      BY <1>3 DEF Members
    <3> QED
      BY <2>1, <2>2, <3>1
  <2>3. CASE k # 0
    <3>1. k - 1 \in Nat /\ k - 1 < k /\ k <= Len(s) /\ k \in 1 .. Len(s)
      BY <2>1, <2>3
    <3>2. f[k - 1] \in Seq(V) /\ Members(f[k - 1]) = {s[i] : i \in 1 .. k - 1} \intersect S
      <4>1. PICK j \in Nat : j = k - 1 /\ j <= Len(s)
        BY <1>1, <3>1
      <4>2. j \in Good
        BY <2>1, <3>1, <4>1
      <4>3. f[j] \in Seq(V) /\ Members(f[j]) = {s[i] : i \in 1 .. j} \intersect S
        BY <4>1, <4>2
      <4> QED
        BY <4>1, <4>3
    <3>3. {s[i] : i \in 1 .. k} = {s[i] : i \in 1 .. k - 1} \union {s[k]}
      BY <3>1
    <3>4. f[k] = IF s[k] \in S THEN Append(f[k - 1], s[k]) ELSE f[k - 1]
      BY <1>3, <3>1
    <3>5. Members(Append(f[k - 1], s[k])) = Members(f[k - 1]) \union {s[k]}
      BY <3>2, AppendMembers
    <3>6. f[k] \in Seq(V)
      BY <1>1, <3>1, <3>2, <3>4
    <3>7. Members(f[k]) = {s[i] : i \in 1 .. k} \intersect S
      BY <3>2, <3>3, <3>4, <3>5
    <3> QED
      BY <2>1, <3>6, <3>7
  <2> QED
    BY <2>2, <2>3
<1>5. Len(s) \in Good
  BY <1>1, <1>4
<1>6. Members(s) = {s[i] : i \in 1 .. Len(s)}
  BY DEF Members
<1> QED
  BY <1>1, <1>2, <1>5, <1>6

\* What is kept goes by what S says of the members.
LEMMA KeptSame ==
  ASSUME NEW V, NEW s \in Seq(V), NEW S, NEW S2,
         \A a \in Members(s) : a \in S <=> a \in S2
  PROVE  Kept(s, S) = Kept(s, S2)
<1>1. Len(s) \in Nat /\ \A i \in 1 .. Len(s) : s[i] \in S <=> s[i] \in S2
  BY DEF Members
<1>2. PICK f : KeptFrom(s, S, Len(s), f) /\ Kept(s, S) = f[Len(s)]
  BY <1>1, KeptEnd
<1>3. PICK g : KeptFrom(s, S2, Len(s), g) /\ Kept(s, S2) = g[Len(s)]
  BY <1>1, KeptEnd
<1>4. /\ f[0] = <<>>
      /\ \A k \in 1 .. Len(s) : f[k] = IF s[k] \in S THEN Append(f[k - 1], s[k]) ELSE f[k - 1]
  BY <1>1, <1>2, KeptNext
<1>5. /\ g[0] = <<>>
      /\ \A k \in 1 .. Len(s) : g[k] = IF s[k] \in S2 THEN Append(g[k - 1], s[k]) ELSE g[k - 1]
  BY <1>1, <1>3, KeptNext
<1> DEFINE Good == {k \in Nat : k <= Len(s) => f[k] = g[k]}
<1>6. ASSUME NEW n \in Nat, n \notin Good PROVE FALSE
  <2>1. PICK k \in Nat : k \notin Good /\ \A j \in Nat : j < k => j \in Good
    BY <1>6, LeastOutside
  <2>2. k # 0
    BY <1>4, <1>5, <2>1
  <2>3. k - 1 \in Nat /\ k - 1 < k /\ k <= Len(s) /\ k \in 1 .. Len(s)
    BY <2>1, <2>2
  <2>4. f[k - 1] = g[k - 1]
    BY <2>1, <2>3
  <2>5. f[k] = g[k]
    BY <1>1, <1>4, <1>5, <2>3, <2>4
  <2> QED
    BY <2>1, <2>5
<1>7. Len(s) \in Good
  BY <1>1, <1>6
<1> QED
  BY <1>1, <1>2, <1>3, <1>7

-----------------------------------------------------------------------------
\* A walk holds its seed and goes on to all that is below what it reaches.
LEMMA WalkSteps ==
  ASSUME NEW kids, NEW seed, seed \subseteq DOMAIN kids,
         \A m \in DOMAIN kids : kids[m] \subseteq DOMAIN kids
  PROVE  /\ seed \subseteq Walk(kids, seed) /\ Walk(kids, seed) \subseteq DOMAIN kids
         /\ \A m \in Walk(kids, seed) : kids[m] \subseteq Walk(kids, seed)
BY DEF Walk, Closure, Closed

\* It stays in every set of which that is true.
LEMMA WalkLeast ==
  ASSUME NEW kids, NEW seed, NEW S, S \subseteq DOMAIN kids, seed \subseteq S,
         \A m \in S : kids[m] \subseteq S
  PROVE  Walk(kids, seed) \subseteq S
BY DEF Walk, Closure, Closed

\* From more seeds it reaches more.
LEMMA WalkMore ==
  ASSUME NEW kids, NEW seed, NEW seed2, seed \subseteq seed2, seed2 \subseteq DOMAIN kids,
         \A m \in DOMAIN kids : kids[m] \subseteq DOMAIN kids
  PROVE  Walk(kids, seed) \subseteq Walk(kids, seed2)
<1>1. /\ seed2 \subseteq Walk(kids, seed2) /\ Walk(kids, seed2) \subseteq DOMAIN kids
      /\ \A m \in Walk(kids, seed2) : kids[m] \subseteq Walk(kids, seed2)
  BY WalkSteps
<1> QED
  BY <1>1, WalkLeast

\* It depends on what is below the nodes it reaches only.
LEMMA WalkSame ==
  ASSUME NEW kids, NEW kids2, NEW seed, DOMAIN kids2 = DOMAIN kids, seed \subseteq DOMAIN kids,
         \A m \in DOMAIN kids : kids[m] \subseteq DOMAIN kids /\ kids2[m] \subseteq DOMAIN kids,
         \A m \in Walk(kids, seed) : kids2[m] = kids[m]
  PROVE  Walk(kids2, seed) = Walk(kids, seed)
<1> DEFINE A == Walk(kids, seed)
           B == Walk(kids2, seed)
<1>1. seed \subseteq A /\ A \subseteq DOMAIN kids /\ \A m \in A : kids[m] \subseteq A
  BY WalkSteps
<1>2. seed \subseteq B /\ B \subseteq DOMAIN kids /\ \A m \in B : kids2[m] \subseteq B
  BY WalkSteps
<1>3. \A m \in A : kids2[m] = kids[m]
  OBVIOUS
<1> HIDE DEF A, B
<1>4. B \subseteq A
  BY <1>1, <1>3, WalkLeast DEF B
<1>5. A \intersect B \subseteq DOMAIN kids /\ seed \subseteq A \intersect B
      /\ \A m \in A \intersect B : kids[m] \subseteq A \intersect B
  BY <1>1, <1>2, <1>3
<1>6. A \subseteq A \intersect B
  BY <1>5, WalkLeast DEF A
<1> QED
  BY <1>4, <1>6 DEF A, B

-----------------------------------------------------------------------------
\* The menus an update walks over.
Reached == Walk(Visible(entries, action), Members(bar))

\* Everything an update would come by knows the window.
Known ==
    /\ Members(bar) \subseteq parentWindow
    /\ \A m \in Reached : Members(entries[m]) \subseteq parentWindow

\* Each action knows the menu that lists it, so it is in one place only; what
\* is in the bar is in no menu.
OnePlace ==
    /\ \A a \in Actions, m \in MenusMade : parentMenu[a] = m <=> a \in Members(entries[m])
    /\ \A m \in Members(bar) : parentMenu[m] = NoAction

\* What lists live actions only: the bar and the live menus; and no others
\* list any, if menus were emptied.
LiveOnly ==
    /\ Members(bar) \subseteq actions
    /\ \A m \in MenusMade \intersect actions : Members(entries[m]) \subseteq actions
    /\ emptied => \A m \in MenusMade \ actions : Members(entries[m]) = {}

ActionStates == [enabled : BOOLEAN, visible : BOOLEAN, checked : BOOLEAN]
Entries == [of : Actions, enabled : BOOLEAN, ticked : BOOLEAN]
Listings == [MenusMade -> Seq(Actions)]
Homes == [Actions -> MenusMade \union {NoAction}]

MenuTypes ==
    /\ actions \subseteq Actions /\ parentWindow \subseteq Actions
    /\ bar \in Seq(MenusMade) /\ strip \in Seq(MenusMade)
    /\ entries \in Listings /\ popup \in [MenusMade -> Seq(Entries)]
    /\ action \in [Actions -> ActionStates]
    /\ parentMenu \in Homes
    /\ picked \in Actions \union {NoAction} /\ emptied \in BOOLEAN

\* The inductive invariant behind MenuShown and NothingDead.
MenuInv == MenuTypes /\ OnePlace /\ LiveOnly /\ Known /\ MenuShown

\* Members of a sequence are in its set.
LEMMA MembersType ==
  ASSUME NEW V, NEW s \in Seq(V)
  PROVE  /\ Members(s) \subseteq V
         /\ DOMAIN s = 1 .. Len(s) /\ Len(s) \in Nat
         /\ \A i \in DOMAIN s : s[i] \in Members(s)
BY DEF Members

\* Visible gives each menu the menus that can be seen in it.
LEMMA VisibleKids ==
  ASSUME NEW es \in Listings, NEW act
  PROVE  /\ DOMAIN Visible(es, act) = MenusMade
         /\ \A m \in MenusMade :
              Visible(es, act)[m] = {n \in Members(es[m]) \intersect MenusMade : act[n].visible}
         /\ \A m \in MenusMade : Visible(es, act)[m] \subseteq MenusMade
BY DEF Visible, VisibleActions, Actions

\* The entries of a native menu are of its visible actions.
LEMMA MadeType ==
  ASSUME NEW es \in Listings, NEW act \in [Actions -> ActionStates], NEW m \in MenusMade
  PROVE  Made(m, es, act) \in Seq(Entries)
<1>1. PICK shown : shown = Kept(es[m], VisibleActions(act))
  OBVIOUS
<1>2. es[m] \in Seq(Actions)
  BY DEF Listings
<1>3. shown \in Seq(Actions)
  BY <1>1, <1>2, KeptMembers
<1>4. Made(m, es, act) = [i \in DOMAIN shown |-> Look(shown[i], act)]
  BY <1>1 DEF Made
<1>5. \A a \in Actions : Look(a, act) \in Entries
  BY DEF Look, Entries, ActionStates
<1>6. DOMAIN shown = 1 .. Len(shown) /\ Len(shown) \in Nat /\ \A i \in 1 .. Len(shown) : shown[i] \in Actions
  BY <1>3
<1>7. Made(m, es, act) \in [1 .. Len(shown) -> Entries]
  BY <1>4, <1>5, <1>6
<1> QED
  BY <1>6, <1>7

\* The native menus after an update are those of the state, whatever they were
\* before; and an update leaves each action with the menu that lists it.
LEMMA UpdatedShown ==
  ASSUME NEW b \in Seq(MenusMade), NEW es \in Listings,
         NEW act \in [Actions -> ActionStates], NEW parents \in Homes,
         \A a \in Actions, m \in MenusMade : parents[a] = m <=> a \in Members(es[m]),
         \A m \in Members(b) : parents[m] = NoAction,
         MenuTypes, Updated(b, es, act, parents),
         bar' = b, entries' = es, action' = act
  PROVE  /\ parentMenu' = parents /\ Known' /\ MenuShown'
         /\ parentWindow' \subseteq Actions /\ strip' \in Seq(MenusMade)
         /\ popup' \in [MenusMade -> Seq(Entries)]
<1> DEFINE reached == Walk(Visible(es, act), Members(b))
           gone == Walk(Attached, Members(strip) \union reached)
           inside == Parented(reached, es, act)
<1>1. /\ strip' = Kept(b, VisibleActions(act))
      /\ popup' = [m \in MenusMade |-> IF m \in reached THEN Made(m, es, act)
                                       ELSE IF m \in gone THEN <<>> ELSE popup[m]]
      /\ parentWindow' = parentWindow \union Members(b) \union inside
      /\ parentMenu' = [a \in Actions |->
             IF a \in inside THEN CHOOSE m \in reached : a \in Members(es[m])
             ELSE IF a \in Members(b) THEN NoAction ELSE parents[a]]
  BY DEF Updated
<1>2. Members(b) \subseteq MenusMade /\ \A m \in MenusMade : Members(es[m]) \subseteq Actions
  BY MembersType DEF Listings
<1>3. reached \subseteq MenusMade /\ Members(b) \subseteq reached
  BY <1>2, VisibleKids, WalkSteps
<1>4. \A a : a \in inside <=> \E m \in reached : a \in Members(es[m])
  BY DEF Parented
<1> HIDE DEF reached, gone, inside
<1>5. parentMenu' = parents
  <2>1. ASSUME NEW a \in Actions PROVE parentMenu'[a] = parents[a]
    <3>1. CASE a \in inside
      <4>1. \E m \in reached : a \in Members(es[m])
        BY <1>4, <3>1
      <4>2. (CHOOSE m \in reached : a \in Members(es[m])) \in reached
            /\ a \in Members(es[CHOOSE m \in reached : a \in Members(es[m])])
        BY <4>1
      <4>3. parents[a] = CHOOSE m \in reached : a \in Members(es[m])
        BY <1>3, <4>2
      <4> QED
        BY <1>1, <3>1, <4>3
    <3>2. CASE a \notin inside
      BY <1>1, <3>2
    <3> QED
      BY <3>1, <3>2
  <2> QED
    BY <1>1, <2>1 DEF Homes
<1>6. Known'
  <2>1. Reached' = reached
    BY DEF Reached, reached
  <2> QED
    BY <1>1, <1>4, <2>1 DEF Known
<1>7. MenuShown'
  <2>1. Members(strip') \subseteq Members(b)
    BY <1>1, KeptMembers
  <2>2. Walk(Visible(es, act), Members(strip')) \subseteq reached
    BY <1>2, <2>1, VisibleKids, WalkMore DEF reached
  <2>3. \A m \in Walk(Visible(es, act), Members(strip')) : popup'[m] = Made(m, es, act)
    BY <1>1, <1>3, <2>2
  <2> QED
    BY <1>1, <2>3 DEF MenuShown
<1>8. parentWindow' \subseteq Actions /\ strip' \in Seq(MenusMade)
  BY <1>1, <1>2, <1>3, <1>4, KeptMembers DEF MenuTypes, Actions
<1>9. popup' \in [MenusMade -> Seq(Entries)]
  <2>1. \A m \in MenusMade : Made(m, es, act) \in Seq(Entries)
    BY MadeType
  <2> QED
    BY <1>1, <2>1 DEF MenuTypes
<1> QED
  BY <1>5, <1>6, <1>7, <1>8, <1>9

\* The native menus stay right when what changes is nothing an update comes by.
LEMMA QuietShown ==
  ASSUME MenuInv, entries' \in Listings, UNCHANGED <<strip, popup, parentWindow, bar>>,
         \A m \in Reached : entries'[m] = entries[m],
         \A m \in Members(bar) : action'[m] = action[m],
         \A m \in Reached : \A a \in Members(entries[m]) : action'[a] = action[a]
  PROVE  Known' /\ MenuShown'
<1> DEFINE kids == Visible(entries, action)
           kids2 == Visible(entries', action')
<1>1. /\ bar \in Seq(MenusMade) /\ entries \in Listings /\ entries' \in Listings
      /\ Members(bar) \subseteq MenusMade
      /\ \A m \in MenusMade : entries[m] \in Seq(Actions) /\ Members(entries[m]) \subseteq Actions
      /\ MenusMade \subseteq Actions
  BY MembersType DEF MenuInv, MenuTypes, Listings, Actions
<1>2. /\ DOMAIN kids = MenusMade /\ DOMAIN kids2 = MenusMade
      /\ \A m \in MenusMade : kids[m] \subseteq MenusMade /\ kids2[m] \subseteq MenusMade
      /\ \A m \in MenusMade :
           /\ kids[m] = {n \in Members(entries[m]) \intersect MenusMade : action[n].visible}
           /\ kids2[m] = {n \in Members(entries'[m]) \intersect MenusMade : action'[n].visible}
  BY <1>1, VisibleKids
<1> HIDE DEF kids, kids2
<1>3. Reached = Walk(kids, Members(bar))
  BY DEF Reached, kids
<1>4. Members(bar) \subseteq Reached /\ Reached \subseteq MenusMade
  BY <1>1, <1>2, <1>3, WalkSteps
<1>5. ASSUME NEW m \in Reached PROVE kids2[m] = kids[m]
  <2>1. m \in MenusMade /\ entries'[m] = entries[m]
    BY <1>4
  <2>2. kids2[m] = {n \in Members(entries[m]) \intersect MenusMade : action'[n].visible}
    BY <1>2, <2>1
  <2>3. \A n \in Members(entries[m]) \intersect MenusMade :
           action'[n].visible <=> action[n].visible
    OBVIOUS
  <2> QED
    BY <1>2, <2>1, <2>2, <2>3
<1>6. Walk(kids2, Members(bar)) = Reached
  BY <1>1, <1>2, <1>3, <1>5, WalkSame
<1>7. Known'
  <2>1. Reached' = Reached
    BY <1>6 DEF Reached, kids2
  <2> QED
    BY <1>4, <2>1 DEF MenuInv, Known
<1>8. strip' = Kept(bar', VisibleActions(action'))
  <2>1. \A a \in Members(bar) : a \in VisibleActions(action) <=> a \in VisibleActions(action')
    BY DEF VisibleActions
  <2>2. Kept(bar, VisibleActions(action)) = Kept(bar, VisibleActions(action'))
    BY <1>1, <2>1, KeptSame
  <2> QED
    BY <2>2 DEF MenuInv, MenuShown
<1>9. Members(strip) \subseteq Members(bar)
  BY <1>1, KeptMembers DEF MenuInv, MenuShown
<1>10. Walk(kids, Members(strip)) \subseteq Reached
  BY <1>1, <1>2, <1>3, <1>9, WalkMore
<1>11. Walk(kids2, Members(strip)) = Walk(kids, Members(strip))
  BY <1>1, <1>2, <1>5, <1>9, <1>10, WalkSame
<1>12. ASSUME NEW m \in Walk(kids, Members(strip)) PROVE popup[m] = Made(m, entries', action')
  <2>1. popup[m] = Made(m, entries, action)
    BY DEF MenuInv, MenuShown, kids
  <2>2. m \in Reached /\ m \in MenusMade /\ entries'[m] = entries[m]
    BY <1>4, <1>10
  <2>3. PICK s \in Seq(Actions) : s = entries[m]
    BY <1>1, <2>2
  <2>4. \A a \in Members(s) : a \in VisibleActions(action) <=> a \in VisibleActions(action')
    BY <2>2, <2>3 DEF VisibleActions
  <2>5. PICK shown \in Seq(Actions) :
           /\ shown = Kept(s, VisibleActions(action)) /\ shown = Kept(s, VisibleActions(action'))
           /\ Members(shown) \subseteq Members(s)
    BY <2>3, <2>4, KeptSame, KeptMembers
  <2>6. \A i \in DOMAIN shown : Look(shown[i], action) = Look(shown[i], action')
    <3>1. ASSUME NEW i \in DOMAIN shown PROVE action'[shown[i]] = action[shown[i]]
      BY <2>2, <2>3, <2>5, MembersType
    <3> QED
      BY <3>1 DEF Look
  <2>7. Made(m, entries, action) = [i \in DOMAIN shown |-> Look(shown[i], action)]
    BY <2>3, <2>5 DEF Made
  <2>8. Made(m, entries', action') = [i \in DOMAIN shown |-> Look(shown[i], action')]
    BY <2>2, <2>3, <2>5 DEF Made
  <2> QED
    BY <2>1, <2>6, <2>7, <2>8
<1>13. MenuShown'
  BY <1>8, <1>11, <1>12 DEF MenuShown, kids2
<1> QED
  BY <1>7, <1>13

\* The other marks: each native menu on screen gets those of the entries in it.
LEMMA MarkedShown ==
  ASSUME MenuInv, NEW S, S \subseteq Actions \ MenusMade, NEW act \in [Actions -> ActionStates],
         \A a \in Actions : act[a].visible = action[a].visible /\ act[a].enabled = action[a].enabled,
         \A a \in Actions \ S : act[a] = action[a],
         Marked(S, act)
  PROVE  Known' /\ MenuShown' /\ popup' \in [MenusMade -> Seq(Entries)]
<1>1. /\ action' = act
      /\ UNCHANGED <<actions, bar, entries, parentMenu, parentWindow, strip, emptied>>
      /\ popup' = [m \in MenusMade |-> [i \in DOMAIN popup[m] |->
         LET a == popup[m][i].of
         IN  IF a \in S /\ parentMenu[a] = m THEN [popup[m][i] EXCEPT !.ticked = act[a].checked]
             ELSE popup[m][i]]]
  BY DEF Marked
<1>2. VisibleActions(act) = VisibleActions(action)
  BY DEF VisibleActions
<1>3. Visible(entries, act) = Visible(entries, action)
  BY <1>2 DEF Visible
<1>4. Known'
  <2>1. Reached' = Reached
    BY <1>1, <1>3 DEF Reached
  <2> QED
    BY <1>1, <2>1 DEF MenuInv, Known
<1>5. strip' = Kept(bar', VisibleActions(action'))
  BY <1>1, <1>2 DEF MenuInv, MenuShown
<1>6. /\ bar \in Seq(MenusMade) /\ entries \in Listings
      /\ \A m \in MenusMade : entries[m] \in Seq(Actions)
      /\ popup \in [MenusMade -> Seq(Entries)] /\ Members(strip) \subseteq MenusMade
      /\ action \in [Actions -> ActionStates]
  BY MembersType DEF MenuInv, MenuTypes, Listings
<1>7. \A a \in Actions : act[a].checked \in BOOLEAN
  BY DEF ActionStates
<1>8. ASSUME NEW m \in Walk(Visible(entries, action), Members(strip))
      PROVE  popup'[m] = Made(m, entries, act)
  <2>1. m \in MenusMade /\ popup[m] = Made(m, entries, action)
    <3>1. Walk(Visible(entries, action), Members(strip)) \subseteq MenusMade
      BY <1>6, VisibleKids, WalkSteps
    <3> QED
      BY <3>1 DEF MenuInv, MenuShown
  <2>2. PICK shown \in Seq(Actions) :
           /\ shown = Kept(entries[m], VisibleActions(action))
           /\ Members(shown) \subseteq Members(entries[m])
    BY <1>6, <2>1, KeptMembers
  <2>3. popup[m] = [i \in DOMAIN shown |-> Look(shown[i], action)]
    BY <2>1, <2>2 DEF Made
  <2>4. Made(m, entries, act) = [i \in DOMAIN shown |-> Look(shown[i], act)]
    BY <1>2, <2>2 DEF Made
  <2>5. \A i \in DOMAIN shown : shown[i] \in Actions /\ parentMenu[shown[i]] = m
    <3>1. \A i \in DOMAIN shown : shown[i] \in Actions /\ shown[i] \in Members(entries[m])
      BY <2>2, MembersType
    <3> QED
      BY <2>1, <3>1 DEF MenuInv, OnePlace
  <2>6. ASSUME NEW a \in Actions
        PROVE  Look(a, act) = IF a \in S THEN [Look(a, action) EXCEPT !.ticked = act[a].checked]
                              ELSE Look(a, action)
    <3>1. CASE a \in S
      <4>1. (a \notin MenusMade /\ act[a].checked) = act[a].checked
        BY <1>7, <3>1
      <4> QED
        BY <3>1, <4>1 DEF Look
    <3>2. CASE a \notin S
      BY <3>2 DEF Look
    <3> QED
      BY <3>1, <3>2
  <2>7. popup'[m] = [i \in DOMAIN popup[m] |->
         LET a == popup[m][i].of
         IN  IF a \in S /\ parentMenu[a] = m THEN [popup[m][i] EXCEPT !.ticked = act[a].checked]
             ELSE popup[m][i]]
    BY <1>1, <2>1
  <2>8. \A i \in DOMAIN shown : popup[m][i] = Look(shown[i], action) /\ popup[m][i].of = shown[i]
    BY <2>3 DEF Look
  <2>9. DOMAIN popup[m] = DOMAIN shown
    BY <2>3
  <2>10. \A i \in DOMAIN shown : popup'[m][i] = Look(shown[i], act)
    BY <2>5, <2>6, <2>7, <2>8, <2>9
  <2>11. DOMAIN popup'[m] = DOMAIN shown
    BY <2>7, <2>9
  <2> QED
    BY <2>4, <2>7, <2>9, <2>10
<1>9. MenuShown'
  BY <1>1, <1>3, <1>5, <1>8 DEF MenuShown
<1>10. popup' \in [MenusMade -> Seq(Entries)]
  <2>1. ASSUME NEW m \in MenusMade PROVE popup'[m] \in Seq(Entries)
    <3>1. PICK p \in Seq(Entries) : p = popup[m]
      BY <1>6
    <3>2. popup'[m] = [i \in DOMAIN p |->
            IF p[i].of \in S /\ parentMenu[p[i].of] = m
            THEN [p[i] EXCEPT !.ticked = act[p[i].of].checked] ELSE p[i]]
      BY <1>1, <3>1
    <3>3. DOMAIN p = 1 .. Len(p) /\ Len(p) \in Nat /\ \A i \in 1 .. Len(p) : p[i] \in Entries
      OBVIOUS
    <3>4. \A e \in Entries : e.of \in Actions /\ [e EXCEPT !.ticked = act[e.of].checked] \in Entries
      BY <1>7 DEF Entries
    <3>5. popup'[m] \in [1 .. Len(p) -> Entries]
      BY <3>2, <3>3, <3>4
    <3> QED
      BY <3>3, <3>5
  <2> QED
    BY <1>1, <2>1
<1> QED
  BY <1>4, <1>9, <1>10

-----------------------------------------------------------------------------
\* An update comes by nothing that does not know the window.
LEMMA ReachedKnown ==
  ASSUME MenuInv
  PROVE  Reached \subseteq parentWindow /\ Reached \subseteq MenusMade
<1> DEFINE kids == Visible(entries, action)
           S == Reached \intersect parentWindow
<1>1. bar \in Seq(MenusMade) /\ entries \in Listings /\ Members(bar) \subseteq MenusMade
  BY MembersType DEF MenuInv, MenuTypes
<1>2. /\ DOMAIN kids = MenusMade /\ \A m \in MenusMade : kids[m] \subseteq MenusMade
      /\ \A m \in MenusMade : kids[m] \subseteq Members(entries[m])
  BY <1>1, VisibleKids
<1> HIDE DEF kids
<1>3. /\ Members(bar) \subseteq Reached /\ Reached \subseteq MenusMade
      /\ \A m \in Reached : kids[m] \subseteq Reached
  BY <1>1, <1>2, WalkSteps DEF Reached, kids
<1>4. S \subseteq MenusMade /\ Members(bar) \subseteq S /\ \A m \in S : kids[m] \subseteq S
  BY <1>2, <1>3 DEF MenuInv, Known
<1>5. Walk(kids, Members(bar)) \subseteq S
  BY <1>2, <1>4, WalkLeast
<1> QED
  BY <1>3, <1>5 DEF Reached, kids

\* The types of the native side.
NativeMenus ==
    /\ parentWindow \subseteq Actions /\ strip \in Seq(MenusMade)
    /\ popup \in [MenusMade -> Seq(Entries)]

\* A call that updates the window, or that nobody in the window needs to know
\* of, leaves the native menus as the state says.
LEMMA UpdateShown ==
  ASSUME MenuInv, NEW told \in BOOLEAN, NEW es \in Listings,
         NEW act \in [Actions -> ActionStates], NEW parents \in Homes,
         \A a \in Actions, m \in MenusMade : parents[a] = m <=> a \in Members(es[m]),
         \A m \in Members(bar) : parents[m] = NoAction,
         Update(told, bar, es, act, parents),
         bar' = bar, entries' = es, action' = act,
         ~told => /\ \A m \in Reached : es[m] = entries[m]
                  /\ \A m \in parentWindow : act[m] = action[m]
  PROVE  OnePlace' /\ Known' /\ MenuShown' /\ NativeMenus' /\ parentMenu' = parents
<1>1. CASE told
  <2>1. Updated(bar, es, act, parents)
    BY <1>1 DEF Update
  <2>2. MenuTypes /\ bar \in Seq(MenusMade)
    BY DEF MenuInv, MenuTypes
  <2>3. PICK b \in Seq(MenusMade) : b = bar
    BY <2>2
  <2>4. /\ parentMenu' = parents /\ Known' /\ MenuShown'
        /\ parentWindow' \subseteq Actions /\ strip' \in Seq(MenusMade)
        /\ popup' \in [MenusMade -> Seq(Entries)]
    BY <2>1, <2>2, <2>3, UpdatedShown
  <2> QED
    BY <2>4 DEF OnePlace, NativeMenus
<1>2. CASE ~told
  <2>1. parentMenu' = parents /\ UNCHANGED <<strip, popup, parentWindow>>
    BY <1>2 DEF Update
  <2>2. \A m \in Reached : entries'[m] = entries[m]
    BY <1>2
  <2>3. \A m \in Members(bar) : action'[m] = action[m]
    BY <1>2 DEF MenuInv, Known
  <2>4. \A m \in Reached : \A a \in Members(entries[m]) : action'[a] = action[a]
    BY <1>2 DEF MenuInv, Known
  <2>5. Known' /\ MenuShown'
    BY <2>1, <2>2, <2>3, <2>4, QuietShown
  <2> QED
    BY <2>1, <2>5 DEF OnePlace, NativeMenus, MenuInv, MenuTypes
<1> QED
  BY <1>1, <1>2

\* Appending to a menu.
LEMMA AppendActionInv ==
  ASSUME MenuInv, NEW m \in MenusMade, NEW a \in Actions, AppendAction(m, a), Calls
  PROVE  MenuInv'
<1> DEFINE es == [entries EXCEPT ![m] = Append(@, a)]
           parents == [parentMenu EXCEPT ![a] = m]
<1>1. /\ m \in actions /\ a \in actions /\ ~Housed(a)
      /\ entries' = es /\ Update(m \in parentWindow, bar, es, action, parents)
      /\ UNCHANGED <<actions, bar, action, emptied>>
  BY DEF AppendAction
<1>2. /\ entries \in Listings /\ parentMenu \in Homes /\ action \in [Actions -> ActionStates]
      /\ \A n \in MenusMade : entries[n] \in Seq(Actions)
  BY DEF MenuInv, MenuTypes, Listings
<1>3. es \in Listings /\ parents \in Homes
  BY <1>2 DEF Listings, Homes
<1>4. \A n \in MenusMade : Members(es[n]) = Members(entries[n]) \union (IF n = m THEN {a} ELSE {})
  <2>1. Members(Append(entries[m], a)) = Members(entries[m]) \union {a}
    BY <1>2, AppendMembers
  <2>2. es[m] = Append(entries[m], a) /\ \A n \in MenusMade \ {m} : es[n] = entries[n]
    BY <1>2 DEF Listings
  <2> QED
    BY <2>1, <2>2
<1>5. a \notin Members(bar) /\ \A n \in MenusMade : a \notin Members(entries[n])
  BY <1>1 DEF Housed
<1>6. \A x \in Actions : parents[x] = IF x = a THEN m ELSE parentMenu[x]
  BY <1>2 DEF Homes
<1> HIDE DEF es, parents
<1>7. \A x \in Actions, n \in MenusMade : parents[x] = n <=> x \in Members(es[n])
  <2> SUFFICES ASSUME NEW x \in Actions, NEW n \in MenusMade
               PROVE  parents[x] = n <=> x \in Members(es[n])
    OBVIOUS
  <2>1. parentMenu[x] = n <=> x \in Members(entries[n])
    BY DEF MenuInv, OnePlace
  <2> QED
    BY <1>4, <1>5, <1>6, <2>1
<1>8. \A n \in Members(bar) : parents[n] = NoAction
  <2>1. Members(bar) \subseteq Actions
    BY MembersType DEF MenuInv, MenuTypes, Actions
  <2> QED
    BY <1>5, <1>6, <2>1 DEF MenuInv, OnePlace
<1>9. m \notin parentWindow => \A n \in Reached : es[n] = entries[n]
  BY <1>2, ReachedKnown DEF es, Listings
<1>10. PICK told \in BOOLEAN : told <=> m \in parentWindow
  OBVIOUS
<1>11. Update(told, bar, es, action, parents)
  BY <1>1, <1>10 DEF Update
<1>12. OnePlace' /\ Known' /\ MenuShown' /\ NativeMenus' /\ parentMenu' = parents
  BY <1>1, <1>2, <1>3, <1>7, <1>8, <1>9, <1>10, <1>11, UpdateShown
<1>13. LiveOnly'
  BY <1>1, <1>4 DEF MenuInv, LiveOnly
<1>14. MenuTypes'
  BY <1>1, <1>2, <1>3, <1>12 DEF MenuInv, MenuTypes, NativeMenus, Calls
<1> QED
  BY <1>12, <1>13, <1>14 DEF MenuInv

\* Taking an action out of the menu it knows of.
LEMMA DroppedShown ==
  ASSUME MenuInv, NEW m \in MenusMade, NEW a \in Actions, parentMenu[a] = m,
         Dropped(m, a), action' = action
  PROVE  /\ OnePlace' /\ Known' /\ MenuShown' /\ NativeMenus'
         /\ parentMenu' = [parentMenu EXCEPT ![a] = NoAction] /\ bar' = bar
         /\ entries' \in Listings
         /\ \A n \in MenusMade : Members(entries'[n]) = Members(entries[n]) \ {a}
<1> DEFINE es == [entries EXCEPT ![m] = Without(@, a)]
           parents == [parentMenu EXCEPT ![a] = NoAction]
<1>1. entries' = es /\ Update(m \in parentWindow, bar, es, action, parents) /\ bar' = bar
  BY DEF Dropped
<1>2. /\ entries \in Listings /\ parentMenu \in Homes /\ action \in [Actions -> ActionStates]
      /\ \A n \in MenusMade : entries[n] \in Seq(Actions) /\ Members(entries[n]) \subseteq Actions
  BY MembersType DEF MenuInv, MenuTypes, Listings
<1>3. Without(entries[m], a) \in Seq(Actions) /\ Members(Without(entries[m], a)) = Members(entries[m]) \ {a}
  BY <1>2, KeptMembers DEF Without
<1>4. es \in Listings /\ parents \in Homes
  BY <1>2, <1>3 DEF Listings, Homes
<1>5. \A n \in MenusMade : a \in Members(entries[n]) => n = m
  BY DEF MenuInv, OnePlace
<1>6. \A n \in MenusMade : Members(es[n]) = Members(entries[n]) \ {a}
  <2>1. es[m] = Without(entries[m], a) /\ \A n \in MenusMade \ {m} : es[n] = entries[n]
    BY <1>2 DEF Listings
  <2> QED
    BY <1>3, <1>5, <2>1
<1>7. \A x \in Actions : parents[x] = IF x = a THEN NoAction ELSE parentMenu[x]
  BY <1>2 DEF Homes
<1>8. NoAction \notin MenusMade
  BY MenuAssumption DEF Actions
<1> HIDE DEF es, parents
<1>9. \A x \in Actions, n \in MenusMade : parents[x] = n <=> x \in Members(es[n])
  <2> SUFFICES ASSUME NEW x \in Actions, NEW n \in MenusMade
               PROVE  parents[x] = n <=> x \in Members(es[n])
    OBVIOUS
  <2>1. parentMenu[x] = n <=> x \in Members(entries[n])
    BY DEF MenuInv, OnePlace
  <2> QED
    BY <1>6, <1>7, <1>8, <2>1
<1>10. \A n \in Members(bar) : parents[n] = NoAction
  <2>1. Members(bar) \subseteq Actions
    BY MembersType DEF MenuInv, MenuTypes, Actions
  <2> QED
    BY <1>7, <2>1 DEF MenuInv, OnePlace
<1>11. m \notin parentWindow => \A n \in Reached : es[n] = entries[n]
  BY <1>2, ReachedKnown DEF es, Listings
<1>12. PICK told \in BOOLEAN : told <=> m \in parentWindow
  OBVIOUS
<1>13. Update(told, bar, es, action, parents)
  BY <1>1, <1>12 DEF Update
<1>14. OnePlace' /\ Known' /\ MenuShown' /\ NativeMenus' /\ parentMenu' = parents
  BY <1>1, <1>2, <1>4, <1>9, <1>10, <1>11, <1>12, <1>13, UpdateShown
<1> QED
  BY <1>1, <1>4, <1>6, <1>14 DEF es, parents

\* Taking a menu out of the bar.
LEMMA UnlistedShown ==
  ASSUME MenuInv, NEW m \in MenusMade, Unlisted(m), action' = action
  PROVE  /\ OnePlace' /\ Known' /\ MenuShown' /\ NativeMenus'
         /\ parentMenu' = parentMenu /\ entries' = entries /\ bar' \in Seq(MenusMade)
         /\ Members(bar') = Members(bar) \ {m}
<1>1. bar' = Without(bar, m) /\ Updated(bar', entries, action, parentMenu) /\ entries' = entries
  BY DEF Unlisted
<1>2. /\ bar \in Seq(MenusMade) /\ Members(bar) \subseteq Actions /\ MenuTypes
      /\ entries \in Listings /\ parentMenu \in Homes /\ action \in [Actions -> ActionStates]
  BY MembersType DEF MenuInv, MenuTypes, Actions
<1>3. bar' \in Seq(MenusMade) /\ Members(bar') = Members(bar) \ {m}
  BY <1>1, <1>2, KeptMembers DEF Without
<1>4. PICK b \in Seq(MenusMade) : b = bar'
  BY <1>3
<1>5. \A n \in Members(b) : parentMenu[n] = NoAction
  BY <1>3, <1>4 DEF MenuInv, OnePlace
<1>6. \A a \in Actions, n \in MenusMade : parentMenu[a] = n <=> a \in Members(entries[n])
  BY DEF MenuInv, OnePlace
<1>7. /\ parentMenu' = parentMenu /\ Known' /\ MenuShown' /\ NativeMenus'
  BY <1>1, <1>2, <1>4, <1>5, <1>6, UpdatedShown DEF NativeMenus
<1> QED
  BY <1>1, <1>3, <1>4, <1>5, <1>6, <1>7 DEF OnePlace

\* Removing from a menu, and from the bar.
LEMMA RemoveActionInv ==
  ASSUME MenuInv, NEW m \in MenusMade, NEW a \in Actions, RemoveAction(m, a), Calls
  PROVE  MenuInv'
<1>1. /\ m \in actions /\ a \in Members(entries[m]) /\ Dropped(m, a)
      /\ UNCHANGED <<actions, action, emptied>>
  BY DEF RemoveAction
<1>2. parentMenu[a] = m
  BY <1>1 DEF MenuInv, OnePlace
<1>3. /\ OnePlace' /\ Known' /\ MenuShown' /\ NativeMenus'
      /\ parentMenu' = [parentMenu EXCEPT ![a] = NoAction] /\ bar' = bar
      /\ entries' \in Listings
      /\ \A n \in MenusMade : Members(entries'[n]) = Members(entries[n]) \ {a}
  BY <1>1, <1>2, DroppedShown
<1>4. LiveOnly'
  BY <1>1, <1>3 DEF MenuInv, LiveOnly
<1>5. MenuTypes'
  BY <1>1, <1>3 DEF MenuInv, MenuTypes, NativeMenus, Homes, Calls
<1> QED
  BY <1>3, <1>4, <1>5 DEF MenuInv

LEMMA RemoveMenuInv ==
  ASSUME MenuInv, NEW m \in MenusMade, RemoveMenu(m), Calls
  PROVE  MenuInv'
<1>1. Unlisted(m) /\ UNCHANGED <<actions, action, emptied>>
  BY DEF RemoveMenu
<1>2. /\ OnePlace' /\ Known' /\ MenuShown' /\ NativeMenus'
      /\ parentMenu' = parentMenu /\ entries' = entries /\ bar' \in Seq(MenusMade)
      /\ Members(bar') = Members(bar) \ {m}
  BY <1>1, UnlistedShown
<1>3. LiveOnly'
  BY <1>1, <1>2 DEF MenuInv, LiveOnly
<1>4. MenuTypes'
  BY <1>1, <1>2 DEF MenuInv, MenuTypes, NativeMenus, Calls
<1> QED
  BY <1>2, <1>3, <1>4 DEF MenuInv

\* Appending to the bar.
LEMMA AppendMenuInv ==
  ASSUME MenuInv, NEW m \in MenusMade, AppendMenu(m), Calls
  PROVE  MenuInv'
<1>1. /\ m \in actions /\ ~Housed(m) /\ bar' = Append(bar, m)
      /\ Updated(bar', entries, action, parentMenu)
      /\ UNCHANGED <<actions, entries, action, emptied>>
  BY DEF AppendMenu
<1>2. /\ bar \in Seq(MenusMade) /\ MenuTypes /\ m \in Actions
      /\ entries \in Listings /\ parentMenu \in Homes /\ action \in [Actions -> ActionStates]
  BY DEF MenuInv, MenuTypes, Actions
<1>3. bar' \in Seq(MenusMade) /\ Members(bar') = Members(bar) \union {m}
  BY <1>1, <1>2, AppendMembers
<1>4. PICK b \in Seq(MenusMade) : b = bar'
  BY <1>3
<1>5. parentMenu[m] = NoAction
  BY <1>1, <1>2 DEF Housed, MenuInv, OnePlace, Homes
<1>6. \A n \in Members(b) : parentMenu[n] = NoAction
  BY <1>3, <1>4, <1>5 DEF MenuInv, OnePlace
<1>7. \A a \in Actions, n \in MenusMade : parentMenu[a] = n <=> a \in Members(entries[n])
  BY DEF MenuInv, OnePlace
<1>8. parentMenu' = parentMenu /\ Known' /\ MenuShown' /\ NativeMenus'
  <2>1. /\ Updated(b, entries, action, parentMenu)
        /\ bar' = b /\ entries' = entries /\ action' = action
    BY <1>1, <1>4
  <2> QED
    BY <1>2, <1>6, <1>7, <2>1, UpdatedShown DEF NativeMenus
<1>9. OnePlace'
  BY <1>1, <1>4, <1>6, <1>7, <1>8 DEF OnePlace
<1>10. LiveOnly'
  BY <1>1, <1>3 DEF MenuInv, LiveOnly
<1>11. MenuTypes'
  BY <1>1, <1>2, <1>3, <1>8 DEF MenuTypes, NativeMenus, Calls
<1> QED
  BY <1>8, <1>9, <1>10, <1>11 DEF MenuInv

\* Enabling and hiding.
LEMMA SetInv ==
  ASSUME MenuInv, NEW a \in Actions, NEW look \in ActionStates, Set(a, look), Calls
  PROVE  MenuInv'
<1> DEFINE act == [action EXCEPT ![a] = look]
<1>1. /\ action' = act /\ Update(a \in parentWindow, bar, entries, action', parentMenu)
      /\ UNCHANGED <<actions, bar, entries, emptied>>
  BY DEF Set
<1>2. /\ entries \in Listings /\ parentMenu \in Homes /\ action \in [Actions -> ActionStates]
  BY DEF MenuInv, MenuTypes
<1>3. act \in [Actions -> ActionStates] /\ \A b \in Actions \ {a} : act[b] = action[b]
  BY <1>2
<1> HIDE DEF act
<1>4. a \notin parentWindow => \A m \in parentWindow : act[m] = action[m]
  BY <1>3 DEF MenuInv, MenuTypes
<1>5. /\ \A x \in Actions, n \in MenusMade : parentMenu[x] = n <=> x \in Members(entries[n])
      /\ \A n \in Members(bar) : parentMenu[n] = NoAction
  BY DEF MenuInv, OnePlace
<1>6. PICK told \in BOOLEAN, es \in Listings, parents \in Homes :
        (told <=> a \in parentWindow) /\ es = entries /\ parents = parentMenu
  BY <1>2
<1>7. Update(told, bar, es, act, parents)
  BY <1>1, <1>6 DEF Update
<1>8. OnePlace' /\ Known' /\ MenuShown' /\ NativeMenus' /\ parentMenu' = parents
  BY <1>1, <1>3, <1>4, <1>5, <1>6, <1>7, UpdateShown
<1>9. LiveOnly'
  BY <1>1 DEF MenuInv, LiveOnly
<1>10. MenuTypes'
  BY <1>1, <1>3, <1>6, <1>8 DEF MenuInv, MenuTypes, NativeMenus, Calls
<1> QED
  BY <1>8, <1>9, <1>10 DEF MenuInv

\* Checking, by the program or by the user.
LEMMA MarkedInv ==
  ASSUME MenuInv, NEW S, S \subseteq Actions \ MenusMade, NEW act \in [Actions -> ActionStates],
         \A a \in Actions : act[a].visible = action[a].visible /\ act[a].enabled = action[a].enabled,
         \A a \in Actions \ S : act[a] = action[a],
         Marked(S, act), picked' \in Actions \union {NoAction}
  PROVE  MenuInv'
<1>1. Known' /\ MenuShown' /\ popup' \in [MenusMade -> Seq(Entries)]
  BY MarkedShown
<1>2. action' = act /\ UNCHANGED <<actions, bar, entries, parentMenu, parentWindow, strip, emptied>>
  BY DEF Marked
<1>3. OnePlace' /\ LiveOnly'
  BY <1>2 DEF MenuInv, OnePlace, LiveOnly
<1>4. MenuTypes'
  BY <1>1, <1>2 DEF MenuInv, MenuTypes
<1> QED
  BY <1>1, <1>3, <1>4 DEF MenuInv

LEMMA CheckItemInv ==
  ASSUME MenuInv, NEW c \in ChecksMade, NEW on \in BOOLEAN, CheckItem(c, on),
         picked' \in Actions \union {NoAction}
  PROVE  MenuInv'
<1>1. PICK act, S : act = [action EXCEPT ![c].checked = on] /\ S = {c}
  OBVIOUS
<1>2. action \in [Actions -> ActionStates] /\ c \in Actions /\ c \notin MenusMade
  BY MenuAssumption DEF MenuInv, MenuTypes, Actions
<1>3. /\ act \in [Actions -> ActionStates]
      /\ \A a \in Actions : act[a].visible = action[a].visible /\ act[a].enabled = action[a].enabled
      /\ \A a \in Actions \ S : act[a] = action[a]
  BY <1>1, <1>2 DEF ActionStates
<1>4. Marked(S, act) /\ S \subseteq Actions \ MenusMade
  BY <1>1, <1>2 DEF CheckItem
<1> QED
  BY <1>3, <1>4, MarkedInv

LEMMA CheckRadioInv ==
  ASSUME MenuInv, NEW r \in Actions, CheckRadio(r), Calls
  PROVE  MenuInv'
<1>1. PICK S, act : /\ S = RadiosMade \intersect actions
                    /\ act = [a \in Actions |-> IF a \in S THEN [action[a] EXCEPT !.checked = a = r]
                                                ELSE action[a]]
  OBVIOUS
<1>2. action \in [Actions -> ActionStates] /\ S \subseteq Actions \ MenusMade
  BY <1>1, MenuAssumption DEF MenuInv, MenuTypes, Actions
<1>3. /\ act \in [Actions -> ActionStates]
      /\ \A a \in Actions : act[a].visible = action[a].visible /\ act[a].enabled = action[a].enabled
      /\ \A a \in Actions \ S : act[a] = action[a]
  BY <1>1, <1>2 DEF ActionStates
<1>4. Marked(S, act) /\ picked' \in Actions \union {NoAction}
  BY <1>1 DEF CheckRadio, Calls
<1> QED
  BY <1>2, <1>3, <1>4, MarkedInv

\* Destroying: the action leaves the menu that lists it, or the bar.
LEMMA DestroyInv ==
  ASSUME MenuInv, NEW a \in Actions, Destroy(a), Calls
  PROVE  MenuInv'
<1>1. /\ a \in actions /\ parentMenu[a] \in actions \union {NoAction}
      /\ actions' = actions \ {a} /\ action' = action
      /\ emptied' = (emptied /\ (a \in MenusMade => entries[a] = <<>>))
  BY DEF Destroy
<1>2. /\ OnePlace' /\ Known' /\ MenuShown' /\ NativeMenus' /\ parentMenu' \in Homes
      /\ entries' \in Listings /\ bar' \in Seq(MenusMade)
      /\ Members(bar') \subseteq Members(bar) \ {a}
      /\ \A n \in MenusMade : Members(entries'[n]) = Members(entries[n]) \ {a}
  <2>0. /\ bar \in Seq(MenusMade) /\ entries \in Listings /\ parentMenu \in Homes
        /\ OnePlace /\ NoAction \notin MenusMade /\ Members(bar) \subseteq MenusMade
    BY MenuAssumption, MembersType DEF MenuInv, MenuTypes, Actions
  <2>1. CASE parentMenu[a] # NoAction
    <3>1. PICK m \in MenusMade : m = parentMenu[a]
      BY <2>0, <2>1 DEF Homes
    <3>2. Dropped(m, a)
      BY <2>1, <3>1 DEF Destroy
    <3>3. /\ OnePlace' /\ Known' /\ MenuShown' /\ NativeMenus'
          /\ parentMenu' = [parentMenu EXCEPT ![a] = NoAction] /\ bar' = bar
          /\ entries' \in Listings
          /\ \A n \in MenusMade : Members(entries'[n]) = Members(entries[n]) \ {a}
      BY <1>1, <3>1, <3>2, DroppedShown
    <3>4. a \notin Members(bar)
      BY <2>0, <2>1 DEF OnePlace
    <3> QED
      BY <2>0, <3>3, <3>4 DEF Homes
  <2>2. CASE parentMenu[a] = NoAction /\ a \in Members(bar)
    <3>1. Unlisted(a) /\ a \in MenusMade
      BY <2>0, <2>2 DEF Destroy
    <3>2. /\ OnePlace' /\ Known' /\ MenuShown' /\ NativeMenus'
          /\ parentMenu' = parentMenu /\ entries' = entries /\ bar' \in Seq(MenusMade)
          /\ Members(bar') = Members(bar) \ {a}
      BY <1>1, <3>1, UnlistedShown
    <3>3. \A n \in MenusMade : a \notin Members(entries[n])
      BY <2>0, <2>2 DEF OnePlace
    <3> QED
      BY <2>0, <3>2, <3>3
  <2>3. CASE parentMenu[a] = NoAction /\ a \notin Members(bar)
    <3>1. UNCHANGED <<bar, entries, parentMenu, parentWindow, strip, popup>>
      BY <2>3 DEF Destroy
    <3>2. \A n \in MenusMade : a \notin Members(entries[n])
      BY <2>0, <2>3 DEF OnePlace
    <3>3. Reached' = Reached
      BY <1>1, <3>1 DEF Reached
    <3>4. OnePlace' /\ Known' /\ MenuShown' /\ NativeMenus'
      BY <1>1, <3>1, <3>3 DEF MenuInv, MenuTypes, OnePlace, Known, MenuShown, NativeMenus
    <3> QED
      BY <2>0, <2>3, <3>1, <3>2, <3>4
  <2> QED
    BY <2>1, <2>2, <2>3
<1>3. entries[a] = <<>> => Members(entries[a]) = {}
  BY DEF Members
<1>4. LiveOnly'
  BY <1>1, <1>2, <1>3 DEF MenuInv, LiveOnly
<1>5. MenuTypes'
  BY <1>1, <1>2 DEF MenuInv, MenuTypes, NativeMenus, Calls
<1> QED
  BY <1>2, <1>4, <1>5 DEF MenuInv

\* Choosing an entry.
LEMMA ChooseInv ==
  ASSUME MenuInv, NEW a \in Actions, Choose(a)
  PROVE  MenuInv'
<1>1. picked' = a
  BY DEF Choose
<1>2. CASE a \in ChecksMade
  <2>1. CheckItem(a, ~action[a].checked)
    BY <1>2 DEF Choose
  <2>2. PICK on \in BOOLEAN : on = ~action[a].checked
    OBVIOUS
  <2> QED
    BY <1>1, <1>2, <2>1, <2>2, CheckItemInv
<1>3. CASE a \notin ChecksMade
  <2>1. UNCHANGED <<actions, bar, entries, action, parentMenu, parentWindow, strip, popup, emptied>>
    BY <1>3 DEF Choose
  <2>2. Reached' = Reached
    BY <2>1 DEF Reached
  <2> QED
    BY <1>1, <2>1, <2>2
       DEF MenuInv, MenuTypes, OnePlace, LiveOnly, Known, MenuShown
<1> QED
  BY <1>2, <1>3

\* Before anything is in the bar nothing is to be seen.
LEMMA MenuInitInv == MenuInit => MenuInv
<1> SUFFICES ASSUME MenuInit PROVE MenuInv
  OBVIOUS
<1>1. /\ actions = Actions /\ bar = <<>> /\ entries = [m \in MenusMade |-> <<>>]
      /\ parentMenu = [a \in Actions |-> NoAction] /\ parentWindow = {}
      /\ strip = <<>> /\ popup = [m \in MenusMade |-> <<>>]
      /\ picked = NoAction /\ emptied = TRUE
  BY DEF MenuInit
<1>2. action \in [Actions -> ActionStates]
  <2>1. PICK first :
          action = [a \in Actions |-> [enabled |-> TRUE, visible |-> TRUE, checked |-> a = first]]
    BY DEF MenuInit
  <2> QED
    BY <2>1 DEF ActionStates
<1>3. Members(<<>>) = {} /\ NoAction \notin MenusMade
  BY MenuAssumption DEF Members, Actions
<1>4. MenuTypes
  BY <1>1, <1>2 DEF MenuTypes, Listings, Homes
<1>5. OnePlace /\ LiveOnly
  BY <1>1, <1>3 DEF OnePlace, LiveOnly
<1>6. \A m \in MenusMade : Members(entries[m]) = {}
  BY <1>1, <1>3
<1>7. \A kids : DOMAIN kids = MenusMade => Walk(kids, {}) = {}
  <2> SUFFICES ASSUME NEW kids, DOMAIN kids = MenusMade PROVE Walk(kids, {}) \subseteq {}
    OBVIOUS
  <2> QED
    BY WalkLeast
<1>8. DOMAIN Visible(entries, action) = MenusMade
  BY DEF Visible
<1>9. Known
  BY <1>1, <1>3, <1>7, <1>8 DEF Known, Reached
<1>10. Kept(bar, VisibleActions(action)) = <<>>
  <2>0. bar \in Seq(MenusMade) /\ Members(bar) = {}
    BY <1>1, <1>3
  <2>1. Kept(bar, VisibleActions(action)) \in Seq(MenusMade)
        /\ Members(Kept(bar, VisibleActions(action))) = {}
    BY <2>0, KeptMembers
  <2> QED
    BY <2>1, MembersType
<1>11. MenuShown
  BY <1>1, <1>3, <1>7, <1>8, <1>10 DEF MenuShown
<1> QED
  BY <1>4, <1>5, <1>9, <1>11 DEF MenuInv

\* Every call and every choice of the user keeps the invariant.
LEMMA MenuStep == MenuInv /\ [MenuNext]_menuVars => MenuInv'
<1> SUFFICES ASSUME MenuInv, [MenuNext]_menuVars PROVE MenuInv'
  OBVIOUS
<1>1. \A a \in Actions, b \in BOOLEAN :
        /\ [action[a] EXCEPT !.enabled = ~@] \in ActionStates
        /\ [action[a] EXCEPT !.visible = ~@] \in ActionStates
  BY DEF MenuInv, MenuTypes, ActionStates
<1>2. ASSUME NEW a \in Actions, Calls, SetActionEnabled(a) \/ SetActionVisible(a) PROVE MenuInv'
  <2>1. \E look \in ActionStates : Set(a, look)
    BY <1>1, <1>2 DEF SetActionEnabled, SetActionVisible
  <2> QED
    BY <1>2, <2>1, SetInv
<1>3. ASSUME NEW c \in ChecksMade, NEW on \in BOOLEAN, Calls, CheckItem(c, on) PROVE MenuInv'
  BY <1>3, CheckItemInv DEF Calls
<1>4. CASE UNCHANGED menuVars
  <2>1. UNCHANGED <<actions, bar, entries, action, parentMenu, parentWindow, strip, popup, emptied, picked>>
    BY <1>4 DEF menuVars
  <2>2. Reached' = Reached
    BY <2>1 DEF Reached
  <2> QED
    BY <2>1, <2>2 DEF MenuInv, MenuTypes, OnePlace, LiveOnly, Known, MenuShown
<1> QED
  BY <1>2, <1>3, <1>4, AppendMenuInv, RemoveMenuInv, AppendActionInv, RemoveActionInv,
     DestroyInv, CheckRadioInv, ChooseInv DEF MenuNext

\* For any menus and items, the user sees the state, whatever was appended,
\* hidden, removed and put elsewhere.
THEOREM MenuShownHolds == MenuSpec => []MenuShown
<1>1. MenuInv => MenuShown
  BY DEF MenuInv
<1> QED
  BY <1>1, MenuInitInv, MenuStep, PTL DEF MenuSpec

\* Nothing that is destroyed is in a menu or in the bar, and with menus emptied
\* first each action knows the menu it is in.
THEOREM NothingDeadHolds == MenuSpec => []NothingDead
<1>1. MenuInv => NothingDead
  BY DEF MenuInv, MenuTypes, OnePlace, LiveOnly, NothingDead
<1> QED
  BY <1>1, MenuInitInv, MenuStep, PTL DEF MenuSpec

\* The variables have their types.
THEOREM MenuTypeCorrect == MenuSpec => []MenuTypeOK
<1>1. MenuInv => MenuTypeOK
  <2> SUFFICES ASSUME MenuInv PROVE MenuTypeOK
    OBVIOUS
  <2>1. MenuTypes
    BY DEF MenuInv
  <2>2. Members(bar) \subseteq MenusMade /\ Members(strip) \subseteq MenusMade
        /\ \A m \in MenusMade : Members(entries[m]) \subseteq Actions
    BY <2>1, MembersType DEF MenuTypes, Listings
  <2> QED
    BY <2>1, <2>2 DEF MenuTypeOK, MenuTypes, Homes, Actions, ActionStates, Entries
<1> QED
  BY <1>1, MenuInitInv, MenuStep, PTL DEF MenuSpec

-----------------------------------------------------------------------------
\* The sums of a box layout: the first n of f, one by one.
SumFrom(f, n, g) == g = [i \in 0..n |-> IF i = 0 THEN 0 ELSE g[i - 1] + f[i]]
MostFrom(f, n, g) == g = [i \in 0..n |-> IF i = 0 THEN 0 ELSE IF g[i - 1] < f[i] THEN f[i] ELSE g[i - 1]]

\* f has numbers in its first n places.
Sums(f, n) == \A i \in 1..n : f[i] \in Int

\* There are such sums, and only one for each n.
LEMMA SumExists ==
  ASSUME NEW f, NEW n \in Nat
  PROVE  \E g : SumFrom(f, n, g)
<1> DEFINE Good == {k \in Nat : \E g : SumFrom(f, k, g)}
<1>1. SUFFICES ASSUME n \notin Good PROVE FALSE
  OBVIOUS
<1>2. PICK k \in Nat : k \notin Good /\ \A j \in Nat : j < k => j \in Good
  BY <1>1, LeastOutside
<1>3. CASE k = 0
  <2>1. SumFrom(f, k, [i \in 0..0 |-> 0])
    BY <1>3 DEF SumFrom
  <2> QED
    BY <1>2, <2>1
<1>4. CASE k # 0
  <2>1. k - 1 \in Nat /\ k - 1 < k
    BY <1>4
  <2>2. PICK g : SumFrom(f, k - 1, g)
    BY <1>2, <2>1
  <2> DEFINE h == [i \in 0..k |-> IF i = k THEN g[k - 1] + f[k] ELSE g[i]]
  <2>3. g = [i \in 0..k - 1 |-> IF i = 0 THEN 0 ELSE g[i - 1] + f[i]]
    BY <2>2 DEF SumFrom
  <2>4. ASSUME NEW i \in 0..k PROVE h[i] = IF i = 0 THEN 0 ELSE h[i - 1] + f[i]
    <3>1. CASE i = k
      <4>1. h[k] = g[k - 1] + f[k] /\ h[k - 1] = g[k - 1]
        BY <1>4, <2>1
      <4> QED
        BY <1>4, <3>1, <4>1
    <3>2. CASE i # k
      <4>1. i \in 0..k - 1 /\ h[i] = g[i]
        BY <3>2
      <4>2. i # 0 => h[i - 1] = g[i - 1]
        BY <3>2
      <4>3. g[i] = IF i = 0 THEN 0 ELSE g[i - 1] + f[i]
        BY <2>3, <4>1
      <4> QED
        BY <4>1, <4>2, <4>3
    <3> QED
      BY <3>1, <3>2
  <2> HIDE DEF h
  <2>5. DOMAIN h = 0..k /\ h = [i \in 0..k |-> h[i]]
    BY DEF h
  <2>6. SumFrom(f, k, h)
    BY <2>4, <2>5 DEF SumFrom
  <2> QED
    BY <1>2, <2>6
<1> QED
  BY <1>3, <1>4

\* Each sum in terms of the one before.
LEMMA SumNext ==
  ASSUME NEW f, NEW n \in Nat, NEW g, SumFrom(f, n, g)
  PROVE  g[0] = 0 /\ \A i \in 1..n : g[i] = g[i - 1] + f[i]
<1>1. g = [i \in 0..n |-> IF i = 0 THEN 0 ELSE g[i - 1] + f[i]]
  BY DEF SumFrom
<1>2. 0 \in 0..n /\ \A i \in 1..n : i \in 0..n /\ i # 0
  OBVIOUS
<1> QED
  BY <1>1, <1>2

LEMMA SumSame ==
  ASSUME NEW f, NEW n \in Nat, NEW g, SumFrom(f, n, g), NEW m \in Nat, NEW h, SumFrom(f, m, h),
         NEW k \in Nat, k <= n, k <= m
  PROVE  g[k] = h[k]
<1>1. /\ g[0] = 0 /\ \A i \in 1..n : g[i] = g[i - 1] + f[i]
      /\ h[0] = 0 /\ \A i \in 1..m : h[i] = h[i - 1] + f[i]
  BY SumNext
<1> DEFINE Good == {i \in Nat : i <= n /\ i <= m => g[i] = h[i]}
<1>2. SUFFICES ASSUME k \notin Good PROVE FALSE
  OBVIOUS
<1>3. PICK i \in Nat : i \notin Good /\ \A j \in Nat : j < i => j \in Good
  BY <1>2, LeastOutside
<1>4. i <= n /\ i <= m /\ g[i] # h[i]
  BY <1>3
<1>5. i # 0
  BY <1>1, <1>4
<1>6. i - 1 \in Nat /\ i - 1 < i /\ i - 1 <= n /\ i - 1 <= m /\ i \in 1..n /\ i \in 1..m
  BY <1>4, <1>5
<1>7. g[i - 1] = h[i - 1]
  BY <1>3, <1>6
<1> QED
  BY <1>1, <1>4, <1>6, <1>7

LEMMA TotalIs ==
  ASSUME NEW f, NEW n \in Nat
  PROVE  \E g : SumFrom(f, n, g) /\ Total(f, n) = g[n]
<1> DEFINE g == CHOOSE g : SumFrom(f, n, g)
<1>1. SumFrom(f, n, g)
  BY SumExists
<1>2. Total(f, n) = g[n]
  BY DEF Total, SumFrom
<1> QED
  BY <1>1, <1>2

\* The sum of one more.
LEMMA TotalStep ==
  ASSUME NEW f
  PROVE  /\ Total(f, 0) = 0
         /\ \A n \in Nat \ {0} : Total(f, n) = Total(f, n - 1) + f[n]
<1>1. Total(f, 0) = 0
  <2>1. PICK g : SumFrom(f, 0, g) /\ Total(f, 0) = g[0]
    BY TotalIs
  <2> QED
    BY <2>1, SumNext
<1>2. ASSUME NEW n \in Nat \ {0} PROVE Total(f, n) = Total(f, n - 1) + f[n]
  <2>1. n \in Nat /\ n - 1 \in Nat /\ n \in 1..n
    OBVIOUS
  <2>2. PICK g : SumFrom(f, n, g) /\ Total(f, n) = g[n]
    BY <2>1, TotalIs
  <2>3. PICK h : SumFrom(f, n - 1, h) /\ Total(f, n - 1) = h[n - 1]
    BY <2>1, TotalIs
  <2>4. g[n] = g[n - 1] + f[n]
    BY <2>1, <2>2, SumNext
  <2>5. g[n - 1] = h[n - 1]
    BY <2>1, <2>2, <2>3, SumSame
  <2> QED
    BY <2>2, <2>3, <2>4, <2>5
<1> QED
  BY <1>1, <1>2

\* The sums of numbers are numbers.
LEMMA TotalInt ==
  ASSUME NEW f, NEW n \in Nat, Sums(f, n)
  PROVE  Total(f, n) \in Int
<1> DEFINE Good == {k \in Nat : k <= n => Total(f, k) \in Int}
<1>1. SUFFICES ASSUME n \notin Good PROVE FALSE
  OBVIOUS
<1>2. PICK k \in Nat : k \notin Good /\ \A j \in Nat : j < k => j \in Good
  BY <1>1, LeastOutside
<1>3. k <= n /\ Total(f, k) \notin Int
  BY <1>2
<1>4. k # 0
  BY <1>3, TotalStep
<1>5. k - 1 \in Nat /\ k - 1 < k /\ k - 1 <= n /\ k \in 1..n
  BY <1>3, <1>4
<1>6. Total(f, k - 1) \in Int /\ f[k] \in Int /\ Total(f, k) = Total(f, k - 1) + f[k]
  BY <1>2, <1>4, <1>5, TotalStep DEF Sums
<1> QED
  BY <1>3, <1>6

\* A sum of sums: f is g and k times h, place by place.
LEMMA TotalLinear ==
  ASSUME NEW f, NEW g, NEW h, NEW k \in Int, NEW n \in Nat, Sums(f, n), Sums(g, n), Sums(h, n),
         \A i \in 1..n : f[i] = g[i] + k * h[i]
  PROVE  Total(f, n) = Total(g, n) + k * Total(h, n)
<1> DEFINE Good == {m \in Nat : m <= n => Total(f, m) = Total(g, m) + k * Total(h, m)}
<1>1. SUFFICES ASSUME n \notin Good PROVE FALSE
  OBVIOUS
<1>2. PICK m \in Nat : m \notin Good /\ \A j \in Nat : j < m => j \in Good
  BY <1>1, LeastOutside
<1>3. m <= n /\ Total(f, m) # Total(g, m) + k * Total(h, m)
  BY <1>2
<1>4. m # 0
  BY <1>3, TotalStep
<1>5. m - 1 \in Nat /\ m - 1 < m /\ m - 1 <= n /\ m \in 1..n
  BY <1>3, <1>4
<1>6. Total(f, m - 1) = Total(g, m - 1) + k * Total(h, m - 1)
  BY <1>2, <1>5
<1>7. /\ Total(f, m) = Total(f, m - 1) + f[m]
      /\ Total(g, m) = Total(g, m - 1) + g[m]
      /\ Total(h, m) = Total(h, m - 1) + h[m]
  BY <1>4, TotalStep
<1>8. /\ f[m] \in Int /\ g[m] \in Int /\ h[m] \in Int /\ f[m] = g[m] + k * h[m]
  BY <1>5 DEF Sums
<1>9. Total(g, m - 1) \in Int /\ Total(h, m - 1) \in Int
  <2>1. Sums(g, m - 1) /\ Sums(h, m - 1)
    BY <1>5 DEF Sums
  <2> QED
    BY <1>5, <2>1, TotalInt
<1> DEFINE a == Total(g, m - 1)
           b == Total(h, m - 1)
           c == g[m]
           d == h[m]
<1>10. a \in Int /\ b \in Int /\ c \in Int /\ d \in Int
       /\ Total(f, m) = (a + k * b) + (c + k * d) /\ Total(g, m) = a + c /\ Total(h, m) = b + d
  BY <1>6, <1>7, <1>8, <1>9
<1> HIDE DEF a, b, c, d
<1>11. (a + k * b) + (c + k * d) = (a + c) + k * (b + d)
  BY <1>10
<1> QED
  BY <1>3, <1>10, <1>11

\* The sums of what is not negative grow.
LEMMA TotalGrows ==
  ASSUME NEW f, NEW n \in Nat, Sums(f, n), \A i \in 1..n : f[i] >= 0
  PROVE  \A m \in 0..n : Total(f, m) \in Int /\ Total(f, m) >= 0 /\ Total(f, m) <= Total(f, n)
<1>1. \A m \in 0..n : Total(f, m) \in Int
  <2> SUFFICES ASSUME NEW m \in 0..n PROVE Total(f, m) \in Int
    OBVIOUS
  <2>1. m \in Nat /\ Sums(f, m)
    BY DEF Sums
  <2> QED
    BY <2>1, TotalInt
<1> DEFINE Good == {k \in Nat : k <= n => Total(f, k) >= 0 /\ \A m \in 0..k : Total(f, m) <= Total(f, k)}
<1>2. SUFFICES \A k \in Nat : k \in Good
  BY <1>1
<1>3. SUFFICES ASSUME NEW k0 \in Nat, k0 \notin Good PROVE FALSE
  OBVIOUS
<1>4. PICK k \in Nat : k \notin Good /\ \A j \in Nat : j < k => j \in Good
  BY <1>3, LeastOutside
<1>5. k <= n /\ ~(Total(f, k) >= 0 /\ \A m \in 0..k : Total(f, m) <= Total(f, k))
  BY <1>4
<1>6. k # 0
  <2>1. ASSUME k = 0 PROVE FALSE
    <3>1. Total(f, 0) = 0 /\ \A m \in 0..0 : m = 0
      BY TotalStep
    <3> QED
      BY <1>5, <2>1, <3>1
  <2> QED
    BY <2>1
<1>7. k - 1 \in Nat /\ k - 1 < k /\ k - 1 <= n /\ k \in 1..n /\ k \in 0..n /\ k - 1 \in 0..n
  BY <1>5, <1>6
<1>8. Total(f, k - 1) >= 0 /\ \A m \in 0..k - 1 : Total(f, m) <= Total(f, k - 1)
  BY <1>4, <1>7
<1>9. Total(f, k) = Total(f, k - 1) + f[k] /\ f[k] >= 0 /\ f[k] \in Int
  BY <1>6, <1>7, TotalStep DEF Sums
<1>10. Total(f, k - 1) \in Int /\ Total(f, k) \in Int
  BY <1>1, <1>7
<1>11. Total(f, k) >= 0 /\ Total(f, k - 1) <= Total(f, k)
  BY <1>8, <1>9, <1>10
<1>12. ASSUME NEW m \in 0..k PROVE Total(f, m) <= Total(f, k)
  <2>1. CASE m = k
    BY <1>10, <2>1
  <2>2. CASE m # k
    <3>1. m \in 0..k - 1 /\ m \in 0..n
      BY <1>7, <2>2
    <3> QED
      BY <1>1, <1>8, <1>10, <1>11, <3>1
  <2> QED
    BY <2>1, <2>2
<1> QED
  BY <1>5, <1>11, <1>12

\* No number is more than the sum.
LEMMA TotalCovers ==
  ASSUME NEW f, NEW n \in Nat, Sums(f, n), \A i \in 1..n : f[i] >= 0, NEW i \in 1..n
  PROVE  f[i] <= Total(f, n)
<1>1. i \in Nat \ {0} /\ i \in 0..n /\ i - 1 \in 0..n
  OBVIOUS
<1>2. Total(f, i) = Total(f, i - 1) + f[i]
  BY <1>1, TotalStep
<1>3. /\ Total(f, i) \in Int /\ Total(f, i) <= Total(f, n) /\ Total(f, n) \in Int
      /\ Total(f, i - 1) \in Int /\ Total(f, i - 1) >= 0
  <2>1. n \in 0..n
    OBVIOUS
  <2> QED
    BY <1>1, <2>1, TotalGrows
<1>4. f[i] \in Int
  BY DEF Sums
<1> QED
  BY <1>2, <1>3, <1>4

\* The sum of n numbers of b at most.
LEMMA TotalMost ==
  ASSUME NEW f, NEW n \in Nat, Sums(f, n), NEW b \in Int, \A i \in 1..n : f[i] <= b
  PROVE  Total(f, n) <= n * b
<1> DEFINE Good == {k \in Nat : k <= n => Total(f, k) <= k * b}
<1>1. SUFFICES ASSUME n \notin Good PROVE FALSE
  OBVIOUS
<1>2. PICK k \in Nat : k \notin Good /\ \A j \in Nat : j < k => j \in Good
  BY <1>1, LeastOutside
<1>3. k <= n /\ ~(Total(f, k) <= k * b)
  BY <1>2
<1>4. k # 0
  BY <1>3, TotalStep
<1>5. k - 1 \in Nat /\ k - 1 < k /\ k - 1 <= n /\ k \in 1..n
  BY <1>3, <1>4
<1>6. Total(f, k - 1) <= (k - 1) * b
  BY <1>2, <1>5
<1>7. Total(f, k) = Total(f, k - 1) + f[k] /\ f[k] \in Int /\ f[k] <= b
  BY <1>4, <1>5, TotalStep DEF Sums
<1>8. Total(f, k - 1) \in Int
  <2>1. Sums(f, k - 1)
    BY <1>5 DEF Sums
  <2> QED
    BY <1>5, <2>1, TotalInt
<1>9. (k - 1) * b + b = k * b /\ (k - 1) * b \in Int /\ k * b \in Int
  OBVIOUS
<1> QED
  BY <1>3, <1>6, <1>7, <1>8, <1>9

\* What is more place by place is more in all.
LEMMA TotalLess ==
  ASSUME NEW f, NEW g, NEW n \in Nat, Sums(f, n), Sums(g, n), \A i \in 1..n : f[i] <= g[i]
  PROVE  Total(f, n) <= Total(g, n)
<1> DEFINE h == [i \in 1..n |-> g[i] - f[i]]
<1>1. Sums(h, n) /\ \A i \in 1..n : h[i] >= 0 /\ g[i] = f[i] + 1 * h[i]
  BY DEF Sums
<1> HIDE DEF h
<1>2. Total(g, n) = Total(f, n) + 1 * Total(h, n)
  BY <1>1, TotalLinear
<1>3. Total(h, n) >= 0
  <2>1. n \in 0..n
    OBVIOUS
  <2> QED
    BY <1>1, <2>1, TotalGrows
<1>4. Total(f, n) \in Int /\ Total(g, n) \in Int /\ Total(h, n) \in Int
  BY <1>1, TotalInt
<1> QED
  BY <1>2, <1>3, <1>4

\* The greatest of the first n.
LEMMA MostExists ==
  ASSUME NEW f, NEW n \in Nat
  PROVE  \E g : MostFrom(f, n, g)
<1> DEFINE Good == {k \in Nat : \E g : MostFrom(f, k, g)}
           Next1(g, i) == IF g[i - 1] < f[i] THEN f[i] ELSE g[i - 1]
<1>0. ASSUME NEW k, NEW g
      PROVE  MostFrom(f, k, g) <=> g = [i \in 0..k |-> IF i = 0 THEN 0 ELSE Next1(g, i)]
  BY DEF MostFrom
<1>1. SUFFICES ASSUME n \notin Good PROVE FALSE
  OBVIOUS
<1>2. PICK k \in Nat : k \notin Good /\ \A j \in Nat : j < k => j \in Good
  BY <1>1, LeastOutside
<1>3. CASE k = 0
  <2> DEFINE h == [i \in 0..0 |-> 0]
  <2>1. h = [i \in 0..k |-> IF i = 0 THEN 0 ELSE Next1(h, i)]
    BY <1>3
  <2> QED
    BY <1>0, <1>2, <2>1
<1>4. CASE k # 0
  <2>1. k - 1 \in Nat /\ k - 1 < k
    BY <1>4
  <2>2. PICK g : MostFrom(f, k - 1, g)
    BY <1>2, <2>1
  <2> DEFINE h == [i \in 0..k |-> IF i = k THEN Next1(g, k) ELSE g[i]]
  <2>3. g = [i \in 0..k - 1 |-> IF i = 0 THEN 0 ELSE Next1(g, i)]
    BY <1>0, <2>2
  <2>4. ASSUME NEW i \in 0..k PROVE h[i] = IF i = 0 THEN 0 ELSE Next1(h, i)
    <3>1. CASE i = k
      <4>1. h[k] = Next1(g, k) /\ h[k - 1] = g[k - 1]
        BY <1>4, <2>1
      <4> QED
        BY <1>4, <3>1, <4>1
    <3>2. CASE i # k
      <4>1. i \in 0..k - 1 /\ h[i] = g[i]
        BY <3>2
      <4>2. i # 0 => h[i - 1] = g[i - 1]
        BY <3>2
      <4>3. g[i] = IF i = 0 THEN 0 ELSE Next1(g, i)
        BY <2>3, <4>1
      <4> QED
        BY <4>1, <4>2, <4>3
    <3> QED
      BY <3>1, <3>2
  <2> HIDE DEF h
  <2>5. DOMAIN h = 0..k /\ h = [i \in 0..k |-> h[i]]
    BY DEF h
  <2>6. h = [i \in 0..k |-> IF i = 0 THEN 0 ELSE Next1(h, i)]
    BY <2>4, <2>5
  <2> QED
    BY <1>0, <1>2, <2>6
<1> QED
  BY <1>3, <1>4

LEMMA GreatestIs ==
  ASSUME NEW f, NEW n \in Nat, Sums(f, n), NEW b \in Nat, \A i \in 1..n : f[i] <= b
  PROVE  /\ Greatest(f, n) \in 0..b
         /\ \A i \in 1..n : f[i] <= Greatest(f, n)
<1> DEFINE g == CHOOSE g : MostFrom(f, n, g)
<1>1. MostFrom(f, n, g)
  BY MostExists
<1>2. Greatest(f, n) = g[n]
  BY DEF Greatest, MostFrom
<1> HIDE DEF g
<1>3. g[0] = 0 /\ \A i \in 1..n : g[i] = IF g[i - 1] < f[i] THEN f[i] ELSE g[i - 1]
  <2>1. g = [i \in 0..n |-> IF i = 0 THEN 0 ELSE IF g[i - 1] < f[i] THEN f[i] ELSE g[i - 1]]
    BY <1>1 DEF MostFrom
  <2>2. 0 \in 0..n /\ \A i \in 1..n : i \in 0..n /\ i # 0
    OBVIOUS
  <2> QED
    BY <2>1, <2>2
<1> DEFINE Good == {k \in Nat : k <= n => g[k] \in 0..b /\ \A i \in 1..k : f[i] <= g[k]}
<1>4. n \in Good
  <2>1. SUFFICES ASSUME n \notin Good PROVE FALSE
    OBVIOUS
  <2>2. PICK k \in Nat : k \notin Good /\ \A j \in Nat : j < k => j \in Good
    BY <2>1, LeastOutside
  <2>3. k <= n /\ ~(g[k] \in 0..b /\ \A i \in 1..k : f[i] <= g[k])
    BY <2>2
  <2>4. k # 0
    BY <1>3, <2>3
  <2>5. k - 1 \in Nat /\ k - 1 < k /\ k - 1 <= n /\ k \in 1..n
    BY <2>3, <2>4
  <2>6. g[k - 1] \in 0..b /\ \A i \in 1..k - 1 : f[i] <= g[k - 1]
    BY <2>2, <2>5
  <2>7. g[k] = (IF g[k - 1] < f[k] THEN f[k] ELSE g[k - 1]) /\ f[k] \in Int /\ f[k] <= b
    BY <1>3, <2>5 DEF Sums
  <2>8. g[k] \in 0..b /\ g[k - 1] <= g[k] /\ f[k] <= g[k]
    BY <2>6, <2>7
  <2>9. ASSUME NEW i \in 1..k PROVE f[i] <= g[k]
    <3>1. i = k \/ i \in 1..k - 1
      BY <2>5
    <3>2. f[i] \in Int
      BY <2>3 DEF Sums
    <3> QED
      BY <2>6, <2>8, <3>1, <3>2
  <2> QED
    BY <2>3, <2>8, <2>9
<1> QED
  BY <1>2, <1>4

-----------------------------------------------------------------------------
\* The places are those of the room the layout was last laid out in.
BoxInv ==
    /\ \E n \in 0..MaxKids : children \in [1..n -> Kids]
    /\ margin \in Margins /\ alignment \in Alignments
    /\ places = <<>> \/ (room \in Rooms /\ places = Laid(room))

\* The numbers there are; and what each child gets: what it needs, or what is
\* left for those of the largest size.
LEMMA BoxNumbers ==
  ASSUME BoxInv
  PROVE  /\ Count \in 0..MaxKids /\ DOMAIN children = 1..Count
         /\ margin \in 0..Largest /\ alignment \in 0..2
         /\ Modulus \div 2 \in Nat /\ 2 * (Modulus \div 2) = Modulus
         /\ 2 * margin + Count * (2 * Largest) < Modulus
         /\ Largest < Modulus \div 2
<1>1. PICK n \in 0..MaxKids : children \in [1..n -> Kids]
  BY DEF BoxInv
<1>2. Count = n
  <2>1. children \in Seq(Kids) /\ DOMAIN children = 1..n
    BY <1>1
  <2> QED
    BY <1>1, <2>1, LenProperties DEF Count
<1>3. margin \in 0..Largest /\ alignment \in 0..2
  BY SizesAssumption, BoxAssumption DEF BoxInv
<1>4. Modulus \div 2 \in Nat /\ 2 * (Modulus \div 2) = Modulus
  BY BoxAssumption
<1>5. /\ MaxKids \in Nat /\ Largest \in Nat /\ Modulus \in Nat
      /\ 2 * Largest * (MaxKids + 1) < Modulus
  BY BoxAssumption, SizesAssumption
<1>6. n * Largest <= MaxKids * Largest /\ n * Largest \in Nat /\ MaxKids * Largest \in Nat
  BY <1>5
<1>7. 2 * Largest * (MaxKids + 1) = 2 * (MaxKids * Largest) + 2 * Largest
  BY <1>5
<1>8. n * (2 * Largest) = 2 * (n * Largest)
  BY <1>5
<1> QED
  BY <1>1, <1>2, <1>3, <1>4, <1>5, <1>6, <1>7, <1>8

LEMMA ChildSizes ==
  ASSUME BoxInv, NEW i \in 1..Count
  PROVE  /\ NeedAlong[i] \in 0..Largest /\ NeedAcross[i] \in 0..Largest
         /\ children[i].spacing \in 0..Largest
         /\ Maxima[i] = IF children[i].along = Maximum THEN 1 ELSE 0
         /\ \A r : Along(r)[i] = IF children[i].along = Maximum THEN r ELSE NeedAlong[i]
         /\ \A r : Across(r)[i] = IF children[i].across = Maximum THEN r ELSE NeedAcross[i]
         /\ \A f : Spaced(f)[i] = f[i] + children[i].spacing
<1>1. PICK n \in 0..MaxKids : children \in [1..n -> Kids]
  BY DEF BoxInv
<1>2. i \in DOMAIN children /\ children[i] \in Kids
  BY <1>1, BoxNumbers
<1>3. /\ children[i].along \in Sizes /\ children[i].across \in Sizes
      /\ children[i].leastAlong \in 0..Largest /\ children[i].leastAcross \in 0..Largest
      /\ children[i].spacing \in 0..Largest
  BY <1>2, SizesAssumption
<1>4. /\ Maximum # Minimum /\ Maximum \in Nat
      /\ Largest \in Nat
  <2>1. Largest >= 0 /\ Largest \in Nat
    BY <1>3, SizesAssumption
  <2>2. Largest < Modulus \div 2 /\ 2 * (Modulus \div 2) = Modulus /\ Modulus \div 2 \in Nat
    BY BoxNumbers
  <2> QED
    BY <2>1, <2>2 DEF Maximum, Minimum
<1>5. /\ children[i].along # Maximum => children[i].along \in 0..Largest
      /\ children[i].across # Maximum => children[i].across \in 0..Largest
  BY <1>3 DEF Sizes
<1>6. NeedAlong[i] \in 0..Largest /\ NeedAcross[i] \in 0..Largest
  BY <1>2, <1>3, <1>4, <1>5 DEF NeedAlong, NeedAcross, Need, Minimum
<1>7. \A r : Along(r)[i] = IF children[i].along = Maximum THEN r ELSE NeedAlong[i]
  BY <1>2, <1>4 DEF Along, Sized, NeedAlong, Need
<1>8. \A r : Across(r)[i] = IF children[i].across = Maximum THEN r ELSE NeedAcross[i]
  BY <1>2, <1>4 DEF Across, Sized, NeedAcross, Need
<1> QED
  BY <1>2, <1>3, <1>6, <1>7, <1>8 DEF Maxima, Spaced

\* An unsigned number that does not overflow is the number.
LEMMA NoOverflow ==
  ASSUME NEW n \in 0..Modulus - 1
  PROVE  Unsigned(n) = n
BY BoxAssumption DEF Unsigned

\* Division with remainder.
LEMMA DivMod ==
  ASSUME NEW d \in Nat, NEW l \in Nat, l >= 1
  PROVE  d \div l \in Int /\ d = l * (d \div l) + (d % l) /\ d % l \in 0..l - 1
<1> DEFINE q == d \div l
           r == d % l
<1>1. q \in Int /\ r \in Int
  BY SMTT(60)
<1>2. d = l * q + r
  BY SMTT(60)
<1>3. r \in 0..l - 1
  BY SMTT(60)
<1> QED
  BY <1>1, <1>2, <1>3

\* The children fit along the axis of a room of the least size: what is left for
\* the largest of them is no negative number, and they take no more than that.
LEMMA AlongFits ==
  ASSUME BoxInv, NEW along \in 0..Modulus \div 2 - 1, along >= MinimumSize.along,
         along = room.along
  PROVE  LET rest == Share(Unsigned(along - 2 * margin))
         IN  /\ \A i \in 1..Count : /\ Along(rest)[i] \in 0..Modulus \div 2 - 1
                                    /\ Along(rest)[i] = 0 <=> BareAlong(i)
             /\ Total(Spaced(Along(rest)), Count) <= along - 2 * margin
             /\ ~Several => \A i \in 1..Count :
                   /\ Along(rest)[i] >= NeedAlong[i]
                   /\ children[i].along = Maximum => Total(Spaced(Along(rest)), Count) = along - 2 * margin
<1> DEFINE n == Count
           A == along - 2 * margin
           need == Spaced(NeedAlong)
           known == Spaced(Along(0))
           L == Total(Maxima, n)
           K == Total(known, n)
           N == Total(need, n)
           rest == Share(Unsigned(along - 2 * margin))
           full == Spaced(Along(rest))
<1>1. /\ n \in Nat /\ margin \in Nat /\ Largest \in Nat /\ Modulus \in Nat
      /\ Modulus \div 2 \in Nat /\ 2 * (Modulus \div 2) = Modulus
      /\ 2 * margin + n * (2 * Largest) < Modulus /\ Largest < Modulus \div 2
  BY BoxNumbers, SizesAssumption, BoxAssumption
<1>2. ASSUME NEW i \in 1..n
      PROVE  /\ Maxima[i] = IF children[i].along = Maximum THEN 1 ELSE 0
             /\ need[i] = NeedAlong[i] + children[i].spacing
             /\ known[i] = (IF children[i].along = Maximum THEN 0 ELSE NeedAlong[i]) + children[i].spacing
             /\ NeedAlong[i] \in 0..Largest /\ children[i].spacing \in 0..Largest
             /\ full[i] = (IF children[i].along = Maximum THEN rest ELSE NeedAlong[i]) + children[i].spacing
             /\ Along(rest)[i] = IF children[i].along = Maximum THEN rest ELSE NeedAlong[i]
  <2> HIDE DEF rest
  <2> QED
    BY ChildSizes
<1>3. Sums(Maxima, n) /\ Sums(need, n) /\ Sums(known, n)
  BY <1>1, <1>2 DEF Sums
<1> HIDE DEF need, known, full
<1>4. L \in Nat /\ K \in Nat /\ N \in Nat /\ N <= n * (2 * Largest)
      /\ \A i \in 1..n : Maxima[i] <= L
  <2>1. n \in 0..n
    BY <1>1
  <2>2. /\ \A i \in 1..n : Maxima[i] >= 0 /\ need[i] >= 0 /\ known[i] >= 0 /\ need[i] <= 2 * Largest
    BY <1>1, <1>2
  <2>3. 2 * Largest \in Int
    BY <1>1
  <2>4. N <= n * (2 * Largest)
    BY <1>1, <1>3, <2>2, <2>3, TotalMost
  <2>5. L \in Int /\ K \in Int /\ N \in Int /\ L >= 0 /\ K >= 0 /\ N >= 0
    BY <1>1, <1>3, <2>1, <2>2, TotalGrows
  <2>6. \A i \in 1..n : Maxima[i] <= L
    BY <1>1, <1>3, <2>2, TotalCovers
  <2> HIDE DEF L, K, N
  <2> QED
    BY <2>4, <2>5, <2>6
<1>5. K <= N
  <2>1. \A i \in 1..n : known[i] <= need[i]
    BY <1>2
  <2> QED
    BY <1>1, <1>3, <2>1, TotalLess
<1>6. A \in Nat /\ N <= A /\ A < Modulus \div 2
  <2>1. MinimumSize.along = Unsigned(2 * margin + N)
    BY DEF MinimumSize, need
  <2> HIDE DEF L, K, N, n
  <2>2. 2 * margin + N \in 0..Modulus - 1
    BY <1>1, <1>4
  <2>3. along >= 2 * margin + N
    BY <2>1, <2>2, NoOverflow
  <2> QED
    BY <1>1, <1>4, <2>3
<1>7. rest = (A - K) \div L /\ A - K \in Nat /\ A - K = Spare
  <2>1. A \in 0..Modulus - 1 /\ A - K \in 0..Modulus - 1
    <3> HIDE DEF L, K, N, n, A
    <3> QED
      BY <1>1, <1>4, <1>5, <1>6
  <2>2. Unsigned(along - 2 * margin) = A
    BY <2>1, NoOverflow
  <2>3. Unsigned(A - K) = A - K
    BY <2>1, NoOverflow
  <2>4. rest = Unsigned(A - K) \div L
    BY <2>2 DEF Share, known
  <2>5. A - K = Spare
    BY DEF Spare, known
  <2> HIDE DEF L, K, N, n, A, rest
  <2> QED
    BY <2>1, <2>3, <2>4, <2>5
<1> HIDE DEF rest, L, K, N, A
<1>8. ASSUME L >= 1
      PROVE  /\ rest \in 0..A /\ rest * L <= A - K /\ (L = 1 => rest = A - K)
             /\ rest = 0 <=> A - K < L
  <2> DEFINE part == L * rest
             over == (A - K) % L
  <2>1. rest \in Int /\ part \in Int /\ over \in Int /\ A - K = part + over /\ over \in 0..L - 1
    <3>1. rest \in Int /\ A - K = L * rest + ((A - K) % L) /\ (A - K) % L \in 0..L - 1
      <4> DEFINE D == A - K
      <4>1. D \in Nat /\ rest = D \div L
        BY <1>7
      <4> HIDE DEF D
      <4>2. rest \in Int /\ D = L * rest + (D % L) /\ D % L \in 0..L - 1
        BY <1>4, <1>8, <4>1, DivMod
      <4> QED
        BY <4>2 DEF D
    <3>2. L * rest \in Int
      BY <1>4, <3>1
    <3> QED
      BY <1>4, <3>1, <3>2
  <2>2. rest <= -1 => part <= 0 - L
    <3>1. rest <= -1 => L * (0 - rest - 1) >= 0
      BY <1>4, <2>1
    <3>2. L * (0 - rest - 1) = 0 - L * rest - L
      BY <1>4, <2>1
    <3> QED
      BY <1>4, <2>1, <3>1, <3>2
  <2>3. rest >= 1 => part >= L
    <3>1. rest >= 1 => L * (rest - 1) >= 0
      BY <1>4, <2>1
    <3>2. L * (rest - 1) = L * rest - L
      BY <1>4, <2>1
    <3> QED
      BY <1>4, <2>1, <3>1, <3>2
  <2>4. (rest = 0 => part = 0) /\ rest * L = part /\ (L = 1 => part = rest)
    BY <1>4, <2>1
  <2>5. rest >= 0 => rest <= part
    <3>1. rest >= 0 => (L - 1) * rest >= 0
      BY <1>4, <1>8, <2>1
    <3>2. (L - 1) * rest = L * rest - rest
      BY <1>4, <2>1
    <3> QED
      BY <1>4, <2>1, <3>1, <3>2
  <2> HIDE DEF part, over
  <2>6. rest >= 0
    BY <1>4, <1>7, <1>8, <2>1, <2>2
  <2>7. rest = 0 <=> A - K < L
    BY <1>4, <1>7, <1>8, <2>1, <2>3, <2>4, <2>6
  <2>8. part <= A - K /\ (L = 1 => over = 0)
    BY <1>4, <2>1
  <2> QED
    BY <1>4, <1>6, <1>7, <2>1, <2>4, <2>5, <2>6, <2>7, <2>8
<1>9. \A i \in 1..n : children[i].along = Maximum => L >= 1
  BY <1>2, <1>4
<1> DEFINE each == IF L = 0 THEN 0 ELSE rest
<1>10. each \in Nat /\ each * L <= A - K /\ \A i \in 1..n : children[i].along = Maximum => rest = each
  <2>1. CASE L = 0
    BY <1>7, <1>9, <2>1
  <2>2. CASE L # 0
    BY <1>4, <1>8, <2>2
  <2> QED
    BY <2>1, <2>2
<1> HIDE DEF each
<1>11. Total(full, n) = K + each * L
  <2>1. /\ Sums(full, n)
        /\ \A i \in 1..n : full[i] = known[i] + each * Maxima[i]
    <3> SUFFICES ASSUME NEW i \in 1..n PROVE full[i] \in Int /\ full[i] = known[i] + each * Maxima[i]
      BY DEF Sums
    <3> QED
      BY <1>2, <1>10
  <2> QED
    BY <1>1, <1>3, <1>10, <2>1, TotalLinear DEF K, L
<1>12. Total(full, n) <= A
  BY <1>4, <1>6, <1>10, <1>11
<1>13. ASSUME NEW i \in 1..n
       PROVE  Along(rest)[i] \in 0..Modulus \div 2 - 1 /\ (Along(rest)[i] = 0 <=> BareAlong(i))
  <2>1. BareAlong(i) <=> IF children[i].along = Maximum THEN A - K < L ELSE NeedAlong[i] = 0
    BY <1>7 DEF BareAlong, L
  <2>2. CASE children[i].along = Maximum
    BY <1>1, <1>2, <1>6, <1>8, <1>9, <2>1, <2>2
  <2>3. CASE children[i].along # Maximum
    BY <1>1, <1>2, <2>1, <2>3
  <2> QED
    BY <2>2, <2>3
<1>14. ASSUME ~Several, NEW i \in 1..n
       PROVE  /\ Along(rest)[i] >= NeedAlong[i]
              /\ children[i].along = Maximum => Total(full, n) = A
  <2>1. L <= 1
    BY <1>4, <1>14 DEF Several, L
  <2>2. CASE children[i].along # Maximum
    BY <1>2, <2>2
  <2>3. CASE children[i].along = Maximum
    <3>1. L = 1 /\ rest = A - K /\ each = rest
      BY <1>4, <1>8, <1>9, <1>10, <2>1, <2>3
    <3>2. Total(full, n) = A
      BY <1>4, <1>6, <1>11, <3>1
    <3>3. NeedAlong[i] <= A - K
      <4> DEFINE d == [j \in 1..n |-> need[j] - known[j]]
      <4>1. Sums(d, n) /\ \A j \in 1..n : need[j] = known[j] + 1 * d[j] /\ d[j] >= 0
        BY <1>2, <1>3 DEF Sums
      <4>2. d[i] = NeedAlong[i]
        BY <1>2, <2>3
      <4> HIDE DEF d
      <4>3. N = K + 1 * Total(d, n)
        BY <1>1, <1>3, <4>1, TotalLinear DEF N, K
      <4>4. d[i] <= Total(d, n) /\ Total(d, n) \in Int
        BY <1>1, <4>1, TotalCovers, TotalInt
      <4> QED
        BY <1>2, <1>4, <1>6, <4>2, <4>3, <4>4
    <3> QED
      BY <1>2, <2>3, <3>1, <3>2, <3>3
  <2> QED
    BY <2>2, <2>3
<1> QED
  BY <1>12, <1>13, <1>14 DEF rest, A, full

\* Nor does the layout across the axis overflow: each child gets what it needs and no
\* more than there is, and what is left is less than there is.
LEMMA AcrossFits ==
  ASSUME BoxInv, NEW across \in 0..Modulus \div 2 - 1, across >= MinimumSize.across,
         across = room.across, NEW i \in 1..Count
  PROVE  LET A == across - 2 * margin
             each == Across(Unsigned(A))
             most == Greatest(each, Count)
         IN  /\ each[i] \in 0..Modulus \div 2 - 1 /\ each[i] >= NeedAcross[i]
             /\ each[i] = 0 <=> BareAcross(i)
             /\ most \in Nat /\ most <= A /\ each[i] <= most
             /\ Unsigned(most - each[i]) = most - each[i]
<1> DEFINE n == Count
           A == across - 2 * margin
           each == Across(Unsigned(A))
           most == Greatest(each, n)
           N == Greatest(NeedAcross, n)
<1>1. /\ n \in Nat /\ margin \in Nat /\ Largest \in Nat /\ Modulus \in Nat
      /\ Modulus \div 2 \in Nat /\ 2 * (Modulus \div 2) = Modulus
      /\ 2 * margin + n * (2 * Largest) < Modulus /\ Largest < Modulus \div 2
  BY BoxNumbers, SizesAssumption, BoxAssumption
<1>2. \A j \in 1..n : NeedAcross[j] \in 0..Largest
  BY ChildSizes
<1>3. N \in 0..Largest /\ \A j \in 1..n : NeedAcross[j] <= N
  <2>1. Sums(NeedAcross, n) /\ \A j \in 1..n : NeedAcross[j] <= Largest
    BY <1>2 DEF Sums
  <2> QED
    BY <1>1, <2>1, GreatestIs
<1>4. n >= 1 /\ Largest <= n * Largest
  <2>1. n >= 1
    BY <1>1
  <2> HIDE DEF n
  <2> QED
    BY <1>1, <2>1
<1>5. A \in Nat /\ N <= A /\ A < Modulus \div 2
  <2>1. MinimumSize.across = Unsigned(2 * margin + N)
    BY DEF MinimumSize
  <2> HIDE DEF n, N
  <2>2. n * (2 * Largest) = 2 * (n * Largest) /\ n * Largest \in Nat
    BY <1>1
  <2>3. 2 * margin + N \in 0..Modulus - 1
    BY <1>1, <1>3, <1>4, <2>2
  <2>4. across >= 2 * margin + N
    BY <2>1, <2>3, NoOverflow
  <2> QED
    BY <1>1, <1>3, <2>4
<1>6. Unsigned(A) = A
  <2>1. A \in 0..Modulus - 1
    BY <1>1, <1>5
  <2> QED
    BY <2>1, NoOverflow
<1>7. \A j \in 1..n : /\ each[j] = IF children[j].across = Maximum THEN A ELSE NeedAcross[j]
                      /\ each[j] \in 0..A /\ each[j] >= NeedAcross[j]
  <2> SUFFICES ASSUME NEW j \in 1..n
               PROVE  /\ each[j] = IF children[j].across = Maximum THEN A ELSE NeedAcross[j]
                      /\ each[j] \in 0..A /\ each[j] >= NeedAcross[j]
    OBVIOUS
  <2>1. each[j] = IF children[j].across = Maximum THEN A ELSE NeedAcross[j]
    BY <1>6, ChildSizes
  <2>2. NeedAcross[j] \in 0..Largest /\ NeedAcross[j] <= N
    BY <1>2, <1>3
  <2> HIDE DEF each, A, N, n
  <2> QED
    BY <1>1, <1>3, <1>5, <2>1, <2>2
<1> HIDE DEF each, N
<1>8. most \in 0..A /\ \A j \in 1..n : each[j] <= most
  <2>1. Sums(each, n) /\ \A j \in 1..n : each[j] <= A
    BY <1>7 DEF Sums
  <2> QED
    BY <1>1, <1>5, <2>1, GreatestIs
<1>9. most - each[i] \in 0..Modulus - 1
  <2>1. each[i] \in 0..A /\ each[i] <= most /\ most \in 0..A
    BY <1>7, <1>8
  <2> HIDE DEF most, A
  <2> QED
    BY <1>1, <1>5, <2>1
<1>10. Unsigned(most - each[i]) = most - each[i]
  BY <1>9, NoOverflow
<1>11. each[i] \in 0..Modulus \div 2 - 1
  <2>1. each[i] \in 0..A
    BY <1>7
  <2> HIDE DEF A
  <2> QED
    BY <1>1, <1>5, <2>1
<1>12. each[i] = 0 <=> BareAcross(i)
  <2>1. A = 0 <=> room.across = 2 * margin
    BY <1>1, <1>5
  <2>2. each[i] = IF children[i].across = Maximum THEN A ELSE NeedAcross[i]
    BY <1>7
  <2> HIDE DEF A
  <2> QED
    BY <2>1, <2>2 DEF BareAcross
<1> QED
  BY <1>7, <1>8, <1>10, <1>11, <1>12 DEF each

\* The places of a room that is large enough are as they should be.
LEMMA RoomLaidOut ==
  ASSUME BoxInv, room \in Rooms, places = Laid(room)
  PROVE  LaidOut
<1> SUFFICES ASSUME Fits, NEW i \in DOMAIN places
             PROVE  LET p == places[i]
                    IN  /\ p.at >= margin /\ EndAlong(i) <= room.along - margin
                        /\ p.off >= margin /\ p.off + SpanAcross(i) <= room.across - margin
                        /\ i < Len(places) => EndAlong(i) <= places[i + 1].at
                        /\ p.across >= NeedAcross[i]
                        /\ ~Several => /\ p.along >= NeedAlong[i]
                                       /\ children[i].along = Maximum =>
                                            EndAlong(Len(places)) = room.along - margin
  BY DEF LaidOut
<1> DEFINE n == Count
           A == room.along - 2 * margin
           B == room.across - 2 * margin
           along == Along(Share(Unsigned(A)))
           across == Across(Unsigned(B))
           most == Greatest(across, n)
           full == Spaced(along)
           sum(j) == Total(full, j)
<1>1. room.along \in 0..Modulus \div 2 - 1 /\ room.across \in 0..Modulus \div 2 - 1
  BY SizesAssumption
<1>2. /\ n \in Nat /\ DOMAIN children = 1..n /\ margin \in Nat /\ alignment \in 0..2
      /\ Largest \in Nat /\ Modulus \div 2 \in Nat
  BY BoxNumbers, SizesAssumption
<1>3. /\ DOMAIN places = 1..n
      /\ \A j \in 1..n : places[j] =
           [at |-> margin + sum(j - 1), along |-> AtLeastOne(along[j]),
            off |-> margin + (Unsigned(most - across[j]) * alignment) \div 2,
            across |-> AtLeastOne(across[j])]
  BY <1>2 DEF Laid
<1>4. Len(places) = n /\ i \in 1..n /\ n \in 1..n
  <2>1. places \in Seq({places[j] : j \in 1..n})
    <3>1. places = [j \in 1..n |-> places[j]]
      BY <1>2 DEF Laid
    <3> HIDE DEF n
    <3> QED
      BY <1>2, <3>1
  <2>2. Len(places) = n
    <3> HIDE DEF n
    <3> QED
      BY <1>2, <1>3, <2>1, LenProperties
  <2>3. i \in 1..n
    BY <1>3
  <2> HIDE DEF n
  <2> QED
    BY <1>2, <2>2, <2>3
<1>5. /\ \A j \in 1..n : along[j] \in 0..Modulus \div 2 - 1 /\ (along[j] = 0 <=> BareAlong(j))
      /\ sum(n) <= A
      /\ ~Several => \A j \in 1..n : /\ along[j] >= NeedAlong[j]
                                     /\ children[j].along = Maximum => sum(n) = A
  BY <1>1, AlongFits DEF Fits
<1>6. \A j \in 1..n : /\ across[j] \in 0..Modulus \div 2 - 1 /\ across[j] >= NeedAcross[j]
                      /\ across[j] = 0 <=> BareAcross(j)
                      /\ most \in Nat /\ most <= B /\ across[j] <= most
                      /\ Unsigned(most - across[j]) = most - across[j]
  BY <1>1, AcrossFits DEF Fits
<1>7. \A s \in 0..Modulus \div 2 - 1 : AtLeastOne(s) = IF s = 0 THEN 1 ELSE s
  BY <1>2 DEF AtLeastOne
<1>8. \A j \in 1..n : full[j] = along[j] + children[j].spacing /\ children[j].spacing \in Nat
  <2> SUFFICES ASSUME NEW j \in 1..n
               PROVE  full[j] = along[j] + children[j].spacing /\ children[j].spacing \in Nat
    OBVIOUS
  <2> HIDE DEF along
  <2> QED
    BY <1>2, ChildSizes
<1> HIDE DEF along, across, most, full, A, B
<1>9. /\ \A j \in 0..n : sum(j) \in Int /\ sum(j) >= 0 /\ sum(j) <= sum(n)
      /\ \A j \in 1..n : sum(j) = sum(j - 1) + full[j]
  <2>1. Sums(full, n) /\ \A j \in 1..n : full[j] >= 0
    <3> SUFFICES ASSUME NEW j \in 1..n PROVE full[j] \in Int /\ full[j] >= 0
      BY DEF Sums
    <3>1. along[j] \in 0..Modulus \div 2 - 1
      BY <1>5
    <3>2. full[j] = along[j] + children[j].spacing /\ children[j].spacing \in Nat
      BY <1>8
    <3> QED
      BY <1>2, <3>1, <3>2
  <2>2. \A j \in 1..n : j \in Nat \ {0}
    OBVIOUS
  <2> QED
    BY <1>2, <2>1, <2>2, TotalGrows, TotalStep
<1>10. ASSUME NEW j \in 1..n
       PROVE  /\ places[j].at = margin + sum(j - 1) /\ SpanAlong(j) = along[j]
              /\ SpanAcross(j) = across[j]
              /\ places[j].along >= along[j] /\ places[j].across >= across[j]
              /\ places[j].off = margin + ((most - across[j]) * alignment) \div 2
              /\ sum(j) = sum(j - 1) + along[j] + children[j].spacing
              /\ sum(j) \in Nat /\ sum(j - 1) \in Nat /\ sum(j) <= sum(n)
              /\ along[j] \in Nat /\ children[j].spacing \in Nat
  <2>1. /\ along[j] \in 0..Modulus \div 2 - 1 /\ across[j] \in 0..Modulus \div 2 - 1
        /\ along[j] = 0 <=> BareAlong(j)
        /\ across[j] = 0 <=> BareAcross(j)
        /\ Unsigned(most - across[j]) = most - across[j]
    BY <1>5, <1>6
  <2>2. /\ AtLeastOne(along[j]) = IF along[j] = 0 THEN 1 ELSE along[j]
        /\ AtLeastOne(across[j]) = IF across[j] = 0 THEN 1 ELSE across[j]
    BY <1>7, <2>1
  <2>6. /\ SpanAlong(j) = along[j] /\ places[j].along >= along[j]
        /\ SpanAcross(j) = across[j] /\ places[j].across >= across[j]
    <3>1. places[j].along = AtLeastOne(along[j]) /\ places[j].across = AtLeastOne(across[j])
      BY <1>3
    <3> QED
      BY <1>2, <2>1, <2>2, <3>1 DEF SpanAlong, SpanAcross
  <2>3. j \in 0..n /\ j - 1 \in 0..n
    BY <1>2
  <2>4. along[j] \in Nat
    BY <1>2, <2>1
  <2>5. sum(j) \in Nat /\ sum(j - 1) \in Nat /\ sum(j) <= sum(n)
    BY <1>9, <2>3
  <2> HIDE DEF sum
  <2> QED
    BY <1>3, <1>8, <1>9, <2>1, <2>4, <2>5, <2>6
<1>11. /\ A = room.along - 2 * margin /\ B = room.across - 2 * margin
       /\ room.along \in Nat /\ room.across \in Nat
  BY <1>1 DEF A, B
<1>12. places[i].at >= margin /\ EndAlong(i) <= room.along - margin
  <2> DEFINE before == sum(i - 1)
             all == sum(n)
  <2>1. /\ places[i].at = margin + before /\ SpanAlong(i) = along[i]
        /\ before \in Nat /\ along[i] \in Nat /\ children[i].spacing \in Nat
        /\ before + along[i] + children[i].spacing <= all
    BY <1>4, <1>10
  <2>2. all \in Nat /\ all <= A
    BY <1>4, <1>5, <1>10
  <2>3. A \in Int /\ room.along - margin = margin + A
    BY <1>2, <1>11
  <2> HIDE DEF before, all
  <2>4. places[i].at >= margin /\ EndAlong(i) <= margin + A
    BY <1>2, <2>1, <2>2, <2>3 DEF EndAlong
  <2> QED
    BY <2>3, <2>4
<1>13. places[i].off >= margin /\ places[i].off + SpanAcross(i) <= room.across - margin
  <2> DEFINE gap == most - across[i]
             half == (gap * alignment) \div 2
  <2>1. gap \in Nat /\ across[i] \in Nat /\ gap + across[i] <= B
    BY <1>4, <1>6
  <2>2. half \in Nat /\ half <= gap
    <3> HIDE DEF gap
    <3>1. alignment = 0 \/ alignment = 1 \/ alignment = 2
      BY <1>2
    <3> QED
      BY <2>1, <3>1
  <2>3. places[i].off = margin + half /\ SpanAcross(i) = across[i]
    BY <1>4, <1>10
  <2> HIDE DEF gap, half
  <2> QED
    BY <1>2, <1>11, <2>1, <2>2, <2>3
<1>14. ASSUME i < Len(places)
       PROVE  EndAlong(i) <= places[i + 1].at
  <2>1. i + 1 \in 1..n /\ (i + 1) - 1 = i
    BY <1>2, <1>4, <1>14
  <2>2. places[i + 1].at = margin + sum(i)
    BY <1>10, <2>1
  <2> DEFINE before == sum(i - 1)
             upTo == sum(i)
  <2>3. /\ places[i].at = margin + before /\ SpanAlong(i) = along[i]
        /\ before \in Nat /\ along[i] \in Nat /\ children[i].spacing \in Nat
        /\ upTo = before + along[i] + children[i].spacing
    BY <1>4, <1>10
  <2>4. places[i + 1].at = margin + upTo
    BY <2>2
  <2> HIDE DEF before, upTo
  <2> QED
    BY <1>2, <2>3, <2>4 DEF EndAlong
<1>15. places[i].across >= NeedAcross[i]
  <2>1. /\ places[i].across >= across[i] /\ across[i] >= NeedAcross[i]
        /\ places[i].across = AtLeastOne(across[i]) /\ across[i] \in 0..Modulus \div 2 - 1
    BY <1>3, <1>4, <1>6, <1>10
  <2>2. NeedAcross[i] \in Int
    BY <1>4, ChildSizes
  <2> QED
    BY <1>2, <1>7, <2>1, <2>2
<1>16. ASSUME ~Several
       PROVE  /\ places[i].along >= NeedAlong[i]
              /\ children[i].along = Maximum =>
                   EndAlong(n) = room.along - margin
  <2>1. places[i].along >= NeedAlong[i] /\ (children[i].along = Maximum => sum(n) = A)
    <3>1. /\ places[i].along >= along[i] /\ along[i] >= NeedAlong[i]
          /\ places[i].along = AtLeastOne(along[i]) /\ along[i] \in 0..Modulus \div 2 - 1
          /\ children[i].along = Maximum => sum(n) = A
      BY <1>3, <1>4, <1>5, <1>10, <1>16
    <3>2. NeedAlong[i] \in Int
      BY <1>4, ChildSizes
    <3> QED
      BY <1>2, <1>7, <3>1, <3>2
  <2> DEFINE before == sum(n - 1)
             all == sum(n)
  <2>2. /\ places[n].at = margin + before /\ SpanAlong(n) = along[n]
        /\ all = before + along[n] + children[n].spacing
        /\ before \in Nat /\ along[n] \in Nat /\ children[n].spacing \in Nat
    BY <1>4, <1>10
  <2>3. children[i].along = Maximum => all = A
    BY <2>1
  <2>4. A \in Int /\ room.along - margin = margin + A
    BY <1>2, <1>11
  <2> HIDE DEF before, all
  <2>5. EndAlong(n) = margin + all
    BY <1>2, <2>2 DEF EndAlong
  <2> QED
    BY <2>1, <2>3, <2>4, <2>5
<1> QED
  BY <1>4, <1>12, <1>13, <1>14, <1>15, <1>16

\* In a room of its least size or more a layout's children lie inside of its margin and do
\* not overlap, and get what they need (HorizontalLayout::setGeometry), for every number of
\* children of any sizes that do not overflow.
THEOREM LaidOutHolds == BoxSpec => []LaidOut
<1>1. BoxInit => BoxInv
  BY DEF BoxInit, BoxInv
<1>2. BoxInv /\ [BoxNext]_boxVars => BoxInv'
  <2> SUFFICES ASSUME BoxInv, [BoxNext]_boxVars PROVE BoxInv'
    OBVIOUS
  <2>1. CASE BoxNext
    <3>1. PICK container \in Rooms : LayOut(container)
      BY <2>1 DEF BoxNext
    <3>2. /\ room' = container /\ places' = Laid(container)
          /\ children' = children /\ margin' = margin /\ alignment' = alignment
      BY <3>1 DEF LayOut
    <3>3. Laid(container)' = Laid(container)
      BY <3>2 DEF Laid, Spaced, Along, Across, Share, Maxima, Count
    <3> QED
      BY <3>1, <3>2, <3>3 DEF BoxInv
  <2>2. CASE UNCHANGED boxVars
    <3>1. Laid(room)' = Laid(room)
      BY <2>2 DEF boxVars, Laid, Spaced, Along, Across, Share, Maxima, Count
    <3> QED
      BY <2>2, <3>1 DEF BoxInv, boxVars
  <2> QED
    BY <2>1, <2>2
<1>3. BoxInv => LaidOut
  <2>1. ASSUME BoxInv, places = <<>> PROVE LaidOut
    BY <2>1 DEF LaidOut
  <2> QED
    BY <2>1, RoomLaidOut DEF BoxInv
<1> QED
  BY <1>1, <1>2, <1>3, PTL DEF BoxSpec

-----------------------------------------------------------------------------
\* Pop takes the last element off.
LEMMA PopFacts ==
  ASSUME NEW S, NEW s \in Seq(S), s # <<>>
  PROVE  /\ Pop(s) \in Seq(S)
         /\ Len(s) \in Nat \ {0}
         /\ Len(Pop(s)) = Len(s) - 1
         /\ \A i \in 1 .. Len(s) - 1 : Pop(s)[i] = s[i]
         /\ s[Len(s)] \in S
<1>1. Len(s) \in Nat /\ Len(s) > 0
  BY EmptySeq, LenProperties
<1>2. \A i \in 1 .. Len(s) : s[i] \in S
  BY ElementOfSeq
<1>3. \A i \in 1 .. Len(s) - 1 : s[i] \in S
  BY <1>1, <1>2
<1>4. /\ Pop(s) \in Seq(S)
      /\ Len(Pop(s)) = IF 1 <= Len(s) - 1 THEN Len(s) - 1 - 1 + 1 ELSE 0
      /\ \A i \in 1 .. Len(s) - 1 - 1 + 1 : Pop(s)[i] = s[1 + i - 1]
  BY <1>1, <1>3, SubSeqProperties DEF Pop
<1>5. Len(Pop(s)) = Len(s) - 1
  <2>1. \A n \in Nat : n > 0 => n - 1 = IF 1 <= n - 1 THEN n - 1 - 1 + 1 ELSE 0
    OBVIOUS
  <2>2. Len(s) - 1 = IF 1 <= Len(s) - 1 THEN Len(s) - 1 - 1 + 1 ELSE 0
    BY <1>1, <2>1
  <2>3. QED
    BY <1>4, <2>2
<1>6. ASSUME NEW i \in 1 .. Len(s) - 1 PROVE Pop(s)[i] = s[i]
  <2>1. 1 + i - 1 = i /\ i \in 1 .. Len(s) - 1 - 1 + 1
    BY <1>1
  <2>2. QED
    BY <1>4, <2>1
<1>7. Len(s) \in 1 .. Len(s)
  BY <1>1
<1>8. QED
  BY <1>1, <1>2, <1>4, <1>5, <1>6, <1>7

\* Append puts an element last.
LEMMA AppendFacts ==
  ASSUME NEW S, NEW s \in Seq(S), NEW x \in S
  PROVE  /\ Append(s, x) \in Seq(S)
         /\ Len(s) \in Nat
         /\ Len(Append(s, x)) = Len(s) + 1
         /\ \A i \in 1 .. Len(s) : Append(s, x)[i] = s[i]
         /\ Append(s, x)[Len(s) + 1] = x
BY AppendProperties, LenProperties

-----------------------------------------------------------------------------
\* The types are preserved: each loop but the innermost is in a callback.
LEMMA TypeStep ==
  TypeOK /\ [Next]_vars => TypeOK'
<1> SUFFICES ASSUME TypeOK, [Next]_vars PROVE TypeOK'
  OBVIOUS
<1> USE ModalAssumption
<1>1. ASSUME NEW w \in Windows, NEW b \in BOOLEAN, SetVisible(w, b) PROVE TypeOK'
  BY <1>1 DEF TypeOK, SetVisible
<1>2. ASSUME NEW w \in Windows, Enter(w) PROVE TypeOK'
  <2>1. loops' \in Seq(Windows) /\ Len(loops') = Len(loops) + 1 /\ Len(loops) \in Nat
    BY <1>2, AppendFacts DEF TypeOK, Enter
  <2>2. Len(callbacks) = Len(loops) + 1 /\ Len(loops) < MaxDepth
    BY <1>2, <2>1 DEF TypeOK, Enter, Calling
  <2>3. enabled' \in [Windows -> BOOLEAN]
    BY <1>2 DEF Enter, UpdateModality, Admitted
  <2>4. Len(loops') <= MaxDepth /\ Len(callbacks') = Len(loops')
    BY <1>2, <2>1, <2>2 DEF Enter
  <2>5. modal' \in [Windows -> BOOLEAN] /\ modals' \subseteq Windows
    BY <1>2 DEF TypeOK, Enter
  <2>6. QED
    BY <1>2, <2>1, <2>3, <2>4, <2>5 DEF TypeOK, Enter
<1>3. ASSUME Leave PROVE TypeOK'
  <2>1. /\ loops' \in Seq(Windows) /\ Len(loops') = Len(loops) - 1
        /\ Len(loops) \in Nat \ {0} /\ Top \in Windows
    BY <1>3, PopFacts DEF TypeOK, Leave, Leaves, Top
  <2>2. Len(callbacks) = Len(loops)
    BY <1>3, <2>1 DEF TypeOK, Leave, Leaves, Waiting, Calling
  <2>3. enabled' \in [Windows -> BOOLEAN]
    BY <1>3 DEF Leave, UpdateModality, Admitted
  <2>4. QED
    BY <1>3, <2>1, <2>2, <2>3 DEF TypeOK, Leave, Delist
<1>4. ASSUME NEW w \in Windows, LetGo(w) PROVE TypeOK'
  BY <1>4 DEF TypeOK, LetGo
<1>5. CASE Quit
  BY <1>5 DEF TypeOK, Quit
<1>6. ASSUME Waiting, NEW w \in Windows \union {None}, callbacks' = Append(callbacks, w),
             UNCHANGED loops
      PROVE  callbacks' \in Seq(Windows \union {None}) /\ Len(callbacks') = Len(loops') + 1
  <2>1. Len(loops) \in Nat /\ Len(callbacks) = Len(loops)
    BY <1>6, LenProperties DEF TypeOK, Waiting, Calling
  <2>2. QED
    BY <1>6, <2>1, AppendFacts DEF TypeOK
<1>7. CASE Dispatch
  BY <1>6, <1>7 DEF TypeOK, Dispatch
<1>8. ASSUME NEW w \in Windows, Close(w) PROVE TypeOK'
  <2>1. CASE w \in Default
    BY <1>8, <2>1 DEF TypeOK, Close
  <2>2. CASE w \notin Default
    BY <1>6, <1>8, <2>2 DEF TypeOK, Close
  <2>3. QED
    BY <2>1, <2>2
<1>9. CASE Return
  <2>1. callbacks # <<>> /\ Len(loops) \in Nat /\ Len(callbacks) = Len(loops) + 1
    BY <1>9, LenProperties, EmptySeq DEF TypeOK, Return, Calling
  <2>2. callbacks' \in Seq(Windows \union {None}) /\ Len(callbacks') = Len(loops)
    BY <1>9, <2>1, PopFacts DEF TypeOK, Return
  <2>3. modal' \in [Windows -> BOOLEAN]
    BY <1>9 DEF TypeOK, Return
  <2>4. QED
    BY <1>9, <2>2, <2>3 DEF TypeOK, Return
<1>10. CASE Swallow
  BY <1>10 DEF TypeOK, Swallow
<1>11. CASE End
  BY <1>11 DEF TypeOK, End
<1>12. CASE UNCHANGED vars
  BY <1>12 DEF TypeOK, vars
<1>13. QED
  BY <1>1, <1>2, <1>3, <1>4, <1>5, <1>7, <1>8, <1>9, <1>10, <1>11, <1>12 DEF Next
-----------------------------------------------------------------------------
\* Listed and EnabledAdmitted are preserved.
LEMMA ListedStep ==
  TypeOK /\ Listed /\ EnabledAdmitted /\ [Next]_vars => Listed' /\ EnabledAdmitted'
<1> SUFFICES ASSUME TypeOK, Listed, EnabledAdmitted, [Next]_vars
             PROVE  Listed' /\ EnabledAdmitted'
  OBVIOUS
<1> USE ModalAssumption
<1>1. ASSUME UNCHANGED <<modals, loops, enabled>>,
             \A w \in Windows : modal'[w] => modal[w]
      PROVE  Listed' /\ EnabledAdmitted'
  BY <1>1 DEF Listed, EnabledAdmitted, Admitted
<1>2. ASSUME NEW w \in Windows, Enter(w) PROVE Listed' /\ EnabledAdmitted'
  <2>1. /\ Len(loops') = Len(loops) + 1 /\ Len(loops) \in Nat
        /\ \A i \in 1 .. Len(loops) : loops'[i] = loops[i]
        /\ loops'[Len(loops) + 1] = w
    BY <1>2, AppendFacts DEF TypeOK, Enter
  <2>2. ASSUME NEW v \in Windows PROVE modal'[v] => v \in modals'
    BY <1>2 DEF TypeOK, Listed, Enter
  <2>3. ASSUME NEW v \in modals' PROVE \E i \in 1 .. Len(loops') : loops'[i] = v
    <3>1. CASE v = w
      BY <2>1, <3>1
    <3>2. CASE v # w
      <4>1. PICK i \in 1 .. Len(loops) : loops[i] = v
        BY <1>2, <2>3, <3>2 DEF TypeOK, Listed, Enter
      <4>2. i \in 1 .. Len(loops') /\ loops'[i] = v
        BY <2>1, <4>1
      <4>3. QED
        BY <4>2
    <3>3. QED
      BY <3>1, <3>2
  <2>4. EnabledAdmitted'
    BY <1>2 DEF EnabledAdmitted, Enter, UpdateModality, Admitted
  <2>5. QED
    BY <2>2, <2>3, <2>4 DEF Listed
<1>3. ASSUME Leave PROVE Listed' /\ EnabledAdmitted'
  <2>1. /\ Len(loops') = Len(loops) - 1 /\ Len(loops) \in Nat \ {0}
        /\ \A i \in 1 .. Len(loops) - 1 : loops'[i] = loops[i]
    BY <1>3, PopFacts DEF TypeOK, Leave, Leaves
  <2>2. modals' = modals \ {Top} /\ ~modal[Top] /\ modal' = modal
    BY <1>3 DEF Leave, Leaves, Delist
  <2>3. ASSUME NEW v \in modals' PROVE \E i \in 1 .. Len(loops') : loops'[i] = v
    <3>1. PICK i \in 1 .. Len(loops) : loops[i] = v
      BY <2>2, <2>3 DEF TypeOK, Listed
    <3>2. i # Len(loops)
      BY <2>2, <2>3, <3>1 DEF Top
    <3>3. i \in 1 .. Len(loops') /\ loops'[i] = v
      BY <2>1, <3>1, <3>2
    <3>4. QED
      BY <3>3
  <2>4. EnabledAdmitted'
    BY <1>3 DEF EnabledAdmitted, Leave, UpdateModality, Admitted
  <2>5. QED
    BY <2>2, <2>3, <2>4 DEF Listed
<1>4. ASSUME NEW w \in Windows, NEW b \in BOOLEAN, SetVisible(w, b)
      PROVE  Listed' /\ EnabledAdmitted'
  BY <1>1, <1>4 DEF SetVisible
<1>5. ASSUME NEW w \in Windows, LetGo(w) PROVE Listed' /\ EnabledAdmitted'
  BY <1>1, <1>5 DEF LetGo, TypeOK
<1>6. ASSUME NEW w \in Windows, Close(w) PROVE Listed' /\ EnabledAdmitted'
  BY <1>1, <1>6 DEF Close, TypeOK
<1>7. CASE Return
  BY <1>1, <1>7 DEF Return
<1>8. CASE Quit \/ Dispatch \/ Swallow \/ End \/ UNCHANGED vars
  BY <1>1, <1>8 DEF Quit, Dispatch, Swallow, End, vars
<1>9. QED
  BY <1>2, <1>3, <1>4, <1>5, <1>6, <1>7, <1>8 DEF Next

\* Initially no window is modal and no loop runs.
LEMMA InitListed == Init => TypeOK /\ Listed /\ EnabledAdmitted
<1> SUFFICES ASSUME Init PROVE TypeOK /\ Listed /\ EnabledAdmitted
  OBVIOUS
<1>1. loops \in Seq(Windows) /\ Len(loops) = 0
  BY EmptySeq DEF Init
<1>2. callbacks \in Seq(Windows \union {None}) /\ Len(callbacks) = 1
  BY DEF Init
<1>3. TypeOK
  <2>1. /\ visible \in [Windows -> BOOLEAN] /\ modal \in [Windows -> BOOLEAN]
        /\ enabled \in [Windows -> BOOLEAN]
    BY DEF Init
  <2>2. Len(loops) <= MaxDepth /\ Len(callbacks) \in {Len(loops), Len(loops) + 1}
    BY <1>1, <1>2, ModalAssumption
  <2>3. QED
    BY <1>1, <1>2, <2>1, <2>2 DEF Init, TypeOK
<1>4. Listed /\ EnabledAdmitted
  BY DEF Init, Listed, EnabledAdmitted, Admitted
<1>5. QED
  BY <1>3, <1>4

\* Who is in the list of modal windows has a loop that will take it out, and
\* the windows that take input are those whose messages are processed.
THEOREM ListedHolds == Spec => [](TypeOK /\ Listed /\ EnabledAdmitted)
<1>1. Init => TypeOK /\ Listed /\ EnabledAdmitted
  BY InitListed
<1>2. TypeOK /\ Listed /\ EnabledAdmitted /\ [Next]_vars
        => (TypeOK /\ Listed /\ EnabledAdmitted)'
  BY TypeStep, ListedStep
<1>3. QED
  BY <1>1, <1>2, PTL DEF Spec

-----------------------------------------------------------------------------
\* A modal window is hidden only while its onClose runs, and since that was
\* called no loop of the window has begun: its onClose will let go of it before
\* the program waits in one.
HiddenClosing ==
    \A w \in Windows :
      modal[w] /\ ~visible[w] =>
        \E i \in 1 .. Len(callbacks) :
          callbacks[i] = w /\ \A j \in i .. Len(loops) : loops[j] # w

\* A program that has once not been careful never is again.
LEMMA CarefulHistory == [Next]_vars /\ careful' => careful
BY DEF Next, vars, SetVisible, Enter, LetGo, Close, Leave, Quit, Dispatch, Return,
       Swallow, End

\* HiddenClosing is preserved, as long as the program is careful.
LEMMA HiddenStep ==
  ASSUME careful', TypeOK, HiddenClosing, [Next]_vars
  PROVE  HiddenClosing'
<1> USE ModalAssumption
<1> SUFFICES ASSUME NEW w \in Windows, modal'[w], ~visible'[w]
             PROVE  \E i \in 1 .. Len(callbacks') :
                      callbacks'[i] = w /\ \A j \in i .. Len(loops') : loops'[j] # w
  BY DEF HiddenClosing
<1> DEFINE Witness(i) == /\ i \in 1 .. Len(callbacks) /\ callbacks[i] = w
                         /\ \A j \in i .. Len(loops) : loops[j] # w
<1>0. Len(callbacks) \in Nat /\ Len(loops) \in Nat
  BY LenProperties DEF TypeOK
<1>1. ASSUME modal[w], ~visible[w] PROVE \E i : Witness(i)
  BY <1>1 DEF HiddenClosing
<1>2. ASSUME UNCHANGED <<callbacks, loops>>, modal[w], ~visible[w]
      PROVE  \E i \in 1 .. Len(callbacks') :
               callbacks'[i] = w /\ \A j \in i .. Len(loops') : loops'[j] # w
  BY <1>1, <1>2
<1>3. ASSUME NEW v \in Windows, NEW b \in BOOLEAN, SetVisible(v, b)
      PROVE  \E i \in 1 .. Len(callbacks') :
               callbacks'[i] = w /\ \A j \in i .. Len(loops') : loops'[j] # w
  <2>1. CASE ~visible[w]
    BY <1>2, <1>3, <2>1 DEF SetVisible
  <2>2. CASE visible[w]
    <3>1. v = w /\ ~b /\ modal[w]
      BY <1>3, <2>2 DEF SetVisible, TypeOK
    <3>2. Len(callbacks) > Len(loops) /\ callbacks[Len(callbacks)] = w
      BY <1>3, <3>1 DEF SetVisible, Calling, Closing
    <3>3. UNCHANGED <<callbacks, loops>>
      BY <1>3 DEF SetVisible
    <3>4. Len(callbacks) \in 1 .. Len(callbacks) /\ Len(callbacks) .. Len(loops) = {}
      BY <1>0, <3>2
    <3>5. QED
      BY <3>2, <3>3, <3>4
  <2>3. QED
    BY <2>1, <2>2
<1>4. ASSUME NEW v \in Windows, Enter(v)
      PROVE  \E i \in 1 .. Len(callbacks') :
               callbacks'[i] = w /\ \A j \in i .. Len(loops') : loops'[j] # w
  <2>1. v # w /\ modal[w] /\ ~visible[w] /\ callbacks' = callbacks
    BY <1>4 DEF Enter, TypeOK
  <2>2. /\ Len(loops') = Len(loops) + 1
        /\ \A j \in 1 .. Len(loops) : loops'[j] = loops[j]
        /\ loops'[Len(loops) + 1] = v
    BY <1>4, AppendFacts DEF TypeOK, Enter
  <2>3. PICK i : Witness(i)
    BY <1>1, <2>1
  <2>4. ASSUME NEW j \in i .. Len(loops') PROVE loops'[j] # w
    <3>1. CASE j = Len(loops) + 1
      BY <2>1, <2>2, <3>1
    <3>2. CASE j # Len(loops) + 1
      BY <1>0, <2>2, <2>3, <2>4, <3>2
    <3>3. QED
      BY <3>1, <3>2
  <2>5. QED
    BY <2>1, <2>3, <2>4
<1>5. ASSUME Leave
      PROVE  \E i \in 1 .. Len(callbacks') :
               callbacks'[i] = w /\ \A j \in i .. Len(loops') : loops'[j] # w
  <2>1. /\ Len(loops') = Len(loops) - 1
        /\ \A j \in 1 .. Len(loops) - 1 : loops'[j] = loops[j]
    BY <1>5, PopFacts DEF TypeOK, Leave, Leaves
  <2>2. modal[w] /\ ~visible[w] /\ callbacks' = callbacks
    BY <1>5 DEF Leave
  <2>3. PICK i : Witness(i)
    BY <1>1, <2>2
  <2>4. \A j \in i .. Len(loops') : loops'[j] # w
    BY <1>0, <2>1, <2>3
  <2>5. QED
    BY <2>2, <2>3, <2>4
<1>6. ASSUME NEW v \in Windows \union {None}, callbacks' = Append(callbacks, v),
             UNCHANGED <<visible, modal, loops>>
      PROVE  \E i \in 1 .. Len(callbacks') :
               callbacks'[i] = w /\ \A j \in i .. Len(loops') : loops'[j] # w
  <2>1. /\ Len(callbacks') = Len(callbacks) + 1
        /\ \A i \in 1 .. Len(callbacks) : callbacks'[i] = callbacks[i]
    BY <1>6, AppendFacts DEF TypeOK
  <2>2. PICK i : Witness(i)
    BY <1>1, <1>6
  <2>3. i \in 1 .. Len(callbacks') /\ callbacks'[i] = w
    BY <1>0, <2>1, <2>2
  <2>4. QED
    BY <1>6, <2>2, <2>3
<1>7. ASSUME NEW v \in Windows, Close(v)
      PROVE  \E i \in 1 .. Len(callbacks') :
               callbacks'[i] = w /\ \A j \in i .. Len(loops') : loops'[j] # w
  <2>1. CASE v \in Default
    <3>1. v # w
      BY <1>7, <2>1 DEF Close, TypeOK
    <3>2. modal[w] /\ ~visible[w]
      BY <1>7, <2>1, <3>1 DEF Close, TypeOK
    <3>3. QED
      BY <1>2, <1>7, <2>1, <3>2 DEF Close
  <2>2. CASE v \notin Default
    BY <1>6, <1>7, <2>2 DEF Close
  <2>3. QED
    BY <2>1, <2>2
<1>8. ASSUME Return
      PROVE  \E i \in 1 .. Len(callbacks') :
               callbacks'[i] = w /\ \A j \in i .. Len(loops') : loops'[j] # w
  <2>1. modal[w] /\ ~visible[w] /\ Closing # w /\ UNCHANGED loops
    BY <1>8 DEF Return, HidOnClose
  <2>2. /\ Len(callbacks') = Len(callbacks) - 1
        /\ \A i \in 1 .. Len(callbacks) - 1 : callbacks'[i] = callbacks[i]
    <3>1. callbacks # <<>>
      BY <1>0, <1>8, EmptySeq DEF Return, Calling
    <3>2. QED
      BY <1>8, <3>1, PopFacts DEF TypeOK, Return
  <2>3. PICK i : Witness(i)
    BY <1>1, <2>1
  <2>4. i # Len(callbacks)
    BY <2>1, <2>3 DEF Closing
  <2>5. i \in 1 .. Len(callbacks') /\ callbacks'[i] = w
    BY <1>0, <2>2, <2>3, <2>4
  <2>6. QED
    BY <2>1, <2>3, <2>5
<1>9. ASSUME NEW v \in Windows, LetGo(v)
      PROVE  \E i \in 1 .. Len(callbacks') :
               callbacks'[i] = w /\ \A j \in i .. Len(loops') : loops'[j] # w
  <2>1. modal[w] /\ ~visible[w]
    BY <1>9 DEF LetGo, TypeOK
  <2>2. QED
    BY <1>2, <1>9, <2>1 DEF LetGo
<1>10. CASE Dispatch
  BY <1>6, <1>10 DEF Dispatch
<1>11. CASE Quit \/ Swallow \/ End \/ UNCHANGED vars
  BY <1>2, <1>11 DEF Quit, Swallow, End, vars
<1>12. QED
  BY <1>3, <1>4, <1>5, <1>7, <1>8, <1>9, <1>10, <1>11 DEF Next

\* The innermost modal window of a careful program can be closed by the user.
LEMMA HiddenReachable ==
  TypeOK /\ Listed /\ EnabledAdmitted /\ (careful => HiddenClosing) => Reachable
<1> SUFFICES ASSUME TypeOK, Listed, EnabledAdmitted, HiddenClosing,
                    careful, Waiting, loops # <<>>, modal[Top]
             PROVE  visible[Top] /\ enabled[Top] /\ Admitted(modals, Top)
  BY DEF Reachable, Unlocked
<1>1. Len(loops) \in Nat \ {0} /\ Top \in Windows
  BY PopFacts DEF TypeOK, Top
<1>2. Len(callbacks) = Len(loops)
  BY <1>1 DEF TypeOK, Waiting, Calling
<1>3. \A i \in 1 .. Len(loops) : Len(loops) \in i .. Len(loops)
  BY <1>1
<1>4. visible[Top]
  BY <1>1, <1>2, <1>3 DEF HiddenClosing, Top
<1>5. QED
  BY <1>1, <1>4 DEF Listed, EnabledAdmitted, Admitted

\* In a program that shows windows before it makes them modal, and hides modal
\* ones in their onClose only, no order of calls, in callbacks nested to any
\* depth, leaves the program waiting for a window the user cannot reach.
THEOREM ReachableHolds == Spec => []Reachable
<1> DEFINE Inv == TypeOK /\ Listed /\ EnabledAdmitted /\ (careful => HiddenClosing)
<1>1. Init => Inv
  BY InitListed DEF Init, HiddenClosing
<1>2. Inv /\ [Next]_vars => Inv'
  <2>1. Inv /\ [Next]_vars => TypeOK' /\ Listed' /\ EnabledAdmitted'
    BY TypeStep, ListedStep
  <2>2. ASSUME Inv, [Next]_vars, careful' PROVE HiddenClosing'
    BY <2>2, CarefulHistory, HiddenStep
  <2>3. QED
    BY <2>1, <2>2
<1>3. Inv => Reachable
  BY HiddenReachable
<1> HIDE DEF Inv
<1>4. QED
  BY <1>1, <1>2, <1>3, PTL DEF Spec
=============================================================================
