----------------------------- MODULE MCControls -----------------------------
(***************************************************************************)
(* Single controls, frames, menus and layouts on a bench: each behaviour   *)
(* is that of one of them.  Its specification moves, the variables of the  *)
(* others stay as they were made, so one run covers the sum of the         *)
(* specifications and not their product.                                   *)
(***************************************************************************)
EXTENDS Combo, ListRows, TabStrip, Slider, Timers, Menus, Frames, Boxes

CONSTANTS text1, text2, clock1, clock2, menu1, menu2, check1, radio1

\* One kind of children needs nothing, as the base class says of a widget.
SomeKids == {k \in [along : {Minimum, 3, Maximum}, across : {Minimum, Maximum},
                    leastAlong : 0..2, leastAcross : {0, 2}, spacing : {1}] :
               k.leastAlong = 0 <=> k.leastAcross = 0}
SomeRooms == [along : {5, 8, 14}, across : {2, 5}]

VARIABLE control    \* what is on the bench

comboOwn == <<text, selection, active, told, careful>>
listOwn == <<objectVars, nativeVars, changed, toggled, gentle>>
tabOwn == <<layouts, tab, front, placed, switched, orderly>>
sliderOwn == <<kind, length, position, top, value, moved, lawful>>
timerOwn == <<clockVars, source, posted, running, prudent, calls>>
benchVars == <<control, toolkit, comboOwn, listOwn, tabOwn, sliderOwn, timerOwn,
               menuVars, frameVars, boxVars>>

\* What is not on the bench is made one way only.
BenchInit ==
    /\ control \in {"combo", "list", "tabs", "slider", "timer", "menus", "frame", "box"}
    /\ ComboInit /\ ListInit /\ TabInit /\ SliderInit /\ TimerInit /\ MenuInit
    /\ control # "slider" => kind = "slider"
    /\ control \in {"menus", "frame", "box"} => toolkit = "windows"
    /\ FrameInit
    /\ control # "frame" => asked = CHOOSE h \in Heights : TRUE
    /\ BoxInit
    /\ control # "box" => children = <<>>

BenchNext ==
    \/ /\ control = "combo" /\ ComboNext
       /\ UNCHANGED <<control, listOwn, tabOwn, sliderOwn, timerOwn, menuVars, frameVars, boxVars>>
    \/ /\ control = "list" /\ ListNext
       /\ UNCHANGED <<control, comboOwn, tabOwn, sliderOwn, timerOwn, menuVars, frameVars, boxVars>>
    \/ /\ control = "tabs" /\ TabNext
       /\ UNCHANGED <<control, comboOwn, listOwn, sliderOwn, timerOwn, menuVars, frameVars, boxVars>>
    \/ /\ control = "slider" /\ SliderNext
       /\ UNCHANGED <<control, comboOwn, listOwn, tabOwn, timerOwn, menuVars, frameVars, boxVars>>
    \/ /\ control = "timer" /\ TimerNext
       /\ UNCHANGED <<control, comboOwn, listOwn, tabOwn, sliderOwn, menuVars, frameVars, boxVars>>
    \/ /\ control = "menus" /\ MenuNext
       /\ UNCHANGED <<control, toolkit, comboOwn, listOwn, tabOwn, sliderOwn, timerOwn, frameVars, boxVars>>
    \/ /\ control = "frame" /\ FrameNext
       /\ UNCHANGED <<control, toolkit, comboOwn, listOwn, tabOwn, sliderOwn, timerOwn, menuVars, boxVars>>
    \/ /\ control = "box" /\ BoxNext
       /\ UNCHANGED <<control, toolkit, comboOwn, listOwn, tabOwn, sliderOwn, timerOwn, menuVars, frameVars>>

\* Without timers on the bench nothing the fairness asks for is enabled.
BenchSpec == BenchInit /\ [][BenchNext]_benchVars /\ TimerFairness
=============================================================================
