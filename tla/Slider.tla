-------------------------------- MODULE Slider ------------------------------
(***************************************************************************)
(* Horizontal and vertical sliders and scrollers (phoenix/core/core.cpp)   *)
(* over their backends (phoenix/{windows,gtk,qt,cocoa}/widget/             *)
(* {horizontal,vertical}-{slider,scroller}.cpp; the two directions are     *)
(* line for line the same).  A control of length n has positions 0 to n-1. *)
(* The native control keeps its own maximum and value, moves the value     *)
(* when the maximum comes below it, and may notify of that.                *)
(***************************************************************************)
EXTENDS Toolkit

CONSTANTS
    MaxLength,   \* the greatest length
    FirstLength, \* the length controls are made with (101)
    Short        \* the numbers of 16 bits, 2^16

ASSUME SliderAssumption ==
    MaxLength \in Nat \ {0} /\ FirstLength \in 1..MaxLength /\ Short \in Nat \ {0}

VARIABLES
    kind,       \* "slider" or "scroller"
    length,     \* state.length
    position,   \* state.position
    top,        \* the greatest native value
    value,      \* the native value
    moved,      \* onChange ran in the last step
    lawful      \* history: the program has set positions within the length only

sliderVars == <<toolkit, kind, length, position, top, value, moved, lawful>>

Least(a, b) == IF a < b THEN a ELSE b
End(n) == IF n = 0 THEN 0 ELSE n - 1       \* the last position at length n

\* The native maximum: MAKELONG keeps 16 bits of that of a Windows slider, not
\* of a scroller; GTK wants a range that is not empty, Cocoa's sliders go one
\* too far; its scrollers work with fractions of the length.
Top(n) == CASE toolkit = "gtk" -> IF n < 3 THEN 1 ELSE n - 1
            [] toolkit = "cocoa" -> n
            [] toolkit = "windows" /\ kind = "slider" -> End(n) % Short
            [] OTHER -> End(n)

SliderInit ==
    /\ toolkit \in Toolkits
    /\ kind \in {"slider", "scroller"}
    /\ length = FirstLength /\ position = 0
    /\ top = Top(FirstLength) /\ value = 0
    /\ moved = FALSE /\ lawful = TRUE

-----------------------------------------------------------------------------
\* The native value becomes v while the object says p.  Qt's slot stores every
\* change and tells of it; GTK's handler does when the object has another
\* value, and tells unless it is locked; Windows and Cocoa do not notify.
Notified(v, p, quiet) ==
    /\ value' = v
    /\ position' = IF v # value /\ toolkit \in {"gtk", "qt"} THEN v ELSE p
    /\ moved' = (v # value /\ (toolkit = "qt" \/ (toolkit = "gtk" /\ v # p /\ ~quiet)))

\* setLength: Windows starts over at 0 (by the core's setPosition), GTK and Qt
\* move the value if they must, GTK locked for scrollers.  A Cocoa scroller
\* shows the object's position whatever it is; its slider may move or not.
SetLength(n) ==
    /\ length' = n /\ top' = Top(n)
    /\ CASE toolkit = "windows" -> value' = 0 /\ position' = 0 /\ moved' = FALSE
         [] toolkit \in {"gtk", "qt"} -> Notified(Least(value, Top(n)), position, kind = "scroller")
         [] OTHER -> /\ value' \in IF kind = "slider" THEN {value, Least(value, Top(n))} ELSE {position}
                     /\ moved' = FALSE /\ UNCHANGED position
    /\ UNCHANGED <<toolkit, kind, lawful>>

\* setPosition: the native value stops at the maximum, the object does not; on
\* GTK and Qt the notification sets that right, if the native value changes.
SetPosition(p) ==
    /\ Notified(IF toolkit = "cocoa" /\ kind = "scroller" THEN p ELSE Least(p, top), p, FALSE)
    /\ lawful' = (lawful /\ p <= End(length))
    /\ UNCHANGED <<toolkit, kind, length, top>>

\* Mutant of OrphanSlider: Windows does not save the position before setLength.
OrphanUnsavedSlider ==
    /\ toolkit # "cocoa"
    /\ LET v == IF toolkit = "windows" THEN 0 ELSE Least(position, Top(length))
       IN  value' = v /\ position' = (IF toolkit = "windows" THEN position ELSE v)
    /\ moved' = (toolkit = "qt" /\ value' # 0)
    /\ UNCHANGED <<toolkit, kind, length, top, lawful>>

\* orphan: the native control starts at 0, gets its length and is set to the
\* position; on Qt the slot is connected already and tells of that.
OrphanSlider ==
    /\ toolkit # "cocoa"
    /\ LET v == Least(position, Top(length))
       IN  /\ value' = v /\ top' = Top(length)
           /\ position' = IF toolkit # "windows" /\ v # 0 THEN v ELSE position
           /\ moved' = (v # 0 /\ (toolkit = "qt" \/ (toolkit = "gtk" /\ v # position)))
    /\ UNCHANGED <<toolkit, kind, length, lawful>>

\* A step of a Cocoa scroller's arrow or page: the comparison is of unsigned
\* numbers, so at length 0 it is always true.
Steps == {p \in {position - 1, position + 1} :
            /\ p >= 0 /\ p <= MaxLength
            /\ p > position => length = 0 \/ position < length - 1}

\* The user moves the knob to v: Cocoa tells of every action, Qt of every
\* change of the value, the others of changes of the object's.
OnMove(v) ==
    /\ IF toolkit = "cocoa" /\ kind = "scroller" THEN v \in 0..length \union Steps ELSE v \in 0..top
    /\ value' = v /\ position' = v
    /\ toolkit # "cocoa" => v # value
    /\ moved' = (toolkit \in {"qt", "cocoa"} \/ v # position)
    /\ UNCHANGED <<toolkit, kind, length, top, lawful>>

SliderNext ==
    \/ \E n \in 0..MaxLength : SetLength(n) \/ SetPosition(n) \/ OnMove(n)
    \/ OrphanSlider

SliderSpec == SliderInit /\ [][SliderNext]_sliderVars

-----------------------------------------------------------------------------
\* Every variable has its type.
SliderTypeOK ==
    /\ toolkit \in Toolkits /\ kind \in {"slider", "scroller"}
    /\ length \in 0..MaxLength /\ position \in 0..MaxLength
    /\ top \in 0..MaxLength /\ value \in 0..MaxLength
    /\ moved \in BOOLEAN /\ lawful \in BOOLEAN

\* The last position of a Windows slider fits into 16 bits.
Expressible == toolkit = "windows" /\ kind = "slider" => length <= Short

\* If the program sets positions within the length, the knob is where the
\* object says, but on Cocoa, and on Windows for sliders of lengths that 16
\* bits can express; and on Windows and Qt that is a position there is,
\* whatever the user does, also at length 0 and after re-creation.
KnobAgrees ==
    lawful => /\ toolkit # "cocoa" /\ Expressible => value = position
              /\ toolkit \in {"windows", "qt"} => position <= End(length)
=============================================================================
