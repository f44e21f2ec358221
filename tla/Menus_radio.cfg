CONSTANTS
    MenusMade = {menu1}
    ChecksMade = {check1}
    RadiosMade = {radio1, radio2}
    NoAction = NoAction
    Hideable = {}
    Dimmable = {}
SPECIFICATION MenuSpec
CHECK_DEADLOCK FALSE
INVARIANT ChosenChecked
