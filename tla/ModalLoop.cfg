CONSTANTS
    w1 = w1
    w2 = w2
    w3 = w3
    None = None
    Windows = {w1, w2}
    Default = {w1}
    MaxDepth = 3
SPECIFICATION Spec
CHECK_DEADLOCK FALSE
INVARIANTS Listed Reachable
PROPERTIES HiddenEnds QuitEnds
