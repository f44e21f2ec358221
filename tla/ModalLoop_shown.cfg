CONSTANTS
    w1 = w1
    w2 = w2
    w3 = w3
    None = None
    Windows = {w1, w2}
    Default = {w1}
    MaxDepth = 2
SPECIFICATION Spec
CHECK_DEADLOCK FALSE
INVARIANT Unlocked
