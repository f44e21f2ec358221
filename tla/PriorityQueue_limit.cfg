CONSTANTS
    e1 = e1
    e2 = e2
    e3 = e3
    e4 = e4
    e5 = e5
    e6 = e6
    Events = {e1, e2, e3}
    NoEvent = NoEvent
    Wrap = 8
    Capacity = 3
    Limit = 3
    MaxTick = 2
    Reentrant = FALSE
SPECIFICATION Spec
PROPERTY NothingOverdue
SYMMETRY EventSymmetry
