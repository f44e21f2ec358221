CONSTANTS
    e1 = e1
    e2 = e2
    e3 = e3
    e4 = e4
    e5 = e5
    e6 = e6
    Events = {e1, e2, e3, e4, e5, e6}
    NoEvent = NoEvent
    Wrap = 16
    Capacity = 6
    Limit = 2
    MaxTick = 2
    Reentrant = TRUE
SPECIFICATION Spec
INVARIANT HeapOrdered
PROPERTY OnTime
SYMMETRY EventSymmetry
