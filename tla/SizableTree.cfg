SPECIFICATION Spec
CONSTANTS
    Boxes = {b1}
    Fixed = {g1}
    Plain = {w1}
    Frames = {f1}
    TabFrames = {}
    None = None
    TheWindow = TheWindow
    Lost = Lost
SYMMETRY TreeSymmetry
INVARIANTS WindowInherited Registered
