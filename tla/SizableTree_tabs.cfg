SPECIFICATION Spec
CONSTANTS
    Boxes = {b1, b2}
    Fixed = {}
    Plain = {w1}
    Frames = {}
    TabFrames = {t1}
    None = None
    TheWindow = TheWindow
    Lost = Lost
SYMMETRY TreeSymmetry
INVARIANTS TypeOK ParentsAgree Hosted ShownAsVisible
