SPECIFICATION Spec
CONSTANTS
    Items = {i1, i2, i3, i4}
    NoItem = NoItem
SYMMETRY ItemSymmetry
INVARIANTS MutualExclusion NoDangling NativeMatches
PROPERTIES SelectionKept CallbackSeesChoice
