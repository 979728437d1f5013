SPECIFICATION Spec
CONSTANTS
    Patches = {p1}
    Unlocked = {}
    Editors = {e1, e2}
    MaxEdits = 2
    NoOne = NoOne
SYMMETRY SymWriters
CHECK_DEADLOCK FALSE
PROPERTY NoBlindOverwrite
