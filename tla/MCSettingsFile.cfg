SPECIFICATION Spec
CONSTANTS
    Patches = {p1, p2}
    Unlocked = {u1}
    Editors = {e1, e2}
    MaxEdits = 3
    NoOne = NoOne
SYMMETRY SymWriters
CHECK_DEADLOCK FALSE
INVARIANTS TypeOK RevisionNamesLayout
PROPERTIES LossNeedsOverlap StaleEditNeedsRevert
