SPECIFICATION RemoveSpec
CONSTANTS
    Key = {k1, k2, k3, k4}
    Val = {v1}
    Addr = {a1, a2, a3, a4}
    Head = head
    None = none
    Cap = 3
    MaxUses = 8
    MaxIds = 2
SYMMETRY MCSymmetry
INVARIANTS
    NeverPanics
CHECK_DEADLOCK FALSE
