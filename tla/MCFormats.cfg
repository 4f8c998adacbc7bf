SPECIFICATION Spec
CONSTANTS
    MaxByte = 3
    MaxLen = 3
    BitsPerKey = {10, 30}
    VarBase = 4
    VarMaxLen = 3
    FooterLength = 12
INVARIANTS
    TotalOrder
    Separates
    Succeeds
    NoFalseNegatives
    FooterRoundTrip
    MaskRoundTrip
CHECK_DEADLOCK FALSE
