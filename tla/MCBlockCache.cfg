SPECIFICATION FairBlockCacheSpec
CONSTANTS
    Key <- MCKey
    Val <- MCVal
    Addr = {a1, a2, a3}
    Head = head
    None = none
    Cap = 3
    MaxUses = 5
    MaxIds = 2
    Thread = {t1, t2}
    Table = {x, y}
    Offset = {0, 1}
    MaxCalls = 5
INVARIANTS
    BlockCacheTypeOK
    NeverPanics
    ListOK
    MapListAgree
    ReadsRight
    MissStaysMiss
PROPERTIES
    ImplementsLRU
    PoisonIsFinal
    CallEnds
CHECK_DEADLOCK FALSE
