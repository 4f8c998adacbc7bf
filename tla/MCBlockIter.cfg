SPECIFICATION FairSpec
CONSTANTS
    MaxByte = 1
    BlockRestartInterval = 2
    Keys <- MCKeys
    Vals <- MCVals
    MaxEntries = 5
INVARIANTS
    TypeOK
    CurrentIsEntry
    OnlyCallerPanics
PROPERTIES
    ImplementsEntryIter
    CallReturns
CHECK_DEADLOCK FALSE
