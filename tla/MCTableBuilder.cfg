SPECIFICATION Spec
CONSTANTS
    MaxByte = 3
    BlockRestartInterval = 2
    FilterBase = 16
    FilterLen = 9
    Keys <- MCKeys
    Vals <- MCVals
    BlockSize = 14
    FilterName <- MCFilterName
    Compressed = TRUE
    MaxAdds = 5
    ShortWrites = FALSE
    FlushFails = TRUE
INVARIANTS
    HandlesResolve
    IndexSeparates
    FooterMeansComplete
    FilterAnswers
    OrderedNeverPanics
    ResultIsFileSize
    DisorderOnlyAtBlockStart
CHECK_DEADLOCK FALSE
