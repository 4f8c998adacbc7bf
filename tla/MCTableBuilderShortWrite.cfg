SPECIFICATION Spec
CONSTANTS
    MaxByte = 3
    BlockRestartInterval = 2
    FilterBase = 16
    FilterLen = 9
    Keys <- MCProperKeys
    Vals <- MCVals
    BlockSize = 14
    FilterName <- MCFilterName
    Compressed = FALSE
    MaxAdds = 6
    ShortWrites = TRUE
    FlushFails = TRUE
INVARIANTS
    ResultIsFileSize
CHECK_DEADLOCK FALSE
