SPECIFICATION FairTableSpec
CONSTANTS
    MaxByte = 3
    BlockRestartInterval = 2
    FilterBase = 16
    FilterLen = 9
    Keys <- MCProperKeys
    Vals <- MCVals
    BlockSize = 14
    FilterName <- MCFilterName
    PolicyNames <- MCPolicyNames
    Compressed = FALSE
    MaxAdds = 5
    ShortWrites = FALSE
    FlushFails = FALSE
PROPERTIES
    PrevSkipsDefective
CHECK_DEADLOCK FALSE
