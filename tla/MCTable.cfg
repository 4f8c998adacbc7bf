SPECIFICATION FairTableSpec
CONSTANTS
    MaxByte = 3
    BlockRestartInterval = 2
    FilterBase = 16
    FilterLen = 9
    Keys <- MCKeys
    Vals <- MCVals
    BlockSize = 14
    FilterName <- MCFilterName
    PolicyNames <- MCPolicyNames
    Compressed = TRUE
    MaxAdds = 5
    ShortWrites = FALSE
    FlushFails = FALSE
INVARIANTS
    OpensOnlyComplete
    GetExact
    OffsetsExact
PROPERTIES
    AdvanceIsNext
    PrevIsPrevious
    SeekSound
    StepLostOnlyByFailure
    AdvanceReturns
CHECK_DEADLOCK FALSE
