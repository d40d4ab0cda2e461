CONSTANTS
    FileNums <- MCFileNums
    Keys <- MCKeys
    Sizes <- MCSizes
    NumLevels = 2
    MaxSeq = 2
    LevelMerge = FALSE
    SepBeforeFlush = FALSE
    MergeSmallFileThreshold = 1
    RatioNum = 1
    RatioDen = 2
    MaxGCBatchSize = 2
    MinGCBatchSize = 1
    FollowUpFiles = 0
SPECIFICATION Spec
CHECK_DEADLOCK FALSE
INVARIANT NoNullMetaDeref
