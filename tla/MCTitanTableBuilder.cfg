CONSTANTS
    FileNums <- MCFileNums
    OldFiles <- MCOldFiles
    Sizes <- MCSizes
    N = 3
    NumLevels = 2
    MaxSeq = 2
    LevelMerge = TRUE
    SepBeforeFlush = FALSE
    MergeSmallFileThreshold = 1
    RatioNum = 1
    RatioDen = 2
    MergeLevel = 1
    BlobFileTargetSize = 2
    GCLowLevelFloor = 0
    GCConcurrent = TRUE
    IOMayFail = TRUE
SPECIFICATION Spec
CHECK_DEADLOCK FALSE
INVARIANT TypeOK
INVARIANT OutputFollowsInput
INVARIANT OutputResolvesToInput
