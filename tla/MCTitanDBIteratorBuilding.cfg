CONSTANTS
    FileNums <- MCFileNums
    Keys <- MCKeys
    Sizes <- MCSizes
    NumLevels = 2
    MaxSeq = 2
    LevelMerge = FALSE
    SepBeforeFlush = TRUE
    MergeSmallFileThreshold = 1
    RatioNum = 1
    RatioDen = 2
    EmptyValues = FALSE
    MaxScanLen = 2
    ReadMayFail = TRUE
SPECIFICATION Spec
INVARIANT IterValueMatches
