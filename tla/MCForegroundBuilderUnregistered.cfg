CONSTANTS
    FileNums <- MCFileNums
    Keys <- MCKeys
    Sizes <- MCSizes
    Clients <- MCClients
    NumLevels = 2
    MaxSeq = 1
    LevelMerge = FALSE
    SepBeforeFlush = TRUE
    MergeSmallFileThreshold = 1
    RatioNum = 1
    RatioDen = 2
    NumBuilders = 2
    BlobFileTargetSize = 2
    MaxFlushes = 1
    IOMayFail = FALSE
SPECIFICATION Spec
INVARIANT FinishRegistersFiles
