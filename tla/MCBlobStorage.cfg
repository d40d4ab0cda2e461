CONSTANTS
    FileNums <- MCFileNums
    Keys <- MCKeys
    Sizes <- MCSizes
    NumLevels = 2
    MaxSeq = 2
    LevelMerge = FALSE
    SepBeforeFlush = TRUE
    MergeSmallFileThreshold = 2
    RatioNum = 1
    RatioDen = 2
SPECIFICATION Spec
INVARIANT TypeOK
INVARIANT LevelSizeMatchesFiles
INVARIANT ObsoleteListMatchesFiles
INVARIANT RangeIndexMatchesFiles
INVARIANT SnapshotFilesKept
INVARIANT SortedRunsMinimal
INVARIANT RangeQueryMatchesReference
