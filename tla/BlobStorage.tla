---------------------------- MODULE BlobStorage ----------------------------
(***************************************************************************)
(* The blob-file registry of one column family (src/src/blob_storage.cc):  *)
(* files_, the key-range index blob_ranges_, the per-level live byte       *)
(* counters level_blob_size_, the list of obsolete files awaiting          *)
(* deletion obsolete_files_, the files still being written by foreground   *)
(* builders building_files_, and the GC score list gc_score_.              *)
(*                                                                         *)
(* Every method takes mutex_ for its whole body, so each is one atomic     *)
(* action.  The callers (the blob file set applying version edits, the GC  *)
(* job, the host engine's snapshot list) are outside the repository; they  *)
(* appear here as environment actions that call the methods with the       *)
(* arguments their contract allows.                                        *)
(***************************************************************************)
EXTENDS Integers, Sequences, FiniteSets, SequencesExt, TLC

CONSTANTS
    FileNums,          \* file numbers the blob file manager may allocate
    Keys,              \* user keys, ordered as integers
    Sizes,             \* possible file sizes (abstract units)
    NumLevels,         \* cf_options_.num_levels
    MaxSeq,            \* bound on the host engine's last sequence number
    LevelMerge,        \* cf_options_.level_merge
    SepBeforeFlush,    \* db_options_.sep_before_flush
    MergeSmallFileThreshold, \* cf_options_.merge_small_file_threshold
    RatioNum, RatioDen \* cf_options_.blob_file_discardable_ratio = Num/Den

ASSUME /\ FileNums \subseteq Nat /\ Keys \subseteq Nat /\ Sizes \subseteq Nat \ {0}
       /\ NumLevels >= 2 /\ MaxSeq \in Nat
       /\ LevelMerge \in BOOLEAN /\ SepBeforeFlush \in BOOLEAN
       /\ RatioDen > 0 /\ 0 =< RatioNum /\ RatioNum =< RatioDen

\* BlobFileMeta::FileState and FileType
Init_ == "kInit"
Normal == "kNormal"
ToMerge == "kToMerge"
ToGC == "kToGC"
Obsolete == "kObsolete"
FileStates == {Init_, Normal, ToMerge, ToGC, Obsolete}
Sorted == "kSorted"
UnSorted == "kUnSorted"

\* Slot NumLevels of level_blob_size_ counts unsorted (foreground) files.
LevelSlots == 0..NumLevels

BlobFileMeta ==
    [size: Sizes, discardable: Nat, level: 0..NumLevels - 1,
     type: {Sorted, UnSorted}, state: FileStates, smallest: Keys, largest: Keys]

VARIABLES
    files_,           \* file number -> BlobFileMeta (the shared_ptr map)
    blob_ranges_,     \* the multimap smallest_key -> file, as <<key, number>> pairs
    level_blob_size_, \* level slot -> bytes
    obsolete_files_,  \* sequence of <<file number, obsolete sequence>>
    building_files_,  \* numbers of files a foreground builder is still writing
    gc_score_,        \* sequence of [file_number, score] from ComputeGCScore
    \* host engine state the storage is called with
    last_seq,         \* latest sequence number
    snapshots,        \* sequence numbers of the open snapshots
    allocated,        \* file numbers handed out by the blob file manager
    \* history, for the properties only
    obsolete_at       \* file number -> sequence it was marked obsolete at (0: never)

storage_vars == <<files_, blob_ranges_, level_blob_size_, obsolete_files_,
                  building_files_, gc_score_>>
host_vars == <<last_seq, snapshots, allocated, obsolete_at>>
vars == <<storage_vars, host_vars>>

-----------------------------------------------------------------------------
(* Ratios are kept as fractions so that the score comparisons are exact.  *)
Frac(n, d) == [num |-> n, den |-> d]
FracLess(a, b) == a.num * b.den < b.num * a.den
DiscardableRatio == Frac(RatioNum, RatioDen)

\* BlobFileMeta::GetDiscardableRatio
GetDiscardableRatio(m) == Frac(m.discardable, m.size)

IsObsolete(m) == m.state = Obsolete

\* BlobFileMeta::FileStateTransit (blob_format.cc is not in the repository):
\* the lifecycle of spec section 3.
FileStateTransit(state, event) ==
    CASE event = "kFlushOrCompactionOutput" /\ state = Init_ -> Normal
      [] event = "kReset"                   /\ state = Init_ -> Normal
      [] event = "kNeedMerge"               /\ state = Normal -> ToMerge
      [] event = "kGCMark"                  /\ state = Normal -> ToGC
      [] event = "kDelete" /\ state \in {Normal, ToMerge, ToGC} -> Obsolete

\* The slot of level_blob_size_ a file is counted in.
LevelSlot(m) == IF m.type = Sorted THEN m.level ELSE NumLevels

\* BlobStorage::ShouldGCLowLevel.  The absolute floor (100 << 30 bytes) is
\* the constant GCLowLevelFloor of the composing module; here it is a
\* parameter.
ShouldGCLowLevel(floor) ==
    LET low  == MapThenSumSet(LAMBDA i : level_blob_size_[i], 0..NumLevels - 3)
        high == MapThenSumSet(LAMBDA i : level_blob_size_[i], (NumLevels - 2)..NumLevels)
    IN /\ high > low /\ low > 0
       /\ low + high > floor
       /\ (low + high) \div low =< 10

\* BlobStorage::FindFile: the file is found while it is in files_, obsolete
\* or not.
FindFile(f) == f \in DOMAIN files_

\* BlobStorage::FindBuildingFile: a reader is open while f is building.
FindBuildingFile(f) == f \in building_files_

\* BlobStorage::Get takes mutex_ twice: FindFile, and, when the file is not
\* in files_ and sep_before_flush is on, ReadBuildingFile's FindBuildingFile.
\* A caller takes the two lookups as two steps.  The first one ends the call
\* with "OK" or "Corruption", or sends it on to ReadBuildingFile ("building").
GetFindFile(f) ==
    CASE FindFile(f)     -> "OK"
      [] SepBeforeFlush  -> "building"
      [] OTHER           -> "Corruption"

\* BlobStorage::ReadBuildingFile: a reader of a building file, or Corruption.
ReadBuildingFile(f) == IF FindBuildingFile(f) THEN "OK" ELSE "Corruption"

\* A null Slice* bound of a range (the minimum or the maximum), and the
\* empty key of a meta written by an old version.  User keys are positive.
NoBound == -1
EmptySlice == 0

\* Mutant: the scan ends at lower_bound(*end), before the files starting at end.
GetBlobFilesInRangesLowerEnd(begin, end, include_end) ==
    LET span == {e \in blob_ranges_ : (begin = NoBound \/ e[1] >= begin)
                                     /\ (end = NoBound \/ e[1] < end)}
        Keep(m) == /\ ~IsObsolete(m)
                   /\ ~(m.largest = EmptySlice /\ end # NoBound)
                   /\ \/ end = NoBound
                      \/ include_end /\ m.largest =< end
                      \/ ~include_end /\ m.largest < end
    IN {e[2] : e \in {e \in span : Keep(files_[e[2]])}}

\* BlobStorage::GetBlobFilesInRanges for one range: walk blob_ranges_ from
\* lower_bound(*begin) to upper_bound(*end), skip obsolete files and files
\* with an empty largest key under a bounded end, and keep the files whose
\* largest key is within the end.  The order of `files` is abstracted.
GetBlobFilesInRanges(begin, end, include_end) ==
    LET span == {e \in blob_ranges_ : (begin = NoBound \/ e[1] >= begin)
                                     /\ (end = NoBound \/ e[1] =< end)}
        Keep(m) == /\ ~IsObsolete(m)
                   /\ ~(m.largest = EmptySlice /\ end # NoBound)
                   /\ \/ end = NoBound
                      \/ include_end /\ m.largest =< end
                      \/ ~include_end /\ m.largest < end
    IN {e[2] : e \in {e \in span : Keep(files_[e[2]])}}

-----------------------------------------------------------------------------
Init ==
    /\ files_ = [f \in {} |-> {}]
    /\ blob_ranges_ = {}
    /\ level_blob_size_ = [l \in LevelSlots |-> 0]
    /\ obsolete_files_ = <<>>
    /\ building_files_ = {}
    /\ gc_score_ = <<>>
    /\ last_seq = 1
    /\ snapshots = {}
    /\ allocated = {}
    /\ obsolete_at = [f \in FileNums |-> 0]

\* BlobStorage::AddBuildingFile: a foreground builder opened file f.
AddBuildingFile(f) ==
    /\ f \notin allocated
    /\ allocated' = allocated \cup {f}
    /\ building_files_' = building_files_ \cup {f}
    /\ UNCHANGED <<files_, blob_ranges_, level_blob_size_, obsolete_files_,
                   gc_score_, last_seq, snapshots, obsolete_at>>

\* BlobStorage::AddBlobFile: register a finished file m under number f.
\* The caller has already moved it out of kInit (FinishBlobFile / FinishBlob).
AddBlobFile(f, m) ==
    /\ files_' = files_ @@ (f :> m)
    /\ blob_ranges_' = blob_ranges_ \cup {<<m.smallest, f>>}
    /\ level_blob_size_' = [level_blob_size_ EXCEPT ![LevelSlot(m)] = @ + m.size]
    /\ building_files_' = IF SepBeforeFlush THEN building_files_ \ {f}
                                            ELSE building_files_
    /\ UNCHANGED <<obsolete_files_, gc_score_>>

\* Mutant: subtract the live bytes, as the spec describes the counters.
MarkFileObsoleteLiveBytes(f, obsolete_sequence) ==
    /\ FindFile(f)
    /\ obsolete_files_' = Append(obsolete_files_, <<f, obsolete_sequence>>)
    /\ files_' = [files_ EXCEPT ![f].state = FileStateTransit(@, "kDelete")]
    /\ level_blob_size_' =
           [level_blob_size_ EXCEPT ![LevelSlot(files_[f])] =
                @ - (files_[f].size - files_[f].discardable)]
    /\ UNCHANGED <<blob_ranges_, building_files_, gc_score_>>

\* Mutant: the file_type() branch dropped, every file charged to its level.
MarkFileObsoleteLevelOnly(f, obsolete_sequence) ==
    /\ FindFile(f)
    /\ obsolete_files_' = Append(obsolete_files_, <<f, obsolete_sequence>>)
    /\ files_' = [files_ EXCEPT ![f].state = FileStateTransit(@, "kDelete")]
    /\ level_blob_size_' =
           [level_blob_size_ EXCEPT ![files_[f].level] = @ - files_[f].size]
    /\ UNCHANGED <<blob_ranges_, building_files_, gc_score_>>

\* BlobStorage::MarkFileObsolete and MarkFileObsoleteLocked.
MarkFileObsolete(f, obsolete_sequence) ==
    /\ FindFile(f)
    /\ obsolete_files_' = Append(obsolete_files_, <<f, obsolete_sequence>>)
    /\ files_' = [files_ EXCEPT ![f].state = FileStateTransit(@, "kDelete")]
    /\ level_blob_size_' =
           [level_blob_size_ EXCEPT ![LevelSlot(files_[f])] = @ - files_[f].size]
    /\ UNCHANGED <<blob_ranges_, building_files_, gc_score_>>

\* Mutant: blob_ranges_.erase(smallest_key) drops every file sharing the key.
RemoveFilesByKey(F) ==
    /\ files_' = [f \in DOMAIN files_ \ F |-> files_[f]]
    /\ blob_ranges_' = {r \in blob_ranges_ : r[1] \notin {files_[f].smallest : f \in F}}

\* BlobStorage::RemoveFile, applied to a set of file numbers: erase each from
\* files_ and the one blob_ranges_ entry whose file number matches.
RemoveFiles(F) ==
    /\ files_' = [f \in DOMAIN files_ \ F |-> files_[f]]
    /\ blob_ranges_' = {r \in blob_ranges_ : r[2] \notin F}

\* Mutant: the comparison made inclusive (oldest_sequence >= obsolete_sequence).
GetObsoleteFilesInclusive(oldest_sequence) ==
    LET Drop(e) == oldest_sequence >= e[2]
        dropped == {obsolete_files_[i][1] : i \in {i \in 1..Len(obsolete_files_) :
                                                    Drop(obsolete_files_[i])}}
    IN /\ dropped # {}
       /\ RemoveFiles(dropped)
       /\ obsolete_files_' = SelectSeq(obsolete_files_, LAMBDA e : ~Drop(e))
       /\ UNCHANGED <<level_blob_size_, building_files_, gc_score_>>

\* Mutant: the files are removed but their entries are not erased.
GetObsoleteFilesKeepEntries(oldest_sequence) ==
    LET dropped == {obsolete_files_[i][1] : i \in {i \in 1..Len(obsolete_files_) :
                                                    oldest_sequence > obsolete_files_[i][2]}}
    IN /\ dropped # {}
       /\ RemoveFiles(dropped)
       /\ UNCHANGED <<obsolete_files_, level_blob_size_, building_files_, gc_score_>>

\* BlobStorage::GetObsoleteFiles: every entry whose obsolete sequence is
\* below oldest_sequence is removed from the registry and from the list.
GetObsoleteFiles(oldest_sequence) ==
    LET Drop(e) == oldest_sequence > e[2]
        dropped == {obsolete_files_[i][1] : i \in {i \in 1..Len(obsolete_files_) :
                                                    Drop(obsolete_files_[i])}}
    IN /\ dropped # {}
       /\ RemoveFiles(dropped)
       /\ obsolete_files_' = SelectSeq(obsolete_files_, LAMBDA e : ~Drop(e))
       /\ UNCHANGED <<level_blob_size_, building_files_, gc_score_>>

\* The candidate test and the score of BlobStorage::ComputeGCScore.
IsGCCandidate(m) ==
    ~(IsObsolete(m) \/ (LevelMerge /\ (m.type = Sorted \/
                                       FracLess(GetDiscardableRatio(m), DiscardableRatio))))
GCScoreOf(m) ==
    IF m.size < MergeSmallFileThreshold THEN DiscardableRatio
                                        ELSE GetDiscardableRatio(m)

\* The comparators of the two std::sort calls, as "may precede".
ScoreOrder(a, b) ==
    IF LevelMerge THEN ~FracLess(a.score, b.score)
                  ELSE a.file_number < b.file_number

\* BlobStorage::ComputeGCScore: rebuild gc_score_ and sort it.  std::sort is
\* not stable, so entries of equal score may end in any order.
ComputeGCScore ==
    LET entries == {[file_number |-> f, score |-> GCScoreOf(files_[f])] :
                       f \in {g \in DOMAIN files_ : IsGCCandidate(files_[g])}}
    IN /\ gc_score_' \in {s \in SetToSeqs(entries) : IsSorted(s, ScoreOrder)}
       /\ UNCHANGED <<files_, blob_ranges_, level_blob_size_, obsolete_files_,
                      building_files_>>
-----------------------------------------------------------------------------
\* A read-only query over the registry, used by PrintFileStates per level.
\* CountSortedRun: sort the files by smallest key (std::sort, so files of
\* equal smallest key in any order), put each into the first run whose last
\* file ends before it starts, or open a new run; return the run lengths.
SmallestKeyOrders(fs) ==
    {o \in SetToSeqs(fs) : \A i \in 1..Len(o) - 1 : files_[o[i]].smallest =< files_[o[i + 1]].smallest}
\* Mutant: a file may join a run whose last file ends at its first key.
FirstFitRunTouching(runs, f) ==
    LET fits == {i \in 1..Len(runs) : files_[f].smallest >= files_[Last(runs[i])].largest}
    IN IF fits = {} THEN Append(runs, <<f>>)
                    ELSE [runs EXCEPT ![Min(fits)] = Append(@, f)]
FirstFitRun(runs, f) ==
    LET fits == {i \in 1..Len(runs) : files_[f].smallest > files_[Last(runs[i])].largest}
    IN IF fits = {} THEN Append(runs, <<f>>)
                    ELSE [runs EXCEPT ![Min(fits)] = Append(@, f)]
SortedRuns(order) == FoldLeft(FirstFitRun, <<>>, order)
CountSortedRun(order) == [i \in 1..Len(SortedRuns(order)) |-> Len(SortedRuns(order)[i])]
-----------------------------------------------------------------------------
(***************************************************************************)
(* The callers.  Files are registered by the blob file set when a flush,   *)
(* compaction or foreground builder finishes them; a version edit deletes  *)
(* a file only if it is not already obsolete; the host engine passes the   *)
(* oldest snapshot sequence (the last sequence when no snapshot is open)   *)
(* to GetObsoleteFiles.                                                    *)
(***************************************************************************)
OldestSequence ==
    IF snapshots = {} THEN last_seq
    ELSE CHOOSE s \in snapshots : \A t \in snapshots : s =< t

\* A write of the host engine advances the last sequence number.
HostWrite ==
    /\ last_seq < MaxSeq
    /\ last_seq' = last_seq + 1
    /\ UNCHANGED <<storage_vars, snapshots, allocated, obsolete_at>>

TakeSnapshot ==
    /\ last_seq \notin snapshots
    /\ snapshots' = snapshots \cup {last_seq}
    /\ UNCHANGED <<storage_vars, last_seq, allocated, obsolete_at>>

ReleaseSnapshot(s) ==
    /\ snapshots' = snapshots \ {s}
    /\ UNCHANGED <<storage_vars, last_seq, allocated, obsolete_at>>

\* A foreground builder opens file f (only with sep_before_flush, the mode
\* that creates the ForegroundBuilder).
OpenForegroundFile(f) ==
    /\ SepBeforeFlush
    /\ AddBuildingFile(f)

\* A finished file becomes Normal and is registered: a sorted file output by
\* a flush or compaction (kFlushOrCompactionOutput), or an unsorted file of a
\* foreground builder that first registered it as building (kReset).
RegisterFile(f) ==
    \E size \in Sizes, level \in 0..NumLevels - 1, type \in {Sorted, UnSorted},
      lo \in Keys, hi \in Keys :
        LET event == IF type = Sorted THEN "kFlushOrCompactionOutput" ELSE "kReset"
            m == [size |-> size, discardable |-> 0,
                  level |-> IF type = Sorted THEN level ELSE 0, type |-> type,
                  state |-> FileStateTransit(Init_, event),
                  smallest |-> lo, largest |-> hi]
        IN /\ lo =< hi
           /\ IF type = UnSorted /\ SepBeforeFlush
                 THEN f \in building_files_
                 ELSE f \notin allocated
           /\ type = UnSorted => level = 0
           /\ AddBlobFile(f, m)
           /\ allocated' = allocated \cup {f}
           /\ UNCHANGED <<last_seq, snapshots, obsolete_at>>

\* A version edit deletes file f at the current last sequence.
DeleteFile(f) ==
    /\ f \in DOMAIN files_
    /\ ~IsObsolete(files_[f])
    /\ MarkFileObsolete(f, last_seq)
    /\ obsolete_at' = [obsolete_at EXCEPT ![f] = last_seq]
    /\ UNCHANGED <<last_seq, snapshots, allocated>>

\* The GC job or the range-merge policy marks a file (kNeedMerge, kGCMark).
MarkFile(f, event) ==
    /\ f \in DOMAIN files_
    /\ files_[f].state = Normal
    /\ files_' = [files_ EXCEPT ![f].state = FileStateTransit(@, event)]
    /\ UNCHANGED <<blob_ranges_, level_blob_size_, obsolete_files_,
                   building_files_, gc_score_, host_vars>>

\* BlobFileMeta::AddDiscardableSize: a compaction dropped one unit of f.
AddDiscardableSize(f) ==
    /\ f \in DOMAIN files_
    /\ ~IsObsolete(files_[f])
    /\ files_[f].discardable < files_[f].size
    /\ files_' = [files_ EXCEPT ![f].discardable = @ + 1]
    /\ UNCHANGED <<blob_ranges_, level_blob_size_, obsolete_files_,
                   building_files_, gc_score_, host_vars>>

PurgeObsoleteFiles ==
    /\ GetObsoleteFiles(OldestSequence)
    /\ UNCHANGED host_vars

RecomputeGCScore ==
    /\ ComputeGCScore
    /\ UNCHANGED host_vars

Next ==
    \/ HostWrite \/ TakeSnapshot \/ \E s \in snapshots : ReleaseSnapshot(s)
    \/ \E f \in FileNums :
          \/ OpenForegroundFile(f) \/ RegisterFile(f) \/ DeleteFile(f)
          \/ AddDiscardableSize(f)
          \/ \E e \in {"kNeedMerge", "kGCMark"} : MarkFile(f, e)
    \/ PurgeObsoleteFiles
    \/ RecomputeGCScore

Spec == Init /\ [][Next]_vars

-----------------------------------------------------------------------------
\* The non-obsolete files counted in slot l of level_blob_size_.
LiveFilesIn(l) ==
    {f \in DOMAIN files_ : ~IsObsolete(files_[f]) /\ LevelSlot(files_[f]) = l}

TypeOK ==
    /\ DOMAIN files_ \subseteq FileNums
    /\ \A f \in DOMAIN files_ : files_[f] \in BlobFileMeta
    /\ blob_ranges_ \subseteq Keys \X FileNums
    /\ level_blob_size_ \in [LevelSlots -> Nat]
    /\ obsolete_files_ \in Seq(FileNums \X (1..MaxSeq))
    /\ building_files_ \subseteq FileNums
    /\ last_seq \in 1..MaxSeq
    /\ snapshots \subseteq 1..MaxSeq
    /\ allocated \subseteq FileNums

\* Each level counter of level_blob_size_ equals the total size of the
\* non-obsolete files counted in that slot, after any sequence of
\* AddBlobFile, MarkFileObsolete and GetObsoleteFiles; ShouldGCLowLevel, and
\* through it the level-merge decision of every table builder, reads them.
LevelSizeMatchesFiles ==
    \A l \in LevelSlots :
        level_blob_size_[l] =
            MapThenSumSet(LAMBDA f : files_[f].size, LiveFilesIn(l))

\* obsolete_files_ lists every obsolete file still in files_ exactly once and
\* nothing else, so GetObsoleteFiles' RemoveFile always finds its file (the
\* assert(removed)) and reports each path for deletion once.
ObsoleteListMatchesFiles ==
    /\ IsInjective([i \in 1..Len(obsolete_files_) |-> obsolete_files_[i][1]])
    /\ {obsolete_files_[i][1] : i \in 1..Len(obsolete_files_)} =
           {f \in DOMAIN files_ : IsObsolete(files_[f])}

\* blob_ranges_ indexes exactly the files of files_, each under its smallest
\* key, also when several files share a smallest key and one is removed.
RangeIndexMatchesFiles ==
    blob_ranges_ = {<<files_[f].smallest, f>> : f \in DOMAIN files_}

\* A file that an open snapshot may still read (one never deleted, or
\* deleted at a sequence no smaller than the snapshot's) is still in files_
\* or, with sep_before_flush, in building_files_: GetObsoleteFiles purges
\* only below the oldest snapshot, and AddBlobFile adds a building file to
\* files_ in the same critical section that erases it from building_files_.
SnapshotFilesKept ==
    \A f \in allocated :
        (obsolete_at[f] = 0 \/ \E s \in snapshots : s =< obsolete_at[f])
            => FindFile(f) \/ (SepBeforeFlush /\ FindBuildingFile(f))

\* The sorted files of level l that PrintFileStates hands to CountSortedRun.
LevelFiles(l) == {f \in DOMAIN files_ : files_[f].type = Sorted /\ files_[f].level = l}
\* The largest number of files of fs whose key ranges share a key.
MaxOverlap(fs) ==
    Max({Cardinality({f \in fs : files_[f].smallest =< k /\ k =< files_[f].largest}) : k \in Keys})

\* CountSortedRun splits the files of every level into runs of files with
\* disjoint, increasing key ranges, whatever order std::sort leaves files of
\* equal smallest key in, and it uses no more runs than necessary: exactly
\* the largest number of files that share a key.
SortedRunsMinimal ==
    \A l \in 0..NumLevels - 1 : \A o \in SmallestKeyOrders(LevelFiles(l)) :
        LET runs == SortedRuns(o)
        IN /\ \A i \in 1..Len(runs) : \A j \in 1..Len(runs[i]) - 1 :
                  files_[runs[i][j]].largest < files_[runs[i][j + 1]].smallest
           /\ Len(runs) = MaxOverlap(LevelFiles(l))

\* Reference for the range lookup of spec section 4: the live files whose
\* whole key range lies within [begin, end] (or [begin, end)).
FilesWithin(begin, end, include_end) ==
    {f \in DOMAIN files_ :
        /\ ~IsObsolete(files_[f])
        /\ begin = NoBound \/ begin =< files_[f].smallest
        /\ end = NoBound \/ (IF include_end THEN files_[f].largest =< end
                                            ELSE files_[f].largest < end)}

\* GetBlobFilesInRanges, walking the smallest-key index, returns exactly the
\* live files within every range, bounded or not, whatever registrations,
\* deletions and purges changed files_ and blob_ranges_ before it.
RangeQueryMatchesReference ==
    \A begin, end \in Keys \cup {NoBound}, include_end \in BOOLEAN :
        GetBlobFilesInRanges(begin, end, include_end) = FilesWithin(begin, end, include_end)
=============================================================================
