------------------------- MODULE TitanTableBuilder -------------------------
(***************************************************************************)
(* TitanTableBuilder (src/src/table_builder.cc, lines 27-319): the table   *)
(* builder a flush or compaction writes its output through.  Each record   *)
(* is passed to the base (SST) builder as is, inlined back from its blob   *)
(* (fallback mode), redirected into a new blob file, or merged from its old *)
(* blob file into a new one (level merge).  Finish registers the finished   *)
(* blob files in one batch.                                                *)
(*                                                                         *)
(* The builder runs on one compaction thread; the GC thread works on the   *)
(* same BlobStorage concurrently (marking, deleting and purging files), so *)
(* the merge path of Add is split at the point where the file meta looked  *)
(* up at line 115 is used again by NewPrefetcher at line 123.              *)
(*                                                                         *)
(* Data is abstracted: the record of input position k has user key k and   *)
(* value k; a blob file's content is the sequence of <<key, value>> it     *)
(* holds and a blob index is <<file, position>>.                           *)
(***************************************************************************)
EXTENDS Integers, Sequences, FiniteSets, SequencesExt, TLC

CONSTANTS FileNums, Sizes, NumLevels, MaxSeq, LevelMerge, SepBeforeFlush,
          MergeSmallFileThreshold, RatioNum, RatioDen
CONSTANTS
    N,                  \* number of records the flush/compaction outputs
    OldFiles,           \* blob files the input's blob indexes point into
    MergeLevel,         \* merge_level_
    BlobFileTargetSize, \* cf_options_.blob_file_target_size, in records
    GCLowLevelFloor,    \* the (100 << 30) floor of ShouldGCLowLevel
    IOMayFail,          \* whether NewFile / blob writes / blob Finish may fail
    GCConcurrent        \* whether the GC thread works during the build

\* The flush and compaction path without sep_before_flush; the foreground
\* path of that mode is ForegroundBuilder.
ASSUME SepBeforeFlush = FALSE

Keys == 1..N

VARIABLES files_, blob_ranges_, level_blob_size_, obsolete_files_,
          building_files_, gc_score_, last_seq, snapshots, allocated, obsolete_at

S == INSTANCE BlobStorage
storage_vars == <<files_, blob_ranges_, level_blob_size_, obsolete_files_,
                  building_files_, gc_score_>>
host_vars == <<last_seq, snapshots, allocated, obsolete_at>>

VARIABLES
    input,            \* the records handed to Add, position -> record kind
    blob_run_mode,    \* cf_options_.blob_run_mode
    target_level_,    \* level of the output SST and blob files
    merge_low_level_, \* ShouldGCLowLevel() at construction
    ipos,             \* position of the next record to Add
    phase,            \* "add", "merge" (inside Add's merge path), "done", "crashed"
    status_,          \* "OK" or "Err"
    bb,               \* blob_builder_ / blob_handle_: [file, handle, failed]
    finished_blobs_,  \* sequence of [file, meta] finished but not yet registered
    deleted_files,    \* blob files the builder deleted through DeleteFile
    blob_content,     \* file number -> content written by this builder
    output,           \* records given to base_builder_->Add
    encountered_files_, \* file number -> meta seen at first lookup, or NoFile
    merging_files_,   \* files a prefetcher was opened for
    finish_status     \* "none", or the status Finish returned

builder_vars == <<input, blob_run_mode, target_level_, merge_low_level_, ipos,
                  phase, status_, bb, finished_blobs_, deleted_files,
                  blob_content, output, encountered_files_, merging_files_,
                  finish_status>>
vars == <<storage_vars, host_vars, builder_vars>>

\* the null shared_ptr FindFile returns for a file it does not know
NoFile == [type |-> "null", level |-> 0]
NoBuilder == [file |-> 0, handle |-> FALSE, failed |-> FALSE]
NoIndex == [file |-> 0, pos |-> 0]
IOOutcomes == IF IOMayFail THEN BOOLEAN ELSE {TRUE}

RecordKinds ==
    {[type |-> "kTypeValue", big |-> b] : b \in BOOLEAN} \cup
    {[type |-> "kTypeBlobIndex", file |-> f] : f \in OldFiles}

\* The content of an old blob file: the input records that point into it.
OldKeys(f) == {k \in Keys : input[k].type = "kTypeBlobIndex" /\ input[k].file = f}
OldContent(f) == [j \in 1..Cardinality(OldKeys(f)) |->
                    LET k == SetToSortSeq(OldKeys(f), <)[j] IN <<k, k>>]
Content(f) == IF f \in OldFiles THEN OldContent(f) ELSE blob_content[f]
OldIndex(k) == [file |-> input[k].file,
                pos |-> CHOOSE j \in 1..Len(OldContent(input[k].file)) :
                            OldContent(input[k].file)[j][1] = k]

\* Records as given to the base builder.
ValueRecord(k) == [key |-> k, type |-> "kTypeValue", value |-> k]
IndexRecord(k, idx) == [key |-> k, type |-> "kTypeBlobIndex", file |-> idx.file,
                        pos |-> idx.pos]
\* The record as it came in (base_builder_->Add(key, value)).
OriginalRecord(k) ==
    IF input[k].type = "kTypeValue" THEN ValueRecord(k) ELSE IndexRecord(k, OldIndex(k))

-----------------------------------------------------------------------------
(* The builder's own state as one record, so that AddBlob and             *)
(* FinishBlobFile can be written as functions of it.                      *)
BuilderState ==
    [status |-> status_, bb |-> bb, finished |-> finished_blobs_,
     deleted |-> deleted_files, content |-> blob_content, allocated |-> allocated,
     index |-> NoIndex, crashed |-> FALSE]

\* TitanTableBuilder::ok() / status(): status_, then the blob builder's.
Ok(st) == st.status = "OK" /\ (st.bb.file = 0 \/ ~st.bb.failed)

\* The BlobFileMeta FinishBlobFile creates (kFlushOrCompactionOutput).
NewMeta(st) ==
    LET c == st.content[st.bb.file]
    IN [size |-> Len(c), discardable |-> 0, level |-> target_level_,
        type |-> S!Sorted, state |-> S!FileStateTransit(S!Init_, "kFlushOrCompactionOutput"),
        smallest |-> c[1][1], largest |-> c[Len(c)][1]]

\* TitanTableBuilder::FinishBlobFile.  finOk: blob_builder_->Finish succeeds.
\* On failure the handle is moved into DeleteFile but blob_builder_ is kept,
\* so a second call logs through the null blob_handle_ (line 222).
FinishBlobFileOp(st, finOk) ==
    IF st.bb.file = 0 THEN st
    ELSE LET st1 == [st EXCEPT !.bb.failed = st.bb.failed \/ ~finOk]
         IN IF Ok(st1)
            THEN [st1 EXCEPT !.finished = Append(st.finished,
                                  [file |-> st.bb.file, meta |-> NewMeta(st1)]),
                             !.bb = NoBuilder]
            ELSE IF ~st.bb.handle THEN [st1 EXCEPT !.crashed = TRUE]
            ELSE [st1 EXCEPT !.status = "OK", !.bb.handle = FALSE,
                             !.deleted = st.deleted \cup {st.bb.file}]

\* Mutant: the index is encoded with the position before the append.
AddBlobOpIndexOffByOne(st, k, newOk, nf, addOk, finOk) ==
    IF ~Ok(st) THEN st
    ELSE IF st.bb.file = 0 /\ ~newOk THEN [st EXCEPT !.status = "Err"]
    ELSE LET f == IF st.bb.file = 0 THEN nf ELSE st.bb.file
             st1 == [st EXCEPT
                       !.bb = [file |-> f, handle |-> st.bb.file = 0 \/ st.bb.handle,
                               failed |-> st.bb.failed \/ ~addOk],
                       !.allocated = st.allocated \cup {f},
                       !.content[f] = IF addOk THEN Append(@, <<k, k>>) ELSE @]
             st2 == [st1 EXCEPT !.index = [file |-> f, pos |-> Len(st.content[f])]]
         IN IF ~Ok(st1) THEN st1
            ELSE IF Len(st1.content[f]) >= BlobFileTargetSize
                 THEN FinishBlobFileOp(st2, finOk)
                 ELSE st2

\* Mutant: the index is encoded one past the appended record.
AddBlobOpIndexPastEnd(st, k, newOk, nf, addOk, finOk) ==
    IF ~Ok(st) THEN st
    ELSE IF st.bb.file = 0 /\ ~newOk THEN [st EXCEPT !.status = "Err"]
    ELSE LET f == IF st.bb.file = 0 THEN nf ELSE st.bb.file
             st1 == [st EXCEPT
                       !.bb = [file |-> f, handle |-> st.bb.file = 0 \/ st.bb.handle,
                               failed |-> st.bb.failed \/ ~addOk],
                       !.allocated = st.allocated \cup {f},
                       !.content[f] = IF addOk THEN Append(@, <<k, k>>) ELSE @]
             st2 == [st1 EXCEPT !.index = [file |-> f, pos |-> Len(st1.content[f]) + 1]]
         IN IF ~Ok(st1) THEN st1
            ELSE IF Len(st1.content[f]) >= BlobFileTargetSize
                 THEN FinishBlobFileOp(st2, finOk)
                 ELSE st2

\* TitanTableBuilder::AddBlob: open a blob file if none is open (NewFile may
\* fail), append the record (the write may fail), encode the index, and
\* finish the file once it reaches the target size.
AddBlobOp(st, k, newOk, nf, addOk, finOk) ==
    IF ~Ok(st) THEN st
    ELSE IF st.bb.file = 0 /\ ~newOk THEN [st EXCEPT !.status = "Err"]
    ELSE LET f == IF st.bb.file = 0 THEN nf ELSE st.bb.file
             st1 == [st EXCEPT
                       !.bb = [file |-> f, handle |-> st.bb.file = 0 \/ st.bb.handle,
                               failed |-> st.bb.failed \/ ~addOk],
                       !.allocated = st.allocated \cup {f},
                       !.content[f] = IF addOk THEN Append(@, <<k, k>>) ELSE @]
             st2 == [st1 EXCEPT !.index = [file |-> f, pos |-> Len(st1.content[f])]]
         IN IF ~Ok(st1) THEN st1
            ELSE IF Len(st1.content[f]) >= BlobFileTargetSize
                 THEN FinishBlobFileOp(st2, finOk)
                 ELSE st2

\* Store a BuilderState back into the variables.
Store(st) ==
    /\ status_' = st.status
    /\ bb' = st.bb
    /\ finished_blobs_' = st.finished
    /\ deleted_files' = st.deleted
    /\ blob_content' = st.content
    /\ allocated' = st.allocated

\* The record Add gives the base builder after AddBlob: the new index if
\* ok() holds afterwards, nothing otherwise (lines 89-94).
EmitIndexIfOk(k, st) ==
    output' = IF Ok(st) /\ st.index # NoIndex
              THEN Append(output, IndexRecord(k, st.index)) ELSE output

\* TitanTableBuilder::ShouldMerge, on the meta cached in encountered_files_.
\* The meta object outlives its removal from files_, in state kObsolete.
CurrentState(f) == IF f \in DOMAIN files_ THEN files_[f].state ELSE S!Obsolete
ShouldMerge(m, f) ==
    /\ m.type = S!Sorted   \* file != nullptr && file_type() == kSorted
    /\ \/ target_level_ >= MergeLevel /\ m.level < target_level_
       \/ CurrentState(f) \in {S!ToMerge, S!ToGC}

\* BlobFileManager::NewFile hands out file numbers in increasing order.
NextFileNumber == Min(FileNums \ allocated)

\* The branch conditions of TitanTableBuilder::Add, in the code's order.
IsFallback(r) == r.type = "kTypeBlobIndex" /\ blob_run_mode = "kFallback"
IsRedirect(r) == r.type = "kTypeValue" /\ r.big /\ blob_run_mode = "kNormal"
IsMergeCandidate(r) ==
    /\ r.type = "kTypeBlobIndex" /\ LevelMerge
    /\ target_level_ >= MergeLevel \/ merge_low_level_
    /\ blob_run_mode = "kNormal"

-----------------------------------------------------------------------------
Init ==
    /\ input \in [Keys -> RecordKinds]
    /\ blob_run_mode \in {"kNormal", "kFallback"}
    /\ target_level_ \in 0..NumLevels - 1
    /\ \E lv \in [OldFiles -> 0..NumLevels - 1] :
          LET Meta(f) ==
                [size |-> Len(OldContent(f)) + 1, discardable |-> 0, level |-> lv[f],
                 type |-> S!Sorted, state |-> S!Normal,
                 smallest |-> IF OldKeys(f) = {} THEN 1 ELSE Min(OldKeys(f)),
                 largest |-> IF OldKeys(f) = {} THEN 1 ELSE Max(OldKeys(f))]
          IN /\ files_ = [f \in OldFiles |-> Meta(f)]
             /\ blob_ranges_ = {<<Meta(f).smallest, f>> : f \in OldFiles}
             /\ level_blob_size_ =
                   [l \in S!LevelSlots |->
                      MapThenSumSet(LAMBDA f : Meta(f).size, {f \in OldFiles : lv[f] = l})]
    /\ obsolete_files_ = <<>>
    /\ building_files_ = {}
    /\ gc_score_ = <<>>
    /\ last_seq = 1
    /\ snapshots = {}
    /\ allocated = OldFiles
    /\ obsolete_at = [f \in FileNums |-> 0]
    \* the constructor: merge_low_level_ = ShouldGCLowLevel()
    /\ merge_low_level_ = S!ShouldGCLowLevel(GCLowLevelFloor)
    /\ ipos = 1
    /\ phase = "add"
    /\ status_ = "OK"
    /\ bb = NoBuilder
    /\ finished_blobs_ = <<>>
    /\ deleted_files = {}
    /\ blob_content = [f \in FileNums |-> <<>>]
    /\ output = <<>>
    /\ encountered_files_ = [f \in {} |-> NoFile]
    /\ merging_files_ = {}
    /\ finish_status = "none"

\* Add on a builder that is not ok() returns at once (line 36): the record
\* is not given to the base builder.
AddNotOk ==
    /\ phase = "add" /\ ipos =< N
    /\ ~Ok(BuilderState)
    /\ ipos' = ipos + 1
    /\ UNCHANGED <<storage_vars, host_vars, input, blob_run_mode, target_level_,
                   merge_low_level_, phase, status_, bb, finished_blobs_, deleted_files,
                   blob_content, output, encountered_files_, merging_files_, finish_status>>

\* Fallback mode (lines 48-80): inline the value if BlobStorage::Get finds it,
\* otherwise keep the blob index.  The builder is modelled without
\* sep_before_flush (ASSUME above), where Get is the single FindFile lookup.
AddFallback ==
    /\ phase = "add" /\ ipos =< N
    /\ Ok(BuilderState)
    /\ IsFallback(input[ipos])
    /\ output' = Append(output, IF S!GetFindFile(input[ipos].file) = "OK"
                                THEN ValueRecord(ipos) ELSE OriginalRecord(ipos))
    /\ ipos' = ipos + 1
    /\ UNCHANGED <<storage_vars, host_vars, input, blob_run_mode, target_level_,
                   merge_low_level_, phase, status_, bb, finished_blobs_, deleted_files,
                   blob_content, encountered_files_, merging_files_, finish_status>>

\* A large inline value (lines 81-94): write it to the blob file and give the
\* base builder its index if the builder is still ok().
AddRedirect ==
    /\ phase = "add" /\ ipos =< N
    /\ Ok(BuilderState)
    /\ IsRedirect(input[ipos])
    /\ \E newOk, addOk, finOk \in IOOutcomes :
          LET st == AddBlobOp(BuilderState, ipos, newOk, NextFileNumber, addOk, finOk)
          IN /\ Store(st)
             /\ EmitIndexIfOk(ipos, st)
             /\ phase' = IF st.crashed THEN "crashed" ELSE "add"
    /\ ipos' = ipos + 1
    /\ UNCHANGED <<files_, blob_ranges_, level_blob_size_, obsolete_files_,
                   building_files_, gc_score_, last_seq, snapshots, obsolete_at,
                   input, blob_run_mode, target_level_, merge_low_level_,
                   encountered_files_, merging_files_, finish_status>>

\* The level-merge path, first half (lines 95-118): look the file up once
\* per build and cache its meta, then ask ShouldMerge.  If it says no, the
\* index is kept (line 157).
EncounteredAfterLookup(f) ==
    IF f \in DOMAIN encountered_files_ THEN encountered_files_
    ELSE encountered_files_ @@ (f :> IF S!FindFile(f) THEN files_[f] ELSE NoFile)

AddMergeLookup ==
    /\ phase = "add" /\ ipos =< N
    /\ Ok(BuilderState)
    /\ ~IsFallback(input[ipos]) /\ ~IsRedirect(input[ipos])
    /\ IsMergeCandidate(input[ipos])
    /\ LET f == input[ipos].file
           enc == EncounteredAfterLookup(f)
       IN /\ encountered_files_' = enc
          /\ IF ShouldMerge(enc[f], f)
             THEN phase' = "merge" /\ UNCHANGED <<ipos, output>>
             ELSE /\ output' = Append(output, OriginalRecord(ipos))
                  /\ ipos' = ipos + 1
                  /\ UNCHANGED phase
    /\ UNCHANGED <<storage_vars, host_vars, input, blob_run_mode, target_level_,
                   merge_low_level_, status_, bb, finished_blobs_, deleted_files,
                   blob_content, merging_files_, finish_status>>

\* Every other record is given to the base builder unchanged (line 159).
AddPassThrough ==
    /\ phase = "add" /\ ipos =< N
    /\ Ok(BuilderState)
    /\ ~IsFallback(input[ipos]) /\ ~IsRedirect(input[ipos])
    /\ ~IsMergeCandidate(input[ipos])
    /\ output' = Append(output, OriginalRecord(ipos))
    /\ ipos' = ipos + 1
    /\ UNCHANGED <<storage_vars, host_vars, input, blob_run_mode, target_level_,
                   merge_low_level_, phase, status_, bb, finished_blobs_, deleted_files,
                   blob_content, encountered_files_, merging_files_, finish_status>>

\* The level-merge path, second half, when no prefetcher is open for the
\* file and NewPrefetcher's FindFile no longer finds it (lines 119-129):
\* status_ takes the error and the index is kept.
MergeNoPrefetcher ==
    /\ phase = "merge"
    /\ input[ipos].file \notin merging_files_
    /\ ~S!FindFile(input[ipos].file)
    /\ status_' = "Err"
    /\ output' = Append(output, OriginalRecord(ipos))
    /\ ipos' = ipos + 1
    /\ phase' = "add"
    /\ UNCHANGED <<storage_vars, host_vars, input, blob_run_mode, target_level_,
                   merge_low_level_, bb, finished_blobs_, deleted_files, blob_content,
                   encountered_files_, merging_files_, finish_status>>

\* The prefetcher's Get failed (lines 133-140, 157): the index is kept.
MergeReadFailed ==
    /\ phase = "merge"
    /\ IOMayFail
    /\ input[ipos].file \in merging_files_ \/ S!FindFile(input[ipos].file)
    /\ merging_files_' = merging_files_ \cup {input[ipos].file}
    /\ output' = Append(output, OriginalRecord(ipos))
    /\ ipos' = ipos + 1
    /\ phase' = "add"
    /\ UNCHANGED <<storage_vars, host_vars, input, blob_run_mode, target_level_,
                   merge_low_level_, status_, bb, finished_blobs_, deleted_files,
                   blob_content, encountered_files_, finish_status>>

\* Mutant: the return after a successful merge is missing, so the old
\* index is given to the base builder as well.
MergeCopyNoReturn ==
    /\ phase = "merge"
    /\ input[ipos].file \in merging_files_ \/ S!FindFile(input[ipos].file)
    /\ merging_files_' = merging_files_ \cup {input[ipos].file}
    /\ \E newOk, addOk, finOk \in IOOutcomes :
          LET st == AddBlobOp(BuilderState, ipos, newOk, NextFileNumber, addOk, finOk)
          IN /\ Store(st)
             /\ output' = IF Ok(st) /\ st.index # NoIndex
                          THEN output \o <<IndexRecord(ipos, st.index), OriginalRecord(ipos)>>
                          ELSE Append(output, OriginalRecord(ipos))
             /\ phase' = IF st.crashed THEN "crashed" ELSE "add"
    /\ ipos' = ipos + 1
    /\ UNCHANGED <<files_, blob_ranges_, level_blob_size_, obsolete_files_,
                   building_files_, gc_score_, last_seq, snapshots, obsolete_at,
                   input, blob_run_mode, target_level_, merge_low_level_,
                   encountered_files_, finish_status>>

\* The value is read through the prefetcher and re-appended with AddBlob
\* (lines 130-157): the new index if the builder is still ok(), the old one
\* otherwise.
MergeCopy ==
    /\ phase = "merge"
    /\ input[ipos].file \in merging_files_ \/ S!FindFile(input[ipos].file)
    /\ merging_files_' = merging_files_ \cup {input[ipos].file}
    /\ \E newOk, addOk, finOk \in IOOutcomes :
          LET st == AddBlobOp(BuilderState, ipos, newOk, NextFileNumber, addOk, finOk)
          IN /\ Store(st)
             /\ output' = Append(output, IF Ok(st) /\ st.index # NoIndex
                                         THEN IndexRecord(ipos, st.index)
                                         ELSE OriginalRecord(ipos))
             /\ phase' = IF st.crashed THEN "crashed" ELSE "add"
    /\ ipos' = ipos + 1
    /\ UNCHANGED <<files_, blob_ranges_, level_blob_size_, obsolete_files_,
                   building_files_, gc_score_, last_seq, snapshots, obsolete_at,
                   input, blob_run_mode, target_level_, merge_low_level_,
                   encountered_files_, finish_status>>

\* BlobFileManager::BatchFinishFiles (not in the repository): every finished
\* file is added to BlobStorage in one version edit, or none is.
BatchFinishFiles(fin) ==
    LET F == {fin[i].file : i \in 1..Len(fin)}
        MetaOf(f) == fin[CHOOSE i \in 1..Len(fin) : fin[i].file = f].meta
    IN /\ files_' = files_ @@ [f \in F |-> MetaOf(f)]
       /\ blob_ranges_' = blob_ranges_ \cup {<<MetaOf(f).smallest, f>> : f \in F}
       /\ level_blob_size_' =
             [level_blob_size_ EXCEPT ![target_level_] =
                 @ + MapThenSumSet(LAMBDA f : MetaOf(f).size, F)]

\* Mutant: Finish registers the finished files without finishing the open one.
FinishSkipBlobFile ==
    /\ phase = "add" /\ ipos > N
    /\ \E finOk \in IOOutcomes :
          LET st == BuilderState
              after == [st EXCEPT !.status = "OK"]
          IN /\ BatchFinishFiles(st.finished)
             /\ Store(after)
             /\ finish_status' = IF Ok(after) THEN "OK" ELSE "Err"
             /\ phase' = "done"
    /\ UNCHANGED <<obsolete_files_, building_files_, gc_score_, last_seq, snapshots,
                   obsolete_at, input, blob_run_mode, target_level_, merge_low_level_,
                   ipos, output, encountered_files_, merging_files_>>

\* TitanTableBuilder::Finish (lines 240-251), called by the host after the
\* last record: finish the open blob file, overwrite status_ with the
\* result of BatchFinishFiles, and return status().
Finish ==
    /\ phase = "add" /\ ipos > N
    /\ \E finOk \in IOOutcomes :
          LET st == FinishBlobFileOp(BuilderState, finOk)
              after == [st EXCEPT !.status = "OK"]
          IN IF st.crashed
             THEN /\ Store(st) /\ phase' = "crashed"
                  /\ UNCHANGED <<files_, blob_ranges_, level_blob_size_, finish_status>>
             ELSE /\ BatchFinishFiles(st.finished)
                  /\ Store(after)
                  /\ finish_status' = IF Ok(after) THEN "OK" ELSE "Err"
                  /\ phase' = "done"
    /\ UNCHANGED <<obsolete_files_, building_files_, gc_score_, last_seq, snapshots,
                   obsolete_at, input, blob_run_mode, target_level_, merge_low_level_,
                   ipos, output, encountered_files_, merging_files_>>

\* TitanTableBuilder::Abandon (lines 253-263), called by the host instead of
\* Finish when its own input failed: delete the open blob file.
Abandon ==
    /\ phase = "add"
    /\ IF bb.file # 0 /\ ~bb.handle
       THEN phase' = "crashed" /\ UNCHANGED <<status_, bb, deleted_files>>
       ELSE /\ phase' = "done"
            /\ IF bb.file # 0
               THEN /\ deleted_files' = deleted_files \cup {bb.file}
                    /\ bb' = [bb EXCEPT !.handle = FALSE]
                    /\ status_' = "OK"
               ELSE UNCHANGED <<status_, bb, deleted_files>>
    /\ finish_status' = "abandoned"
    /\ UNCHANGED <<storage_vars, host_vars, input, blob_run_mode, target_level_,
                   merge_low_level_, ipos, finished_blobs_, blob_content, output,
                   encountered_files_, merging_files_>>

\* The GC thread on the same column family: GC and range-merge marks,
\* version edits deleting files, host writes and purges of obsolete files.
GCStep ==
    /\ GCConcurrent
    /\ \/ \E f \in OldFiles :
             \/ \E e \in {"kNeedMerge", "kGCMark"} : S!MarkFile(f, e)
             \/ S!DeleteFile(f)
       \/ S!HostWrite
       \/ S!PurgeObsoleteFiles
    /\ UNCHANGED builder_vars

Next ==
    \/ AddNotOk \/ AddFallback \/ AddRedirect \/ AddMergeLookup \/ AddPassThrough
    \/ MergeNoPrefetcher \/ MergeReadFailed \/ MergeCopy
    \/ Finish \/ Abandon
    \/ GCStep

Spec == Init /\ [][Next]_vars

-----------------------------------------------------------------------------
TypeOK ==
    /\ ipos \in 1..N + 1
    /\ phase \in {"add", "merge", "done", "crashed"}
    /\ status_ \in {"OK", "Err"}
    /\ bb \in [file: {0} \cup FileNums, handle: BOOLEAN, failed: BOOLEAN]
    /\ deleted_files \subseteq FileNums \ OldFiles
    /\ merging_files_ \subseteq OldFiles
    /\ DOMAIN encountered_files_ \subseteq OldFiles
    /\ finish_status \in {"none", "OK", "Err", "abandoned"}
    /\ allocated \subseteq FileNums
    /\ output \in Seq([key: Keys, type: {"kTypeValue"}, value: Keys] \cup
                      [key: Keys, type: {"kTypeBlobIndex"}, file: FileNums, pos: 1..N])

\* What a record given to the base builder resolves to: its inline value, or
\* the record its blob index points at.
Resolve(o) ==
    IF o.type = "kTypeValue" THEN <<o.key, o.value>>
    ELSE IF o.pos \in 1..Len(Content(o.file)) THEN Content(o.file)[o.pos]
    ELSE <<0, 0>>

\* The base builder receives each input key at most once and in input order,
\* whichever of the four paths of Add (and the merge path's fallbacks) the
\* record takes.
OutputFollowsInput ==
    \A i, j \in 1..Len(output) : i < j => output[i].key < output[j].key

\* Round trip: every record given to the base builder, inlined, redirected,
\* merged or kept, resolves to the key and value the input had; in particular
\* a new blob index points at the position AddBlob appended the value at.
OutputResolvesToInput ==
    \A i \in 1..Len(output) : Resolve(output[i]) = <<output[i].key, output[i].key>>

\* If Finish returns OK, nothing was lost: every input record reached the base
\* builder, and every index into a blob file of this build points into a
\* file that is now registered in BlobStorage (spec sections 4.3 and 7).
CompleteWhenOk ==
    finish_status = "OK" =>
        /\ {output[i].key : i \in 1..Len(output)} = Keys
        /\ \A i \in 1..Len(output) :
              output[i].type = "kTypeBlobIndex" /\ output[i].file \notin OldFiles
                  => output[i].file \in DOMAIN files_

\* The builder never dereferences the null blob_handle_ it moved into
\* DeleteFile (FinishBlobFile line 222, Abandon line 259).
NoNullHandleUse == phase # "crashed"
=============================================================================
