------------------------------- MODULE BlobGC -------------------------------
(***************************************************************************)
(* BasicBlobGCPicker::PickBlobGC (blob_gc_picker.cc) on the gc_score_ list *)
(* a BlobStorage computed earlier, while flushes, compactions and purges   *)
(* go on changing the registry.  The GC thread picks a batch, runs the     *)
(* job, and picks again.                                                    *)
(***************************************************************************)
EXTENDS Integers, Sequences, FiniteSets, SequencesExt, TLC

CONSTANTS FileNums, Keys, Sizes, NumLevels, MaxSeq, LevelMerge, SepBeforeFlush,
          MergeSmallFileThreshold, RatioNum, RatioDen,
          MaxGCBatchSize,   \* cf_options_.max_gc_batch_size
          MinGCBatchSize,   \* cf_options_.min_gc_batch_size
          FollowUpFiles     \* (1 << 30) / blob_file_target_size

VARIABLES files_, blob_ranges_, level_blob_size_, obsolete_files_,
          building_files_, gc_score_, last_seq, snapshots, allocated, obsolete_at,
          gc_phase,   \* the GC thread: "idle", "picked", or "crashed"
          picked      \* the BlobGC PickBlobGC returned last

S == INSTANCE BlobStorage
storage_vars == <<files_, blob_ranges_, level_blob_size_, obsolete_files_,
                  building_files_, gc_score_>>
host_vars == <<last_seq, snapshots, allocated, obsolete_at>>
gc_vars == <<gc_phase, picked>>
vars == <<storage_vars, host_vars, gc_vars>>

NoBatch == [files |-> <<>>, batch_size |-> 0, maybe_continue |-> FALSE]

-----------------------------------------------------------------------------
\* BasicBlobGCPicker::CheckBlobFile on a meta that exists.
CheckBlobFile(m) == m.state = S!Normal

\* The loop state of PickBlobGC: blob_files, batch_size, stop_picking,
\* maybe_continue_next_time, cnt; brk is the break at line 78 and null a
\* FindFile that returned nullptr.
LoopInit == [files |-> <<>>, batch_size |-> 0, stop |-> FALSE,
             maybe_continue |-> FALSE, cnt |-> 0, brk |-> FALSE, null |-> FALSE]

\* Mutant: stop_picking is set only once batch_size exceeds the maximum.
PickStepPastMax(acc, gc_score) ==
    IF acc.brk \/ acc.null THEN acc
    ELSE LET a == [acc EXCEPT !.cnt = @ + 1]
             f == gc_score.file_number
         IN IF ~S!FindFile(f) THEN [a EXCEPT !.null = TRUE]
            ELSE IF ~CheckBlobFile(files_[f]) \/ (LevelMerge /\ files_[f].type = S!Sorted)
            THEN a
            ELSE IF ~a.stop
            THEN [a EXCEPT !.files = Append(@, f),
                           !.batch_size = @ + files_[f].size,
                           !.stop = a.batch_size + files_[f].size > MaxGCBatchSize]
            ELSE IF Len(gc_score_) - a.cnt > FollowUpFiles
            THEN [a EXCEPT !.maybe_continue = TRUE, !.brk = TRUE]
            ELSE a

\* One iteration of the loop over gc_score_ (lines 31-81).  A file that
\* FindFile no longer finds fails CheckBlobFile, and the log statement of
\* that branch reads blob_file->file_number() through the null pointer.
PickStep(acc, gc_score) ==
    IF acc.brk \/ acc.null THEN acc
    ELSE LET a == [acc EXCEPT !.cnt = @ + 1]
             f == gc_score.file_number
         IN IF ~S!FindFile(f) THEN [a EXCEPT !.null = TRUE]
            ELSE IF ~CheckBlobFile(files_[f]) \/ (LevelMerge /\ files_[f].type = S!Sorted)
            THEN a
            ELSE IF ~a.stop
            THEN [a EXCEPT !.files = Append(@, f),
                           !.batch_size = @ + files_[f].size,
                           !.stop = a.batch_size + files_[f].size >= MaxGCBatchSize]
            ELSE IF Len(gc_score_) - a.cnt > FollowUpFiles
            THEN [a EXCEPT !.maybe_continue = TRUE, !.brk = TRUE]
            ELSE a

PickLoop == FoldLeft(PickStep, LoopInit, gc_score_)

\* The two rejections after the loop (lines 86-96).  gc_mark() is set by
\* the blob file set on files recovered at open, outside the repository:
\* it is either value.
Rejected(r, gc_mark) ==
    \/ Len(r.files) = 0
    \/ r.batch_size < MinGCBatchSize
    \/ /\ Len(r.files) = 1
       /\ files_[r.files[1]].size =< MergeSmallFileThreshold
       /\ ~gc_mark

\* BasicBlobGCPicker::PickBlobGC, called by the GC thread.
PickBlobGC ==
    /\ gc_phase = "idle"
    /\ LET r == PickLoop
       IN IF r.null
          THEN gc_phase' = "crashed" /\ UNCHANGED picked
          ELSE \E gc_mark \in BOOLEAN :
                 IF Rejected(r, gc_mark)
                 THEN UNCHANGED <<gc_phase, picked>>
                 ELSE /\ gc_phase' = "picked"
                      /\ picked' = [files |-> r.files, batch_size |-> r.batch_size,
                                    maybe_continue |-> r.maybe_continue]
    /\ UNCHANGED <<storage_vars, host_vars>>

\* BlobGCJob (outside the repository) rewrites the batch; its deletion of
\* the inputs is a version edit like any other (S!DeleteFile).
GCJobDone ==
    /\ gc_phase = "picked"
    /\ gc_phase' = "idle"
    /\ picked' = NoBatch
    /\ UNCHANGED <<storage_vars, host_vars>>

-----------------------------------------------------------------------------
Init ==
    /\ S!Init
    /\ gc_phase = "idle"
    /\ picked = NoBatch

\* The rest of the engine: flushes and compactions registering and deleting
\* files, GC and merge marks, host writes, purges and score computations.
\* Discardable bytes change the scores only under level merge.  A null
\* dereference in the picker ends the process, and every thread with it.
Engine ==
    /\ gc_phase # "crashed"
    /\ \/ S!HostWrite
       \/ \E f \in FileNums :
             \/ S!RegisterFile(f) \/ S!DeleteFile(f)
             \/ LevelMerge /\ S!AddDiscardableSize(f)
             \/ \E e \in {"kNeedMerge", "kGCMark"} : S!MarkFile(f, e)
       \/ S!PurgeObsoleteFiles
       \/ S!RecomputeGCScore

Next ==
    \/ Engine /\ UNCHANGED gc_vars
    \/ PickBlobGC
    \/ GCJobDone

Spec == Init /\ [][Next]_vars

-----------------------------------------------------------------------------

\* Reference definition of the batch: walk the score list, keep the files
\* that are registered, Normal and (under level merge) unsorted, and take
\* the shortest prefix of them whose size reaches the maximum, or all.
Eligible(f) ==
    /\ S!FindFile(f) /\ CheckBlobFile(files_[f])
    /\ ~(LevelMerge /\ files_[f].type = S!Sorted)
EligibleOrder ==
    [i \in 1..Len(SelectSeq(gc_score_, LAMBDA e : Eligible(e.file_number))) |->
        SelectSeq(gc_score_, LAMBDA e : Eligible(e.file_number))[i].file_number]
PrefixSize(k) == FoldLeft(LAMBDA acc, f : acc + files_[f].size, 0,
                          SubSeq(EligibleOrder, 1, k))
ReferenceBatch ==
    LET reach == {k \in 1..Len(EligibleOrder) : PrefixSize(k) >= MaxGCBatchSize}
        k == IF reach = {} THEN Len(EligibleOrder) ELSE Min(reach)
    IN SubSeq(EligibleOrder, 1, k)

\* PickBlobGC returns exactly the reference batch: the registered, Normal,
\* GC-able files in score order, up to the first prefix that reaches
\* max_gc_batch_size, and never less than min_gc_batch_size in total.
PickMatchesReference ==
    [][gc_phase = "idle" /\ gc_phase' = "picked" =>
         /\ picked'.files = ReferenceBatch
         /\ picked'.batch_size = PrefixSize(Len(picked'.files))
         /\ picked'.batch_size >= MinGCBatchSize]_vars

\* The picker never dereferences a file meta that FindFile did not return:
\* a file in gc_score_ may have been purged since ComputeGCScore.
NoNullMetaDeref == gc_phase # "crashed"
=============================================================================
