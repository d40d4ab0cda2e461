--------------------------- MODULE TitanDBIterator ---------------------------
(***************************************************************************)
(* TitanDBIterator (src/src/db_iter.h): an iterator over the base LSM's    *)
(* view at a snapshot, whose blob-index entries it resolves through        *)
(* per-file prefetchers it opens with BlobStorage::NewPrefetcher and keeps *)
(* in its own files_ map, here `cache`.  Its methods run on the caller's   *)
(* thread; flushes, compactions and purges change the registry between     *)
(* them and between the iterations of the bulk Scan.                       *)
(*                                                                         *)
(* The view is fixed when the iterator is created: a key maps to an inline *)
(* value or to a blob index into a file that the current version holds    *)
(* (or, with sep_before_flush, one a foreground builder is writing).  The *)
(* value of key k is k itself, and 0 is the empty string.                  *)
(***************************************************************************)
EXTENDS Integers, Sequences, FiniteSets, SequencesExt, TLC

CONSTANTS FileNums, Keys, Sizes, NumLevels, MaxSeq, LevelMerge, SepBeforeFlush,
          MergeSmallFileThreshold, RatioNum, RatioDen,
          EmptyValues,   \* whether an inline value may be the empty string
          MaxScanLen,    \* largest len a caller passes to Scan
          ReadMayFail    \* a prefetcher's PointGet may fail (I/O error)

VARIABLES files_, blob_ranges_, level_blob_size_, obsolete_files_,
          building_files_, gc_score_, last_seq, snapshots, allocated, obsolete_at,
          it_state,   \* "none" (no iterator) or "open"
          lsm,        \* the view of iter_: key -> inline value or blob index
          pos,        \* the key iter_ is positioned on, 0 when !Valid()
          status_,    \* TitanDBIterator::status_
          cache,      \* the file numbers with a prefetcher in files_
          record_,    \* the key whose blob value record_ holds, 0 if none
          positioned, \* the last call was a Seek*, Next or Prev
          scan        \* the locals of a Scan call in progress

S == INSTANCE BlobStorage
storage_vars == <<files_, blob_ranges_, level_blob_size_, obsolete_files_,
                  building_files_, gc_score_>>
host_vars == <<last_seq, snapshots, allocated, obsolete_at>>
iter_vars == <<it_state, lsm, pos, status_, cache, record_, positioned, scan>>
vars == <<storage_vars, host_vars, iter_vars>>

EmptyString == 0
Inline(v) == [kind |-> "inline", value |-> v]
BlobIndex(f) == [kind |-> "blob", file |-> f]
NoScan == [phase |-> "idle", target |-> 0, req |-> 0, i |-> 0, len |-> 0,
           keys |-> <<>>, vals |-> <<>>, idx |-> <<>>]

\* The value the view holds for key k.
ValueOf(k) == IF lsm[k].kind = "inline" THEN lsm[k].value ELSE k

-----------------------------------------------------------------------------
(* Positioning of iter_ over the keys of the view.                         *)
SeekPos(t) == LET ge == {k \in DOMAIN lsm : k >= t} IN IF ge = {} THEN 0 ELSE Min(ge)
SeekForPrevPos(t) == LET le == {k \in DOMAIN lsm : k =< t} IN IF le = {} THEN 0 ELSE Max(le)

\* TitanDBIterator::Valid: iter_->Valid(), with the status_ test commented out.
Valid == pos # 0

\* ShouldGetBlobValue: iter_ is on a blob index (key_only is false).
ShouldGetBlobValue(p) == p # 0 /\ lsm[p].kind = "blob"

\* BlobStorage::NewPrefetcher succeeds while FindFile finds the file.
NewPrefetcher(f) == S!FindFile(f)

\* Mutant: a failed read returns without setting status_.
GetBlobValueNoStatus(k) ==
    LET f == lsm[k].file
    IN IF f \in cache \/ NewPrefetcher(f)
       THEN /\ cache' = cache \cup {f}
            /\ record_' = k
            /\ status_' = "OK"
       ELSE UNCHANGED <<cache, record_, status_>>

\* GetBlobValue: find or open the prefetcher of the file, then read the
\* record into record_.  An open prefetcher keeps its file readable after a
\* purge.  On failure record_ keeps the value read before.
GetBlobValue(k) ==
    LET f == lsm[k].file
    IN IF f \in cache \/ NewPrefetcher(f)
       THEN /\ cache' = cache \cup {f}
            /\ record_' = k
            /\ status_' = "OK"
       ELSE /\ status_' = "Corruption"
            /\ UNCHANGED <<cache, record_>>

\* The common tail of SeekToFirst, SeekToLast, Seek, SeekForPrev, Next and
\* Prev: move iter_ to p, then fetch the blob value or take iter_'s status.
MoveTo(p) ==
    /\ it_state = "open" /\ scan.phase = "idle"
    /\ pos' = p
    /\ positioned' = TRUE
    /\ IF ShouldGetBlobValue(p) THEN GetBlobValue(p)
                                ELSE status_' = "OK" /\ UNCHANGED <<cache, record_>>
    /\ UNCHANGED <<storage_vars, host_vars, it_state, lsm, scan>>

SeekToFirst == MoveTo(IF DOMAIN lsm = {} THEN 0 ELSE Min(DOMAIN lsm))
SeekToLast == MoveTo(IF DOMAIN lsm = {} THEN 0 ELSE Max(DOMAIN lsm))
Seek(t) == MoveTo(SeekPos(t))
SeekForPrev(t) == MoveTo(SeekForPrevPos(t))
Next == Valid /\ MoveTo(SeekPos(pos + 1))
Prev == Valid /\ MoveTo(SeekForPrevPos(pos - 1))

\* TitanDBIterator::value: the inline value, or whatever record_ holds.
Value == IF lsm[pos].kind = "inline" THEN lsm[pos].value ELSE record_

\* TitanDBIterator::key: iter_->key().
Key == pos

\* iter_->status(): read errors of the base LSM iterator are not modelled.
BaseStatus == "OK"

\* TitanDBIterator::status: status_ when it holds an error, else iter_'s.
Status == IF status_ = "OK" THEN BaseStatus ELSE status_

-----------------------------------------------------------------------------
(* Scan(target, len, keys, values): iter_->Seek, then a loop that records  *)
(* inline values and opens prefetchers for blob indexes, then a second     *)
(* loop that reads every value still empty through its prefetcher.  The   *)
(* caller's vectors hold len empty strings.                                *)

ScanBegin(t, n) ==
    /\ it_state = "open" /\ scan.phase = "idle"
    /\ pos' = SeekPos(t)
    /\ positioned' = FALSE
    /\ scan' = [NoScan EXCEPT !.phase = "loop", !.target = t, !.req = n, !.len = n,
                              !.vals = [j \in 1..n |-> EmptyString],
                              !.idx = [j \in 1..n |-> 0]]
    /\ UNCHANGED <<storage_vars, host_vars, it_state, lsm, status_, cache, record_>>

\* One iteration of the first loop (lines 100-125).  A failed NewPrefetcher
\* returns at once, with len still the requested length.
ScanStep ==
    /\ scan.phase = "loop" /\ scan.i < scan.len /\ Valid
    /\ LET j == scan.i + 1
           Take(sc) == [sc EXCEPT !.i = j, !.keys = Append(@, pos)]
       IN IF ShouldGetBlobValue(pos)
          THEN IF lsm[pos].file \in cache \/ NewPrefetcher(lsm[pos].file)
               THEN /\ cache' = cache \cup {lsm[pos].file}
                    /\ scan' = [Take(scan) EXCEPT !.idx = [@ EXCEPT ![j] = lsm[pos].file]]
                    /\ pos' = SeekPos(pos + 1) /\ status_' = "OK"
               ELSE /\ status_' = "Corruption" /\ scan' = [scan EXCEPT !.phase = "returned"]
                    /\ UNCHANGED <<pos, cache>>
          ELSE /\ scan' = [Take(scan) EXCEPT !.vals = [@ EXCEPT ![j] = lsm[pos].value]]
               /\ pos' = SeekPos(pos + 1) /\ status_' = "OK"
               /\ UNCHANGED cache
    /\ UNCHANGED <<storage_vars, host_vars, it_state, lsm, record_, positioned>>

\* The second loop (lines 128-135) over the entries left empty: PointGet
\* through the entry's prefetcher fills the one record declared before the
\* loop.  Its status is ignored, so an entry whose read failed (j \in failed)
\* takes whatever record holds: the value of the last read that succeeded,
\* or the empty string.
PointGets(sc, empty, failed) ==
    LET Read(acc, j) ==
            CASE j \notin empty -> acc
              [] j \in failed   -> [acc EXCEPT !.vals[j] = acc.rec]
              [] OTHER          -> [acc EXCEPT !.vals[j] = sc.keys[j], !.rec = sc.keys[j]]
    IN FoldLeft(Read, [vals |-> sc.vals, rec |-> EmptyString], [j \in 1..sc.i |-> j]).vals

\* len = i, then the second loop: an empty value is read through
\* files_.find(indexes[j].file_number); when that finds nothing (an empty
\* inline value has no index) the end iterator is dereferenced.
ScanEnd ==
    /\ scan.phase = "loop" /\ (scan.i >= scan.len \/ ~Valid)
    /\ LET empty == {j \in 1..scan.i : scan.vals[j] = EmptyString}
       IN IF \E j \in empty : scan.idx[j] \notin cache
          THEN scan' = [scan EXCEPT !.phase = "crashed", !.len = scan.i]
          ELSE \E failed \in SUBSET (IF ReadMayFail THEN empty ELSE {}) :
                 scan' = [scan EXCEPT !.phase = "done", !.len = scan.i,
                                      !.vals = PointGets(scan, empty, failed)]
    /\ UNCHANGED <<storage_vars, host_vars, it_state, lsm, pos, status_, cache,
                   record_, positioned>>

\* The caller takes keys, values and len.
ScanReturn ==
    /\ scan.phase \in {"done", "returned"}
    /\ scan' = NoScan
    /\ UNCHANGED <<storage_vars, host_vars, it_state, lsm, pos, status_, cache,
                   record_, positioned>>

-----------------------------------------------------------------------------
(* Creation and destruction, and the rest of the engine.                   *)

\* The files an index of the current view may point to.
Visible == {f \in DOMAIN files_ : ~S!IsObsolete(files_[f])}
           \cup (IF SepBeforeFlush THEN building_files_ ELSE {})
Entries(k) == {Inline(k)} \cup (IF EmptyValues THEN {Inline(EmptyString)} ELSE {})
              \cup {BlobIndex(f) : f \in Visible}

\* Mutant: the constructor does not keep snap_, so the ManagedSnapshot is
\* released as soon as the iterator is built.
NewIteratorNoSnapshot ==
    /\ it_state = "none"
    /\ \E D \in SUBSET Keys : \E view \in [D -> UNION {Entries(k) : k \in D}] :
         /\ \A k \in D : view[k] \in Entries(k)
         /\ lsm' = view
    /\ it_state' = "open"
    /\ UNCHANGED snapshots
    /\ pos' = 0 /\ status_' = "OK" /\ cache' = {} /\ record_' = EmptyString
    /\ positioned' = FALSE /\ scan' = NoScan
    /\ UNCHANGED <<storage_vars, last_seq, allocated, obsolete_at>>

\* TitanDBImpl::NewIterator (outside the repository) pins a ManagedSnapshot
\* at the last sequence and builds the iterator (constructor, lines 26-36)
\* with an empty files_ map.
NewIterator ==
    /\ it_state = "none"
    /\ \E D \in SUBSET Keys : \E view \in [D -> UNION {Entries(k) : k \in D}] :
         /\ \A k \in D : view[k] \in Entries(k)
         /\ lsm' = view
    /\ it_state' = "open"
    /\ snapshots' = {last_seq}
    /\ pos' = 0 /\ status_' = "OK" /\ cache' = {} /\ record_' = EmptyString
    /\ positioned' = FALSE /\ scan' = NoScan
    /\ UNCHANGED <<storage_vars, last_seq, allocated, obsolete_at>>

\* Deleting the iterator drops its prefetchers and releases the snapshot.
DeleteIterator ==
    /\ it_state = "open" /\ scan.phase = "idle"
    /\ it_state' = "none"
    /\ snapshots' = {}
    /\ cache' = {}
    /\ UNCHANGED <<storage_vars, last_seq, allocated, obsolete_at, lsm, pos,
                   status_, record_, positioned, scan>>

\* Writes, foreground builders opening files, flushes and compactions
\* registering and deleting files, and purges.  A crash in Scan ends the
\* process.
Engine ==
    /\ scan.phase # "crashed"
    /\ \/ S!HostWrite
       \/ \E f \in FileNums : S!OpenForegroundFile(f) \/ S!RegisterFile(f) \/ S!DeleteFile(f)
       \/ S!PurgeObsoleteFiles
    /\ UNCHANGED iter_vars

Init ==
    /\ S!Init
    /\ it_state = "none" /\ lsm = [k \in {} |-> Inline(EmptyString)]
    /\ pos = 0 /\ status_ = "OK" /\ cache = {} /\ record_ = EmptyString
    /\ positioned = FALSE /\ scan = NoScan

Step ==
    \/ Engine
    \/ NewIterator \/ DeleteIterator
    \/ SeekToFirst \/ SeekToLast \/ Next \/ Prev
    \/ \E t \in Keys : Seek(t) \/ SeekForPrev(t)
    \/ \E t \in Keys, n \in 1..MaxScanLen : ScanBegin(t, n)
    \/ ScanStep \/ ScanEnd \/ ScanReturn

Spec == Init /\ [][Step]_vars
-----------------------------------------------------------------------------
\* After Seek*, Next or Prev, an iterator that is Valid() returns the value
\* its view holds for the current key: a blob value is never missing or
\* left over from an earlier key, even while compactions delete and the
\* engine purges the files the view points to.
IterValueMatches ==
    it_state = "open" /\ positioned /\ Valid => Value = ValueOf(pos)

\* The contract of Iterator::status: a caller that checks status() after
\* key() and value() of a Valid() iterator never accepts a wrong value.
\* GetBlobValue must set status_ on every failed prefetcher or read, since
\* value() then returns the record_ of an earlier key.
StatusFlagsWrongValue ==
    it_state = "open" /\ positioned /\ Valid /\ Value # ValueOf(Key)
        => Status # "OK"

\* Every blob index of an open iterator's view into a file that is not still
\* being written stays readable: the file has a prefetcher in the iterator's
\* files_ or NewPrefetcher's FindFile still finds it.  The snapshot that
\* snap_ holds for the iterator's life is what keeps PurgeObsoleteFiles from
\* dropping a file that a compaction deleted after the view was taken.
\* (A file still in building_files_ is never found by NewPrefetcher: the run
\* iterator_building_file.)
ViewStaysReadable ==
    it_state = "open" =>
        \A k \in DOMAIN lsm :
            lsm[k].kind = "blob" /\ lsm[k].file \notin building_files_
                => lsm[k].file \in cache \/ S!FindFile(lsm[k].file)
=============================================================================
