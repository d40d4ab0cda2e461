# TLA+ models of DiffKV's blob layer

This directory holds TLA+ models of the key-value separation layer in `src/src`.
The layer is derived from Titan. TLC checks every model. `PROJECT.json` lists
the components, the runs, the mutants, the map from definitions to source lines,
the findings and the hazards.

## The system

Inventory of `src/` (3,558 lines):

| part | source | role |
|---|---|---|
| BlobStorage | `src/src/blob_storage.cc` | Per-column-family registry of blob files. It holds `files_`, the `blob_ranges_` multimap keyed by smallest key, per-level size counters (`level_blob_size_`, `num_levels + 1` slots, the last one for unsorted files), the obsolete-file list, the files still being written (`building_files_`) and the GC score list. |
| BlobFileMeta | (not in the repository, spec section 3) | Per-file metadata and the lifecycle `Init -> Normal -> {ToMerge, ToGC} -> Obsolete`. |
| TitanTableBuilder | `src/src/table_builder.cc:27-319`, `table_builder.h:18-106` | Wraps the base SST builder during flush and compaction. It can inline blob values (fallback mode), redirect large values into a new blob file, merge values of old blob files forward into new ones (level merge), or pass a record through. On `Finish` it registers the finished blob files in one batch. |
| ForegroundBuilder | `src/src/table_builder.cc:321-441`, `table_builder.h:109-183` | Sharded pre-memtable write path. The caller enqueues a request on shard `hash(key) % N` and blocks on a promise. A shard worker drains its `BlockQueue` in bulk and writes the value to the shard's blob file. |
| BlockQueue | `src/src/util.h:14-45` | Mutex/condition-variable queue with `Get`, `Put` and `GetBulk`. |
| BasicBlobGCPicker | `src/src/blob_gc_picker.cc` | Walks the GC scores and picks a batch of files between a minimum and a maximum size. |
| ThreadPool | `src/src/threadpool.h` | Fixed worker pool. Its only user is the commented-out version of the iterator's `Scan`, so it is dead code. |
| TitanDBIterator | `src/src/db_iter.h` | Iterator that resolves blob indexes, with a bulk `Scan`. |
| util buffers | `src/src/util.h:47-114` | `OwnedSlice`, `FixedSlice`, codec declarations. |
| YCSB-C driver | `src/bench_tools/YCSB-C/ycsbc.cc`, `core/client.h` | Benchmark main: load and run phases, each run by `threadcount` client threads that share a latency histogram map and the `ops_cnt` counters. |
| YCSB-C workload and adapters | `core/core_workload.cc`, `db/*.cc` | Key and value generation, and adapters from the benchmark's DB interface to each engine. |

How the parts interact:

- Both write paths allocate blob files and register them into BlobStorage:
  - TitanTableBuilder through `BatchFinishFiles`;
  - ForegroundBuilder through `AddBuildingFile` and then `BatchFinishFiles` on Flush.
- Compaction and GC mark files obsolete.
- The host purges obsolete files once no snapshot can see them.
- The GC picker reads the score list that `ComputeGCScore` produced earlier.
- TitanTableBuilder reads file metadata while the GC thread changes it. This
  concurrency is where the interesting hazards are.

## Modules

### `BlobStorage.tla`

The registry. Its variables are the members of `BlobStorage`. A file's meta is a
record with these fields:

- size;
- discardable bytes;
- level;
- sorted/unsorted;
- state;
- smallest and largest key.

`blob_ranges_` is a set of `<<smallest_key, file>>` pairs. The obsolete list is
a sequence of `<<file, obsolete_sequence>>` pairs.

Each code operation is an operator:

- `AddBlobFile`;
- `AddBuildingFile`;
- `MarkFileObsolete`;
- `RemoveFiles`;
- `GetObsoleteFiles`;
- `ComputeGCScore`. It models `std::sort`, which is not stable, as any sorted
  permutation.

The host environment is modelled by these actions:

- a sequence counter and snapshots;
- registering a finished file;
- a compaction deleting a file;
- GC/merge marks and growing discardable sizes;
- purging obsolete files;
- recomputing scores.

BlobFileMeta's state machine is not in the repository. It is modelled from the
spec and marked `spec_modelled` in the map.

`CountSortedRun` is modelled as well. It is a read-only query that sorts a
level's files by smallest key (`SmallestKeyOrders`, again any sorted order) and
assigns each file to the first run whose last file ends before it
(`FirstFitRun`, folded over the order by `SortedRuns`).

`GetBlobFilesInRanges` is the range query that compactions and `DeleteFilesInRanges`
use. It walks `blob_ranges_` from `lower_bound(begin)` to `upper_bound(end)` (a null bound is
`NoBound`). It skips obsolete files, and files of an old version with an empty largest key
(`EmptySlice`). It keeps a file when its largest key is at most `end` (below `end` without
`include_end`). `FilesWithin` is the reference, taken from the spec's description.
`FindBuildingFile` is the lookup of a file still being written.

`Get` takes `mutex_` twice: once in `FindFile`, and, when that misses with
`sep_before_flush`, again in `ReadBuildingFile`'s `FindBuildingFile`. The two
lookups are `GetFindFile` and `ReadBuildingFile`, so a caller that models
`Get` takes them as two steps and other threads can run between them.

`SnapshotFilesKept` is the registry's promise to readers: a file that an open
snapshot may still read (never obsolete, or obsolete at a sequence no older
than some snapshot) is in `files_`, or in `building_files_` with
`sep_before_flush`. `GetObsoleteFiles` purges only below the oldest snapshot,
and `AddBlobFile` moves a file from one map to the other in one critical
section, which is what keeps it.


### `TitanTableBuilder.tla`

This module composes BlobStorage through `INSTANCE` with one table build.

- **Input:** `N` records. Each is a small value, a large value, or an index into
  one of the old files `OldFiles`.
- **Emitted records:** `output` holds what reaches the base builder.
- **Blob contents:** the blob files' contents are sequences of the keys written
  to them. An index is `<<file, position>>`, so the model can resolve any
  emitted record back to a value.
- **Actions:** each branch of `Add` is its own action, and so are the merge
  path's three outcomes, `Finish` and `Abandon`. `AddBlob` and `FinishBlobFile`
  are operators over a `BuilderState` record, because the builder calls them
  from inside several branches.
- **I/O outcomes:** the outcomes of `NewFile`, the blob write and
  `blob_builder_->Finish` are nondeterministic when `IOMayFail`.
- **Mode:** the module assumes `sep_before_flush` is off; that path is
  ForegroundBuilder. The merge path's fallback `Get` is then the single
  `FindFile` lookup (`GetFindFile`).
- **GC thread:** when `GCConcurrent`, `GCStep` interleaves the GC thread's
  marks, deletions, host writes and purges on the old files.

### `BlobGC.tla`

`BasicBlobGCPicker::PickBlobGC` runs on a `gc_score_` list that BlobStorage
computed earlier, while the engine (`Engine`: registrations, deletions, marks,
discardable bytes, purges, score recomputation) goes on changing the registry.

- **The loop:** the loop over `gc_score_` is `PickStep`, folded over the list.
  Its accumulator holds the loop's locals: `blob_files`, `batch_size`,
  `stop_picking`, `maybe_continue_next_time` and the count. It also records the
  `break` and a `FindFile` that returned null.
- **The rejections:** `Rejected` is the two checks after the loop. `gc_mark` is
  set by code outside the repository, so it takes either value.
- **The job:** `BlobGCJob` is outside the repository; `GCJobDone` only returns
  the GC thread to idle.

### `ForegroundBuilder.tla`

The sep-before-flush write path: `Add`, `handleRequest`, `Flush`, `Finish`,
`FinishBlob` and the `BlockQueue` it uses, composed with BlobStorage.

- **Clients:** each client calls `Add` once with a key and a value size class,
  and blocks on its promise (`cpc = "waiting"`). A small value is answered
  inline.
- **Workers:** one worker per shard, with states `get`, `wait`, `proc` and
  `done`. `GetBulk` takes the whole queue. The worker then handles the bulk one
  request per step:
  - a flush request (the empty key) runs `FinishBlob` and `BatchFinishFiles`;
  - a `nullptr` makes the worker return;
  - a value runs `NewFile` and `AddBuildingFile` when no file is open, then the
    append, possibly `FinishBlob`, and the index write.
- **Queue:** `Put` signals only when the queue size becomes 1, as `util.h`
  does.
- **Host thread:** calls `Flush` at most `MaxFlushes` times, once per shard in
  order. Once every client is done it calls `Finish`, which puts a `nullptr` on
  each queue and joins the workers.
- **Failures:** `IOMayFail` makes `NewFile` and the reader's open in
  `AddBuildingFile` fail nondeterministically.
- **Readers:** once its `Add` returned an index, each client's reader calls
  `BlobStorage::Get` on it as two steps, `ReaderFindFile` (the `FindFile`
  lookup under `mutex_`) and `ReaderBuildingFile` (the `FindBuildingFile`
  lookup under the second acquisition). `IndexResolvable` says every such read
  gets OK.

### `TitanDBIterator.tla`

The iterator over a fixed view of the base LSM (`lsm`: key to an inline value
or a blob index), composed with BlobStorage while compactions delete and the
engine purges files.

- **Positioning:** `SeekToFirst`, `SeekToLast`, `Seek`, `SeekForPrev`, `Next`
  and `Prev` move `pos`. On a blob index each calls `GetBlobValue`, which opens
  a prefetcher through `NewPrefetcher` (a `FindFile` on the registry) unless the
  file is already in `cache`. On failure it sets `status_` and leaves `record_`
  as it was.
- **Reading:** `Value` is what `value()` returns: the inline value, else
  `record_`. `Key` is `key()`. `Status` is `status()`: `status_` if it holds an
  error, else the base iterator's status (`BaseStatus`, always OK, because the
  base LSM's read errors are outside the model).
- **Scan:** the bulk `Scan` is three actions:
  - `ScanBegin` seeks;
  - `ScanStep` is one iteration of the first loop, which may return early when
    `NewPrefetcher` fails;
  - `ScanEnd` is the second loop: `PointGets` folds the `PointGet` calls over
    the entries whose value is still empty. With `ReadMayFail` any of them may
    fail; the code ignores the status, so a failed read leaves `values[j]`
    with whatever the shared `record` last held.

  A `Scan` over an empty inline value dereferences `files_.end()`, which is the
  `crashed` phase. With `EmptyValues = FALSE`, as in the runs, it never happens.
- **Snapshot:** `NewIterator` takes a snapshot at the current sequence
  (`snap_`), and `DeleteIterator` releases it. `ViewStaysReadable` says that
  while the iterator is open, every registered (not building) file of the view
  is cached or found by `NewPrefetcher`'s `FindFile`, although compactions
  delete and the engine purges files under it.

### `YCSBClient.tla`

The benchmark driver in `ycsbc.cc` and `core/client.h`, with `phase = both`.

- **Main thread (`mpc`):**
  - starts `threadcount` client threads for the load phase (`MainLoad`);
  - joins them and sums their results (`Join`);
  - reports, resets `ops_cnt` and clears the histograms (`MainLoadReport`);
  - does the same for the run phase;
  - exits.
- **Client threads:** each runs `DelegateClient`'s loop for
  `total_ops / num_threads` operations, one step per C++ statement that touches
  shared memory:
  - `ClientOp` is `DoInsert` or `DoTransaction`. `DoTransaction` draws
    `NextOperation` twice, because the code calls it twice.
  - `CountLoad` and `CountStore` are the unsynchronised `ops_cnt[...]++`. An
    UPDATE counts in the INSERT slot and a READMODIFYWRITE in none.
  - `HistLock` is one `test_and_set`.
  - `HistLoad` and `HistStore` are `Add_Fast` as a read and a write.
  - `HistUnlock` is `clear()` and `++i`.
- **Refinement:** `YCSBPhases.tla` states what the driver promises, without
  threads' steps. In the load and run phases, each thread does its share of
  operations; each is done and recorded in its histogram in one atomic step.
  Main reports a phase, and clears the histograms, only when every thread has
  finished its share. YCSBClient instantiates it with this mapping:
  - `phase` is `PhaseOf(mpc)`;
  - a thread's `done` counts an operation from the moment its latency is stored
    under the lock (`Recorded`: `done_ops`, plus one while at `unlock`);
  - `hist` and `total` are `histogram` and `sum`.

  `PhasesRefinement` asserts that YCSBClient's behaviours satisfy
  `YCSBPhases!Spec`, including its weak fairness.
- **Workload and adapter:** the keys are modelled and the values are not, so
  the database is the set of keys it holds (`db`).
  - The mix is built from the proportions as `CoreWorkload::Init` builds
    `op_chooser_` (`Mix`).
  - Each phase constructs its own `CoreWorkload`, so `key_generator_` restarts
    at `insertstart` (`NewWorkload`).
  - `DoInsert` and `TransactionInsert` take the next sequence key from that
    counter. The counter's header is not in the repository; it is modelled as
    the atomic fetch-and-add of upstream YCSB-C.
  - Reads, updates and read-modify-writes take any key of the uniform
    `key_chooser_`, `0..recordcount-1` (`TransactionKeys`).
  - `TitanDB::Insert` and `Update` Put the key once per field (`Insert`).
    `TitanDB::Read` records whether `Get` found the key (`Get`, `get_ok`) and
    returns `kOK` either way.
  - The RocksDB and LevelDB adapters have the same key semantics.
- **Abstractions:** database calls always succeed, as the code's asserts
  require. Latencies are counted, not timed. `recordcount` is at least 1;
  0 would wrap `record_count_ - 1`.

### `YCSBCommandLine.tla`

`ParseCommandLine` in `ycsbc.cc`, which main calls before it does anything else.

- **Arguments:** an argument is a pair `<<lead, body>>`. The lead is `"-"`
  when the C string starts with `'-'`, which is all `StrStartWith` looks at.
  `strcmp` against an option name is equality of pairs.
- **The loop:** `ParseFrom` is the `while` loop as a recursive operator over
  `argindex`.
  - The ten value options set their property (`ValueOption`, `SetProperty`).
  - `-help` only moves on.
  - `-P` records the file name and loads the file over the properties already
    set (`Load`).
  - An unknown option, a missing value, or a file whose `Load` throws ends in
    `Exit`.
- **After the loop:** `Finish` is the check `argindex == 1 || argindex != argc`.
- **Property files:** `utils::Properties` is not in the repository. A file's
  contents are the constant `FileProps`, and the files whose `Load` throws are
  `Malformed`.
- **Reference:** `ReferenceParse` is written from the usage message, not from
  the loop. A command line is accepted when a set of positions holds options
  from the first argument to the last, each followed by its value, except
  `-help`. Each property then holds the value of the last option or file that
  set it, since files are "processed in the order specified".
- **Check:** `MCYCSBClient` checks `ParseMatchesReference` in main's first
  state.

### MC modules

Each `MC*.tla` extends its module and defines the finite sets that are
constants: file numbers, keys, sizes, clients and operation mixes. The `.cfg`
files give the remaining constants numbers.

## Runs

| run | checks | shows |
|---|---|---|
| `blob_storage` | TypeOK, LevelSizeMatchesFiles, ObsoleteListMatchesFiles, RangeIndexMatchesFiles, SnapshotFilesKept, SortedRunsMinimal, RangeQueryMatchesReference | The counters, the obsolete list and the range index stay consistent with `files_`. A file that an open snapshot may read stays in `files_` or `building_files_` (`SnapshotFilesKept`). `CountSortedRun` splits each level into runs of disjoint files, and uses as few runs as the level's deepest key overlap allows. For every pair of bounds and both values of `include_end`, `GetBlobFilesInRanges` returns exactly the live files inside the range. |
| `table_builder` | TypeOK, OutputFollowsInput, OutputResolvesToInput | GC races the build, and every I/O step may fail. Even so, emitted records are in key order and each resolves to its input's value. |
| `table_builder_race_loss` | CompleteWhenOk (violation) | GC purging a cached file before `NewPrefetcher` fails the build silently (table_builder.cc:123). |
| `table_builder_null_handle` | NoNullHandleUse (violation) | After a failed blob finish, `Finish` or `Abandon` dereferences the moved-from handle (table_builder.cc:223, 259). |
| `gc_picker` | PickMatchesReference | With level merge on and the registry changing after `ComputeGCScore`, every batch the picker returns is the reference batch. That batch is the registered, Normal, unsorted files in score order, up to the first prefix that reaches `max_gc_batch_size`, and at least `min_gc_batch_size` in total. |
| `gc_picker_null_meta` | NoNullMetaDeref (violation) | A file purged after `ComputeGCScore` is still in the score list. `FindFile` returns null, and the picker's log statement dereferences it (blob_gc_picker.cc:47). |
| `foreground_builder` | TypeOK, FlushRegistersDue, AddReturns | Readers run alongside. A `Flush` registers every file of an `Add` that completed before it. Every `Add` returns. |
| `foreground_finish_unregistered` | FinishRegistersFiles (violation) | `Finish` stops the workers without finishing or registering their open files (table_builder.cc:410, 343). |
| `foreground_reader_fail` | IndexResolvable (violation) | A read of an index `Add` returned gets Corruption. TLC reports a failed `AddBuildingFile` that is ignored (table_builder.cc:374). With `IOMayFail = FALSE` it reports the other cause: a flush's `BatchFinishFiles` moves the file from `building_files_` to `files_` between `Get`'s two lookups (blob_storage.cc:31). |
| `titan_iterator` | StatusFlagsWrongValue, ViewStaysReadable | Runs with `sep_before_flush` and failing `PointGet`s, so foreground builders' files appear in the view and reads can fail. Files in the view are deleted and purged concurrently, yet while the iterator is open every registered file of its view is cached or found by `NewPrefetcher`, because `snap_` holds back the purge. Whenever `value()` of a positioned, valid iterator is wrong, `status()` reports an error. |
| `iterator_building_file` | IterValueMatches (violation) | With `sep_before_flush`, `NewPrefetcher` does not look at building files. `Valid()` stays true and `value()` returns an earlier record (db_iter.h:38, 203). |
| `ycsb_driver` | TypeOK, ParseMatchesReference, PhasesRefinement | The driver refines `YCSBPhases`: the spin lock keeps concurrent `Add_Fast` calls from losing a latency, main never reports or clears a phase while a thread is still recording, and both phases finish. `ParseCommandLine` exits or returns what the usage message promises on every argument vector of up to four arguments. This includes a `-P` file overriding an earlier `-threads`, a value that starts with `-`, and an option with no value at the end. |

Every property of a passing run has a mutant in `PROJECT.json`. A mutant is a
plausible bug in the definition it replaces, and TLC finds the property violated
once the mutant is in place. Examples:

- `>=` becomes `>` in the picker's stop condition;
- `FinishBlob` no longer resets the record count;
- `Put` signals at two items;
- a file may join a run that touches it;
- the iterator does not hold its snapshot;
- the spin lock is entered without `test_and_set`, or never cleared.

## Disagreements recorded without a run

The project has at most one run per question. These disagreements were each
reproduced by TLC while modelling. They are kept in `PROJECT.json` as hazards
with notes.

- `level_blob_size_` sums file sizes (blob_storage.cc:168), while spec
  sections 3 and 8 speak of live bytes. One `RegisterFile` followed by one
  `AddDiscardableSize` separates the two readings.
- The picker appends a file before it tests the maximum (blob_gc_picker.cc:62),
  so a batch can exceed `max_gc_batch_size`. Spec scenario C forbids that.
  `PickMatchesReference` states what the code does.
- An `Add` with an empty user key is taken for a flush request
  (table_builder.cc:346). It returns OK and writes no index.
- A failed `NewFile` in TitanTableBuilder drops the record, yet `Finish`
  returns OK (table_builder.cc:243).
- `ops_cnt[...]++` is unsynchronised (client.h:63), so the reported operation
  counts can be short.
- `Client::DoInsert` performs its insert inside `assert()` (client.h:50). The
  repository has no build file for the benchmark, so it is unknown whether a
  release build loads any data.
- `TitanDB::Scan` in the benchmark adapter (titandb_db.cc:104-110) never calls
  `status()`, so it consumes the wrong values that `iterator_building_file`
  shows. `StatusFlagsWrongValue` shows that `status()` would have flagged them.
- `TitanDBIterator::Scan` returns early after a failed `NewPrefetcher` without
  setting `len` (db_iter.h:113). The caller sees the requested length with only
  the first entries filled. `status()` does report the failure.
- The second loop of `TitanDBIterator::Scan` ignores `PointGet`'s status
  (db_iter.h:132). When a read fails, TLC finds a `Scan` that returns normally
  with `values[j]` holding the value of the previous key it read.
- The TitanDB adapter's `Read` and `Insert` return `kOK` whatever the engine
  returned (titandb_db.cc:87-89, 126-132). `Delete` puts no fields, so it is a
  no-op (line 139).
- With `recordcount = 0`, `UniformGenerator(0, record_count_ - 1)` wraps
  around (core_workload.cc:158).
- `total_ops / num_threads` drops the remainder (ycsbc.cc:128). With 3 records
  and 2 threads, TLC finds a run-phase read of key 2, which was never loaded.
  `TitanDB::Read` reports `kOK`.
- The run phase constructs a new `CoreWorkload` (ycsbc.cc:158), whose
  `key_generator_` starts again at `insertstart`. With INSERT in the mix, TLC
  finds a run-phase insert that writes loaded key 0. The "insert" workload
  measures overwrites.
- `ThreadPool::terminated` is never initialised (threadpool.h:89), so a worker
  may read an indeterminate value at line 30. No live code creates a pool.

## Bounds

| run | bounds | why |
|---|---|---|
| `blob_storage` | 2 file numbers, 2 keys, sizes {1, 2}, 2 levels plus the unsorted slot, sequence numbers up to 2 | Two files can share a smallest key, overlap or be disjoint in a level, and sit in each level slot. A snapshot can be taken before and after an obsolescence. |
| `table_builder`, builder violations | `N = 3` records, 2 old files, 5 file numbers, target size 2, sequence numbers up to 2; 2 levels in the pass run, 3 in the violation runs | With target size 2, a blob file fills and is finished mid-build, and a second one is opened. The builder starts at sequence 1, so the second sequence number lets GC delete an old file, advance the sequence and purge the file mid-build, the race behind `MergeNoPrefetcher`. With level 0 below the merge level and 1 at it, merging still happens in the pass run. With all three levels and failing I/O the pass run takes over 4 minutes. |
| `gc_picker` | 3 files, sizes {1, 2}, max batch 2, min batch 1, one key | The batch can stop at the maximum or take every file. A score can go stale through a purge. Level merge makes sorted files ineligible. |
| `foreground_builder` | 2 clients, 2 shards, keys 0..2 (0 is the empty key), 3 file numbers, target size 2, one Flush | Both shards get work, a shard's file can fill, and a flush can race the adds. Three clients take 8 minutes. |
| `titan_iterator` | 2 files, 2 keys, size 1, sequence numbers up to 2, scans of up to 2 entries, `sep_before_flush`, failing `PointGet`s | An index can point to each file, including one a foreground builder is still writing. A file can be deleted and purged under the iterator. A scan can be cut by its length, by the end of the keys or by a failed prefetcher. |
| `ycsb_driver` | 2 threads, 2 records, 4 operations, mix {READ, UPDATE, READMODIFYWRITE}, 1 field, insertstart 0 | Two threads contend for the lock in both phases. The mix reaches every `ops_cnt` branch that is taken or skipped. Both loaded keys can be drawn by every read. There are 4,681 argument vectors of up to four arguments, each from a set of eight. That set has a value option, `-P`, `-help`, an unknown option, a value with a leading `-`, a plain value, a property file that sets two keys, and a malformed file. Every branch of the loop and of the check after it is reached. |

## Fairness

- **ForegroundBuilder:** weak fairness of each shard worker, of a client taking
  its answer, and of the host's `Flush` and join steps. Each is a separate OS
  thread that runs once it is not blocked. The clients' and the host's own
  decisions to call `Add`, `Flush` or `Finish` have no fairness. The host calls
  `Finish` only after the clients are done. That is the order the destructor
  requires.
- **YCSBClient:** weak fairness of each client thread and of main. Each is a
  thread started with `launch::async`. A spinning `test_and_set` does not change
  the state, so fairness does not force it to succeed. The fairness half of
  `PhasesRefinement` relies only on the holder's progress.
- **All other runs** check only safety and assume no fairness.

## Not modelled

- **ThreadPool:** dead code, see above.
- **Diagnostics and data formats:** `PrintFileStates`, statistics and timing
  counters, file formats and codecs, and `ExportBlobFiles`.
- **YCSB-C workload and adapters:** the zipfian and latest key choosers and
  the field-length generators, whose headers are not in the repository. Also
  the adapters' constructors and `leveldb_config.h` (engine configuration),
  `TitanDB::Scan`'s loop (the iterator it drives is `TitanDBIterator`),
  and all output.
- **Driver configuration:** the properties `ParseCommandLine` returns are not
  fed into `YCSBClient`. Its thread count, record count and phase are
  constants of the run. Feeding them in would multiply the driver's state space
  by every command line, while the parse itself is checked on its own.
- **Code outside the repository:** BlobFileMeta's state machine,
  `BlobFileManager` and `BlobGCJob` are not in the repository. They are
  modelled from the spec (`spec_modelled` in the map) only as far as the
  modules above call them.
