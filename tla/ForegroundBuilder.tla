-------------------------- MODULE ForegroundBuilder --------------------------
(***************************************************************************)
(* ForegroundBuilder (table_builder.cc:321-441) with its BlockQueues       *)
(* (util.h:14-45), composed with BlobStorage in sep_before_flush mode.     *)
(* Client threads call Add and block on a promise; one worker per shard    *)
(* drains its queue in bulk; the host thread calls Flush and, once the     *)
(* clients are done, Finish.                                               *)
(***************************************************************************)
EXTENDS Integers, Sequences, FiniteSets, SequencesExt, TLC

CONSTANTS FileNums, Keys, Sizes, NumLevels, MaxSeq, LevelMerge, SepBeforeFlush,
          MergeSmallFileThreshold, RatioNum, RatioDen,
          Clients,            \* client threads, each calling Add once
          NumBuilders,        \* db_options.num_foreground_builders
          BlobFileTargetSize, \* in records
          MaxFlushes,         \* bound on the host's Flush calls
          IOMayFail           \* NewFile / NewRandomAccessFile may fail

VARIABLES files_, blob_ranges_, level_blob_size_, obsolete_files_,
          building_files_, gc_score_, last_seq, snapshots, allocated, obsolete_at,
          input,      \* the key and value size class each client adds
          cpc,        \* client: "idle", "waiting" on the future, "done"
          result,     \* the Status each client's Add returned
          wb,         \* the blob index a worker put into the client's batch
          q,          \* requests_[b].q_
          wpc,        \* worker b: "get", "wait" on cv_, "proc", "done"
          bulk,       \* the list GetBulk returned to worker b
          handle,     \* handle_[b] / builder_[b]: the open file, 0 if none
          fill,       \* records in the open file of shard b
          finished,   \* finished_files_[b]
          hpc,        \* host: "run", "flushing", "joining", "stopped"
          flush_at,   \* the shard Flush is waiting on
          flush_ack,  \* the promise of Flush's request is set
          flushes,    \* Flush calls so far
          due,        \* files of the indexes returned before Flush began
          rpc,        \* reader of client c's index: "idle", "building", "done"
          rstatus     \* the Status that reader's BlobStorage::Get returned

S == INSTANCE BlobStorage
storage_vars == <<files_, blob_ranges_, level_blob_size_, obsolete_files_,
                  building_files_, gc_score_>>
host_vars == <<last_seq, snapshots, allocated, obsolete_at>>
client_vars == <<input, cpc, result, wb>>
worker_vars == <<q, wpc, bulk, handle, fill, finished>>
flush_vars == <<hpc, flush_at, flush_ack, flushes, due>>
reader_vars == <<rpc, rstatus>>
vars == <<storage_vars, host_vars, client_vars, worker_vars, flush_vars, reader_vars>>

Shards == 1..NumBuilders
EmptyKey == 0                       \* the empty Slice, smallest of all keys
Host == 0                           \* the thread calling Flush and Finish
NullReq == [who |-> -1, key |-> EmptyKey]   \* Put(nullptr)
ValueClasses == {"small", "mid", "big"}     \* < min_blob_size, < mid_blob_size, larger
NoIndex == 0
IOOutcomes == IF IOMayFail THEN BOOLEAN ELSE {TRUE}

\* hash(key) % num_builders_: any fixed function of the key.
ShardOf(k) == (k % NumBuilders) + 1

\* BlobFileManager::NewFile hands out file numbers in increasing order.
NextFileNumber == Min(FileNums \ allocated)

-----------------------------------------------------------------------------
(* BlockQueue<Request*>.                                                   *)

\* Mutant: Put signals when the queue reaches two items.
PutSignalAtTwo(b, r) ==
    /\ q' = [q EXCEPT ![b] = Append(@, r)]
    /\ wpc' = IF Len(q[b]) = 1 /\ wpc[b] = "wait" THEN [wpc EXCEPT ![b] = "get"] ELSE wpc

\* BlockQueue::Put: push, and SignalAll when the queue size becomes 1.
Put(b, r) ==
    /\ q' = [q EXCEPT ![b] = Append(@, r)]
    /\ wpc' = IF Len(q[b]) = 0 /\ wpc[b] = "wait" THEN [wpc EXCEPT ![b] = "get"] ELSE wpc

\* BlockQueue::GetBulk: wait while empty, else splice out the whole queue.
GetBulk(b) ==
    /\ wpc[b] = "get"
    /\ IF q[b] = <<>>
       THEN /\ wpc' = [wpc EXCEPT ![b] = "wait"]
            /\ UNCHANGED <<q, bulk>>
       ELSE /\ bulk' = [bulk EXCEPT ![b] = q[b]]
            /\ q' = [q EXCEPT ![b] = <<>>]
            /\ wpc' = [wpc EXCEPT ![b] = "proc"]
    /\ UNCHANGED <<reader_vars, storage_vars, host_vars, client_vars, handle, fill, finished,
                   flush_vars>>

-----------------------------------------------------------------------------
(* The shard worker, ForegroundBuilder::handleRequest.                     *)

\* The state of shard b that FinishBlob and the add path change.
Shard(b) == [handle |-> handle[b], fill |-> fill[b], finished |-> finished[b]]
StoreShard(b, sh) ==
    /\ handle' = [handle EXCEPT ![b] = sh.handle]
    /\ fill' = [fill EXCEPT ![b] = sh.fill]
    /\ finished' = [finished EXCEPT ![b] = sh.finished]

\* Mutant: FinishBlob keeps the record count of the finished file.
FinishBlobNoReset(sh) ==
    IF sh.handle = 0 THEN sh
    ELSE [sh EXCEPT !.finished = Append(@, [file |-> sh.handle, size |-> sh.fill]),
                    !.handle = 0]

\* ForegroundBuilder::FinishBlob: move the open file into finished_files_
\* (an unsorted level-0 meta, kReset), then reset builder and handle.  A
\* failed Finish aborts the process (line 434) and is not modelled.
FinishBlob(sh) ==
    IF sh.handle = 0 THEN sh
    ELSE [sh EXCEPT !.finished = Append(@, [file |-> sh.handle, size |-> sh.fill]),
                    !.handle = 0, !.fill = 0]

\* BlobFileManager::BatchFinishFiles (outside the repository): one version
\* edit adds every finished file with BlobStorage::AddBlobFile.
FileMeta(e) == [size |-> e.size, discardable |-> 0, level |-> 0, type |-> S!UnSorted,
                state |-> S!FileStateTransit(S!Init_, "kReset"),
                smallest |-> EmptyKey, largest |-> EmptyKey]
BatchFinishFiles(fin) ==
    LET F == {fin[i].file : i \in 1..Len(fin)}
        MetaOf(f) == FileMeta(fin[CHOOSE i \in 1..Len(fin) : fin[i].file = f])
    IN /\ files_' = files_ @@ [f \in F |-> MetaOf(f)]
       /\ blob_ranges_' = blob_ranges_ \cup {<<EmptyKey, f>> : f \in F}
       /\ level_blob_size_' =
             [level_blob_size_ EXCEPT ![NumLevels] =
                 @ + MapThenSumSet(LAMBDA f : MetaOf(f).size, F)]
       /\ building_files_' = building_files_ \ F

\* The request at the head of the bulk, and the step past it: the loop
\* goes back to GetBulk when the bulk is used up.
Req(b) == Head(bulk[b])
NextInBulk(b) ==
    /\ bulk' = [bulk EXCEPT ![b] = Tail(@)]
    /\ wpc' = [wpc EXCEPT ![b] = IF Len(bulk[b]) = 1 THEN "get" ELSE "proc"]

\* req->res.set_value(s): wake the caller of the request.
Answer(r, s) ==
    IF r.who = Host THEN flush_ack' = TRUE /\ UNCHANGED result
                    ELSE result' = [result EXCEPT ![r.who] = s] /\ UNCHANGED flush_ack

\* nullptr: return from handleRequest (line 343); the rest of the bulk is
\* never answered.
WorkerExit(b) ==
    /\ wpc[b] = "proc" /\ Req(b) = NullReq
    /\ wpc' = [wpc EXCEPT ![b] = "done"]
    /\ UNCHANGED <<reader_vars, storage_vars, host_vars, client_vars, q, bulk, handle, fill,
                   finished, flush_vars>>

\* Mutant: a flush request registers the finished files but leaves the
\* open one open.
WorkerFlushNoFinish(b) ==
    /\ wpc[b] = "proc" /\ Req(b) # NullReq /\ Req(b).key = EmptyKey
    /\ LET sh == Shard(b)
       IN IF sh.finished # <<>>
          THEN /\ BatchFinishFiles(sh.finished)
               /\ StoreShard(b, [sh EXCEPT !.finished = <<>>])
          ELSE /\ StoreShard(b, sh)
               /\ UNCHANGED <<files_, blob_ranges_, level_blob_size_, building_files_>>
    /\ Answer(Req(b), "OK")
    /\ NextInBulk(b)
    /\ UNCHANGED <<reader_vars, obsolete_files_, gc_score_, host_vars, input, cpc, wb, q,
                   hpc, flush_at, flushes, due>>

\* An empty key (lines 346-353): finish the open file, register the
\* finished ones with one BatchFinishFiles, clear the list, answer OK.
WorkerFlush(b) ==
    /\ wpc[b] = "proc" /\ Req(b) # NullReq /\ Req(b).key = EmptyKey
    /\ LET sh == FinishBlob(Shard(b))
       IN IF sh.finished # <<>>
          THEN /\ BatchFinishFiles(sh.finished)
               /\ StoreShard(b, [sh EXCEPT !.finished = <<>>])
          ELSE /\ StoreShard(b, sh)
               /\ UNCHANGED <<files_, blob_ranges_, level_blob_size_, building_files_>>
    /\ Answer(Req(b), "OK")
    /\ NextInBulk(b)
    /\ UNCHANGED <<reader_vars, obsolete_files_, gc_score_, host_vars, input, cpc, wb, q,
                   hpc, flush_at, flushes, due>>

\* Append the record to the open file f; finish it at the target size
\* (lines 376-387).
AppendRecord(sh, f) ==
    LET sh1 == [sh EXCEPT !.handle = f, !.fill = @ + 1]
    IN IF sh1.fill >= BlobFileTargetSize THEN FinishBlob(sh1) ELSE sh1

\* After NewFile gave file f: storage->AddBuildingFile(f) (line 374), whose
\* status is dropped; readerOk is whether its NewRandomAccessFile succeeded.
OpenBlobFile(f, readerOk) ==
    IF readerOk
    THEN S!AddBuildingFile(f)
    ELSE /\ allocated' = allocated \cup {f}
         /\ UNCHANGED <<storage_vars, last_seq, snapshots, obsolete_at>>

\* A value (lines 356-395).  Without an open file: NewFile (on failure the
\* status is the answer), then AddBuildingFile, whose status is ignored.
\* Then append, maybe finish the file, and put the index into the batch.
WorkerAdd(b) ==
    /\ wpc[b] = "proc" /\ Req(b) # NullReq /\ Req(b).key # EmptyKey
    /\ LET r == Req(b)
       IN IF handle[b] # 0
          THEN /\ StoreShard(b, AppendRecord(Shard(b), handle[b]))
               /\ wb' = [wb EXCEPT ![r.who] = handle[b]]
               /\ Answer(r, "OK")
               /\ UNCHANGED <<storage_vars, host_vars>>
          ELSE \E newOk, readerOk \in IOOutcomes :
                 LET f == NextFileNumber
                 IN IF ~newOk
                    THEN /\ Answer(r, "IOError")
                         /\ UNCHANGED <<storage_vars, host_vars, wb, handle, fill, finished>>
                    ELSE /\ OpenBlobFile(f, readerOk)
                         /\ StoreShard(b, AppendRecord(Shard(b), f))
                         /\ wb' = [wb EXCEPT ![r.who] = f]
                         /\ Answer(r, "OK")
    /\ NextInBulk(b)
    /\ UNCHANGED <<reader_vars, input, cpc, q, flush_vars>>
-----------------------------------------------------------------------------
(* Callers.                                                                *)

\* ForegroundBuilder::Add: reject a value below min_blob_size (or, with
\* level merge, below mid_blob_size) at once; otherwise enqueue the request
\* on shard hash(key) % num_builders_ and block on its future.
Rejected(v) == v = "small" \/ (LevelMerge /\ v = "mid")
ClientAdd(c) ==
    /\ cpc[c] = "idle"
    /\ IF Rejected(input[c].val)
       THEN /\ result' = [result EXCEPT ![c] = "InvalidArgument"]
            /\ cpc' = [cpc EXCEPT ![c] = "done"]
            /\ UNCHANGED <<q, wpc>>
       ELSE /\ Put(ShardOf(input[c].key), [who |-> c, key |-> input[c].key])
            /\ cpc' = [cpc EXCEPT ![c] = "waiting"]
            /\ UNCHANGED result
    /\ UNCHANGED <<reader_vars, storage_vars, host_vars, input, wb, bulk, handle, fill, finished,
                   flush_vars>>

\* fut.get() returns once the worker set the promise.
ClientReturn(c) ==
    /\ cpc[c] = "waiting" /\ result[c] # "none"
    /\ cpc' = [cpc EXCEPT ![c] = "done"]
    /\ UNCHANGED <<reader_vars, storage_vars, host_vars, input, result, wb, worker_vars, flush_vars>>

\* ForegroundBuilder::Flush: for each shard in turn, put a request with an
\* empty key and wait for its promise.
HostFlushBegin ==
    /\ hpc = "run" /\ flushes < MaxFlushes
    /\ Put(1, [who |-> Host, key |-> EmptyKey])
    /\ hpc' = "flushing" /\ flush_at' = 1 /\ flush_ack' = FALSE
    /\ flushes' = flushes + 1
    /\ due' = {wb[c] : c \in {d \in Clients : cpc[d] = "done" /\ wb[d] # NoIndex}}
    /\ UNCHANGED <<reader_vars, storage_vars, host_vars, client_vars, bulk, handle, fill, finished>>

HostFlushNext ==
    /\ hpc = "flushing" /\ flush_ack
    /\ IF flush_at < NumBuilders
       THEN /\ Put(flush_at + 1, [who |-> Host, key |-> EmptyKey])
            /\ flush_at' = flush_at + 1 /\ flush_ack' = FALSE
            /\ UNCHANGED hpc
       ELSE /\ hpc' = "run"
            /\ UNCHANGED <<q, wpc, flush_at, flush_ack>>
    /\ UNCHANGED <<reader_vars, storage_vars, host_vars, client_vars, bulk, handle, fill, finished,
                   flushes, due>>

\* ForegroundBuilder::Finish: Put(nullptr) on every queue, then join the
\* workers.  The host calls it once its clients are done.
HostFinish ==
    /\ hpc = "run" /\ \A c \in Clients : cpc[c] = "done"
    /\ q' = [b \in Shards |-> Append(q[b], NullReq)]
    /\ wpc' = [b \in Shards |-> IF q[b] = <<>> /\ wpc[b] = "wait" THEN "get" ELSE wpc[b]]
    /\ hpc' = "joining"
    /\ UNCHANGED <<reader_vars, storage_vars, host_vars, client_vars, bulk, handle, fill, finished,
                   flush_at, flush_ack, flushes, due>>

HostJoined ==
    /\ hpc = "joining" /\ \A b \in Shards : wpc[b] = "done"
    /\ hpc' = "stopped"
    /\ UNCHANGED <<reader_vars, storage_vars, host_vars, client_vars, worker_vars,
                   flush_at, flush_ack, flushes, due>>

\* A read of the key client c wrote, after its Add returned: BlobStorage::Get
\* on the index, its FindFile and FindBuildingFile under two acquisitions
\* of mutex_, so other threads may run between them.
ReaderFindFile(c) ==
    /\ rpc[c] = "idle" /\ cpc[c] = "done" /\ wb[c] # NoIndex
    /\ LET st == S!GetFindFile(wb[c])
       IN IF st = "building"
          THEN rpc' = [rpc EXCEPT ![c] = "building"] /\ UNCHANGED rstatus
          ELSE rpc' = [rpc EXCEPT ![c] = "done"] /\ rstatus' = [rstatus EXCEPT ![c] = st]
    /\ UNCHANGED <<storage_vars, host_vars, client_vars, worker_vars, flush_vars>>

ReaderBuildingFile(c) ==
    /\ rpc[c] = "building"
    /\ rpc' = [rpc EXCEPT ![c] = "done"]
    /\ rstatus' = [rstatus EXCEPT ![c] = S!ReadBuildingFile(wb[c])]
    /\ UNCHANGED <<storage_vars, host_vars, client_vars, worker_vars, flush_vars>>

\* After Finish the builder is gone: nothing more happens.
Stopped == hpc = "stopped" /\ UNCHANGED vars

-----------------------------------------------------------------------------
Init ==
    /\ S!Init
    /\ input \in [Clients -> [key: Keys, val: ValueClasses]]
    /\ cpc = [c \in Clients |-> "idle"]
    /\ result = [c \in Clients |-> "none"]
    /\ wb = [c \in Clients |-> NoIndex]
    \* ForegroundBuilder::Init: empty shards, one worker thread each
    /\ q = [b \in Shards |-> <<>>]
    /\ wpc = [b \in Shards |-> "get"]
    /\ bulk = [b \in Shards |-> <<>>]
    /\ handle = [b \in Shards |-> 0]
    /\ fill = [b \in Shards |-> 0]
    /\ finished = [b \in Shards |-> <<>>]
    /\ hpc = "run" /\ flush_at = 0 /\ flush_ack = FALSE /\ flushes = 0 /\ due = {}
    /\ rpc = [c \in Clients |-> "idle"]
    /\ rstatus = [c \in Clients |-> "none"]

Worker(b) == GetBulk(b) \/ WorkerExit(b) \/ WorkerFlush(b) \/ WorkerAdd(b)
Client(c) == ClientAdd(c) \/ ClientReturn(c)
Reader(c) == ReaderFindFile(c) \/ ReaderBuildingFile(c)
HostStep == HostFlushBegin \/ HostFlushNext \/ HostFinish \/ HostJoined

Next ==
    \/ \E b \in Shards : Worker(b)
    \/ \E c \in Clients : Client(c) \/ Reader(c)
    \/ HostStep
    \/ Stopped

\* The worker threads and a blocked caller's wake-up are scheduled by the
\* OS; when a client calls Add, and when the host flushes or finishes, is
\* the host's choice, so those steps get no fairness.
Fairness ==
    /\ \A b \in Shards : WF_vars(Worker(b))
    /\ \A c \in Clients : WF_vars(ClientReturn(c))
    /\ WF_vars(HostFlushNext) /\ WF_vars(HostJoined)

Spec == Init /\ [][Next]_vars
FairSpec == Spec /\ Fairness

-----------------------------------------------------------------------------
TypeOK ==
    /\ S!TypeOK
    /\ cpc \in [Clients -> {"idle", "waiting", "done"}]
    /\ result \in [Clients -> {"none", "OK", "IOError", "InvalidArgument"}]
    /\ wb \in [Clients -> {NoIndex} \cup FileNums]
    /\ wpc \in [Shards -> {"get", "wait", "proc", "done"}]
    /\ handle \in [Shards -> {0} \cup FileNums]
    /\ fill \in [Shards -> 0..BlobFileTargetSize - 1]
    /\ hpc \in {"run", "flushing", "joining", "stopped"}
    /\ due \subseteq FileNums

\* Every read of a key whose Add returned a blob index finds the blob: its
\* BlobStorage::Get returns OK, through building_files_ from the
\* AddBuildingFile at NewFile (line 374) until BatchFinishFiles registers
\* the file, and through files_ after.
IndexResolvable ==
    \A c \in Clients : rpc[c] = "done" => rstatus[c] = "OK"

\* When Flush returns, the files of every index returned before it began
\* are registered in files_, whatever Adds ran meanwhile on any shard.
FlushRegistersDue ==
    [][hpc = "flushing" /\ hpc' = "run" => due \subseteq DOMAIN files_']_vars

\* Every Add that enqueued a request returns: no signal of BlockQueue::Put
\* is lost and no request is left behind in a bulk.
AddReturns == \A c \in Clients : cpc[c] = "waiting" ~> cpc[c] = "done"

\* Spec 4.4: after Finish, the blob files behind every index in a write
\* batch are closed and registered with the blob file manager.
FinishRegistersFiles ==
    hpc = "stopped" => \A c \in Clients : wb[c] # NoIndex => wb[c] \in DOMAIN files_
=============================================================================
