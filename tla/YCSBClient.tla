----------------------------- MODULE YCSBClient -----------------------------
(***************************************************************************)
(* The YCSB-C driver (src/bench_tools/YCSB-C/ycsbc.cc, core/client.h): the *)
(* main thread runs a load phase and a run phase; in each it starts        *)
(* threadcount DelegateClient threads on one shared workload, joins them   *)
(* and reports.  Each client thread performs its share of operations; a    *)
(* transaction adds to the global ops_cnt slots without synchronization,  *)
(* and every operation adds its latency to the shared histogram map inside *)
(* a spin lock on an atomic_flag.                                          *)
(*                                                                         *)
(* Data abstraction: the database call is one step that succeeds (status  *)
(* >= 0, as the asserts require); latencies and the histogram's buckets   *)
(* are reduced to counts.  CoreWorkload::NextOperation (its header is not *)
(* in the repository) returns any operation of the workload's mix.  Keys  *)
(* are kept and values are not: the database is the set of its keys.     *)
(***************************************************************************)
EXTENDS Integers, FiniteSets, Functions, Folds

CONSTANTS NumThreads,      \* threadcount
          RecordCount,     \* recordcount: operations of the load phase
          OperationCount,  \* operationcount: operations of the run phase
          Proportion,      \* readproportion, updateproportion, ...: op -> weight
          FieldCount,      \* fieldcount
          InsertStart      \* insertstart

Threads == 1..NumThreads
Operations == {"INSERT", "READ", "UPDATE", "SCAN", "READMODIFYWRITE"}

\* CoreWorkload::Init (core_workload.cc lines 139-153): op_chooser_ holds
\* the operations whose proportion is positive.
Mix == {op \in Operations : Proportion[op] > 0}
\* recordcount 0 would wrap record_count_ - 1 around (a size_t); not modelled.
ASSUME Proportion \in [Operations -> Nat] /\ Mix # {} /\ FieldCount \in Nat /\ RecordCount >= 1

VARIABLES mpc,        \* the main thread
          sum,        \* main's sum of the futures' results
          tpc,        \* each client thread's program counter
          done_ops,   \* the loop index i of DelegateClient
          oks,        \* DelegateClient's oks
          optype,     \* operation_type: what DoInsert / DoTransaction returned
          executed,   \* the operation the switch of DoTransaction ran
          tmp,        \* a thread's load of a counter it is about to store
          ops_cnt,    \* the global long ops_cnt[4]
          histogram,  \* the number of latencies added per operation type
          lock,       \* histogram_lock, the atomic_flag
          key,        \* the key of a thread's last DB call
          get_ok,     \* whether db_->Get in TitanDB::Read found the key
          next_key,   \* key_generator_ of the phase's CoreWorkload
          db          \* the keys the database holds

wl_vars == <<key, get_ok, next_key, db>>
vars == <<mpc, sum, tpc, done_ops, oks, optype, executed, tmp, ops_cnt, histogram, lock, wl_vars>>

\* ops_cnt has four slots: an UPDATE is counted in the INSERT slot and a
\* READMODIFYWRITE nowhere (client.h lines 60-85).
CntSlots == {"INSERT", "READ", "SCAN", "UPDATE"}
CountSlot(op) == CASE op = "READ" -> "READ"
                   [] op \in {"UPDATE", "INSERT"} -> "INSERT"
                   [] op = "SCAN" -> "SCAN"
                   [] OTHER -> "none"

\* total_ops / num_threads, the share of each thread.
NumOps(loading) == (IF loading THEN RecordCount ELSE OperationCount) \div NumThreads
Loading == mpc \in {"load_join"}

-----------------------------------------------------------------------------
(* The workload's keys and the TitanDB adapter (db/titandb_db.cc).  Each  *)
(* phase builds its own CoreWorkload, so key_generator_ starts again at   *)
(* insertstart.  Values are abstracted away: the database is its key set. *)

\* wl.Init: key_generator_ = new CounterGenerator(insert_start).
NewWorkload == next_key' = InsertStart /\ UNCHANGED <<key, get_ok, db>>

\* key_chooser_ = new UniformGenerator(0, record_count_ - 1): the keys
\* NextTransactionKey may return under the uniform request distribution.
TransactionKeys == 0..RecordCount - 1

\* TitanDB::Insert (and Update): one Put of the key for each field.
Insert(k, nfields) == IF nfields > 0 THEN db \cup {k} ELSE db

\* TitanDB::Read: db_->Get of the key; kOK is returned whatever its status.
Get(k) == k \in db

\* The operations that Get the key, and those that Put one field of it
\* (BuildUpdate, as writeallfields is false by default).
Reads == {"READ", "READMODIFYWRITE"}
Updates == {"UPDATE", "READMODIFYWRITE"}

\* Client::DoInsert: NextSequenceKey (an atomic fetch-and-add of
\* key_generator_), BuildValues with fieldcount fields, db_.Insert.
DoInsert(t) ==
    /\ key' = [key EXCEPT ![t] = next_key]
    /\ next_key' = next_key + 1
    /\ db' = Insert(next_key, FieldCount)
    /\ UNCHANGED get_ok

\* The Transaction* call of DoTransaction's switch for operation op on the
\* chosen key k; TransactionInsert takes NextSequenceKey instead.
Transaction(t, op, k) ==
    LET target == IF op = "INSERT" THEN next_key ELSE k
    IN /\ key' = [key EXCEPT ![t] = target]
       /\ next_key' = IF op = "INSERT" THEN next_key + 1 ELSE next_key
       /\ get_ok' = IF op \in Reads THEN [get_ok EXCEPT ![t] = Get(k)] ELSE get_ok
       /\ db' = CASE op = "INSERT" -> Insert(target, FieldCount)
                  [] op \in Updates -> Insert(k, 1)
                  [] OTHER         -> db

-----------------------------------------------------------------------------
(* A client thread, DelegateClient.                                        *)

\* The top of the loop: finish, or do one operation.  DoInsert inserts the
\* next sequence key; DoTransaction calls NextOperation once for the value
\* it returns and again for the switch, then runs the DB call.
ClientOp(t) ==
    /\ tpc[t] = "loop"
    /\ IF done_ops[t] >= NumOps(Loading)
       THEN tpc' = [tpc EXCEPT ![t] = "done"] /\ UNCHANGED <<optype, executed, wl_vars>>
       ELSE IF Loading
       THEN /\ optype' = [optype EXCEPT ![t] = "INSERT"]
            /\ executed' = [executed EXCEPT ![t] = "INSERT"]
            /\ tpc' = [tpc EXCEPT ![t] = "lock"]
            /\ DoInsert(t)
       ELSE \E first, second \in Mix, k \in TransactionKeys :
              /\ optype' = [optype EXCEPT ![t] = first]
              /\ executed' = [executed EXCEPT ![t] = second]
              /\ tpc' = [tpc EXCEPT ![t] = IF CountSlot(second) = "none" THEN "lock"
                                                                     ELSE "cnt_load"]
              /\ Transaction(t, second, k)
    /\ UNCHANGED <<mpc, sum, done_ops, oks, tmp, ops_cnt, histogram, lock>>

\* ops_cnt[slot]++ on the shared array: a load, then a store.
CountLoad(t) ==
    /\ tpc[t] = "cnt_load"
    /\ tmp' = [tmp EXCEPT ![t] = ops_cnt[CountSlot(executed[t])]]
    /\ tpc' = [tpc EXCEPT ![t] = "cnt_store"]
    /\ UNCHANGED <<mpc, sum, done_ops, oks, optype, executed, ops_cnt, histogram, lock, wl_vars>>
CountStore(t) ==
    /\ tpc[t] = "cnt_store"
    /\ ops_cnt' = [ops_cnt EXCEPT ![CountSlot(executed[t])] = tmp[t] + 1]
    /\ tpc' = [tpc EXCEPT ![t] = "lock"]
    /\ UNCHANGED <<mpc, sum, done_ops, oks, optype, executed, tmp, histogram, lock, wl_vars>>

\* while (histogram_lock.test_and_set()); one test_and_set per step.
HistLock(t) ==
    /\ tpc[t] = "lock"
    /\ lock' = TRUE
    /\ tpc' = [tpc EXCEPT ![t] = IF lock THEN "lock" ELSE "hist_load"]
    /\ UNCHANGED <<mpc, sum, done_ops, oks, optype, executed, tmp, ops_cnt, histogram, wl_vars>>

\* histogram[operation_type]->Add_Fast(duration), a load and a store.
HistLoad(t) ==
    /\ tpc[t] = "hist_load"
    /\ tmp' = [tmp EXCEPT ![t] = histogram[optype[t]]]
    /\ tpc' = [tpc EXCEPT ![t] = "hist_store"]
    /\ UNCHANGED <<mpc, sum, done_ops, oks, optype, executed, ops_cnt, histogram, lock, wl_vars>>
HistStore(t) ==
    /\ tpc[t] = "hist_store"
    /\ histogram' = [histogram EXCEPT ![optype[t]] = tmp[t] + 1]
    /\ tpc' = [tpc EXCEPT ![t] = "unlock"]
    /\ UNCHANGED <<mpc, sum, done_ops, oks, optype, executed, tmp, ops_cnt, lock, wl_vars>>

\* histogram_lock.clear(), then ++i (oks was counted with the operation).
HistUnlock(t) ==
    /\ tpc[t] = "unlock"
    /\ lock' = FALSE
    /\ tpc' = [tpc EXCEPT ![t] = "loop"]
    /\ done_ops' = [done_ops EXCEPT ![t] = @ + 1]
    /\ oks' = [oks EXCEPT ![t] = @ + 1]
    /\ UNCHANGED <<mpc, sum, optype, executed, tmp, ops_cnt, histogram, wl_vars>>

-----------------------------------------------------------------------------
(* The main thread.                                                        *)

\* async(DelegateClient, ...) for every thread of a phase.
Spawn(next) ==
    /\ tpc' = [t \in Threads |-> "loop"]
    /\ done_ops' = [t \in Threads |-> 0]
    /\ oks' = [t \in Threads |-> 0]
    /\ mpc' = next

MainLoad ==
    /\ mpc = "start" /\ NewWorkload /\ Spawn("load_join")
    /\ UNCHANGED <<sum, optype, executed, tmp, ops_cnt, histogram, lock>>

\* Mutant: main sums the futures without waiting on each get().
JoinNoWait(next) ==
    /\ sum' = FoldFunctionOnSet(+, 0, oks, Threads)
    /\ mpc' = next
    /\ UNCHANGED <<tpc, done_ops, oks, optype, executed, tmp, ops_cnt, histogram, lock, wl_vars>>

\* The loop of n.get(): sum the results once every thread returned.
Join(next) ==
    /\ \A t \in Threads : tpc[t] = "done"
    /\ sum' = FoldFunctionOnSet(+, 0, oks, Threads)
    /\ mpc' = next
    /\ UNCHANGED <<tpc, done_ops, oks, optype, executed, tmp, ops_cnt, histogram, lock, wl_vars>>
MainLoadJoin == mpc = "load_join" /\ Join("load_out")

\* Mutant: the reset loop runs over every operation type, one past ops_cnt[4].
MainLoadReportFiveSlots ==
    /\ mpc = "load_out"
    /\ ops_cnt' = [s \in Operations |-> 0]
    /\ histogram' = [o \in Operations |-> 0]
    /\ NewWorkload /\ Spawn("run_join")
    /\ UNCHANGED <<sum, optype, executed, tmp, lock>>

\* OUTPUT_MAP_HISTOGRAM and the ops_cnt report, the reset of ops_cnt, and
\* CLEAR_MAP_HISTOGRAM; then the run phase starts its threads.
MainLoadReport ==
    /\ mpc = "load_out"
    /\ ops_cnt' = [s \in CntSlots |-> 0]
    /\ histogram' = [o \in Operations |-> 0]
    /\ NewWorkload /\ Spawn("run_join")
    /\ UNCHANGED <<sum, optype, executed, tmp, lock>>

MainRunJoin == mpc = "run_join" /\ Join("run_out")

MainRunReport ==
    /\ mpc = "run_out"
    /\ ops_cnt' = [s \in CntSlots |-> 0]
    /\ mpc' = "end"
    /\ UNCHANGED <<sum, tpc, done_ops, oks, optype, executed, tmp, histogram, lock, wl_vars>>

-----------------------------------------------------------------------------
Init ==
    /\ mpc = "start" /\ sum = 0
    /\ tpc = [t \in Threads |-> "idle"]
    /\ done_ops = [t \in Threads |-> 0]
    /\ oks = [t \in Threads |-> 0]
    /\ optype = [t \in Threads |-> "INSERT"]
    /\ executed = [t \in Threads |-> "INSERT"]
    /\ tmp = [t \in Threads |-> 0]
    /\ ops_cnt = [s \in CntSlots |-> 0]
    /\ histogram = [o \in Operations |-> 0]
    /\ lock = FALSE
    /\ key = [t \in Threads |-> InsertStart]
    /\ get_ok = [t \in Threads |-> TRUE]
    /\ next_key = InsertStart
    /\ db = {}

Client(t) ==
    \/ ClientOp(t) \/ CountLoad(t) \/ CountStore(t) \/ HistLock(t)
    \/ HistLoad(t) \/ HistStore(t) \/ HistUnlock(t)
Main == MainLoad \/ MainLoadJoin \/ MainLoadReport \/ MainRunJoin \/ MainRunReport

\* After the report main deletes the database and exits.
Exited == mpc = "end" /\ UNCHANGED vars

Next == (\E t \in Threads : Client(t)) \/ Main \/ Exited

\* Every client thread is an OS thread started with launch::async and the
\* main thread runs whenever it is not blocked in get(): each is scheduled.
Spec == Init /\ [][Next]_vars /\ \A t \in Threads : WF_vars(Client(t)) /\ WF_vars(Main)
-----------------------------------------------------------------------------
TypeOK ==
    /\ mpc \in {"start", "load_join", "load_out", "run_join", "run_out", "end"}
    /\ tpc \in [Threads -> {"idle", "loop", "cnt_load", "cnt_store", "lock",
                            "hist_load", "hist_store", "unlock", "done"}]
    /\ optype \in [Threads -> Operations] /\ executed \in [Threads -> Operations]
    /\ ops_cnt \in [CntSlots -> Nat] /\ histogram \in [Operations -> Nat]
    /\ lock \in BOOLEAN
    /\ get_ok \in [Threads -> BOOLEAN] /\ db \subseteq Nat /\ next_key \in Nat

\* The refinement mapping.  An operation takes effect in the abstract
\* specification when its thread stores the histogram count (HistStore);
\* done_ops catches up at the unlock.  Main's program counter gives the
\* phase.
PhaseOf == CASE mpc = "start"     -> "start"
             [] mpc = "load_join" -> "load"
             [] mpc = "load_out"  -> "load_out"
             [] mpc = "run_join"  -> "run"
             [] mpc = "run_out"   -> "run_out"
             [] mpc = "end"       -> "end"
Recorded == [t \in Threads |-> done_ops[t] + IF tpc[t] = "unlock" THEN 1 ELSE 0]

Abstract == INSTANCE YCSBPhases WITH phase <- PhaseOf, done <- Recorded,
                                     hist <- histogram, total <- sum

\* The driver implements YCSBPhases: its threads' steps under the spin lock
\* are, one by one, atomic recordings of an operation of the right type,
\* every phase reports only after all its threads did their share, and the
\* benchmark moves on from every phase.
PhasesRefinement == Abstract!Spec
=============================================================================
