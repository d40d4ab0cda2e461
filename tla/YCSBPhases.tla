----------------------------- MODULE YCSBPhases -----------------------------
(***************************************************************************)
(* What the YCSB-C driver (ycsbc.cc) promises, stated without threads'    *)
(* steps: a load phase and a run phase; in each, every client thread       *)
(* performs its share of operations, each recorded atomically in the      *)
(* histogram of its operation type; main reports a phase only once every  *)
(* thread has done its share, then clears the histograms for the next.    *)
(***************************************************************************)
EXTENDS Integers, Functions, Folds

CONSTANTS NumThreads, RecordCount, OperationCount, Mix

Threads == 1..NumThreads
Operations == {"INSERT", "READ", "UPDATE", "SCAN", "READMODIFYWRITE"}
Phases == {"start", "load", "load_out", "run", "run_out", "end"}

VARIABLES phase,   \* where main is
          done,    \* operations each thread has completed in this phase
          hist,    \* latencies recorded per operation type
          total    \* the number of operations main reported last

vars == <<phase, done, hist, total>>

Share == (IF phase = "load" THEN RecordCount ELSE OperationCount) \div NumThreads

Init ==
    /\ phase = "start"
    /\ done = [t \in Threads |-> 0]
    /\ hist = [o \in Operations |-> 0]
    /\ total = 0

Begin ==
    /\ phase = "start"
    /\ phase' = "load"
    /\ UNCHANGED <<done, hist, total>>

\* Thread t performs and records one operation: an insert while loading,
\* any operation of the mix while running.
Op(t) ==
    /\ phase \in {"load", "run"}
    /\ done[t] < Share
    /\ \E op \in IF phase = "load" THEN {"INSERT"} ELSE Mix :
          hist' = [hist EXCEPT ![op] = @ + 1]
    /\ done' = [done EXCEPT ![t] = @ + 1]
    /\ UNCHANGED <<phase, total>>

Report ==
    /\ phase \in {"load", "run"}
    /\ \A t \in Threads : done[t] = Share
    /\ total' = FoldFunctionOnSet(+, 0, done, Threads)
    /\ phase' = IF phase = "load" THEN "load_out" ELSE "run_out"
    /\ UNCHANGED <<done, hist>>

StartRun ==
    /\ phase = "load_out"
    /\ phase' = "run"
    /\ done' = [t \in Threads |-> 0]
    /\ hist' = [o \in Operations |-> 0]
    /\ UNCHANGED total

Exit ==
    /\ phase = "run_out"
    /\ phase' = "end"
    /\ UNCHANGED <<done, hist, total>>

Next == Begin \/ (\E t \in Threads : Op(t)) \/ Report \/ StartRun \/ Exit

Spec == Init /\ [][Next]_vars /\ WF_vars(Next)
=============================================================================
