------------------------------ MODULE StreamRun ------------------------------
(***************************************************************************)
(* ingest_stream_plan (streaming.py): successive or concurrent executions  *)
(* of one Auto Loader contract over one checkpoint and one target.  Each   *)
(* execution is two processes: the driver thread, which guards, logs and   *)
(* waits, and the streaming query, which calls _process_batch back for     *)
(* every micro-batch and records the batch in the checkpoint afterwards.   *)
(*                                                                         *)
(* The source is a growing list of files.  Batch n of the checkpoint is    *)
(* the files after offsets[n - 1] up to offsets[n], fixed once planned and *)
(* delivered again, unchanged, when it was not committed.  ingest_plan is  *)
(* reduced to what the stream depends on: key lookup, commit, result, log; *)
(* IngestRun has the rest.                                                 *)
(***************************************************************************)
EXTENDS TargetLock, Sequences, FiniteSets

CONSTANTS
    Keys, NoKey,   \* values of the contract's idempotency_key, and none
    Deployments,   \* where the streams may run, see DeploymentOK
    MaxFile        \* bound on the files that ever arrive

FaultKinds ==
    {"error",       \* a stage of the driver or of a batch before its commit fails
     "late_error",  \* a batch fails after its target commit
     "control",     \* a control-table statement fails
     "interrupt",   \* KeyboardInterrupt or SystemExit in the driver thread
     "crash",       \* the driver process disappears, its query with it
     "slow"}        \* a live stream outlasts its lease

Policies == {"always_run", "skip_if_success", "fail_if_success", "rerun_if_failed"}

StreamPlanType == [lock : BOOLEAN, key : Keys \cup {NoKey}, policy : Policies]

ASSUME StreamKeyAssumption == NoKey \notin Keys

\* A deployment: the plans a stream may be started with, whether the callback
\* fills the driver's own batch_results, and what may go wrong.
DeploymentOK(d) ==
    /\ d.plans \subseteq StreamPlanType
    /\ \A p \in d.plans : p.policy # "always_run" => p.key # NoKey
    /\ d.seesCallback \in BOOLEAN
    /\ d.faults \subseteq FaultKinds

ASSUME DeploymentsAssumption == \A d \in Deployments : DeploymentOK(d)
ASSUME FilesAssumption == MaxFile \in Nat

VARIABLES
    deployment, \* the member of Deployments
    arrived,    \* the files 1 .. arrived are in the source path
    offsets,    \* offset log of the checkpoint: last file of each planned batch
    committed,  \* commit log of the checkpoint: number of committed batches
    streamLog,  \* status of each stream in ctrl_ingestion_streams
    childLog,   \* status of the run of each batch in ctrl_ingestion_runs
    appended,   \* the batches each stream's callback appended to the target
    plan,       \* the plan each stream was called with
    pc,         \* the next statement of the driver thread
    status,     \* local variable status
    logged,     \* local variable stream_logged
    owns,       \* local variable lock_acquired
    results,    \* length of local variable batch_results
    measured,   \* local variable stream_metrics, its batches_processed
    query,      \* where the streaming query is
    upto,       \* last file of the query's available_now snapshot
    result      \* status the current batch's ingest_plan will return

storeVars == <<deployment, arrived, offsets, committed, streamLog, childLog, appended>>
driverVars == <<plan, pc, status, logged, owns, results, measured>>
queryVars == <<query, upto, result>>
vars == <<lockVars, storeVars, driverVars, queryVars>>

Batches == 1 .. MaxFile
ChildStatuses == {"SUCCESS", "FAILED", "SKIPPED"}
StreamStatuses == ChildStatuses \cup {"RUNNING"}
DriverPCs == {"check", "log_skip", "log_start", "lock", "read_back", "start", "await",
              "release", "measure", "relog", "finish", "done", "crashed"}
InBatch == {"key", "write", "save", "log", "return"}
QueryPCs == {"none", "next", "ended", "failed"} \cup InBatch
Ended == {"done", "crashed"}

TypeOK ==
    /\ LockTypeOK
    /\ arrived \in 0 .. MaxFile
    /\ offsets \in Seq(1 .. MaxFile) /\ Len(offsets) <= MaxFile
    /\ committed \in 0 .. Len(offsets) /\ Len(offsets) <= committed + 1
    /\ streamLog \in [Runs -> StreamStatuses \cup {"NONE"}]
    /\ childLog \in [Runs -> [Batches -> ChildStatuses \cup {"NONE"}]]
    /\ appended \in [Runs -> SUBSET Batches]
    /\ deployment \in Deployments
    /\ plan \in [Runs -> deployment.plans]
    /\ pc \in [Runs -> DriverPCs]
    /\ status \in [Runs -> ChildStatuses]
    /\ logged \in [Runs -> BOOLEAN]
    /\ owns \in [Runs -> BOOLEAN]
    /\ results \in [Runs -> 0 .. MaxFile]
    /\ measured \in [Runs -> 0 .. MaxFile]
    /\ query \in [Runs -> QueryPCs]
    /\ upto \in [Runs -> 0 .. MaxFile]
    /\ result \in [Runs -> ChildStatuses]
-----------------------------------------------------------------------------
LastOffset == IF offsets = <<>> THEN 0 ELSE offsets[Len(offsets)]

\* The last file of the committed batches.
Consumed == IF committed = 0 THEN 0 ELSE offsets[committed]

\* The batch the checkpoint will commit next.
Current == committed + 1

Planned == Len(offsets) = Current

\* A query is at work on the checkpoint.
Live(s) == query[s] \in {"next"} \cup InBatch

\* Faulty variant of BatchKey: the batch is not part of the key.
BatchKeyWithoutId(s, n) ==
    <<IF plan[s].key # NoKey THEN plan[s].key ELSE s, 1>>

\* Faulty variant of BatchKey: the prefix is always the stream_run_id.
BatchKeyPerStream(s, n) == <<s, n>>

\* The key of the run of batch n: prefixed by the contract's key, or by the
\* stream_run_id when the contract has none.
BatchKey(s, n) == <<IF plan[s].key # NoKey THEN plan[s].key ELSE s, n>>

\* find_idempotent_run on the key of a batch.
BatchSucceeded(s, n) ==
    \E t \in Runs, m \in Batches :
        BatchKey(t, m) = BatchKey(s, n) /\ childLog[t][m] = "SUCCESS"

\* find_idempotent_stream(status = "SUCCESS").
StreamSucceeded(s) ==
    \E t \in Runs : /\ plan[s].key # NoKey /\ plan[t].key = plan[s].key
                    /\ streamLog[t] = "SUCCESS"

\* stream_child_run_metrics: the logged runs with this parent_run_id.
Children(s) == Cardinality({n \in Batches : childLog[s][n] # "NONE"})

\* Faulty variant of StreamMetrics: the local results only.
LocalMetrics(s, child) == results[s]

\* _prefer_child_stream_metrics, counting batches.
StreamMetrics(s, child) ==
    IF child > 0 /\ child > results[s] THEN child ELSE results[s]

Goto(s, label) == pc' = [pc EXCEPT ![s] = label]
QueryAt(s, place) == query' = [query EXCEPT ![s] = place]

\* Faulty variant of RaiseIn: status keeps its initial SUCCESS.
RaiseKeepingStatus(s) == Goto(s, "release") /\ UNCHANGED status

\* except Exception: status FAILED, then the finally clause.
RaiseIn(s) ==
    /\ Goto(s, "release")
    /\ status' = [status EXCEPT ![s] = "FAILED"]

Init ==
    /\ LockInit
    /\ arrived = 0 /\ offsets = <<>> /\ committed = 0
    /\ streamLog = [s \in Runs |-> "NONE"]
    /\ childLog = [s \in Runs |-> [n \in Batches |-> "NONE"]]
    /\ appended = [s \in Runs |-> {}]
    /\ deployment \in Deployments
    /\ plan \in [Runs -> deployment.plans]
    /\ pc = [s \in Runs |-> "check"]
    /\ status = [s \in Runs |-> "SUCCESS"]
    /\ logged = [s \in Runs |-> FALSE]
    /\ owns = [s \in Runs |-> FALSE]
    /\ results = [s \in Runs |-> 0]
    /\ measured = [s \in Runs |-> 0]
    /\ query = [s \in Runs |-> "none"]
    /\ upto = [s \in Runs |-> 0]
    /\ result = [s \in Runs |-> "SUCCESS"]
-----------------------------------------------------------------------------
(***************************************************************************)
(* The driver thread.                                                      *)
(***************************************************************************)

\* A failing lookup counts as no previous stream.
CheckStream(s) ==
    /\ pc[s] = "check"
    /\ \E before \in {StreamSucceeded(s)} \cup (IF "control" \in deployment.faults THEN {FALSE} ELSE {}) :
          \/ /\ before /\ plan[s].policy \in {"skip_if_success", "rerun_if_failed"}
             /\ status' = [status EXCEPT ![s] = "SKIPPED"]
             /\ Goto(s, "log_skip")
          \/ before /\ plan[s].policy = "fail_if_success" /\ RaiseIn(s)
          \/ /\ ~before \/ plan[s].policy = "always_run"
             /\ Goto(s, "log_start")
             /\ UNCHANGED status
    /\ UNCHANGED <<lockVars, storeVars, plan, logged, owns, results, measured, queryVars>>

\* log_stream_start, of a skipped stream or of one that starts.  Unlike most
\* statements on the control tables its failure is not swallowed.
LogStart(s) ==
    /\ pc[s] \in {"log_skip", "log_start"}
    /\ \/ /\ streamLog' = [streamLog EXCEPT ![s] = IF pc[s] = "log_skip" THEN "SKIPPED" ELSE "RUNNING"]
          /\ logged' = [logged EXCEPT ![s] = TRUE]
          /\ Goto(s, IF pc[s] = "log_skip" THEN "release" ELSE IF plan[s].lock THEN "lock" ELSE "start")
          /\ UNCHANGED status
       \/ /\ "control" \in deployment.faults
          /\ RaiseIn(s)
          /\ UNCHANGED <<streamLog, logged>>
    /\ UNCHANGED <<lockVars, deployment, arrived, offsets, committed, childLog, appended, plan,
                   owns, results, measured, queryVars>>

AcquireLock(s) ==
    /\ pc[s] = "lock"
    /\ AcquireMerge(s)
    /\ Goto(s, "read_back")
    /\ UNCHANGED <<storeVars, plan, status, logged, owns, results, measured, queryVars>>

ReadBack(s) ==
    /\ pc[s] = "read_back"
    /\ \/ /\ ReadBackOwns(s)
          /\ owns' = [owns EXCEPT ![s] = TRUE]
          /\ Goto(s, "start")
          /\ UNCHANGED status
       \/ ~ReadBackOwns(s) /\ RaiseIn(s) /\ UNCHANGED owns
    /\ UNCHANGED <<lockVars, storeVars, plan, logged, results, measured, queryVars>>

\* writeStream ... trigger(availableNow=True).start().  Spark lets one query
\* at a time work on a checkpoint.
StartQuery(s) ==
    /\ pc[s] = "start"
    /\ IF \E t \in Runs : Live(t)
       THEN RaiseIn(s) /\ UNCHANGED <<query, upto>>
       ELSE /\ QueryAt(s, "next")
            /\ upto' = [upto EXCEPT ![s] = arrived]
            /\ Goto(s, "await")
            /\ UNCHANGED status
    /\ UNCHANGED <<lockVars, storeVars, plan, logged, owns, results, measured, result>>

\* query.awaitTermination() returns, or raises what ended the query.
AwaitTermination(s) ==
    /\ pc[s] = "await"
    /\ \/ query[s] = "ended" /\ Goto(s, "release") /\ UNCHANGED status
       \/ query[s] = "failed" /\ RaiseIn(s)
    /\ UNCHANGED <<lockVars, storeVars, plan, logged, owns, results, measured, queryVars>>

ReleaseLock(s) ==
    /\ pc[s] = "release"
    /\ IF owns[s]
       THEN \/ ReleaseUpdate(s)
            \/ "control" \in deployment.faults /\ UNCHANGED lockVars
       ELSE UNCHANGED lockVars
    /\ Goto(s, "measure")
    /\ UNCHANGED <<storeVars, plan, status, logged, owns, results, measured, queryVars>>

\* The metrics of a skipped stream are the local ones; a failing query of the
\* child runs yields zero.
Measure(s) ==
    /\ pc[s] = "measure"
    /\ \E child \in {Children(s)} \cup (IF "control" \in deployment.faults THEN {0} ELSE {}) :
          measured' = [measured EXCEPT ![s] =
                          IF status[s] = "SKIPPED" THEN results[s] ELSE StreamMetrics(s, child)]
    /\ Goto(s, IF logged[s] THEN "finish" ELSE "relog")
    /\ UNCHANGED <<lockVars, storeVars, plan, status, logged, owns, results, queryVars>>

\* The start of a stream that failed before it was logged.
LogLateStart(s) ==
    /\ pc[s] = "relog"
    /\ \/ /\ streamLog' = [streamLog EXCEPT ![s] = status[s]]
          /\ logged' = [logged EXCEPT ![s] = TRUE]
       \/ "control" \in deployment.faults /\ UNCHANGED <<streamLog, logged>>
    /\ Goto(s, "finish")
    /\ UNCHANGED <<lockVars, deployment, arrived, offsets, committed, childLog, appended, plan,
                   status, owns, results, measured, queryVars>>

\* log_stream_finish updates the row of the stream, if there is one.
LogFinish(s) ==
    /\ pc[s] = "finish"
    /\ \/ streamLog' = [streamLog EXCEPT ![s] = IF @ = "NONE" THEN "NONE" ELSE status[s]]
       \/ "control" \in deployment.faults /\ UNCHANGED streamLog
    /\ Goto(s, "done")
    /\ UNCHANGED <<lockVars, deployment, arrived, offsets, committed, childLog, appended, plan,
                   status, logged, owns, results, measured, queryVars>>

\* The source cannot be resolved, or the query cannot be started.
RaiseBeforeQuery(s) ==
    /\ "error" \in deployment.faults
    /\ pc[s] \in {"lock", "read_back", "start"}
    /\ RaiseIn(s)
    /\ UNCHANGED <<lockVars, storeVars, plan, logged, owns, results, measured, queryVars>>

\* The driver thread leaves the try block; the query, if any, runs on.
Interrupt(s) ==
    /\ "interrupt" \in deployment.faults
    /\ pc[s] \in {"check", "log_skip", "log_start", "lock", "read_back", "start", "await"}
    /\ Goto(s, "release")
    /\ UNCHANGED <<lockVars, storeVars, plan, status, logged, owns, results, measured, queryVars>>
-----------------------------------------------------------------------------
(***************************************************************************)
(* The streaming query and the callback _process_batch.                    *)
(***************************************************************************)

\* The driver thread is past acquire_lock and before release_lock.
AtTarget(s) == plan[s].lock /\ pc[s] \in {"start", "await"}

\* The next micro-batch: the planned one that was not committed, or some of
\* the files of the snapshot.
NextBatch(s) ==
    /\ query[s] = "next"
    /\ \/ Planned /\ UNCHANGED offsets
       \/ /\ ~Planned
          /\ \E last \in LastOffset + 1 .. upto[s] : offsets' = Append(offsets, last)
    /\ QueryAt(s, "key")
    /\ UNCHANGED <<lockVars, deployment, arrived, committed, streamLog, childLog, appended,
                   driverVars, upto, result>>

EndQuery(s) ==
    /\ query[s] = "next"
    /\ ~Planned /\ LastOffset >= upto[s]
    /\ QueryAt(s, "ended")
    /\ UNCHANGED <<lockVars, storeVars, driverVars, upto, result>>

\* The run of the batch looks its key up; its policy is skip_if_success.
BatchCheckKey(s) ==
    /\ query[s] = "key"
    /\ \E before \in {BatchSucceeded(s, Current)}
                       \cup (IF "control" \in deployment.faults THEN {FALSE} ELSE {}) :
          /\ result' = [result EXCEPT ![s] = IF before THEN "SKIPPED" ELSE "SUCCESS"]
          /\ QueryAt(s, IF before THEN "log" ELSE "write")
    /\ UNCHANGED <<lockVars, storeVars, driverVars, upto>>

BatchWrite(s) ==
    /\ query[s] = "write"
    /\ appended' = [appended EXCEPT ![s] = @ \cup {Current}]
    /\ QueryAt(s, "save")
    /\ UNCHANGED <<lockVars, deployment, arrived, offsets, committed, streamLog, childLog,
                   driverVars, upto, result>>

\* upsert_state of the batch; the state row is in IngestRun.
BatchSave(s) ==
    /\ query[s] = "save"
    /\ QueryAt(s, "log")
    /\ UNCHANGED <<lockVars, storeVars, driverVars, upto, result>>

\* A stage of the batch's ingest_plan raises: its run becomes FAILED.
BatchFails(s) ==
    /\ \/ "error" \in deployment.faults /\ query[s] = "write"
       \/ "late_error" \in deployment.faults /\ query[s] = "save"
    /\ result' = [result EXCEPT ![s] = "FAILED"]
    /\ QueryAt(s, "log")
    /\ UNCHANGED <<lockVars, storeVars, driverVars, upto>>

BatchLog(s) ==
    /\ query[s] = "log"
    /\ \/ childLog' = [childLog EXCEPT ![s][Current] = result[s]]
       \/ "control" \in deployment.faults /\ UNCHANGED childLog
    /\ QueryAt(s, "return")
    /\ UNCHANGED <<lockVars, deployment, arrived, offsets, committed, streamLog, appended,
                   driverVars, upto, result>>

CountResult(s) ==
    results' = IF deployment.seesCallback THEN [results EXCEPT ![s] = @ + 1] ELSE results

\* Faulty variant of BatchReturn: a failed batch is tried again at once.
BatchReturnRetrying(s) ==
    /\ query[s] = "return"
    /\ \/ /\ result[s] = "FAILED" /\ QueryAt(s, "key") /\ UNCHANGED <<results, committed>>
       \/ /\ result[s] # "FAILED" /\ CountResult(s)
          /\ committed' = committed + 1 /\ QueryAt(s, "next")
    /\ UNCHANGED <<lockVars, deployment, arrived, offsets, streamLog, childLog, appended, plan, pc,
                   status, logged, owns, measured, upto, result>>

\* The callback returns and the query commits the batch, or it raises because
\* the run of the batch failed and the query fails with it.
BatchReturn(s) ==
    /\ query[s] = "return"
    /\ CountResult(s)
    /\ \/ result[s] = "FAILED" /\ QueryAt(s, "failed") /\ UNCHANGED committed
       \/ result[s] # "FAILED" /\ committed' = committed + 1 /\ QueryAt(s, "next")
    /\ UNCHANGED <<lockVars, deployment, arrived, offsets, streamLog, childLog, appended, plan, pc,
                   status, logged, owns, measured, upto, result>>

\* The query itself fails between two batches, for instance in its source.
QueryFails(s) ==
    /\ "error" \in deployment.faults
    /\ query[s] = "next"
    /\ QueryAt(s, "failed")
    /\ UNCHANGED <<lockVars, storeVars, driverVars, upto, result>>
-----------------------------------------------------------------------------
\* The process ends, in the middle or after the driver thread has returned,
\* and takes a query that is still at work with it.
Crash(s) ==
    /\ "crash" \in deployment.faults
    /\ pc[s] \notin Ended \/ Live(s)
    /\ Goto(s, IF pc[s] = "done" THEN "done" ELSE "crashed")
    /\ query' = IF Live(s) THEN [query EXCEPT ![s] = "failed"] ELSE query
    /\ UNCHANGED <<lockVars, storeVars, plan, status, logged, owns, results, measured, upto,
                   result>>

\* Unless streams may be slow, a live one is done with its lock before the TTL.
MayElapse(s) == pc[s] \in Ended \/ lease[s] # 0

Tick ==
    /\ lock.status = "ACTIVE" /\ lock.left >= 0
    /\ "slow" \in deployment.faults \/ \A s \in Runs : MayElapse(s)
    /\ TimePasses
    /\ UNCHANGED <<storeVars, driverVars, queryVars>>

FileArrives ==
    /\ arrived < MaxFile
    /\ arrived' = arrived + 1
    /\ UNCHANGED <<lockVars, deployment, offsets, committed, streamLog, childLog, appended,
                   driverVars, queryVars>>

Drive(s) ==
    \/ CheckStream(s) \/ LogStart(s) \/ AcquireLock(s) \/ ReadBack(s) \/ StartQuery(s)
    \/ AwaitTermination(s) \/ ReleaseLock(s) \/ Measure(s) \/ LogLateStart(s) \/ LogFinish(s)

Process(s) ==
    \/ NextBatch(s) \/ EndQuery(s) \/ BatchCheckKey(s) \/ BatchWrite(s) \/ BatchSave(s)
    \/ BatchFails(s) \/ BatchLog(s) \/ BatchReturn(s)

Next ==
    \/ \E s \in Runs : \/ Drive(s) \/ Process(s)
                       \/ RaiseBeforeQuery(s) \/ Interrupt(s) \/ QueryFails(s) \/ Crash(s)
    \/ Tick
    \/ FileArrives

Spec == Init /\ [][Next]_vars

(***************************************************************************)
(* Live drivers and live queries go on, and clocks run.                    *)
(***************************************************************************)
Fairness ==
    /\ WF_vars(Tick)
    /\ \A s \in Runs : WF_vars(Drive(s)) /\ WF_vars(Process(s))

FairSpec == Spec /\ Fairness
-----------------------------------------------------------------------------
(***************************************************************************)
(* Correctness.                                                            *)
(***************************************************************************)

\* A committed batch is in the target, although it may have been delivered
\* several times, under several keys, and skipped the last time.
NoBatchLost == \A n \in 1 .. committed : \E s \in Runs : n \in appended[s]

\* The faults of the deployment leave the control tables readable, the driver
\* thread in charge of its query and every lease longer than its stream.
Undisturbed == deployment.faults \cap {"control", "interrupt", "slow"} = {}

\* Keys per batch keep a rerun from ingesting a batch again: two streams with
\* the same key in their contract never both log a success of one batch. A
\* stream without one prefixes its batches with its stream_run_id, and repeats
\* a batch that was logged and not committed.
NoDuplicateReruns ==
    Undisturbed => \A s, t \in Runs, n \in Batches :
        s # t /\ childLog[s][n] = "SUCCESS" /\ childLog[t][n] = "SUCCESS" =>
            plan[s].key = NoKey \/ plan[s].key # plan[t].key

\* A stream logged as SUCCESS has ingested every file that was there when its
\* query started, whatever happened to the streams before it.
SuccessIsComplete ==
    "interrupt" \notin deployment.faults => \A s \in Runs :
        streamLog[s] = "SUCCESS" => query[s] = "ended" /\ Consumed >= upto[s]

\* The batches_processed of a stream are the batches of its query, failed ones
\* included, although the driver may not see what the callback did.
MetricsComplete ==
    Undisturbed => \A s \in Runs :
        pc[s] \in {"relog", "finish", "done"} => measured[s] = Children(s)

\* The batches take no lock themselves: they are at the target only while the
\* lock row belongs to their stream.
BatchesUnderLock ==
    Undisturbed => \A s \in Runs : plan[s].lock /\ query[s] \in InBatch => ReadBackOwns(s)

\* The lock row as a lease, held by the driver thread of a stream.
TargetLease == INSTANCE Lease WITH
    Clients <- Runs,
    Nobody  <- NoRun,
    holder  <- IF Takeable THEN NoRun ELSE lock.run,
    inside  <- {s \in Runs : AtTarget(s)},
    overdue <- {s \in Runs : AtTarget(s) /\ lease[s] < 0}

\* The lock as the streams use it implements a lease as well.
ImplementsLease == TargetLease!Spec

\* Every stream comes to its end, although files keep arriving.
EveryStreamEnds == \A s \in Runs : <>(pc[s] \in Ended)
=============================================================================
