------------------------------ MODULE IngestRun ------------------------------
(***************************************************************************)
(* ingest_plan (ingestion.py): several runs of one contract against one    *)
(* Delta target.  The runs share the control tables of the target - its    *)
(* lock row, its single row of ctrl_ingestion_state, the log               *)
(* ctrl_ingestion_runs - and the target itself, and nothing makes a        *)
(* sequence of these accesses atomic: each statement of the orchestrator   *)
(* that reads or writes shared state is a step of its own.                 *)
(*                                                                         *)
(* A source row is a natural number, which is also its watermark value:    *)
(* the source only appends rows with growing values.  Watermark 0 is SQL   *)
(* NULL.  The target is scd0_append: it holds what the runs committed.     *)
(***************************************************************************)
EXTENDS TargetLock, FiniteSets, FiniteSetsExt

CONSTANTS
    Keys, NoKey,    \* idempotency keys, and the absence of one
    Plans,          \* the plans a run may be started with
    Watermarked,    \* the contract has watermark_columns
    Pinned,         \* prepared_df is evaluated once (cached or snapshot source)
    Bad,            \* rows that fail a quarantinable quality rule
    MaxRow,         \* bound on the rows the source ever produces
    Faults          \* what may go wrong, see FaultKinds

FaultKinds ==
    {"error",       \* an exception of a stage before the target commit
     "late_error",  \* an exception after it: optimize, governance, hook, state
     "control",     \* a swallowed failure of a control-table statement
     "interrupt",   \* KeyboardInterrupt or SystemExit in the try block
     "crash",       \* the driver disappears
     "slow"}        \* a live run outlasts its lease

Policies == {"always_run", "skip_if_success", "fail_if_success", "rerun_if_failed"}

\* quality is on_quality_fail.
PlanType == [lock : BOOLEAN, key : Keys \cup {NoKey}, policy : Policies,
             quality : {"fail", "warn", "quarantine"}]

ASSUME KeyAssumption == NoKey \notin Keys
ASSUME PlansAssumption ==
    /\ Plans \subseteq PlanType
    /\ \A p \in Plans : p.policy # "always_run" => p.key # NoKey
ASSUME ContractAssumption ==
    /\ Watermarked \in BOOLEAN
    /\ Pinned \in BOOLEAN
ASSUME BoundAssumption == MaxRow \in Nat /\ Bad \subseteq 1 .. MaxRow
ASSUME FaultsAssumption == Faults \subseteq FaultKinds

VARIABLES
    produced,    \* the source holds the rows 1 .. produced
    state,       \* the row of the target in ctrl_ingestion_state
    runLog,      \* status of the row of each run in ctrl_ingestion_runs
    quarantine,  \* rows written to ctrl_ingestion_quarantine
    commits,     \* rows each run appended to the target
    plan,        \* the plan each run was called with
    pc,          \* the next statement of each run
    status,      \* local variable status
    wmPrev,      \* local variable wm_prev
    wmCurrent,   \* local variable wm_current
    rowsRead,    \* the rows counted as rows_read
    effective,   \* local variable effective_rows
    gated,       \* prepared_df was replaced by valid_df
    saved        \* ghost: runs whose SUCCESS reached ctrl_ingestion_state

sharedVars == <<produced, state, runLog, quarantine, commits>>
localVars  == <<plan, pc, status, wmPrev, wmCurrent, rowsRead, effective, gated>>
vars == <<lockVars, sharedVars, localVars, saved>>

Rows == 1 .. MaxRow
Watermarks == 0 .. MaxRow
None == 0    \* SQL NULL, Python None

Statuses == {"SUCCESS", "FAILED", "SKIPPED"}

\* The statements inside the try block, before and after the target commit.
BeforeCommit == {"check", "lock", "read_back", "read", "prepare", "quality", "write"}
AfterCommit  == {"finish", "save"}
Handlers     == {"except", "release", "log"}
Ended        == {"done", "crashed"}
PCs == BeforeCommit \cup AfterCommit \cup Handlers \cup Ended

TypeOK ==
    /\ LockTypeOK
    /\ produced \in 0 .. MaxRow
    /\ state \in [wm : Watermarks, status : Statuses \cup {"NONE"}, run : Runs \cup {NoRun}]
    /\ runLog \in [Runs -> Statuses \cup {"NONE"}]
    /\ quarantine \subseteq Rows
    /\ commits \in [Runs -> SUBSET Rows]
    /\ plan \in [Runs -> Plans]
    /\ pc \in [Runs -> PCs]
    /\ status \in [Runs -> Statuses]
    /\ wmPrev \in [Runs -> Watermarks]
    /\ wmCurrent \in [Runs -> Watermarks]
    /\ rowsRead \in [Runs -> SUBSET Rows]
    /\ effective \in [Runs -> Int]
    /\ gated \in [Runs -> BOOLEAN]
    /\ saved \subseteq Runs
-----------------------------------------------------------------------------
(***************************************************************************)
(* What the statements compute.                                            *)
(***************************************************************************)
Target == UNION {commits[r] : r \in Runs}

\* MAX(col), NULL over no rows.
MaxOrNone(S) == IF S = {} THEN None ELSE Max(S)

\* Faulty variant of CurrentWatermark: no fallback on the target.
SavedWatermarkOnly == IF Watermarked THEN state.wm ELSE None

\* get_watermark: the saved value when there is one, else MAX over the target.
CurrentWatermark ==
    IF ~Watermarked THEN None
    ELSE IF state.wm # None THEN state.wm ELSE MaxOrNone(Target)

\* apply_watermark: the source rows strictly above the watermark.
Unread(wm) == {x \in 1 .. produced : x > wm}

\* What an evaluation of prepared_df yields now.  Without a cache or a
\* snapshot every action runs the source query again.
Prepared(r) ==
    (IF Pinned THEN rowsRead[r] ELSE Unread(wmPrev[r])) \ (IF gated[r] THEN Bad ELSE {})

\* Faulty variant of Succeeded: any logged run of the key.
Logged(r) ==
    {q \in Runs : /\ plan[r].key # NoKey
                  /\ plan[q].key = plan[r].key
                  /\ runLog[q] # "NONE"}

\* find_idempotent_run(status = "SUCCESS"): the runs of this key in the log.
Succeeded(r) ==
    {q \in Runs : /\ plan[r].key # NoKey
                  /\ plan[q].key = plan[r].key
                  /\ runLog[q] = "SUCCESS"}
-----------------------------------------------------------------------------
Init ==
    /\ LockInit
    /\ produced = 0
    /\ state = [wm |-> None, status |-> "NONE", run |-> NoRun]
    /\ runLog = [r \in Runs |-> "NONE"]
    /\ quarantine = {}
    /\ commits = [r \in Runs |-> {}]
    /\ plan \in [Runs -> Plans]
    /\ pc = [r \in Runs |-> "check"]
    /\ status = [r \in Runs |-> "SUCCESS"]
    /\ wmPrev = [r \in Runs |-> None]
    /\ wmCurrent = [r \in Runs |-> None]
    /\ rowsRead = [r \in Runs |-> {}]
    /\ effective = [r \in Runs |-> 0]
    /\ gated = [r \in Runs |-> FALSE]
    /\ saved = {}

Goto(r, label) == pc' = [pc EXCEPT ![r] = label]

\* Faulty variant of RaiseIn: status keeps its initial SUCCESS.
RaiseKeepingStatus(r) == Goto(r, "except") /\ UNCHANGED status

\* Control reaches the except clause, whose first statement sets status.
RaiseIn(r) ==
    /\ Goto(r, "except")
    /\ status' = [status EXCEPT ![r] = "FAILED"]
-----------------------------------------------------------------------------
(***************************************************************************)
(* The try block.                                                          *)
(***************************************************************************)

\* The idempotency check, made before the lock is asked for.  A failing
\* query of the log counts as no previous run.
CheckIdempotency(r) ==
    /\ pc[r] = "check"
    /\ \E previous \in {Succeeded(r)} \cup (IF "control" \in Faults THEN {{}} ELSE {}) :
          \/ /\ previous # {}
             /\ plan[r].policy \in {"skip_if_success", "rerun_if_failed"}
             /\ status' = [status EXCEPT ![r] = "SKIPPED"]
             /\ Goto(r, "release")
          \/ /\ previous # {}
             /\ plan[r].policy = "fail_if_success"
             /\ RaiseIn(r)
          \/ /\ previous = {} \/ plan[r].policy = "always_run"
             /\ Goto(r, IF plan[r].lock THEN "lock" ELSE "read")
             /\ UNCHANGED status
    /\ UNCHANGED <<lockVars, sharedVars, plan, wmPrev, wmCurrent, rowsRead, effective, gated, saved>>

AcquireLock(r) ==
    /\ pc[r] = "lock"
    /\ AcquireMerge(r)
    /\ Goto(r, "read_back")
    /\ UNCHANGED <<sharedVars, plan, status, wmPrev, wmCurrent, rowsRead, effective, gated, saved>>

\* Faulty variant of ReadBack: a run that lost the race waits for the row.
ReadBackWaiting(r) ==
    /\ pc[r] = "read_back"
    /\ ReadBackOwns(r)
    /\ Goto(r, "read")
    /\ UNCHANGED <<lockVars, sharedVars, plan, status, wmPrev, wmCurrent, rowsRead, effective, gated, saved>>

\* The second half of acquire_lock: a run that does not own the row raises.
ReadBack(r) ==
    /\ pc[r] = "read_back"
    /\ \/ ReadBackOwns(r) /\ Goto(r, "read") /\ UNCHANGED status
       \/ ~ReadBackOwns(r) /\ RaiseIn(r)
    /\ UNCHANGED <<lockVars, sharedVars, plan, wmPrev, wmCurrent, rowsRead, effective, gated, saved>>

\* get_watermark: a failing read of the state counts as no saved value.
ReadWatermark(r) ==
    /\ pc[r] = "read"
    /\ \/ wmPrev' = [wmPrev EXCEPT ![r] = CurrentWatermark]
       \/ /\ "control" \in Faults /\ Watermarked
          /\ wmPrev' = [wmPrev EXCEPT ![r] = MaxOrNone(Target)]
    /\ Goto(r, "prepare")
    /\ UNCHANGED <<lockVars, sharedVars, plan, status, wmCurrent, rowsRead, effective, gated, saved>>

\* _prepare_dataframe, the schema checks and rows_read = prepared_df.count(),
\* the first action and so the one that fills a cache.
Prepare(r) ==
    /\ pc[r] = "prepare"
    /\ rowsRead' = [rowsRead EXCEPT ![r] = Unread(wmPrev[r])]
    /\ Goto(r, "quality")
    /\ UNCHANGED <<lockVars, sharedVars, plan, status, wmPrev, wmCurrent, effective, gated, saved>>

\* evaluate_quality and the decision on its result.
EvaluateQuality(r) ==
    /\ pc[r] = "quality"
    /\ LET failed == Prepared(r) \cap Bad IN
          \/ /\ failed = {} \/ plan[r].quality = "warn"
             /\ effective' = [effective EXCEPT ![r] = Cardinality(rowsRead[r])]
             /\ Goto(r, "write")
             /\ UNCHANGED <<quarantine, gated, status>>
          \/ /\ failed # {} /\ plan[r].quality = "quarantine"
             /\ quarantine' = quarantine \cup failed
             /\ gated' = [gated EXCEPT ![r] = TRUE]
             /\ effective' = [effective EXCEPT ![r] = Cardinality(rowsRead[r]) - Cardinality(failed)]
             /\ Goto(r, "write")
             /\ UNCHANGED status
          \/ /\ failed # {} /\ plan[r].quality = "fail"
             /\ RaiseIn(r)
             /\ UNCHANGED <<quarantine, gated, effective>>
    /\ UNCHANGED <<lockVars, produced, state, runLog, commits, plan, wmPrev, wmCurrent, rowsRead, saved>>

\* execute_write_mode: nothing for zero effective rows, else one Delta commit.
Write(r) ==
    /\ pc[r] = "write"
    /\ commits' = IF effective[r] = 0 THEN commits
                  ELSE [commits EXCEPT ![r] = Prepared(r)]
    /\ Goto(r, "finish")
    /\ UNCHANGED <<lockVars, produced, state, runLog, quarantine, plan, status, wmPrev, wmCurrent,
                   rowsRead, effective, gated, saved>>

\* wm_current is computed from prepared_df again; governance, after_write.
Finish(r) ==
    /\ pc[r] = "finish"
    /\ wmCurrent' = [wmCurrent EXCEPT ![r] =
                        IF Watermarked /\ rowsRead[r] # {}
                        THEN MaxOrNone(Prepared(r)) ELSE wmPrev[r]]
    /\ Goto(r, "save")
    /\ UNCHANGED <<lockVars, sharedVars, plan, status, wmPrev, rowsRead, effective, gated, saved>>

\* upsert_state replaces the whole row of the target.
SaveState(r) ==
    /\ pc[r] = "save"
    /\ state' = [wm |-> wmCurrent[r], status |-> "SUCCESS", run |-> r]
    /\ saved' = saved \cup {r}
    /\ Goto(r, "release")
    /\ UNCHANGED <<lockVars, produced, runLog, quarantine, commits, plan, status, wmPrev, wmCurrent,
                   rowsRead, effective, gated>>

\* A stage of the try block raises an Exception.
Raise(r) ==
    /\ \/ "error" \in Faults /\ pc[r] \in BeforeCommit \ {"check"}
       \/ "late_error" \in Faults /\ pc[r] \in AfterCommit
    /\ RaiseIn(r)
    /\ UNCHANGED <<lockVars, sharedVars, plan, wmPrev, wmCurrent, rowsRead, effective, gated, saved>>

\* A BaseException that is not an Exception passes the except clause by.
Interrupt(r) ==
    /\ "interrupt" \in Faults
    /\ pc[r] \in BeforeCommit \cup AfterCommit \cup {"except"}
    /\ Goto(r, "release")
    /\ UNCHANGED <<lockVars, sharedVars, plan, status, wmPrev, wmCurrent, rowsRead, effective, gated, saved>>
-----------------------------------------------------------------------------
(***************************************************************************)
(* The except and finally clauses.                                         *)
(***************************************************************************)

\* Faulty variant of FailedWatermark: the candidate of the failed run.
FailedCandidate(r) == MaxOrNone(rowsRead[r])

\* The watermark_value of the failed state: whatever wm_prev holds, which is
\* None until the run has read the watermark.
FailedWatermark(r) == wmPrev[r]

RecordFailure(r) ==
    /\ pc[r] = "except"
    /\ \/ state' = [wm |-> FailedWatermark(r), status |-> "FAILED", run |-> r]
       \/ "control" \in Faults /\ UNCHANGED state
    /\ Goto(r, "release")
    /\ UNCHANGED <<lockVars, produced, runLog, quarantine, commits, plan, status, wmPrev, wmCurrent,
                   rowsRead, effective, gated, saved>>

ReleaseLock(r) ==
    /\ pc[r] = "release"
    /\ IF plan[r].lock
       THEN \/ ReleaseUpdate(r)
            \/ "control" \in Faults /\ UNCHANGED lockVars
       ELSE UNCHANGED lockVars
    /\ Goto(r, "log")
    /\ UNCHANGED <<sharedVars, plan, status, wmPrev, wmCurrent, rowsRead, effective, gated, saved>>

\* _finalize_execution: the row of the run in ctrl_ingestion_runs.
LogRun(r) ==
    /\ pc[r] = "log"
    /\ \/ runLog' = [runLog EXCEPT ![r] = status[r]]
       \/ "control" \in Faults /\ UNCHANGED runLog
    /\ Goto(r, "done")
    /\ UNCHANGED <<lockVars, produced, state, quarantine, commits, plan, status, wmPrev, wmCurrent,
                   rowsRead, effective, gated, saved>>
-----------------------------------------------------------------------------
(***************************************************************************)
(* The environment.                                                        *)
(***************************************************************************)
Crash(r) ==
    /\ "crash" \in Faults
    /\ pc[r] \notin Ended
    /\ Goto(r, "crashed")
    /\ UNCHANGED <<lockVars, sharedVars, plan, status, wmPrev, wmCurrent, rowsRead, effective, gated, saved>>

\* Unless runs may be slow, a live run is done with its lock before the TTL.
MayElapse(r) == pc[r] \in Ended \/ lease[r] # 0

Tick ==
    /\ lock.status = "ACTIVE" /\ lock.left >= 0
    /\ "slow" \in Faults \/ \A r \in Runs : MayElapse(r)
    /\ TimePasses
    /\ UNCHANGED <<sharedVars, localVars, saved>>

Emit ==
    /\ produced < MaxRow
    /\ produced' = produced + 1
    /\ UNCHANGED <<lockVars, state, runLog, quarantine, commits, localVars, saved>>

Advance(r) ==
    \/ CheckIdempotency(r) \/ AcquireLock(r) \/ ReadBack(r) \/ ReadWatermark(r)
    \/ Prepare(r) \/ EvaluateQuality(r) \/ Write(r) \/ Finish(r) \/ SaveState(r)
    \/ RecordFailure(r) \/ ReleaseLock(r) \/ LogRun(r)

Next ==
    \/ \E r \in Runs : Advance(r) \/ Raise(r) \/ Interrupt(r) \/ Crash(r)
    \/ Tick
    \/ Emit

Spec == Init /\ [][Next]_vars

(***************************************************************************)
(* The driver executes the statements of a live run, and clocks run.       *)
(* Nothing obliges a stage to fail, a driver to die or a source to grow.   *)
(***************************************************************************)
Fairness == WF_vars(Tick) /\ \A r \in Runs : WF_vars(Advance(r))

FairSpec == Spec /\ Fairness
-----------------------------------------------------------------------------
(***************************************************************************)
(* Correctness.                                                            *)
(***************************************************************************)

\* The statements that read and write the target under the lock.
Critical(r) ==
    plan[r].lock /\ pc[r] \in {"read", "prepare", "quality", "write"} \cup AfterCommit

\* Two locked runs are never at the target at the same time while both are
\* within the lease acquire_lock granted them, whatever fails around them.
LeaseExclusion ==
    \A r, q \in Runs :
        Critical(r) /\ Critical(q) /\ lease[r] >= 0 /\ lease[q] >= 0 => r = q

\* The lock row as a lease: runs hold it until they return it or it expires.
Holder == IF Takeable THEN NoRun ELSE lock.run

TargetLease == INSTANCE Lease WITH
    Clients <- Runs,
    Nobody  <- NoRun,
    holder  <- Holder,
    inside  <- {r \in Runs : Critical(r)},
    overdue <- {r \in Runs : Critical(r) /\ lease[r] < 0}

\* acquire_lock and release_lock, as the runs use them, implement a lease:
\* nobody is granted it while it is held, nobody enters without it, and it is
\* returned only by the run that holds it, after that run has left.
ImplementsLease == TargetLease!Spec

\* When the TTL outlasts the runs, a locked run at the target is alone there.
\* The docstring of acquire_lock sees a window between its MERGE and its
\* read-back.  None is left here because the MERGE is one serializable commit,
\* which changes an ACTIVE row only after its expiry.
ExclusiveAccess ==
    "slow" \notin Faults =>
        \A r, q \in Runs : Critical(r) /\ Critical(q) => r = q

\* No row is skipped: what the next get_watermark will treat as already
\* ingested has been appended to the target or quarantined, in spite of
\* failures, crashes, interrupts, lost locks and overwritten state rows.
NoRowLost == \A x \in 1 .. CurrentWatermark : x \in Target \cup quarantine

\* A row is never appended by two runs that both saved SUCCESS: duplicates
\* come from a run whose commit was followed by a failure, and only then.
SuccessfulRunsDisjoint ==
    \A r, q \in saved : r # q => commits[r] \cap commits[q] = {}

\* The log of runs says SUCCESS of exactly the logged runs that saved their
\* state: a target write followed by a failure is visible as FAILED.
RunLogTruthful ==
    \A r \in Runs : runLog[r] # "NONE" => (runLog[r] = "SUCCESS" <=> r \in saved)

\* skip_if_success skips a run only if a run of the same key did the work.
SkippedWorkIsDone ==
    \A r \in Runs : status[r] = "SKIPPED" =>
        \E q \in saved : q # r /\ plan[q].key = plan[r].key

\* A successful upsert_state never moves the watermark back, so a run that
\* read an older watermark does not undo a newer run's progress.
SuccessNeverRegresses ==
    [][saved' # saved => CurrentWatermark' >= CurrentWatermark]_vars

\* A run that failed leaves the saved watermark where it was, as upsert_state
\* promises of status FAILED.
FailureKeepsWatermark ==
    [][state'.status = "FAILED" => state'.wm = state.wm]_state

\* Every run comes to its end, successful or not.
EveryRunEnds == \A r \in Runs : <>(pc[r] \in Ended)

\* The lock of the target is always free again later, although a crash or a
\* swallowed failure of release_lock leaves it ACTIVE.
LockComesFree == []<>Takeable
=============================================================================
