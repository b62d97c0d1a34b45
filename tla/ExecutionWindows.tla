--------------------------- MODULE ExecutionWindows ---------------------------
(***************************************************************************)
(* ingest_execution_plan (execution.py): backfill and catchup as sequences *)
(* of child runs, one per window, next to ordinary runs of ingest_plan on  *)
(* the same target.  An execution resolves its windows once, from the plan *)
(* or from the saved watermark, and runs a child per window: each one      *)
(* looks its key up, reads the watermark, commits, saves its watermark     *)
(* over the single state row of the target and is logged.                  *)
(*                                                                         *)
(* A source row is its event time, which is also its watermark value; 0 is *)
(* NULL.  The lock and the stages of a child are in IngestRun.             *)
(***************************************************************************)
EXTENDS TimeWindows, FiniteSets, FiniteSetsExt

CONSTANTS
    Executions,     \* calls of ingest on the target
    Contracts,      \* what a behaviour may be about: the plans its executions
                    \* may be called with, whether they may overlap, and the
                    \* faults they may meet
    NoKey,          \* the absence of an idempotency_key
    MaxTime         \* bound on the event times

None == 0

(***************************************************************************)
(* Plans: kind "plain" has no execution section and no windows; "window"   *)
(* has start, end and every; "explicit" has a list without labels, and no  *)
(* window of it goes beyond end; "catchup" has end, every and a start or   *)
(* None.  watermarked: the contract has watermark_columns, catchup requires*)
(* it.                                                                     *)
(***************************************************************************)
PlanOK(p) ==
    /\ p.kind \in {"plain", "window", "explicit", "catchup"}
    /\ {p.watermarked, p.stopOnFailure} \subseteq BOOLEAN
    /\ p.policy \in {"always_run", "skip_if_success", "fail_if_success", "rerun_if_failed"}
    /\ p.policy # "always_run" => p.key # NoKey
    /\ {p.start, p.end} \subseteq Nat /\ p.every \in Durations
    /\ p.list \in Seq(Nat \X Nat) /\ (p.kind = "explicit" => p.list # <<>>)
    /\ \A i \in DOMAIN p.list : p.list[i][2] <= p.end
    /\ p.kind = "catchup" => p.watermarked

ASSUME ContractsAssumption ==
    \A c \in Contracts :
        /\ \A p \in c.plans : PlanOK(p)
        /\ c.overlap \in BOOLEAN
        /\ c.faults \subseteq {"error",       \* a child fails before its target commit
                              "late_error",  \* a child fails after it
                              "control",     \* a statement on a control table fails
                              "crash"}       \* the driver process disappears
ASSUME TimeAssumption == MaxTime \in Nat

VARIABLES
    contract,  \* the member of Contracts
    source,    \* the rows that have arrived
    state,     \* watermark_value of the target in ctrl_ingestion_state
    runLog,    \* the child runs in ctrl_ingestion_runs
    appended,  \* the rows each execution's children appended to the target
    plan,      \* the plan of each execution
    pc,        \* the next statement of each execution
    windows,   \* local variable windows
    index,     \* local variable index
    outcome,   \* local variable status of ingest_execution_plan
    status,    \* local variable status of the child run
    wmPrev,    \* local variable wm_prev of the child run
    batch,     \* prepared_df of the child run
    due        \* ghost: the rows the execution finds in its range at its start

childVars == <<status, wmPrev, batch>>
vars == <<contract, source, state, runLog, appended, plan, pc, windows, index, outcome, childVars, due>>

Times == 1 .. MaxTime
Ended == {"done", "raised", "crashed"}
ChildPCs == {"check", "read", "write", "save", "except", "log"}
Statuses == {"SUCCESS", "FAILED", "SKIPPED"}

Window(e) == windows[e][index[e]]

\* _window_label: generated windows are named by their bounds, windows of a
\* list without labels by their number.  A plain run has no label.
Label(e) ==
    IF plan[e].kind = "plain" THEN <<>>
    ELSE IF plan[e].kind = "explicit" THEN <<index[e]>> ELSE Window(e)

\* Faulty variant of ChildKey: the window is not part of the key.
ChildKeyWithoutLabel(e) ==
    IF plan[e].key = NoKey THEN <<NoKey>> ELSE <<plan[e].key, <<>>>>

\* Faulty variant of ChildKey: the parent run is part of the key.
ChildKeyPerParent(e) ==
    IF plan[e].key = NoKey THEN <<NoKey>> ELSE <<plan[e].key, e, Label(e)>>

\* The idempotency key of a child run.
ChildKey(e) == IF plan[e].key = NoKey THEN <<NoKey>> ELSE <<plan[e].key, Label(e)>>

TypeOK ==
    /\ source \subseteq Times
    /\ state \in 0 .. MaxTime
    /\ \A c \in runLog : c.execution \in Executions /\ c.index \in Nat /\ c.status \in Statuses
    /\ appended \in [Executions -> SUBSET Times]
    /\ contract \in Contracts
    /\ plan \in [Executions -> contract.plans]
    /\ pc \in [Executions -> {"start"} \cup ChildPCs \cup Ended]
    /\ windows \in [Executions -> Seq(Nat \X Nat)]
    /\ index \in [Executions -> Nat]
    /\ \A e \in Executions : pc[e] \in ChildPCs => index[e] \in DOMAIN windows[e]
    /\ outcome \in [Executions -> {"SUCCESS", "FAILED"}]
    /\ status \in [Executions -> Statuses]
    /\ wmPrev \in [Executions -> 0 .. MaxTime]
    /\ batch \in [Executions -> SUBSET Times]
    /\ due \in [Executions -> SUBSET Times]
-----------------------------------------------------------------------------
Target == UNION {appended[e] : e \in Executions}

MaxOrNone(S) == IF S = {} THEN None ELSE Max(S)

\* get_watermark: the saved value, else MAX over the target.
CurrentWatermark == IF state # None THEN state ELSE MaxOrNone(Target)

\* find_idempotent_run(status = "SUCCESS").
Succeeded(key) ==
    key # <<NoKey>> /\ \E c \in runLog : c.key = key /\ c.status = "SUCCESS"

Everything == <<0, MaxTime + Second + 1>>

\* The range [start, end) an execution is asked for, its end in whole seconds.
Asked(p, start) ==
    CASE p.kind = "plain"    -> Times
      [] p.kind = "explicit" -> {t \in Times : \E i \in DOMAIN p.list :
                                     p.list[i][1] <= t /\ t < p.list[i][2]}
      [] OTHER               -> {t \in Times : start <= t /\ t < Truncated(p.end)}

Init ==
    /\ source = {}
    /\ state = None
    /\ runLog = {}
    /\ appended = [e \in Executions |-> {}]
    /\ contract \in Contracts
    /\ plan \in [Executions -> contract.plans]
    /\ pc = [e \in Executions |-> "start"]
    /\ windows = [e \in Executions |-> <<>>]
    /\ index = [e \in Executions |-> 0]
    /\ outcome = [e \in Executions |-> "SUCCESS"]
    /\ status = [e \in Executions |-> "SUCCESS"]
    /\ wmPrev = [e \in Executions |-> None]
    /\ batch = [e \in Executions |-> {}]
    /\ due = [e \in Executions |-> {}]

Goto(e, label) == pc' = [pc EXCEPT ![e] = label]

\* A run of ingest_plan begins with status SUCCESS and nothing read.
BeginChild(e) ==
    /\ status' = [status EXCEPT ![e] = "SUCCESS"]
    /\ wmPrev' = [wmPrev EXCEPT ![e] = None]
    /\ batch' = [batch EXCEPT ![e] = {}]

\* An exception in ingest_plan.
ChildRaises(e) ==
    /\ status' = [status EXCEPT ![e] = "FAILED"]
    /\ Goto(e, "except")
-----------------------------------------------------------------------------
\* Where an execution starts.  The state row may be unreadable.
Starts(p) ==
    IF p.kind = "catchup" /\ p.start = None
    THEN {CurrentWatermark} \cup (IF "control" \in contract.faults THEN {MaxOrNone(Target)} ELSE {})
    ELSE {p.start}

\* The generated windows are empty unless start < end, and then the windows
\* cannot be resolved.
Resolved(p, start) ==
    CASE p.kind = "plain"    -> <<Everything>>
      [] p.kind = "explicit" -> p.list
      [] OTHER               -> IF start < p.end THEN BuildTimeWindows(start, p.end, p.every) ELSE <<>>

\* Rows arrive in order: none will arrive in the range any more.  Executions
\* are about the past.
RangeHasPassed(p) == p.kind = "plain" \/ \E t \in source : t >= p.end - 1

\* _resolve_windows, outside of any try: without a watermark to start from,
\* or with start past end, ingest_execution_plan raises.
ResolveWindows(e) ==
    /\ pc[e] = "start"
    /\ contract.overlap \/ \A f \in Executions : pc[f] \in {"start"} \cup Ended
    /\ RangeHasPassed(plan[e])
    /\ \E start \in Starts(plan[e]) :
          \/ /\ \/ Resolved(plan[e], start) = <<>>
                \/ plan[e].kind = "catchup" /\ start = None
             /\ Goto(e, "raised")
             /\ UNCHANGED <<windows, index, due>>
          \/ /\ Resolved(plan[e], start) # <<>>
             /\ ~(plan[e].kind = "catchup" /\ start = None)
             /\ windows' = [windows EXCEPT ![e] = Resolved(plan[e], start)]
             /\ due' = [due EXCEPT ![e] = source \cap Asked(plan[e], start)]
             /\ index' = [index EXCEPT ![e] = 1]
             /\ Goto(e, "check")
    /\ UNCHANGED <<contract, source, state, runLog, appended, plan, outcome, childVars>>

CheckIdempotency(e) ==
    /\ pc[e] = "check"
    /\ \E before \in {Succeeded(ChildKey(e))} \cup (IF "control" \in contract.faults THEN {FALSE} ELSE {}) :
          \/ /\ before /\ plan[e].policy \in {"skip_if_success", "rerun_if_failed"}
             /\ status' = [status EXCEPT ![e] = "SKIPPED"]
             /\ Goto(e, "log")
          \/ before /\ plan[e].policy = "fail_if_success" /\ ChildRaises(e)
          \/ /\ ~before \/ plan[e].policy = "always_run"
             /\ Goto(e, "read")
             /\ UNCHANGED status
    /\ UNCHANGED <<contract, source, state, runLog, appended, plan, windows, index, outcome,
                   wmPrev, batch, due>>

\* get_watermark; the source is read above it and inside the window.
ReadSource(e) ==
    /\ pc[e] = "read"
    /\ \E wm \in IF ~plan[e].watermarked THEN {None}
                 ELSE {CurrentWatermark}
                      \cup (IF "control" \in contract.faults THEN {MaxOrNone(Target)} ELSE {}) :
          /\ wmPrev' = [wmPrev EXCEPT ![e] = wm]
          /\ batch' = [batch EXCEPT ![e] = {t \in source : t > wm /\ Selects(Window(e), t)}]
    /\ Goto(e, "write")
    /\ UNCHANGED <<contract, source, state, runLog, appended, plan, windows, index, outcome, status, due>>

\* The commit to the target.
Write(e) ==
    /\ pc[e] = "write"
    /\ appended' = [appended EXCEPT ![e] = @ \cup batch[e]]
    /\ Goto(e, "save")
    /\ UNCHANGED <<contract, source, state, runLog, plan, windows, index, outcome, childVars, due>>

\* upsert_state: the watermark of the batch, wm_prev when nothing was read,
\* NULL when the contract has no watermark_columns.
SaveState(e) ==
    /\ pc[e] = "save"
    /\ state' = IF plan[e].watermarked /\ batch[e] # {} THEN Max(batch[e]) ELSE wmPrev[e]
    /\ Goto(e, "log")
    /\ UNCHANGED <<contract, source, runLog, appended, plan, windows, index, outcome, childVars, due>>

ChildFails(e) ==
    /\ \/ "error" \in contract.faults /\ pc[e] \in {"read", "write"}
       \/ "late_error" \in contract.faults /\ pc[e] = "save"
    /\ ChildRaises(e)
    /\ UNCHANGED <<contract, source, state, runLog, appended, plan, windows, index, outcome,
                   wmPrev, batch, due>>

RecordFailure(e) ==
    /\ pc[e] = "except"
    /\ state' = wmPrev[e] \/ ("control" \in contract.faults /\ UNCHANGED state)
    /\ Goto(e, "log")
    /\ UNCHANGED <<contract, source, runLog, appended, plan, windows, index, outcome, childVars, due>>

\* Faulty variant of GoesOn: a failed window does not end the loop.
GoesOnRegardless(e) == index[e] < Len(windows[e])

\* The loop goes to the next window, unless stop_on_failure.
GoesOn(e) ==
    /\ index[e] < Len(windows[e])
    /\ ~(status[e] = "FAILED" /\ plan[e].stopOnFailure)

\* Faulty variant of Combined: the status of the last window.
LastStatus(e) == IF status[e] = "FAILED" THEN "FAILED" ELSE "SUCCESS"

\* The status of the execution after one more window.
Combined(e) == IF status[e] = "FAILED" THEN "FAILED" ELSE outcome[e]

\* The child is logged and returns; the loop body ends.
LogChild(e) ==
    /\ pc[e] = "log"
    /\ \/ runLog' = runLog \cup {[execution |-> e, index |-> index[e], key |-> ChildKey(e),
                                  window |-> Window(e), status |-> status[e]]}
       \/ "control" \in contract.faults /\ UNCHANGED runLog
    /\ outcome' = [outcome EXCEPT ![e] = Combined(e)]
    /\ IF GoesOn(e)
       THEN Goto(e, "check") /\ index' = [index EXCEPT ![e] = @ + 1] /\ BeginChild(e)
       ELSE Goto(e, "done") /\ UNCHANGED <<index, childVars>>
    /\ UNCHANGED <<contract, source, state, appended, plan, windows, due>>

Crash(e) ==
    /\ "crash" \in contract.faults
    /\ pc[e] \in ChildPCs
    /\ Goto(e, "crashed")
    /\ UNCHANGED <<contract, source, state, runLog, appended, plan, windows, index, outcome, childVars, due>>

Arrive(t) ==
    /\ t \notin source
    /\ \A u \in source : u < t
    /\ source' = source \cup {t}
    /\ UNCHANGED <<contract, state, runLog, appended, plan, pc, windows, index, outcome, childVars, due>>

Advance(e) ==
    \/ ResolveWindows(e) \/ CheckIdempotency(e) \/ ReadSource(e) \/ Write(e) \/ SaveState(e)
    \/ RecordFailure(e) \/ LogChild(e)

Next ==
    \/ \E e \in Executions : Advance(e) \/ ChildFails(e) \/ Crash(e)
    \/ \E t \in Times : Arrive(t)

Spec == Init /\ [][Next]_vars
-----------------------------------------------------------------------------
(***************************************************************************)
(* Correctness.                                                            *)
(***************************************************************************)

\* Every row the watermark passes is in the target: the rows of a window that
\* failed stay above the watermark, so that the next catchup starts with them.
NoRowLost ==
    (\A e \in Executions : plan[e].watermarked) =>
        \A t \in source : t <= CurrentWatermark => t \in Target

\* When a backfill or catchup returns SUCCESS, every row of its range that was
\* there when it started is in the target, brought by itself or, for the
\* windows it skipped and the rows below the watermark, by another execution.
BackfillIsComplete ==
    \A e \in Executions :
        plan[e].kind # "plain" /\ pc[e] = "done" /\ outcome[e] = "SUCCESS" => due[e] \subseteq Target

\* When the executions do not overlap and their keys are checked, a window is
\* ingested with success once, however often the execution is retried.
NoWindowTwice ==
    ~contract.overlap => \A c, d \in runLog :
        /\ c.status = "SUCCESS" /\ d.status = "SUCCESS" /\ c.window = d.window
        /\ plan[c.execution].key = plan[d.execution].key /\ plan[c.execution].key # NoKey
        => c = d

\* The generated windows are a partition: every time from the start to the
\* end, in whole seconds, is in one of them, and in no second one.
WindowsPartition ==
    \A e \in Executions : plan[e].kind \in {"window", "catchup"} /\ windows[e] # <<>> =>
        LET first == windows[e][1][1]
            chosen(t) == {i \in DOMAIN windows[e] : Selects(windows[e][i], t)}
        IN /\ plan[e].start # None => first = Truncated(plan[e].start)
           /\ \A t \in 0 .. MaxTime :
                  Cardinality(chosen(t)) =
                      IF first <= t /\ t < Truncated(plan[e].end) THEN 1 ELSE 0
=============================================================================
