---------------------------- MODULE ControlTables ----------------------------
(***************************************************************************)
(* The life of the control tables (state.py, maintenance.py): every run    *)
(* first creates and migrates them, together with runs of its own and of   *)
(* an older release, then uses them for its idempotency key and its lock,  *)
(* and retention deletes their old rows meanwhile.                         *)
(*                                                                         *)
(* The runs are those of one target with one idempotency key and           *)
(* skip_if_success.  What they do to the target is in IngestRun, the race  *)
(* inside acquire_lock in TargetLock.  Time is in ticks; a date is a tick  *)
(* divided by the ticks of a day.                                          *)
(***************************************************************************)
EXTENDS Integers, Sequences, FiniteSets

CONSTANTS
    Runs,          \* calls of ingest_plan
    Day,           \* ticks per day
    TTL,           \* ticks of default_lock_ttl_minutes
    RetentionDays, \* --retention-days
    MaxTime,       \* bound on the ticks that pass
    Faults         \* what may go wrong

ASSUME ClockAssumption == {Day, TTL, RetentionDays} \subseteq Nat \ {0} /\ MaxTime \in Nat
ASSUME ControlFaultsAssumption ==
    Faults \subseteq {"setup",     \* a statement of ensure_ctrl_tables fails
                      "work",      \* the ingestion itself fails
                      "retention", \* a DELETE of the retention fails
                      "crash"}     \* the driver process disappears

(***************************************************************************)
(* Three of the fourteen tables stand for the others: two that gained      *)
(* columns, one that did not.  Release 2 is the one in the repository;     *)
(* release 1 is the same code before the columns were added.               *)
(***************************************************************************)
Created == <<"runs", "locks", "metadata">>
Migrated == <<"runs", "locks">>
Tables == {Created[i] : i \in DOMAIN Created}
Releases == 1 .. 2

Wanted(t, release) ==
    CASE release = 2 /\ t = "runs"  -> {"run_id", "idempotency_key", "skip_reason"}
      [] release = 2 /\ t = "locks" -> {"run_id", "released_at_utc"}
      [] OTHER                      -> {"run_id"}

NoTable == {}
NoRun == "none"
Never == -1

VARIABLES
    columns,   \* the columns of each table, none before it is created
    recorded,  \* the ctrl_schema_version of ctrl_ingestion_metadata, 0 without a row
    runLog,    \* ctrl_ingestion_runs
    lock,      \* the row of the target in ctrl_ingestion_locks
    now,       \* the clock
    release,   \* the release each run executes
    pc,        \* the next statement of each run
    table,     \* the place in Created or Migrated of each run
    missing,   \* local variable missing of _add_columns_if_missing
    status,    \* local variable status
    started,   \* local variable run_ts
    deletes,   \* the tables a retention still has to clean
    outdated,  \* ghost: runs whose MERGE read the metadata before another commit
    unlucky,   \* ghost: runs a fault has hit
    history    \* ghost: the keyed successes ever logged, with the time of the INSERT

setup == <<table, missing, outdated>>
vars == <<columns, recorded, runLog, lock, now, release, pc, setup, status, started, deletes,
          unlucky, history>>

NoLock == [status |-> "NONE", run |-> NoRun, acquired |-> Never, expires |-> Never, released |-> Never]

SetupPCs == {"create", "columns", "alter", "metadata", "merge"}
UsePCs == {"lookup", "acquire", "work", "release", "log"}
Ended == {"done", "raised", "crashed"}

TypeOK ==
    /\ \A t \in Tables : columns[t] \subseteq Wanted(t, 2)
    /\ recorded \in 0 .. 2
    /\ \A row \in runLog \cup history : row.run \in Runs /\ row.started \in 0 .. MaxTime
    /\ lock.run \in Runs \cup {NoRun}
    /\ now \in 0 .. MaxTime
    /\ release \in [Runs -> Releases]
    /\ pc \in [Runs -> {"start"} \cup SetupPCs \cup UsePCs \cup Ended]
    /\ status \in [Runs -> {"SUCCESS", "FAILED", "SKIPPED"}]
    /\ outdated \cup unlucky \subseteq Runs

Init ==
    /\ \E before \in 0 .. 2 :
          /\ columns = [t \in Tables |-> IF before = 0 THEN NoTable ELSE Wanted(t, before)]
          /\ recorded = before
    /\ runLog = {} /\ history = {}
    /\ lock = NoLock
    /\ now = 0
    /\ release \in [Runs -> Releases]
    /\ pc = [r \in Runs |-> "start"]
    /\ table = [r \in Runs |-> 1]
    /\ missing = [r \in Runs |-> {}]
    /\ status = [r \in Runs |-> "SUCCESS"]
    /\ started = [r \in Runs |-> Never]
    /\ deletes = <<>>
    /\ outdated = {} /\ unlucky = {}

Goto(r, label) == pc' = [pc EXCEPT ![r] = label]
-----------------------------------------------------------------------------
(***************************************************************************)
(* ensure_ctrl_tables.  ingest_plan calls it before its try.               *)
(***************************************************************************)

Begin(r) ==
    /\ pc[r] = "start"
    /\ started' = [started EXCEPT ![r] = now]
    /\ Goto(r, "create")
    /\ UNCHANGED <<columns, recorded, runLog, lock, now, release, setup, status, deletes, unlucky, history>>

\* The statement on table t is done: go on with the next table or the label.
NextTable(r, list, again, label) ==
    IF table[r] < Len(list)
    THEN Goto(r, again) /\ table' = [table EXCEPT ![r] = @ + 1]
    ELSE Goto(r, label) /\ table' = [table EXCEPT ![r] = 1]

\* CREATE TABLE IF NOT EXISTS, one statement per table, the fourteen alike.
CreateTable(r) ==
    /\ pc[r] = "create"
    /\ LET t == Created[table[r]]
       IN columns' = IF columns[t] = NoTable THEN [columns EXCEPT ![t] = Wanted(t, release[r])]
                     ELSE columns
    /\ NextTable(r, Created, "create", "columns")
    /\ UNCHANGED <<recorded, runLog, lock, now, release, missing, outdated, status, started,
                   deletes, unlucky, history>>

\* Faulty variant of Missing: columns are added when the table has none of them.
MissingIfNoneThere(r, t) ==
    IF columns[t] \cap Wanted(t, release[r]) = {} THEN Wanted(t, release[r]) ELSE {}

\* Faulty variant of Missing: the columns of the table are not looked at.
MissingUnread(r, t) == Wanted(t, release[r]) \ {"run_id"}

\* The columns of _add_columns_if_missing that _table_columns does not show.
Missing(r, t) == Wanted(t, release[r]) \ columns[t]

ReadColumns(r) ==
    /\ pc[r] = "columns"
    /\ LET lacking == Missing(r, Migrated[table[r]])
       IN /\ missing' = [missing EXCEPT ![r] = lacking]
          /\ IF lacking = {} THEN NextTable(r, Migrated, "columns", "metadata")
             ELSE Goto(r, "alter") /\ UNCHANGED table
    /\ UNCHANGED <<columns, recorded, runLog, lock, now, release, outdated, status, started,
                   deletes, unlucky, history>>

\* ALTER TABLE ADD COLUMNS of what was missing when the columns were read: it
\* is refused if one of them is there by now, and nothing catches that.
AddColumns(r) ==
    /\ pc[r] = "alter"
    /\ LET t == Migrated[table[r]]
       IN IF columns[t] \cap missing[r] = {}
          THEN /\ columns' = [columns EXCEPT ![t] = @ \cup missing[r]]
               /\ NextTable(r, Migrated, "columns", "metadata")
          ELSE Goto(r, "raised") /\ UNCHANGED <<columns, table>>
    /\ missing' = [missing EXCEPT ![r] = {}]
    /\ UNCHANGED <<recorded, runLog, lock, now, release, outdated, status, started,
                   deletes, unlucky, history>>

\* _record_ctrl_metadata: nothing to do, or the first attempt of the MERGE begins.
CheckMetadata(r) ==
    /\ pc[r] = "metadata"
    /\ Goto(r, IF recorded = release[r] THEN "lookup" ELSE "merge")
    /\ outdated' = outdated \ {r}
    /\ UNCHANGED <<columns, recorded, runLog, lock, now, release, table, missing, status, started,
                   deletes, unlucky, history>>

\* The MERGE commits unless another one has since it began.
RecordMetadata(r) ==
    /\ pc[r] = "merge" /\ r \notin outdated
    /\ recorded' = release[r]
    /\ outdated' = outdated \cup {s \in Runs : pc[s] = "merge"}
    /\ Goto(r, "lookup")
    /\ UNCHANGED <<columns, runLog, lock, now, release, table, missing, status, started, deletes,
                   unlucky, history>>

\* A conflict: with_retry tries again, and after the last attempt, whichever
\* that is, a row that says this release is as good.
MetadataConflict(r) ==
    /\ pc[r] = "merge" /\ r \in outdated
    /\ outdated' = outdated \ {r}
    /\ \/ UNCHANGED pc
       \/ Goto(r, IF recorded = release[r] THEN "lookup" ELSE "raised")
    /\ UNCHANGED <<columns, recorded, runLog, lock, now, release, table, missing, status, started, deletes,
                   unlucky, history>>

\* Any other error of a statement of ensure_ctrl_tables.
SetupFails(r) ==
    /\ "setup" \in Faults
    /\ pc[r] \in SetupPCs
    /\ Goto(r, "raised")
    /\ unlucky' = unlucky \cup {r}
    /\ UNCHANGED <<columns, recorded, runLog, lock, now, release, setup, status, started, deletes, history>>
-----------------------------------------------------------------------------
(***************************************************************************)
(* What a run does with the tables.                                        *)
(***************************************************************************)

\* Release 1 has no idempotency keys.
Keyed(r) == release[r] = 2

\* find_idempotent_run: without the column the query fails and nothing is found.
FoundSuccess(r) ==
    /\ Keyed(r) /\ "idempotency_key" \in columns["runs"]
    /\ \E row \in runLog : row.status = "SUCCESS" /\ Keyed(row.run)

Lookup(r) ==
    /\ pc[r] = "lookup"
    /\ IF FoundSuccess(r)
       THEN Goto(r, "log") /\ status' = [status EXCEPT ![r] = "SKIPPED"]
       ELSE Goto(r, "acquire") /\ UNCHANGED status
    /\ UNCHANGED <<columns, recorded, runLog, lock, now, release, setup, started, deletes, unlucky, history>>

Acquirable == lock.status # "ACTIVE" \/ lock.expires < now

\* Faulty variant of LockRow: UPDATE SET leaves released_at_utc alone.
LockRowKeepsRelease(r) ==
    [status |-> "ACTIVE", run |-> r, acquired |-> now, expires |-> now + TTL, released |-> lock.released]

\* UPDATE SET * and INSERT * of acquire_lock: every column, released_at_utc too.
LockRow(r) ==
    [status |-> "ACTIVE", run |-> r, acquired |-> now, expires |-> now + TTL, released |-> Never]

AcquireLock(r) ==
    /\ pc[r] = "acquire"
    /\ IF Acquirable
       THEN lock' = LockRow(r) /\ Goto(r, "work") /\ UNCHANGED status
       ELSE status' = [status EXCEPT ![r] = "FAILED"] /\ Goto(r, "release") /\ UNCHANGED lock
    /\ UNCHANGED <<columns, recorded, runLog, now, release, setup, started, deletes, unlucky, history>>

Work(r) ==
    /\ pc[r] = "work"
    /\ \E s \in {"SUCCESS"} \cup (IF "work" \in Faults THEN {"FAILED"} ELSE {}) :
          status' = [status EXCEPT ![r] = s]
    /\ Goto(r, "release")
    /\ UNCHANGED <<columns, recorded, runLog, lock, now, release, setup, started, deletes, unlucky, history>>

\* release_lock: an UPDATE of the row of this run, if it is still there.
ReleaseLock(r) ==
    /\ pc[r] = "release"
    /\ lock' = IF lock.run = r THEN [lock EXCEPT !.status = "RELEASED", !.released = now] ELSE lock
    /\ Goto(r, "log")
    /\ UNCHANGED <<columns, recorded, runLog, now, release, setup, status, started, deletes, unlucky, history>>

\* log_run inserts every column its release knows; run_date is the date of
\* the start.
LogRun(r) ==
    /\ pc[r] = "log"
    /\ Wanted("runs", release[r]) \subseteq columns["runs"]
    /\ LET row == [run |-> r, started |-> started[r], status |-> status[r]]
       IN /\ runLog' = runLog \cup {row}
          /\ history' = IF status[r] = "SUCCESS" /\ Keyed(r)
                        THEN history \cup {[run |-> r, started |-> started[r], logged |-> now]} ELSE history
    /\ Goto(r, "done")
    /\ UNCHANGED <<columns, recorded, lock, now, release, setup, status, started, deletes, unlucky>>

Crash(r) ==
    /\ "crash" \in Faults
    /\ pc[r] \in SetupPCs \cup UsePCs
    /\ Goto(r, "crashed")
    /\ unlucky' = unlucky \cup {r}
    /\ UNCHANGED <<columns, recorded, runLog, lock, now, release, setup, status, started, deletes, history>>
-----------------------------------------------------------------------------
(***************************************************************************)
(* apply_ctrl_retention: one DELETE per table, in the order of the plan.   *)
(***************************************************************************)
RetentionTargets == {<<"runs">>, <<"locks">>, <<"runs", "locks">>}

DateOf(t) == t \div Day

\* Faulty variant of RunIsOld: one day less.
RunIsOldToday(row) == DateOf(row.started) <= DateOf(now) - RetentionDays

\* run_date < date_sub(current_date(), retention_days).
RunIsOld(row) == DateOf(row.started) < DateOf(now) - RetentionDays

\* COALESCE(released_at_utc, expires_at_utc, acquired_at_utc).
LockAge == IF lock.released # Never THEN lock.released ELSE lock.expires

\* LockAge < current_timestamp() - INTERVAL retention_days DAYS.
LockIsOld == lock.status # "NONE" /\ LockAge < now - RetentionDays * Day

\* With --apply, and without it the empty plan.
StartRetention ==
    /\ deletes = <<>>
    /\ deletes' \in RetentionTargets
    /\ UNCHANGED <<columns, recorded, runLog, lock, now, release, pc, setup, status, started, unlucky, history>>

DeleteOldRows ==
    /\ deletes # <<>>
    /\ columns[Head(deletes)] # NoTable
    /\ runLog' = IF Head(deletes) = "runs" THEN {row \in runLog : ~RunIsOld(row)} ELSE runLog
    /\ lock' = IF Head(deletes) = "locks" /\ LockIsOld THEN NoLock ELSE lock
    /\ deletes' = Tail(deletes)
    /\ UNCHANGED <<columns, recorded, now, release, pc, setup, status, started, unlucky, history>>

\* The first error ends the call; what was deleted stays deleted.
RetentionFails ==
    /\ deletes # <<>>
    /\ "retention" \in Faults \/ columns[Head(deletes)] = NoTable
    /\ deletes' = <<>>
    /\ UNCHANGED <<columns, recorded, runLog, lock, now, release, pc, setup, status, started, unlucky, history>>

\* The setup of a run is quick: no tick falls into it.
Tick ==
    /\ now < MaxTime
    /\ \A r \in Runs : pc[r] \notin SetupPCs
    /\ now' = now + 1
    /\ UNCHANGED <<columns, recorded, runLog, lock, release, pc, setup, status, started, deletes,
                   unlucky, history>>

Advance(r) ==
    \/ Begin(r) \/ CreateTable(r) \/ ReadColumns(r) \/ AddColumns(r)
    \/ CheckMetadata(r) \/ RecordMetadata(r) \/ MetadataConflict(r)
    \/ Lookup(r) \/ AcquireLock(r) \/ Work(r) \/ ReleaseLock(r) \/ LogRun(r)

Next ==
    \/ \E r \in Runs : Advance(r) \/ SetupFails(r) \/ Crash(r)
    \/ StartRetention \/ DeleteOldRows \/ RetentionFails
    \/ Tick

Spec == Init /\ [][Next]_vars
-----------------------------------------------------------------------------
(***************************************************************************)
(* Correctness.                                                            *)
(***************************************************************************)

\* A release recorded in the metadata has its columns in every table, and so
\* has every run that came through the setup, whatever other runs, of this
\* release or the older one, did or left undone meanwhile.
TablesAreMigrated ==
    \A v \in {recorded} \cup {release[r] : r \in {s \in Runs : pc[s] \in UsePCs}} :
        v # 0 => \A t \in Tables : Wanted(t, v) \subseteq columns[t]

\* The race of concurrent setups has a winner: if no statement failed and no
\* run crashed, not every run is turned away.
SomebodyGetsThrough ==
    unlucky = {} => \E r \in Runs : pc[r] # "raised"

\* What retention must not take away from a retry: a run that starts after a
\* success was logged, and ends within the retention of it, does not do the
\* work again.
NoRepeatWithinRetention ==
    \A first, again \in history :
        again.started > first.logged => DateOf(again.logged) - DateOf(first.started) > RetentionDays

\* A lock that has not expired leaves only by its run's release.
LiveLockStands ==
    [][lock.status = "ACTIVE" /\ lock.expires >= now =>
           lock' = lock \/ (lock'.run = lock.run /\ lock'.status = "RELEASED")]_vars

\* What README.md says of a failure: ingest raises after the run has been
\* recorded in the control tables.
FailureIsRecorded ==
    \A r \in Runs : pc[r] = "raised" /\ r \notin unlucky => \E row \in runLog : row.run = r
=============================================================================
