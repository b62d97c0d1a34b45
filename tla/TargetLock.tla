----------------------------- MODULE TargetLock -----------------------------
(***************************************************************************)
(* The cooperative lock of one target: its row of ctrl_ingestion_locks and *)
(* the three statements that touch it, acquire_lock's MERGE, its read-back *)
(* and release_lock's UPDATE (state.py).  The module is a vocabulary: a    *)
(* process that uses the lock composes these operators with its own state. *)
(*                                                                         *)
(* Time is kept relative.  lock.left is expires_at_utc minus the current   *)
(* timestamp, and stays at -1 once the row has expired, so that clocks do  *)
(* not make the state space infinite.                                      *)
(***************************************************************************)
EXTENDS Integers

CONSTANTS
    Runs,   \* run ids; a run id is generated once and never reused
    NoRun,  \* the run_id of a row that does not exist
    TTL     \* default_lock_ttl_minutes, in ticks

ASSUME NoRunAssumption == NoRun \notin Runs
ASSUME TTLAssumption == TTL \in Nat

VARIABLES
    lock,   \* the row of this target in ctrl_ingestion_locks
    lease   \* ghost: per run, the time left of the lease it was granted, or -1

lockVars == <<lock, lease>>

LockRows == [status : {"NONE", "ACTIVE", "RELEASED"},
             run    : Runs \cup {NoRun},
             left   : -1 .. TTL]

LockTypeOK ==
    /\ lock \in LockRows
    /\ lease \in [Runs -> -1 .. TTL]

LockInit ==
    /\ lock = [status |-> "NONE", run |-> NoRun, left |-> -1]
    /\ lease = [r \in Runs |-> -1]

\* Faulty variant of Takeable: no comparison with expires_at_utc.
TakeableOnceReleased == lock.status # "ACTIVE"

(***************************************************************************)
(* The MERGE's conditions: no row, a row that is not ACTIVE, or a row      *)
(* whose expires_at_utc is strictly in the past.                           *)
(***************************************************************************)
Takeable == lock.status # "ACTIVE" \/ lock.left < 0

\* The MERGE of acquire_lock: it takes the row or leaves it, and does not
\* say which.
AcquireMerge(r) ==
    IF Takeable
    THEN /\ lock' = [status |-> "ACTIVE", run |-> r, left |-> TTL]
         /\ lease' = [lease EXCEPT ![r] = TTL]
    ELSE UNCHANGED lockVars

\* Faulty variant of ReadBackOwns: any ACTIVE row will do.
ReadBackAnyRun(r) == lock.status = "ACTIVE"

\* The read-back of acquire_lock.  It compares run_id and status and does
\* not look at expires_at_utc again.
ReadBackOwns(r) == lock.status = "ACTIVE" /\ lock.run = r

\* Faulty variant of ReleaseUpdate: the UPDATE lacks AND run_id = ...
ReleaseAnyRow(r) ==
    /\ lock' = [lock EXCEPT !.status = "RELEASED"]
    /\ lease' = [lease EXCEPT ![r] = -1]

\* The UPDATE of release_lock, restricted to the row this run wrote.
ReleaseUpdate(r) ==
    /\ lock' = IF lock.run = r THEN [lock EXCEPT !.status = "RELEASED"] ELSE lock
    /\ lease' = [lease EXCEPT ![r] = -1]

\* Faulty variant of Elapsed: it does not stop at -1.
ElapsedForever(left) == left - 1

\* One tick less, never below -1.
Elapsed(left) == IF left < 0 THEN left ELSE left - 1

TimePasses ==
    /\ lock' = [lock EXCEPT !.left = Elapsed(lock.left)]
    /\ lease' = [r \in Runs |-> Elapsed(lease[r])]
=============================================================================
