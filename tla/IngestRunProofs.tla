--------------------------- MODULE IngestRunProofs ---------------------------
(***************************************************************************)
(* Proofs about IngestRun, for any number of runs, rows and plans and for  *)
(* any set of faults.                                                      *)
(***************************************************************************)
EXTENDS IngestRun, TLAPS, FiniteSetTheorems, WellFoundedInduction

-----------------------------------------------------------------------------
(***************************************************************************)
(* Operators.                                                              *)
(***************************************************************************)

\* A nonempty set of bounded naturals has a greatest element.
LEMMA GreatestExists ==
  ASSUME NEW n \in Nat, NEW S, S \subseteq 0 .. n, S # {}
  PROVE  \E x \in S : \A y \in S : x >= y
  <1> DEFINE T == {n - x : x \in S}
  <1>1. T \subseteq Nat /\ T # {}
    <2>1. ASSUME NEW x \in S PROVE n - x \in Nat
      <3>1. x \in 0 .. n
        OBVIOUS
      <3>2. QED
        BY <3>1
    <2>2. QED
      BY <2>1
  <1>2. PICK t \in T : \A u \in T : ~ (<<u, t>> \in OpToRel(<, Nat))
    <2> HIDE DEF T
    <2> QED BY <1>1, NatLessThanWellFounded, WFMin
  <1>3. PICK x \in S : t = n - x
    BY <1>2
  <1>4. ASSUME NEW y \in S PROVE x >= y
    <2>1. n - y \in T /\ n - y \in Nat /\ t \in Nat
      BY <1>1, <1>2
    <2>2. ~ (n - y < t)
      BY <2>1, <1>2 DEF OpToRel
    <2>3. x \in Int /\ y \in Int
      OBVIOUS
    <2>4. QED
      BY <2>2, <2>3, <1>3
  <1>5. QED
    BY <1>4

\* MaxOrNone of rows is a watermark, and bounds the rows from above.
LEMMA MaxOrNoneBounds ==
  ASSUME NEW S, S \subseteq Rows
  PROVE  /\ MaxOrNone(S) \in Watermarks
         /\ \A x \in S : x <= MaxOrNone(S)
         /\ S # {} => MaxOrNone(S) \in S
  <1>1. CASE S = {}
    BY <1>1, BoundAssumption DEF MaxOrNone, None, Watermarks
  <1>2. CASE S # {}
    <2>1. S \subseteq 0 .. MaxRow /\ MaxRow \in Nat
      BY BoundAssumption DEF Rows
    <2>2. \E x \in S : \A y \in S : x >= y
      BY <1>2, <2>1, GreatestExists
    <2>3. Max(S) \in S /\ \A y \in S : Max(S) >= y
      BY <2>2 DEF Max
    <2>4. MaxOrNone(S) = Max(S)
      BY <1>2 DEF MaxOrNone
    <2>5. \A x \in S : x <= Max(S)
      <3>1. TAKE x \in S
      <3>2. x \in 0 .. MaxRow /\ Max(S) \in 0 .. MaxRow
        BY <2>1, <2>3
      <3>3. Max(S) >= x
        BY <2>3
      <3>4. QED
        BY <2>1, <3>2, <3>3
    <2>6. QED
      BY <2>1, <2>3, <2>4, <2>5 DEF Watermarks
  <1>3. QED
    BY <1>1, <1>2

LEMMA RowSetsFinite ==
  ASSUME NEW S, S \subseteq Rows
  PROVE  IsFiniteSet(S) /\ Cardinality(S) \in Nat
  <1>1. IsFiniteSet(Rows)
    BY FS_Interval, BoundAssumption DEF Rows
  <1>2. QED
    BY <1>1, FS_Subset, FS_CardinalityType

LEMMA UnreadRows ==
  ASSUME TypeOK, NEW wm \in Watermarks
  PROVE  Unread(wm) \subseteq Rows
  BY BoundAssumption DEF TypeOK, Unread, Rows, Watermarks

LEMMA PreparedRows ==
  ASSUME TypeOK, NEW r \in Runs
  PROVE  Prepared(r) \subseteq Rows
  <1>1. wmPrev[r] \in Watermarks /\ rowsRead[r] \subseteq Rows
    BY DEF TypeOK
  <1>2. QED
    BY <1>1, UnreadRows DEF Prepared

LEMMA CurrentWatermarkType ==
  ASSUME TypeOK
  PROVE  CurrentWatermark \in Watermarks /\ Target \subseteq Rows
  <1>1. Target \subseteq Rows
    BY DEF TypeOK, Target
  <1>2. MaxOrNone(Target) \in Watermarks
    BY <1>1, MaxOrNoneBounds
  <1>3. state.wm \in Watermarks /\ None \in Watermarks
    BY BoundAssumption DEF TypeOK, None, Watermarks
  <1>4. QED
    BY <1>1, <1>2, <1>3 DEF CurrentWatermark
-----------------------------------------------------------------------------
(***************************************************************************)
(* Type correctness.                                                       *)
(***************************************************************************)

LEMMA TypeInit == Init => TypeOK
  BY NoRunAssumption, TTLAssumption, BoundAssumption
     DEF Init, LockInit, TypeOK, LockTypeOK, LockRows, Statuses, PCs, BeforeCommit,
         Watermarks, None, Rows

LEMMA TypeNext == TypeOK /\ [Next]_vars => TypeOK'
  <1> SUFFICES ASSUME TypeOK, [Next]_vars PROVE TypeOK'
    OBVIOUS
  <1> USE DEF TypeOK, Goto, RaiseIn
  <1>1. ASSUME NEW r \in Runs, CheckIdempotency(r) PROVE TypeOK'
    BY <1>1 DEF CheckIdempotency, lockVars, sharedVars, LockTypeOK, PCs, Statuses,
                BeforeCommit, Handlers
  <1>2. ASSUME NEW r \in Runs, AcquireLock(r) PROVE TypeOK'
    BY <1>2, TTLAssumption
       DEF AcquireLock, AcquireMerge, lockVars, sharedVars, LockTypeOK, LockRows, PCs, BeforeCommit
  <1>3. ASSUME NEW r \in Runs, ReadBack(r) PROVE TypeOK'
    BY <1>3 DEF ReadBack, lockVars, sharedVars, LockTypeOK, PCs, Statuses, BeforeCommit, Handlers
  <1>4. ASSUME NEW r \in Runs, ReadWatermark(r) PROVE TypeOK'
    <2>1. MaxOrNone(Target) \in Watermarks
      BY CurrentWatermarkType, MaxOrNoneBounds
    <2>2. QED
      BY <1>4, <2>1, CurrentWatermarkType
         DEF ReadWatermark, lockVars, sharedVars, LockTypeOK, PCs, BeforeCommit
  <1>5. ASSUME NEW r \in Runs, Prepare(r) PROVE TypeOK'
    BY <1>5, UnreadRows DEF Prepare, lockVars, sharedVars, LockTypeOK, PCs, BeforeCommit
  <1>6. ASSUME NEW r \in Runs, EvaluateQuality(r) PROVE TypeOK'
    <2>1. Prepared(r) \cap Bad \subseteq Rows /\ rowsRead[r] \subseteq Rows
      BY PreparedRows
    <2>2. /\ Cardinality(rowsRead[r]) \in Nat
          /\ Cardinality(Prepared(r) \cap Bad) \in Nat
      BY <2>1, RowSetsFinite
    <2>3. quarantine' \subseteq Rows
      BY <1>6, <2>1 DEF EvaluateQuality
    <2>4. effective' \in [Runs -> Int]
      BY <1>6, <2>2 DEF EvaluateQuality
    <2>5. gated' \in [Runs -> BOOLEAN]
      BY <1>6 DEF EvaluateQuality
    <2>6. pc' \in [Runs -> PCs] /\ status' \in [Runs -> Statuses]
      BY <1>6 DEF EvaluateQuality, PCs, Statuses, BeforeCommit, Handlers
    <2>7. QED
      BY <1>6, <2>3, <2>4, <2>5, <2>6 DEF EvaluateQuality, lockVars, LockTypeOK
  <1>7. ASSUME NEW r \in Runs, Write(r) PROVE TypeOK'
    BY <1>7, PreparedRows DEF Write, lockVars, LockTypeOK, PCs, AfterCommit
  <1>8. ASSUME NEW r \in Runs, Finish(r) PROVE TypeOK'
    <2>1. MaxOrNone(Prepared(r)) \in Watermarks
      BY PreparedRows, MaxOrNoneBounds
    <2>2. QED
      BY <1>8, <2>1 DEF Finish, lockVars, sharedVars, LockTypeOK, PCs, AfterCommit
  <1>9. ASSUME NEW r \in Runs, SaveState(r) PROVE TypeOK'
    BY <1>9 DEF SaveState, lockVars, LockTypeOK, PCs, Statuses, Handlers
  <1>10. ASSUME NEW r \in Runs, RecordFailure(r) PROVE TypeOK'
    BY <1>10 DEF RecordFailure, FailedWatermark, lockVars, LockTypeOK, PCs, Statuses, Handlers
  <1>11. ASSUME NEW r \in Runs, ReleaseLock(r) PROVE TypeOK'
    BY <1>11, TTLAssumption
       DEF ReleaseLock, ReleaseUpdate, lockVars, sharedVars, LockTypeOK, LockRows, PCs, Handlers
  <1>12. ASSUME NEW r \in Runs, LogRun(r) PROVE TypeOK'
    BY <1>12 DEF LogRun, lockVars, LockTypeOK, PCs, Ended
  <1>13. ASSUME NEW r \in Runs, Raise(r) PROVE TypeOK'
    BY <1>13 DEF Raise, lockVars, sharedVars, LockTypeOK, PCs, Statuses, Handlers
  <1>14. ASSUME NEW r \in Runs, Interrupt(r) PROVE TypeOK'
    BY <1>14 DEF Interrupt, lockVars, sharedVars, LockTypeOK, PCs, Handlers
  <1>15. ASSUME NEW r \in Runs, Crash(r) PROVE TypeOK'
    BY <1>15 DEF Crash, lockVars, sharedVars, LockTypeOK, PCs, Ended
  <1>16. CASE Tick
    BY <1>16, TTLAssumption
       DEF Tick, TimePasses, Elapsed, sharedVars, localVars, LockTypeOK, LockRows
  <1>17. CASE Emit
    BY <1>17, BoundAssumption DEF Emit, lockVars, localVars, LockTypeOK
  <1>18. CASE UNCHANGED vars
    BY <1>18 DEF vars, lockVars, sharedVars, localVars, LockTypeOK
  <1>19. QED
    BY <1>1, <1>2, <1>3, <1>4, <1>5, <1>6, <1>7, <1>8, <1>9, <1>10, <1>11, <1>12,
       <1>13, <1>14, <1>15, <1>16, <1>17, <1>18 DEF Next, Advance

(***************************************************************************)
(* Every reachable state is one the control tables and the locals of       *)
(* ingest_plan can represent.                                              *)
(***************************************************************************)
THEOREM TypeCorrect == Spec => []TypeOK
  BY TypeInit, TypeNext, PTL DEF Spec
-----------------------------------------------------------------------------
(***************************************************************************)
(* The lock.  The inductive invariant ties the ghost leases to the row: a  *)
(* lease that has not run out is the lease the row describes, and without  *)
(* slow runs a live run that owns the row, or is at the target under the   *)
(* lock, has such a lease.                                                 *)
(***************************************************************************)
LeaseIsRow ==
    \A r \in Runs : lease[r] >= 0 =>
        lock.run = r /\ lock.status = "ACTIVE" /\ lock.left = lease[r]

LiveOwnerHasLease ==
    "slow" \notin Faults =>
        \A r \in Runs :
            /\ pc[r] \notin Ended /\ ReadBackOwns(r) => lease[r] >= 0
            /\ Critical(r) => lease[r] >= 0

LockInv == TypeOK /\ LeaseIsRow /\ LiveOwnerHasLease

LEMMA LockInvInit == Init => LockInv
  BY TypeInit DEF Init, LockInit, LockInv, LeaseIsRow, LiveOwnerHasLease, Critical, ReadBackOwns,
                  AfterCommit

\* A step that leaves the lock alone, and lets no run but r move.
LEMMA LockInvLocal ==
  ASSUME LockInv, NEW r \in Runs, UNCHANGED <<lockVars, plan>>, TypeOK',
         \A q \in Runs \ {r} : pc'[q] = pc[q],
         pc'[r] \in Ended \/ pc[r] \notin Ended,
         Critical(r)' => Critical(r) \/ ReadBackOwns(r)
  PROVE  LockInv'
  <1>1. pc[r] \notin Ended \/ ~ Critical(r)'
    BY DEF Critical, AfterCommit, Ended
  <1>2. LeaseIsRow'
    BY DEF LockInv, LeaseIsRow, lockVars
  <1>3. ASSUME "slow" \notin Faults, NEW q \in Runs
        PROVE  /\ pc'[q] \notin Ended /\ ReadBackOwns(q)' => lease'[q] >= 0
               /\ Critical(q)' => lease'[q] >= 0
    <2>1. CASE q = r
      BY <2>1, <1>1, <1>3 DEF LockInv, LiveOwnerHasLease, lockVars, ReadBackOwns
    <2>2. CASE q # r
      BY <2>2, <1>3 DEF LockInv, LiveOwnerHasLease, lockVars, ReadBackOwns, Critical
    <2>3. QED
      BY <2>1, <2>2
  <1>4. QED
    BY <1>2, <1>3 DEF LockInv, LiveOwnerHasLease

LEMMA LockInvNext == LockInv /\ [Next]_vars => LockInv'
  <1> SUFFICES ASSUME LockInv, [Next]_vars PROVE LockInv'
    OBVIOUS
  <1>0. TypeOK /\ TypeOK'
    BY TypeNext DEF LockInv
  <1> USE DEF Goto, RaiseIn
  <1>1. ASSUME NEW r \in Runs,
               \/ CheckIdempotency(r) \/ ReadBack(r) \/ ReadWatermark(r) \/ Prepare(r)
               \/ EvaluateQuality(r) \/ Write(r) \/ Finish(r) \/ SaveState(r)
               \/ RecordFailure(r) \/ LogRun(r) \/ Raise(r) \/ Interrupt(r) \/ Crash(r)
        PROVE  LockInv'
    <2>1. UNCHANGED <<lockVars, plan>>
      BY <1>1 DEF CheckIdempotency, ReadBack, ReadWatermark, Prepare, EvaluateQuality, Write,
                  Finish, SaveState, RecordFailure, LogRun, Raise, Interrupt, Crash
    <2>2. /\ \A q \in Runs \ {r} : pc'[q] = pc[q]
          /\ pc[r] \notin Ended
      BY <1>1, <1>0 DEF TypeOK, Ended, BeforeCommit, AfterCommit,
                  CheckIdempotency, ReadBack, ReadWatermark, Prepare, EvaluateQuality, Write,
                  Finish, SaveState, RecordFailure, LogRun, Raise, Interrupt, Crash
    <2>3. Critical(r)' => Critical(r) \/ ReadBackOwns(r)
      BY <1>1, <1>0 DEF Critical, AfterCommit, TypeOK,
                  CheckIdempotency, ReadBack, ReadWatermark, Prepare, EvaluateQuality, Write,
                  Finish, SaveState, RecordFailure, LogRun, Raise, Interrupt, Crash
    <2>4. QED
      BY <1>0, <2>1, <2>2, <2>3, LockInvLocal
  <1>2. ASSUME NEW r \in Runs, AcquireLock(r) PROVE LockInv'
    <2>1. CASE Takeable
      <3>1. /\ lock' = [status |-> "ACTIVE", run |-> r, left |-> TTL]
            /\ lease' = [lease EXCEPT ![r] = TTL]
        BY <1>2, <2>1 DEF AcquireLock, AcquireMerge
      <3>2. \A q \in Runs : lease[q] < 0
        BY <2>1, <1>0 DEF LockInv, LeaseIsRow, Takeable, TypeOK, LockTypeOK
      <3>3. LeaseIsRow'
        BY <3>1, <3>2, <1>0, TTLAssumption DEF LeaseIsRow, TypeOK, LockTypeOK
      <3>4. ~ Critical(r)'
        BY <1>2, <1>0 DEF AcquireLock, Critical, AfterCommit, TypeOK
      <3>5. LiveOwnerHasLease'
        BY <3>1, <3>2, <3>4, <1>0, <1>2, TTLAssumption
           DEF AcquireLock, LiveOwnerHasLease, LockInv, Critical, ReadBackOwns, TypeOK, LockTypeOK
      <3>6. QED
        BY <1>0, <3>3, <3>5 DEF LockInv
    <2>2. CASE ~ Takeable
      BY <1>0, <1>2, <2>2, LockInvLocal
         DEF AcquireLock, AcquireMerge, Critical, AfterCommit, Ended, TypeOK
    <2>3. QED
      BY <2>1, <2>2
  <1>3. ASSUME NEW r \in Runs, ReleaseLock(r) PROVE LockInv'
    <2>1. CASE ReleaseUpdate(r)
      <3>1. LeaseIsRow'
        BY <2>1, <1>0 DEF ReleaseUpdate, LockInv, LeaseIsRow, TypeOK, LockTypeOK, LockRows
      <3>2. ~ Critical(r)' /\ pc[r] \notin Ended
        BY <1>3, <1>0 DEF ReleaseLock, Critical, AfterCommit, TypeOK, Ended
      <3>3. ~ ReadBackOwns(r)'
        BY <2>1, <1>0 DEF ReleaseUpdate, ReadBackOwns, TypeOK, LockTypeOK, LockRows
      <3>4. LiveOwnerHasLease'
        BY <2>1, <3>2, <3>3, <1>0, <1>3
           DEF ReleaseLock, ReleaseUpdate, LiveOwnerHasLease, LockInv, Critical, ReadBackOwns,
               TypeOK, LockTypeOK, LockRows
      <3>5. QED
        BY <1>0, <3>1, <3>4 DEF LockInv
    <2>2. CASE UNCHANGED lockVars
      BY <1>0, <1>3, <2>2, LockInvLocal DEF ReleaseLock, Critical, AfterCommit, Ended, TypeOK
    <2>3. QED
      BY <1>3, <2>1, <2>2 DEF ReleaseLock
  <1>4. CASE Tick
    <2>1. LeaseIsRow'
      BY <1>4, <1>0
         DEF Tick, TimePasses, Elapsed, LockInv, LeaseIsRow, TypeOK, LockTypeOK, LockRows
    <2>2. LiveOwnerHasLease'
      <3>1. ASSUME "slow" \notin Faults, NEW r \in Runs, lease[r] >= 0, pc[r] \notin Ended
            PROVE  lease'[r] >= 0
        BY <3>1, <1>4, <1>0 DEF Tick, TimePasses, Elapsed, MayElapse, TypeOK, LockTypeOK
      <3>2. \A r \in Runs : (Critical(r)' <=> Critical(r)) /\ (ReadBackOwns(r)' <=> ReadBackOwns(r))
        BY <1>4, <1>0 DEF Tick, TimePasses, localVars, Critical, ReadBackOwns, TypeOK, LockTypeOK,
                          LockRows
      <3>3. \A r \in Runs : Critical(r) => pc[r] \notin Ended
        BY DEF Critical, AfterCommit, Ended
      <3>4. QED
        BY <3>1, <3>2, <3>3, <1>4 DEF LockInv, LiveOwnerHasLease, Tick, localVars
    <2>3. QED
      BY <1>0, <2>1, <2>2 DEF LockInv
  <1>5. CASE Emit \/ UNCHANGED vars
    BY <1>5, <1>0 DEF Emit, vars, lockVars, localVars, LockInv, LeaseIsRow, LiveOwnerHasLease,
                      Critical, ReadBackOwns
  <1>6. QED
    BY <1>1, <1>2, <1>3, <1>4, <1>5 DEF Next, Advance

LEMMA LockInvAlways == Spec => []LockInv
  BY LockInvInit, LockInvNext, PTL DEF Spec

(***************************************************************************)
(* Two locked runs within their leases are never at the target together.   *)
(***************************************************************************)
THEOREM LeaseExcludesRuns == Spec => []LeaseExclusion
  <1>1. LockInv => LeaseExclusion
    BY DEF LockInv, LeaseIsRow, LeaseExclusion
  <1>2. QED
    BY <1>1, LockInvAlways, PTL

(***************************************************************************)
(* When the TTL outlasts the runs, locked runs are alone at the target.    *)
(***************************************************************************)
THEOREM LockedRunsAlone == Spec => []ExclusiveAccess
  <1>1. LockInv => ExclusiveAccess
    BY DEF LockInv, LeaseIsRow, LiveOwnerHasLease, ExclusiveAccess
  <1>2. QED
    BY <1>1, LockInvAlways, PTL
-----------------------------------------------------------------------------
(***************************************************************************)
(* No row is lost.  Ingested rows only accumulate, so it is enough that    *)
(* whatever may become the watermark is covered when it is computed: the   *)
(* saved value, the maximum of the target, and what each run carries.  The *)
(* proof needs no lock: it holds of unlocked and of overdue runs as well.  *)
(***************************************************************************)
Ingested == Target \cup quarantine

Covered(w) == \A x \in Rows : x <= w => x \in Ingested

\* The rows a run has read are all those between two watermarks.
ReadIsInterval(r) ==
    \A x \in rowsRead[r], y \in Rows : wmPrev[r] < y /\ y <= x => y \in rowsRead[r]

BatchInv(r) ==
    /\ Covered(wmPrev[r])
    /\ ReadIsInterval(r)
    /\ gated[r] => rowsRead[r] \cap Bad \subseteq quarantine
    /\ pc[r] \in {"check", "lock", "read_back", "read", "prepare"} => rowsRead[r] = {}
    /\ pc[r] \in BeforeCommit \ {"write"} => ~ gated[r]
    /\ pc[r] \in BeforeCommit => commits[r] = {}
    /\ pc[r] = "write" => effective[r] = Cardinality(Prepared(r))
    /\ pc[r] = "finish" => Prepared(r) \subseteq Target
    /\ pc[r] = "save" => Covered(wmCurrent[r])

RowsInv ==
    /\ TypeOK
    /\ Covered(state.wm)
    /\ Covered(MaxOrNone(Target))
    /\ \A r \in Runs : BatchInv(r)

LEMMA RowsInvInit == Init => RowsInv
  <1> SUFFICES ASSUME Init PROVE RowsInv
    OBVIOUS
  <1>1. Target = {}
    BY DEF Init, Target
  <1>2. Covered(None) /\ MaxOrNone(Target) = None
    BY <1>1 DEF Covered, Rows, None, MaxOrNone
  <1>3. QED
    BY <1>2, TypeInit DEF Init, RowsInv, BatchInv, ReadIsInterval

\* Coverage is kept by every step that keeps the ingested rows.
LEMMA CoveredKept ==
  ASSUME NEW w, Covered(w), Ingested \subseteq Ingested'
  PROVE  Covered(w)'
  BY DEF Covered

\* A batch that is in the target covers every watermark computed from it.
LEMMA BatchCovers ==
  ASSUME Pinned, TypeOK, NEW r \in Runs, BatchInv(r), NEW S, S \subseteq Rows,
         Prepared(r) \subseteq S, NEW m \in Prepared(r), NEW x \in Rows, x <= m
  PROVE  x \in S \cup Ingested
  <1>1. m \in rowsRead[r] /\ m \in Rows
    BY PreparedRows DEF Prepared
  <1>2. CASE x <= wmPrev[r]
    BY <1>2 DEF BatchInv, Covered
  <1>3. CASE wmPrev[r] < x
    <2>1. x \in rowsRead[r]
      BY <1>1, <1>3 DEF BatchInv, ReadIsInterval
    <2>2. CASE x \in Prepared(r)
      BY <2>2
    <2>3. CASE x \notin Prepared(r)
      BY <2>1, <2>3 DEF Prepared, BatchInv, Ingested
    <2>4. QED
      BY <2>2, <2>3
  <1>4. wmPrev[r] \in Int /\ x \in Int
    BY BoundAssumption DEF TypeOK, Watermarks, Rows
  <1>5. QED
    BY <1>2, <1>3, <1>4

\* A run keeps its part of the invariant while others add rows.
LEMMA BatchInvKept ==
  ASSUME Pinned, NEW q \in Runs, BatchInv(q),
         pc'[q] = pc[q], wmPrev'[q] = wmPrev[q], wmCurrent'[q] = wmCurrent[q],
         rowsRead'[q] = rowsRead[q], effective'[q] = effective[q], gated'[q] = gated[q],
         commits'[q] = commits[q],
         Target \subseteq Target', quarantine \subseteq quarantine'
  PROVE  BatchInv(q)'
  <1>1. Prepared(q)' = Prepared(q)
    BY DEF Prepared
  <1>2. Ingested \subseteq Ingested'
    BY DEF Ingested
  <1>3. Covered(wmPrev[q])' /\ (pc[q] = "save" => Covered(wmCurrent[q])')
    BY <1>2, CoveredKept DEF BatchInv
  <1>4. QED
    BY <1>1, <1>3 DEF BatchInv, ReadIsInterval, Covered

\* Steps that write no rows and leave every batch as it is.
LEMMA RowsInvLocal ==
  ASSUME Pinned, RowsInv, TypeOK', NEW r \in Runs,
         UNCHANGED <<quarantine, commits, rowsRead, gated, effective>>,
         \A q \in Runs \ {r} : pc'[q] = pc[q] /\ wmPrev'[q] = wmPrev[q] /\ wmCurrent'[q] = wmCurrent[q],
         Covered(state'.wm), BatchInv(r)'
  PROVE  RowsInv'
  <1>1. Target' = Target /\ Ingested' = Ingested
    BY DEF Target, Ingested
  <1>2. Covered(MaxOrNone(Target))'
    BY <1>1, CoveredKept DEF RowsInv, Covered
  <1>3. Covered(state.wm)'
    BY <1>1 DEF Covered
  <1>4. ASSUME NEW q \in Runs, q # r PROVE BatchInv(q)'
    BY <1>1, <1>4, BatchInvKept DEF RowsInv
  <1>5. QED
    BY <1>2, <1>3, <1>4 DEF RowsInv

\* The control steps: only pc, status and tables without rows change.
LEMMA RowsInvControl ==
  ASSUME Pinned, RowsInv, TypeOK', NEW r \in Runs,
         UNCHANGED <<quarantine, commits, wmPrev, wmCurrent, rowsRead, gated, effective>>,
         \A q \in Runs \ {r} : pc'[q] = pc[q],
         Covered(state'.wm),
         \/ pc'[r] \in Handlers \cup Ended
         \/ pc[r] \in {"check", "lock", "read_back"} /\ pc'[r] \in {"lock", "read_back", "read"}
  PROVE  RowsInv'
  <1>1. Target' = Target /\ Ingested' = Ingested
    BY DEF Target, Ingested
  <1>2. Covered(wmPrev[r])' /\ ReadIsInterval(r)'
    BY <1>1 DEF RowsInv, BatchInv, Covered, ReadIsInterval
  <1>3. BatchInv(r)'
    BY <1>2 DEF RowsInv, BatchInv, Handlers, Ended, BeforeCommit
  <1>4. QED
    BY <1>3, RowsInvLocal

LEMMA RowsInvNext == ASSUME Pinned PROVE RowsInv /\ [Next]_vars => RowsInv'
  <1> SUFFICES ASSUME RowsInv, [Next]_vars PROVE RowsInv'
    OBVIOUS
  <1>0. TypeOK /\ TypeOK'
    BY TypeNext DEF RowsInv
  <1> USE DEF Goto, RaiseIn
  <1>1. ASSUME NEW r \in Runs,
               \/ CheckIdempotency(r) \/ AcquireLock(r) \/ ReadBack(r) \/ SaveState(r)
               \/ RecordFailure(r) \/ ReleaseLock(r) \/ LogRun(r)
               \/ Raise(r) \/ Interrupt(r) \/ Crash(r)
        PROVE  RowsInv'
    <2>1. /\ UNCHANGED <<quarantine, commits, wmPrev, wmCurrent, rowsRead, gated, effective>>
          /\ \A q \in Runs \ {r} : pc'[q] = pc[q]
      BY <1>1, <1>0 DEF TypeOK, sharedVars, CheckIdempotency, AcquireLock, ReadBack, SaveState,
                  RecordFailure, ReleaseLock, LogRun, Raise, Interrupt, Crash
    <2>2. Covered(state'.wm)
      <3>1. CASE SaveState(r)
        BY <3>1 DEF SaveState, RowsInv, BatchInv
      <3>2. CASE RecordFailure(r)
        BY <3>2 DEF RecordFailure, FailedWatermark, RowsInv, BatchInv
      <3>3. CASE state' = state
        BY <3>3 DEF RowsInv
      <3>4. QED
        BY <1>1, <3>1, <3>2, <3>3
           DEF sharedVars, CheckIdempotency, AcquireLock, ReadBack, ReleaseLock, LogRun,
               Raise, Interrupt, Crash
    <2>3. \/ pc'[r] \in Handlers \cup Ended
          \/ pc[r] \in {"check", "lock", "read_back"} /\ pc'[r] \in {"lock", "read_back", "read"}
      BY <1>1, <1>0 DEF TypeOK, Handlers, Ended, CheckIdempotency, AcquireLock, ReadBack, SaveState,
                  RecordFailure, ReleaseLock, LogRun, Raise, Interrupt, Crash
    <2>4. QED
      BY <1>0, <2>1, <2>2, <2>3, RowsInvControl
  <1>2. ASSUME NEW r \in Runs, ReadWatermark(r) PROVE RowsInv'
    <2>1. Covered(CurrentWatermark) /\ Covered(MaxOrNone(Target))
      BY DEF CurrentWatermark, RowsInv, Covered, None, Rows
    <2>2. Target' = Target /\ Ingested' = Ingested /\ state' = state
      BY <1>2 DEF ReadWatermark, sharedVars, Target, Ingested
    <2>3. Covered(wmPrev[r])'
      BY <1>2, <1>0, <2>1, <2>2 DEF ReadWatermark, Covered, TypeOK
    <2>4. BatchInv(r)'
      BY <1>2, <1>0, <2>3 DEF ReadWatermark, sharedVars, RowsInv, BatchInv, ReadIsInterval, TypeOK, BeforeCommit
    <2>5. QED
      BY <1>0, <1>2, <2>2, <2>4, RowsInvLocal DEF ReadWatermark, sharedVars, RowsInv, TypeOK
  <1>3. ASSUME NEW r \in Runs, Prepare(r) PROVE RowsInv'
    <2>1. Target' = Target /\ Ingested' = Ingested /\ state' = state
      BY <1>3 DEF Prepare, sharedVars, Target, Ingested
    <2>2. rowsRead'[r] = Unread(wmPrev[r]) /\ wmPrev' = wmPrev
      BY <1>3, <1>0 DEF Prepare, TypeOK
    <2>3. ReadIsInterval(r)'
      BY <2>2, <1>0, BoundAssumption DEF ReadIsInterval, Unread, TypeOK, Rows, Watermarks
    <2>4. BatchInv(r)'
      BY <1>3, <1>0, <2>1, <2>2, <2>3
         DEF Prepare, sharedVars, RowsInv, BatchInv, Covered, TypeOK, BeforeCommit
    <2>5. ASSUME NEW q \in Runs, q # r PROVE BatchInv(q)'
      BY <1>3, <1>0, <2>1, <2>5, BatchInvKept DEF Prepare, sharedVars, RowsInv, TypeOK
    <2>6. Covered(MaxOrNone(Target))' /\ Covered(state.wm)'
      BY <2>1 DEF RowsInv, Covered
    <2>7. QED
      BY <1>0, <2>4, <2>5, <2>6 DEF RowsInv
  <1>4. ASSUME NEW r \in Runs, EvaluateQuality(r) PROVE RowsInv'
    <2>1. Target' = Target /\ quarantine \subseteq quarantine' /\ Ingested \subseteq Ingested' /\ state' = state
      BY <1>4 DEF EvaluateQuality, Target, Ingested
    <2>2. Prepared(r) = rowsRead[r] /\ ~ gated[r] /\ commits[r] = {} /\ pc[r] = "quality"
      BY <1>4 DEF EvaluateQuality, Prepared, RowsInv, BatchInv, BeforeCommit
    <2>3. rowsRead[r] \subseteq Rows /\ IsFiniteSet(rowsRead[r])
      BY <1>0, RowSetsFinite DEF TypeOK
    <2>4. Cardinality(rowsRead[r] \ Bad)
            = Cardinality(rowsRead[r]) - Cardinality(rowsRead[r] \cap Bad)
      BY <2>3, FS_Difference, RowSetsFinite DEF Rows
    <2>5. BatchInv(r)'
      <3>1. /\ UNCHANGED <<wmPrev, wmCurrent, rowsRead, commits>>
            /\ Covered(wmPrev[r])' /\ ReadIsInterval(r)'
        BY <1>4, <2>1 DEF EvaluateQuality, RowsInv, BatchInv, Covered, ReadIsInterval
      <3>2. gated'[r] => rowsRead[r] \cap Bad \subseteq quarantine'
        BY <1>4, <1>0, <2>2 DEF EvaluateQuality, TypeOK
      <3>3. pc'[r] = "write" => effective'[r] = Cardinality(Prepared(r)')
        <4>1. CASE gated'[r]
          BY <1>4, <1>0, <2>2, <2>4, <3>1, <4>1 DEF EvaluateQuality, TypeOK, Prepared
        <4>2. CASE ~ gated'[r]
          BY <1>4, <1>0, <2>2, <3>1, <4>2 DEF EvaluateQuality, TypeOK, Prepared
        <4>3. QED
          BY <4>1, <4>2
      <3>4. pc'[r] \in {"write", "except"}
        BY <1>4, <1>0 DEF EvaluateQuality, TypeOK
      <3>5. QED
        BY <2>2, <3>1, <3>2, <3>3, <3>4 DEF BatchInv, BeforeCommit
    <2>6. ASSUME NEW q \in Runs, q # r PROVE BatchInv(q)'
      BY <1>4, <1>0, <2>1, <2>6, BatchInvKept DEF EvaluateQuality, RowsInv, TypeOK
    <2>7. Covered(MaxOrNone(Target))' /\ Covered(state.wm)'
      BY <2>1 DEF RowsInv, Covered
    <2>8. QED
      BY <1>0, <2>5, <2>6, <2>7 DEF RowsInv
  <1>5. ASSUME NEW r \in Runs, Write(r) PROVE RowsInv'
    <2>1. UNCHANGED <<state, quarantine, wmPrev, wmCurrent, rowsRead, gated, effective>>
      BY <1>5 DEF Write
    <2>2. Prepared(r) \subseteq Rows /\ IsFiniteSet(Prepared(r)) /\ commits[r] = {}
      BY <1>0, <1>5, PreparedRows, RowSetsFinite DEF Write, RowsInv, BatchInv, BeforeCommit
    <2>3. commits' = [commits EXCEPT ![r] = Prepared(r)]
      <3>1. CASE effective[r] = 0
        <4>1. Prepared(r) = {}
          BY <1>5, <2>2, <3>1, FS_EmptySet DEF Write, RowsInv, BatchInv
        <4>2. QED
          BY <1>0, <1>5, <2>2, <3>1, <4>1 DEF Write, TypeOK
      <3>2. CASE effective[r] # 0
        BY <1>5, <3>2 DEF Write
      <3>3. QED
        BY <3>1, <3>2
    <2>4. Target' = Target \cup Prepared(r)
      BY <1>0, <2>2, <2>3 DEF Target, TypeOK
    <2>5. Ingested' = Ingested \cup Prepared(r)
      BY <2>1, <2>4 DEF Ingested
    <2>6. Covered(MaxOrNone(Target))'
      <3>1. SUFFICES ASSUME NEW x \in Rows, x <= MaxOrNone(Target') PROVE x \in Ingested'
        BY DEF Covered, MaxOrNone
      <3>2. Target' \subseteq Rows
        BY <1>0, <2>2, <2>4, CurrentWatermarkType
      <3>3. CASE Target' = {}
        BY <3>1, <3>3 DEF MaxOrNone, None, Rows
      <3>4. CASE MaxOrNone(Target') \in Prepared(r)
        BY <1>0, <2>2, <2>5, <3>1, <3>4, BatchCovers DEF RowsInv
      <3>5. CASE MaxOrNone(Target') \in Target
        <4>1. Target \subseteq Rows
          BY <1>0, CurrentWatermarkType
        <4>2. MaxOrNone(Target') <= MaxOrNone(Target)
          BY <3>5, <4>1, MaxOrNoneBounds
        <4>3. x \in Int /\ MaxOrNone(Target) \in Int /\ MaxOrNone(Target') \in Int
          <5>1. MaxOrNone(Target) \in Watermarks /\ MaxOrNone(Target') \in Rows
            BY <3>5, <4>1, MaxOrNoneBounds
          <5>2. QED
            BY <5>1, BoundAssumption DEF Rows, Watermarks
        <4>4. x <= MaxOrNone(Target)
          BY <3>1, <4>2, <4>3
        <4>5. QED
          BY <2>5, <4>4 DEF RowsInv, Covered
      <3>6. QED
        BY <2>4, <3>2, <3>3, <3>4, <3>5, MaxOrNoneBounds
    <2>7. BatchInv(r)'
      <3>1. Prepared(r)' = Prepared(r) /\ pc'[r] = "finish"
        BY <1>0, <1>5, <2>1 DEF Prepared, Write, TypeOK
      <3>2. Covered(wmPrev[r])' /\ ReadIsInterval(r)'
        BY <2>1, <2>5 DEF RowsInv, BatchInv, Covered, ReadIsInterval
      <3>3. QED
        BY <2>1, <2>4, <3>1, <3>2 DEF RowsInv, BatchInv, BeforeCommit
    <2>8. ASSUME NEW q \in Runs, q # r PROVE BatchInv(q)'
      BY <1>0, <1>5, <2>1, <2>3, <2>4, <2>8, BatchInvKept DEF Write, RowsInv, TypeOK
    <2>9. Covered(state.wm)'
      BY <2>1, <2>5 DEF RowsInv, Covered
    <2>10. QED
      BY <1>0, <2>6, <2>7, <2>8, <2>9 DEF RowsInv
  <1>6. ASSUME NEW r \in Runs, Finish(r) PROVE RowsInv'
    <2>1. UNCHANGED <<state, quarantine, commits, wmPrev, rowsRead, gated, effective>>
      BY <1>6 DEF Finish, sharedVars
    <2>2. Target' = Target /\ Ingested' = Ingested
      BY <2>1 DEF Target, Ingested
    <2>3. Prepared(r) \subseteq Target /\ Prepared(r) \subseteq Rows
      BY <1>0, <1>6, PreparedRows DEF Finish, RowsInv, BatchInv
    <2>4. Covered(MaxOrNone(Prepared(r)))
      <3>1. SUFFICES ASSUME NEW x \in Rows, x <= MaxOrNone(Prepared(r)) PROVE x \in Ingested
        BY DEF Covered
      <3>2. CASE Prepared(r) = {}
        BY <3>1, <3>2 DEF MaxOrNone, None, Rows
      <3>3. CASE Prepared(r) # {}
        <4>1. MaxOrNone(Prepared(r)) \in Prepared(r)
          BY <2>3, <3>3, MaxOrNoneBounds
        <4>2. Target \subseteq Rows
          BY <1>0, CurrentWatermarkType
        <4>3. x \in Target \cup Ingested
          BY <1>0, <2>3, <3>1, <4>1, <4>2, BatchCovers DEF RowsInv
        <4>4. QED
          BY <4>3 DEF Ingested
      <3>4. QED
        BY <3>2, <3>3
    <2>5. Covered(wmCurrent'[r])
      BY <1>0, <1>6, <2>4 DEF Finish, TypeOK, RowsInv, BatchInv
    <2>6. BatchInv(r)'
      <3>1. Covered(wmPrev[r])' /\ Covered(wmCurrent[r])' /\ ReadIsInterval(r)'
        BY <2>1, <2>2, <2>5 DEF RowsInv, BatchInv, Covered, ReadIsInterval
      <3>2. pc'[r] = "save"
        BY <1>0, <1>6 DEF Finish, TypeOK
      <3>3. QED
        BY <2>1, <3>1, <3>2 DEF RowsInv, BatchInv, BeforeCommit
    <2>7. QED
      BY <1>0, <1>6, <2>1, <2>6, RowsInvLocal DEF Finish, RowsInv, TypeOK
  <1>7. CASE Tick \/ Emit \/ UNCHANGED vars
    <2>1. UNCHANGED <<state, quarantine, commits, localVars>>
      BY <1>7 DEF Tick, Emit, vars, sharedVars
    <2>2. Target' = Target /\ Ingested' = Ingested
      BY <2>1 DEF Target, Ingested
    <2>3. ASSUME NEW q \in Runs PROVE BatchInv(q)'
      BY <2>1, <2>2, BatchInvKept DEF RowsInv, localVars
    <2>4. Covered(MaxOrNone(Target))' /\ Covered(state.wm)'
      BY <2>1, <2>2 DEF RowsInv, Covered
    <2>5. QED
      BY <1>0, <2>3, <2>4 DEF RowsInv
  <1>8. QED
    BY <1>1, <1>2, <1>3, <1>4, <1>5, <1>6, <1>7 DEF Next, Advance

(***************************************************************************)
(* When prepared_df is evaluated once, no row below the watermark is       *)
(* missing from both the target and the quarantine, with or without the    *)
(* lock, and whatever fails.                                               *)
(***************************************************************************)
THEOREM NoRowIsLost == ASSUME Pinned PROVE Spec => []NoRowLost
  <1>1. RowsInv => NoRowLost
    <2>1. SUFFICES ASSUME RowsInv, NEW x \in 1 .. CurrentWatermark
                   PROVE  x \in Target \cup quarantine
      BY DEF NoRowLost
    <2>2. CurrentWatermark \in Watermarks
      BY <2>1, CurrentWatermarkType DEF RowsInv
    <2>3. x \in Rows /\ x <= CurrentWatermark
      BY <2>1, <2>2, BoundAssumption DEF Rows, Watermarks
    <2>4. Covered(CurrentWatermark)
      BY <2>1 DEF CurrentWatermark, RowsInv, Covered, None, Rows
    <2>5. QED
      BY <2>3, <2>4 DEF Covered, Ingested
  <1>2. QED
    BY <1>1, RowsInvInit, RowsInvNext, PTL DEF Spec

-----------------------------------------------------------------------------

(***************************************************************************)
(* The refinement of Lease.                                                *)
(*                                                                         *)
(* LockInv says that a lease that has not run out is the one in the lock   *)
(* row. The refinement needs the converse as well: a row that names a run  *)
(* as its owner is the one its MERGE wrote, so that the clock of the row   *)
(* and that of the run show the same (RowIsLease). Then the second at      *)
(* which the row can be taken over is the second at which its holder is    *)
(* overdue.                                                                *)
(***************************************************************************)
RowIsLease == \A r \in Runs : ReadBackOwns(r) => lease[r] = lock.left

RefInv == LockInv /\ RowIsLease

LEMMA RowIsLeaseNext == LockInv /\ RowIsLease /\ [Next]_vars => RowIsLease'
  <1> SUFFICES ASSUME LockInv, RowIsLease, [Next]_vars PROVE RowIsLease'
    OBVIOUS
  <1>0. LockTypeOK /\ LockTypeOK'
    BY TypeNext DEF LockInv, TypeOK
  <1>1. CASE UNCHANGED lockVars
    BY <1>1 DEF RowIsLease, ReadBackOwns, lockVars
  <1>2. ASSUME NEW r \in Runs, AcquireMerge(r), Takeable PROVE RowIsLease'
    BY <1>0, <1>2 DEF AcquireMerge, RowIsLease, ReadBackOwns, LockTypeOK
  <1>3. ASSUME NEW r \in Runs, ReleaseUpdate(r) PROVE RowIsLease'
    BY <1>0, <1>3 DEF ReleaseUpdate, RowIsLease, ReadBackOwns, LockTypeOK, LockRows
  <1>4. CASE TimePasses
    BY <1>0, <1>4 DEF TimePasses, RowIsLease, ReadBackOwns, LockTypeOK, LockRows
  <1>5. UNCHANGED lockVars \/ TimePasses \/ \E r \in Runs : (AcquireMerge(r) /\ Takeable) \/ ReleaseUpdate(r)
    BY DEF Next, Advance, vars, CheckIdempotency, AcquireLock, AcquireMerge, ReadBack, ReadWatermark,
           Prepare, EvaluateQuality, Write, Finish, SaveState, RecordFailure, ReleaseLock, LogRun,
           Raise, Interrupt, Crash, Tick, Emit
  <1> QED BY <1>1, <1>2, <1>3, <1>4, <1>5

LEMMA RefInvAlways == Spec => []RefInv
  <1>1. Init => RefInv
    BY LockInvInit DEF Init, LockInit, RefInv, RowIsLease, ReadBackOwns
  <1>2. RefInv /\ [Next]_vars => RefInv'
    BY LockInvNext, RowIsLeaseNext DEF RefInv
  <1> QED BY <1>1, <1>2, PTL DEF Spec

\* The mapping: who is inside, and who is overdue.
Inside == {r \in Runs : Critical(r)}
Overdue == {r \in Runs : Critical(r) /\ lease[r] < 0}

\* A step that leaves the lock alone and moves one run in or out or nowhere.
LEMMA LocalStep ==
  ASSUME RefInv, NEW r \in Runs, UNCHANGED <<lockVars, plan>>,
         \A q \in Runs \ {r} : pc'[q] = pc[q],
         Critical(r)' => Critical(r) \/ ReadBackOwns(r)
  PROVE  TargetLease!Next \/ UNCHANGED TargetLease!leaseVars
  <1> USE DEF TargetLease!leaseVars
  <1>1. Holder' = Holder /\ UNCHANGED <<lock, lease>>
    BY DEF Holder, Takeable, lockVars
  <1>2. \A q \in Runs \ {r} : Critical(q)' <=> Critical(q)
    BY DEF Critical
  <1>3. CASE Critical(r)' <=> Critical(r)
    BY <1>1, <1>2, <1>3
  <1>4. CASE Critical(r) /\ ~ Critical(r)'
    <2>1. TargetLease!Leave(r)
      BY <1>1, <1>2, <1>4 DEF TargetLease!Leave
    <2> QED BY <2>1 DEF TargetLease!Next
  <1>5. CASE ~ Critical(r) /\ Critical(r)'
    <2>1. ReadBackOwns(r) /\ lease[r] = lock.left /\ lock.left \in Int
      BY <1>5 DEF RefInv, RowIsLease, LockInv, TypeOK, LockTypeOK, LockRows
    <2>2. Holder \in {r, NoRun} /\ (Holder = r <=> lease[r] >= 0)
      BY <2>1, NoRunAssumption DEF Holder, Takeable, ReadBackOwns
    <2>3. TargetLease!Enter(r)
      BY <1>1, <1>2, <1>5, <2>1, <2>2 DEF TargetLease!Enter
    <2> QED BY <2>3 DEF TargetLease!Next
  <1> QED BY <1>3, <1>4, <1>5

LEMMA RefineNext == RefInv /\ [Next]_vars => [TargetLease!Next]_(TargetLease!leaseVars)
  <1> SUFFICES ASSUME RefInv, [Next]_vars
               PROVE  TargetLease!Next \/ UNCHANGED TargetLease!leaseVars
    OBVIOUS
  <1> USE DEF Goto, RaiseIn
  <1>0. LockInv /\ TypeOK /\ TypeOK' /\ LockTypeOK
    BY TypeNext DEF RefInv, LockInv, TypeOK
  <1>1. ASSUME NEW r \in Runs,
               \/ CheckIdempotency(r) \/ ReadBack(r) \/ ReadWatermark(r) \/ Prepare(r)
               \/ EvaluateQuality(r) \/ Write(r) \/ Finish(r) \/ SaveState(r)
               \/ RecordFailure(r) \/ LogRun(r) \/ Raise(r) \/ Interrupt(r) \/ Crash(r)
        PROVE  TargetLease!Next \/ UNCHANGED TargetLease!leaseVars
    <2>1. UNCHANGED <<lockVars, plan>>
      BY <1>1 DEF CheckIdempotency, ReadBack, ReadWatermark, Prepare, EvaluateQuality, Write,
                  Finish, SaveState, RecordFailure, LogRun, Raise, Interrupt, Crash
    <2>2. \A q \in Runs \ {r} : pc'[q] = pc[q]
      BY <1>1, <1>0 DEF TypeOK, CheckIdempotency, ReadBack, ReadWatermark, Prepare,
                  EvaluateQuality, Write, Finish, SaveState, RecordFailure, LogRun, Raise,
                  Interrupt, Crash
    <2>3. Critical(r)' => Critical(r) \/ ReadBackOwns(r)
      BY <1>1, <1>0 DEF Critical, AfterCommit, TypeOK,
                  CheckIdempotency, ReadBack, ReadWatermark, Prepare, EvaluateQuality, Write,
                  Finish, SaveState, RecordFailure, LogRun, Raise, Interrupt, Crash
    <2> QED BY <2>1, <2>2, <2>3, LocalStep
  <1>2. ASSUME NEW r \in Runs, AcquireLock(r)
        PROVE  TargetLease!Next \/ UNCHANGED TargetLease!leaseVars
    <2>1. CASE ~ Takeable
      BY <1>0, <1>2, <2>1, LocalStep DEF AcquireLock, AcquireMerge, Critical, AfterCommit, TypeOK
    <2>2. CASE Takeable
      <3>1. Holder = NoRun /\ Holder' = r
        BY <1>2, <2>2, TTLAssumption DEF AcquireLock, AcquireMerge, Holder, Takeable
      <3>2. ~ Critical(r) /\ ~ Critical(r)' /\ plan' = plan
        BY <1>0, <1>2 DEF AcquireLock, Critical, AfterCommit, TypeOK
      <3>3. \A q \in Runs \ {r} : (Critical(q)' <=> Critical(q)) /\ lease'[q] = lease[q]
        BY <1>0, <1>2, <2>2, <3>2 DEF AcquireLock, AcquireMerge, Critical, TypeOK, LockTypeOK
      <3>4. TargetLease!Grant(r)
        BY <3>1, <3>2, <3>3 DEF TargetLease!Grant
      <3> QED BY <3>4 DEF TargetLease!Next
    <2> QED BY <2>1, <2>2
  <1>3. ASSUME NEW r \in Runs, ReleaseLock(r)
        PROVE  TargetLease!Next \/ UNCHANGED TargetLease!leaseVars
    <2>1. CASE UNCHANGED lockVars
      BY <1>0, <1>3, <2>1, LocalStep DEF ReleaseLock, Critical, AfterCommit, TypeOK
    <2>2. CASE ReleaseUpdate(r)
      <3>1. ~ Critical(r) /\ ~ Critical(r)' /\ plan' = plan
        BY <1>0, <1>3 DEF ReleaseLock, Critical, AfterCommit, TypeOK
      <3>2. \A q \in Runs \ {r} : (Critical(q)' <=> Critical(q)) /\ lease'[q] = lease[q]
        BY <1>0, <1>3, <2>2, <3>1 DEF ReleaseLock, ReleaseUpdate, Critical, TypeOK, LockTypeOK
      <3>3. UNCHANGED <<Inside, Overdue>>
        BY <3>1, <3>2 DEF Inside, Overdue
      <3>4. CASE lock.run = r /\ ~ Takeable
        <4>1. Holder = r /\ Holder' = NoRun
          BY <1>0, <2>2, <3>4 DEF ReleaseUpdate, Holder, Takeable, LockTypeOK, LockRows
        <4>2. TargetLease!Return
          BY <3>1, <3>3, <4>1 DEF TargetLease!Return, Inside, Overdue
        <4> QED BY <4>2 DEF TargetLease!Next
      <3>5. CASE lock.run # r \/ Takeable
        <4>1. Holder' = Holder
          BY <1>0, <2>2, <3>5 DEF ReleaseUpdate, Holder, Takeable, LockTypeOK, LockRows
        <4> QED BY <3>3, <4>1 DEF TargetLease!leaseVars, Inside, Overdue
      <3> QED BY <3>4, <3>5
    <2> QED BY <1>3, <2>1, <2>2 DEF ReleaseLock
  <1>4. CASE Tick
    <2>1. \A r \in Runs : Critical(r)' <=> Critical(r)
      BY <1>4 DEF Tick, localVars, Critical
    <2>2. /\ lock.status = "ACTIVE" /\ lock.left \in 0 .. TTL /\ lock.run \in Runs \cup {NoRun}
          /\ lock'.status = lock.status /\ lock'.run = lock.run /\ lock'.left = lock.left - 1
      BY <1>0, <1>4, TTLAssumption DEF Tick, TimePasses, Elapsed, LockTypeOK, LockRows
    <2>3. \A r \in Runs : lease[r] \in -1 .. TTL /\ lease'[r] = IF lease[r] < 0 THEN lease[r] ELSE lease[r] - 1
      BY <1>0, <1>4 DEF Tick, TimePasses, Elapsed, LockTypeOK
    <2>4. \A r \in Runs : lease[r] >= 0 => lock.run = r /\ lock.left = lease[r]
      BY <1>0 DEF LockInv, LeaseIsRow
    <2>5. CASE lock.left = 0
      <3>1. Holder = lock.run /\ Holder' = NoRun
        BY <2>2, <2>5 DEF Holder, Takeable
      <3>2. \A r \in Runs : lease'[r] < 0 <=> (lease[r] < 0 \/ lock.run = r)
        <4>1. \A r \in Runs : ReadBackOwns(r) => lease[r] = lock.left
          BY DEF RefInv, RowIsLease
        <4> QED BY <2>2, <2>3, <2>4, <2>5, <4>1, TTLAssumption DEF ReadBackOwns
      <3>3. Inside' = Inside /\ Overdue' = Overdue \cup ({lock.run} \cap Inside)
        BY <2>1, <3>2 DEF Inside, Overdue
      <3>4. CASE lock.run \in Runs
        <4>1. TargetLease!Expire
          BY <3>1, <3>3, <3>4 DEF TargetLease!Expire, Inside, Overdue
        <4> QED BY <4>1 DEF TargetLease!Next
      <3>5. CASE lock.run = NoRun
        BY <3>1, <3>3, <3>5, NoRunAssumption DEF TargetLease!leaseVars, Inside, Overdue
      <3> QED BY <2>2, <3>4, <3>5
    <2>6. CASE lock.left # 0
      <3>1. Holder' = Holder
        BY <2>2, <2>6 DEF Holder, Takeable
      <3>2. \A r \in Runs : lease'[r] < 0 <=> lease[r] < 0
        BY <2>2, <2>3, <2>4, <2>6, TTLAssumption
      <3> QED BY <2>1, <3>1, <3>2 DEF TargetLease!leaseVars
    <2> QED BY <2>5, <2>6
  <1>5. CASE Emit \/ UNCHANGED vars
    BY <1>5 DEF Emit, vars, lockVars, localVars, TargetLease!leaseVars, Holder, Takeable, Critical
  <1> QED BY <1>1, <1>2, <1>3, <1>4, <1>5 DEF Next, Advance

(***************************************************************************)
(* acquire_lock and release_lock, as ingest_plan calls them, implement the *)
(* lease, for any runs, plans, TTL and faults: every step of a run is a    *)
(* step of the lease or none.                                              *)
(***************************************************************************)
THEOREM LockImplementsLease == Spec => ImplementsLease
  <1>1. Init => TargetLease!Init
    <2> SUFFICES ASSUME Init PROVE TargetLease!Init
      OBVIOUS
    <2>1. Holder = NoRun
      BY DEF Init, LockInit, Holder, Takeable
    <2>2. \A r \in Runs : ~ Critical(r)
      BY DEF Init, Critical, AfterCommit
    <2> QED BY <2>1, <2>2 DEF TargetLease!Init
  <1>2. RefInv /\ [Next]_vars => [TargetLease!Next]_(TargetLease!leaseVars)
    BY RefineNext
  <1> QED BY <1>1, <1>2, RefInvAlways, PTL DEF Spec, ImplementsLease, TargetLease!Spec

(***************************************************************************)
(* What a lease gives.  Nothing here depends on how the runs move: only    *)
(* the definitions of Lease and its state as mapped above are used.        *)
(***************************************************************************)

\* A client inside and not overdue holds the lease.
InTimeHolds == Inside \ Overdue \subseteq {Holder}

LeaseInv == TargetLease!LeaseTypeOK /\ InTimeHolds

LEMMA LeaseInvInit == TargetLease!Init => LeaseInv
  BY DEF TargetLease!Init, LeaseInv, TargetLease!LeaseTypeOK, InTimeHolds, Inside, Overdue

LEMMA LeaseInvNext ==
  ASSUME LeaseInv, [TargetLease!Next]_(TargetLease!leaseVars)
  PROVE  LeaseInv'
  <1> DEFINE I == {r \in Runs : Critical(r)}
             O == {r \in Runs : Critical(r) /\ lease[r] < 0}
  <1>0. /\ Holder \in Runs \cup {NoRun} /\ I \subseteq Runs /\ O \subseteq I
        /\ I \ O \subseteq {Holder} /\ NoRun \notin Runs
    BY NoRunAssumption DEF LeaseInv, InTimeHolds, TargetLease!LeaseTypeOK, Inside, Overdue
  <1>a. ASSUME Holder' \in Runs \cup {NoRun}, I' \subseteq Runs, O' \subseteq I', I' \ O' \subseteq {Holder'}
        PROVE  LeaseInv'
    BY <1>a DEF LeaseInv, InTimeHolds, TargetLease!LeaseTypeOK, Inside, Overdue
  <1>1. ASSUME NEW c \in Runs, TargetLease!Grant(c) PROVE LeaseInv'
    <2>1. Holder = NoRun /\ Holder' = c /\ I' = I /\ O' = O
      BY <1>1 DEF TargetLease!Grant
    <2> HIDE DEF I, O
    <2> QED BY <1>0, <1>a, <2>1
  <1>2. ASSUME NEW c \in Runs, TargetLease!Enter(c) PROVE LeaseInv'
    <2>1. /\ Holder \in {c, NoRun} /\ I' = I \cup {c} /\ Holder' = Holder
          /\ O' = IF Holder = c THEN O ELSE O \cup {c}
      BY <1>2 DEF TargetLease!Enter
    <2> HIDE DEF I, O
    <2> QED BY <1>0, <1>a, <2>1
  <1>3. ASSUME NEW c \in Runs, TargetLease!Leave(c) PROVE LeaseInv'
    <2>1. Holder' = Holder /\ I' = I \ {c} /\ O' = O \ {c}
      BY <1>3 DEF TargetLease!Leave
    <2> HIDE DEF I, O
    <2> QED BY <1>0, <1>a, <2>1
  <1>4. CASE TargetLease!Return
    <2>1. Holder \in Runs \ I /\ Holder' = NoRun /\ I' = I /\ O' = O
      BY <1>4 DEF TargetLease!Return
    <2> HIDE DEF I, O
    <2> QED BY <1>0, <1>a, <2>1
  <1>5. CASE TargetLease!Expire
    <2>1. Holder' = NoRun /\ O' = O \cup ({Holder} \cap I) /\ I' = I
      BY <1>5 DEF TargetLease!Expire
    <2> HIDE DEF I, O
    <2> QED BY <1>0, <1>a, <2>1
  <1>6. CASE UNCHANGED TargetLease!leaseVars
    <2>1. Holder' = Holder /\ I' = I /\ O' = O
      BY <1>6 DEF TargetLease!leaseVars
    <2> HIDE DEF I, O
    <2> QED BY <1>0, <1>a, <2>1
  <1> QED BY <1>1, <1>2, <1>3, <1>4, <1>5, <1>6 DEF TargetLease!Next

(***************************************************************************)
(* Two clients that are inside within their leases are one client: the     *)
(* promise acquire_lock makes, whatever expires (state.py).                *)
(***************************************************************************)
THEOREM LeaseExcludes == TargetLease!Spec => []TargetLease!Exclusion
  <1>1. LeaseInv => TargetLease!Exclusion
    BY DEF LeaseInv, InTimeHolds, TargetLease!Exclusion, Inside, Overdue
  <1>2. LeaseInv /\ [TargetLease!Next]_(TargetLease!leaseVars) => LeaseInv'
    BY LeaseInvNext
  <1> QED BY <1>1, <1>2, LeaseInvInit, PTL DEF TargetLease!Spec

-----------------------------------------------------------------------------
(***************************************************************************)
(* The log of runs.                                                        *)
(*                                                                         *)
(* The two properties look at a run when it is logged or skipped. Outcome  *)
(* follows `status` from its initialisation to the log: as long as a run   *)
(* has not failed it is "SUCCESS" (the default the code starts with), in   *)
(* the except clause "FAILED", and after either of them it is "SUCCESS"    *)
(* exactly for the runs that have saved their state. Interrupts, which go  *)
(* to the finally clause with the default, are excluded: they do falsify   *)
(* both (run interrupt_logged_success).                                    *)
(***************************************************************************)
Outcome(r) ==
    /\ r \in saved => pc[r] \in {"release", "log"} \cup Ended
    /\ pc[r] \in BeforeCommit \cup AfterCommit => status[r] = "SUCCESS"
    /\ pc[r] = "except" => status[r] = "FAILED"
    /\ pc[r] \in {"release", "log", "done"} => (status[r] = "SUCCESS" <=> r \in saved)
    /\ pc[r] # "done" => runLog[r] = "NONE"
    /\ runLog[r] \in {"NONE", status[r]}

\* A run is skipped on behalf of another one that has saved its state.
WorkDone(r) == status[r] = "SKIPPED" => \E q \in saved : q # r /\ plan[q].key = plan[r].key

LogInv == TypeOK /\ \A r \in Runs : Outcome(r) /\ WorkDone(r)

\* A step of r that takes nobody out of `saved` leaves the other runs as they are.
LEMMA LogInvStep ==
  ASSUME LogInv, TypeOK', NEW r \in Runs, UNCHANGED plan,
         \A q \in Runs \ {r} : /\ pc'[q] = pc[q] /\ status'[q] = status[q] /\ runLog'[q] = runLog[q]
                               /\ q \in saved' <=> q \in saved,
         saved \subseteq saved', Outcome(r)', status'[r] = status[r] \/ WorkDone(r)'
  PROVE  LogInv'
  <1>1. ASSUME NEW q \in Runs, q # r PROVE Outcome(q)' /\ WorkDone(q)'
    BY <1>1 DEF LogInv, Outcome, WorkDone
  <1>2. WorkDone(r)'
    BY DEF LogInv, WorkDone
  <1> QED BY <1>1, <1>2 DEF LogInv

LEMMA LogInvNext == ASSUME "interrupt" \notin Faults PROVE LogInv /\ [Next]_vars => LogInv'
  <1> SUFFICES ASSUME LogInv, [Next]_vars PROVE LogInv'
    OBVIOUS
  <1> USE DEF Goto, RaiseIn
  <1>0. TypeOK /\ TypeOK'
    BY TypeNext DEF LogInv
  <1>1. ASSUME NEW r \in Runs, CheckIdempotency(r) PROVE LogInv'
    <2>1. Outcome(r)'
      BY <1>0, <1>1 DEF CheckIdempotency, sharedVars, LogInv, Outcome, TypeOK, BeforeCommit, AfterCommit, Ended
    <2>2. ASSUME status'[r] = "SKIPPED" PROVE \E q \in saved : q # r /\ plan[q].key = plan[r].key
      <3>1. Succeeded(r) # {}
        BY <1>0, <1>1, <2>2 DEF CheckIdempotency, TypeOK, LogInv, Outcome, BeforeCommit
      <3>2. PICK q \in Runs : plan[q].key = plan[r].key /\ runLog[q] = "SUCCESS"
        BY <3>1 DEF Succeeded
      <3>3. q # r
        BY <1>1, <3>2 DEF CheckIdempotency, LogInv, Outcome
      <3>4. q \in saved
        BY <3>2 DEF LogInv, Outcome
      <3> QED BY <3>2, <3>3, <3>4
    <2>3. WorkDone(r)'
      BY <1>1, <2>2 DEF CheckIdempotency, WorkDone
    <2>4. /\ UNCHANGED <<plan, runLog, saved>>
          /\ \A q \in Runs \ {r} : pc'[q] = pc[q] /\ status'[q] = status[q]
      BY <1>0, <1>1 DEF CheckIdempotency, TypeOK, sharedVars
    <2> QED BY <1>0, <2>1, <2>3, <2>4, LogInvStep
  <1>2. ASSUME NEW r \in Runs,
               \/ AcquireLock(r) \/ ReadBack(r) \/ ReadWatermark(r) \/ Prepare(r)
               \/ EvaluateQuality(r) \/ Write(r) \/ Finish(r) \/ SaveState(r)
               \/ RecordFailure(r) \/ ReleaseLock(r) \/ LogRun(r) \/ Raise(r) \/ Crash(r)
        PROVE  LogInv'
    <2>1. /\ UNCHANGED plan
          /\ \A q \in Runs \ {r} : /\ pc'[q] = pc[q] /\ status'[q] = status[q] /\ runLog'[q] = runLog[q]
                                   /\ q \in saved' <=> q \in saved
          /\ saved \subseteq saved'
      BY <1>0, <1>2 DEF TypeOK, sharedVars, AcquireLock, ReadBack, ReadWatermark, Prepare,
         EvaluateQuality, Write, Finish, SaveState, RecordFailure, ReleaseLock, LogRun, Raise, Crash
    <2>2. CASE AcquireLock(r) \/ ReadBack(r) \/ ReadWatermark(r) \/ Prepare(r)
      <3>1. Outcome(r)'
        BY <1>0, <2>2 DEF TypeOK, LogInv, Outcome, sharedVars, AcquireLock, ReadBack, ReadWatermark, Prepare,
           BeforeCommit, AfterCommit, Ended
      <3>2. status'[r] \in {status[r], "FAILED"}
        BY <1>0, <2>2 DEF TypeOK, AcquireLock, ReadBack, ReadWatermark, Prepare
      <3> QED BY <1>0, <2>1, <3>1, <3>2, LogInvStep DEF WorkDone
    <2>3. CASE EvaluateQuality(r) \/ Write(r) \/ Finish(r)
      <3>1. Outcome(r)'
        BY <1>0, <2>3 DEF TypeOK, LogInv, Outcome, sharedVars, EvaluateQuality, Write, Finish,
           BeforeCommit, AfterCommit, Ended
      <3>2. status'[r] \in {status[r], "FAILED"}
        BY <1>0, <2>3 DEF TypeOK, EvaluateQuality, Write, Finish
      <3> QED BY <1>0, <2>1, <3>1, <3>2, LogInvStep DEF WorkDone
    <2>4. CASE SaveState(r) \/ RecordFailure(r) \/ ReleaseLock(r) \/ LogRun(r)
      <3>1. Outcome(r)'
        BY <1>0, <2>4 DEF TypeOK, LogInv, Outcome, sharedVars, SaveState, RecordFailure, ReleaseLock, LogRun,
           BeforeCommit, AfterCommit, Ended, Statuses
      <3>2. status'[r] = status[r]
        BY <2>4 DEF SaveState, RecordFailure, ReleaseLock, LogRun
      <3> QED BY <1>0, <2>1, <3>1, <3>2, LogInvStep
    <2>5. CASE Raise(r) \/ Crash(r)
      <3>1. Outcome(r)'
        BY <1>0, <2>5 DEF TypeOK, LogInv, Outcome, sharedVars, Raise, Crash,
           BeforeCommit, AfterCommit, Ended
      <3>2. status'[r] \in {status[r], "FAILED"}
        BY <1>0, <2>5 DEF TypeOK, Raise, Crash
      <3> QED BY <1>0, <2>1, <3>1, <3>2, LogInvStep DEF WorkDone
    <2> QED BY <1>2, <2>2, <2>3, <2>4, <2>5
  <1>3. CASE Tick \/ Emit \/ UNCHANGED vars
    <2>1. UNCHANGED <<plan, pc, status, runLog, saved>>
      BY <1>3 DEF Tick, Emit, vars, sharedVars, localVars
    <2> QED BY <1>0, <2>1 DEF LogInv, Outcome, WorkDone
  <1>4. ASSUME NEW r \in Runs PROVE ~ Interrupt(r)
    BY DEF Interrupt
  <1> QED BY <1>1, <1>2, <1>3, <1>4 DEF Next, Advance

LEMMA LogInvAlways == ASSUME "interrupt" \notin Faults PROVE Spec => []LogInv
  <1>1. Init => LogInv
    BY TypeInit DEF Init, LogInv, Outcome, WorkDone, BeforeCommit
  <1> QED BY <1>1, LogInvNext, PTL DEF Spec

(***************************************************************************)
(* A run that the log calls a success has saved its state, and one that it *)
(* calls failed or skipped has not (_finalize_execution writes the status  *)
(* that the try block left), unless interrupts pass the except clause by.  *)
(***************************************************************************)
THEOREM LogIsTruthful == ASSUME "interrupt" \notin Faults PROVE Spec => []RunLogTruthful
  <1>1. LogInv => RunLogTruthful
    BY DEF LogInv, Outcome, RunLogTruthful
  <1> QED BY <1>1, LogInvAlways, PTL

(***************************************************************************)
(* A run is skipped for its idempotency key only when another run with     *)
(* that key has saved its state (find_idempotent_run and skip_if_success), *)
(* unless interrupts pass the except clause by.                            *)
(***************************************************************************)
THEOREM SkipsAreDone == ASSUME "interrupt" \notin Faults PROVE Spec => []SkippedWorkIsDone
  <1>1. LogInv => SkippedWorkIsDone
    BY DEF LogInv, WorkDone, SkippedWorkIsDone
  <1> QED BY <1>1, LogInvAlways, PTL

-----------------------------------------------------------------------------
(***************************************************************************)
(* Successful runs follow each other.                                      *)
(*                                                                         *)
(* Every plan locks and no run is slower than its lease (Serialised), and  *)
(* the contract has a watermark that comes from a batch evaluated once     *)
(* (Watermarked, Pinned): two runs that succeed have then loaded different *)
(* rows. That is not inductive. HoldInv adds that a run keeps its lease    *)
(* from the moment it reads its watermark until it has saved, or until it  *)
(* has written its failure with that watermark; OneHolder, that there is   *)
(* one such run. SavedInv adds what it relies on: every watermark it can   *)
(* have read is past the rows of all that succeeded before it (Past), what *)
(* it reads lies above its watermark (Fresh), and what it is about to save *)
(* is again past everything (Candidate). A failed run puts NULL or its own *)
(* wmPrev back, and both leave the next run past the saved rows.           *)
(***************************************************************************)
Serialised == (\A p \in Plans : p.lock) /\ "slow" \notin Faults

\* r has read its watermark and still has its lease.
Loading(r) == \/ pc[r] \in {"prepare", "quality", "write", "finish", "save"}
              \/ pc[r] = "except" /\ wmPrev[r] # None

\* Loading runs have their lease; before the read, the watermark is unset.
HoldInv ==
    /\ LockInv
    /\ \A r \in Runs : /\ pc[r] \in {"check", "lock", "read_back", "read"} => wmPrev[r] = None
                       /\ Loading(r) => lease[r] >= 0

LEMMA HoldInvNext == ASSUME Serialised PROVE HoldInv /\ [Next]_vars => HoldInv'
  <1> SUFFICES ASSUME HoldInv, [Next]_vars PROVE HoldInv'
    OBVIOUS
  <1> USE DEF Goto, RaiseIn
  <1>0. LockInv /\ LockInv' /\ TypeOK /\ TypeOK'
    BY LockInvNext DEF HoldInv, LockInv
  <1>1. \A r \in Runs : Critical(r)' => lease'[r] >= 0
    BY <1>0 DEF LockInv, LiveOwnerHasLease, Serialised
  <1>2. \A r \in Runs : plan'[r].lock
    BY <1>0 DEF TypeOK, Serialised
  <1>3. SUFFICES ASSUME NEW r \in Runs
                 PROVE  /\ pc'[r] \in {"check", "lock", "read_back", "read"} => wmPrev'[r] = None
                        /\ pc'[r] = "except" /\ wmPrev'[r] # None => lease'[r] >= 0
    BY <1>0, <1>1, <1>2 DEF HoldInv, Loading, Critical, AfterCommit
  <1>4. /\ pc[r] \in {"check", "lock", "read_back", "read"} => wmPrev[r] = None
        /\ pc[r] = "except" /\ wmPrev[r] # None => lease[r] >= 0
        /\ pc[r] \in {"prepare", "quality", "write", "finish", "save"} => lease[r] >= 0
    BY DEF HoldInv, Loading
  <1>5. ASSUME NEW q \in Runs,
               \/ CheckIdempotency(q) \/ ReadBack(q) \/ ReadWatermark(q) \/ Prepare(q)
               \/ EvaluateQuality(q) \/ Write(q) \/ Finish(q) \/ SaveState(q)
               \/ RecordFailure(q) \/ LogRun(q) \/ Raise(q) \/ Interrupt(q) \/ Crash(q)
        PROVE  /\ pc'[r] \in {"check", "lock", "read_back", "read"} => wmPrev'[r] = None
               /\ pc'[r] = "except" /\ wmPrev'[r] # None => lease'[r] >= 0
    <2>1. lease' = lease
      BY <1>5 DEF lockVars, CheckIdempotency, ReadBack, ReadWatermark, Prepare, EvaluateQuality, Write,
                  Finish, SaveState, RecordFailure, LogRun, Raise, Interrupt, Crash
    <2>2. CASE q = r
      BY <1>0, <1>4, <1>5, <2>1, <2>2
         DEF TypeOK, CheckIdempotency, ReadBack, ReadWatermark, Prepare, EvaluateQuality, Write,
             Finish, SaveState, RecordFailure, LogRun, Raise, Interrupt, Crash, BeforeCommit, AfterCommit
    <2>3. CASE q # r
      <3>1. pc'[r] = pc[r] /\ wmPrev'[r] = wmPrev[r]
        BY <1>0, <1>5, <2>3
           DEF TypeOK, CheckIdempotency, ReadBack, ReadWatermark, Prepare, EvaluateQuality, Write,
               Finish, SaveState, RecordFailure, LogRun, Raise, Interrupt, Crash
      <3> QED BY <1>4, <2>1, <3>1
    <2> QED BY <2>2, <2>3
  <1>6. ASSUME NEW q \in Runs, AcquireLock(q) \/ ReleaseLock(q)
        PROVE  /\ pc'[r] \in {"check", "lock", "read_back", "read"} => wmPrev'[r] = None
               /\ pc'[r] = "except" /\ wmPrev'[r] # None => lease'[r] >= 0
    <2>1. /\ wmPrev' = wmPrev /\ (q # r => pc'[r] = pc[r] /\ lease'[r] = lease[r])
          /\ pc'[q] \in {"read_back", "log"} /\ (pc'[q] = "read_back" => pc[q] = "lock")
      BY <1>0, <1>6
         DEF TypeOK, LockTypeOK, lockVars, AcquireLock, AcquireMerge, ReleaseLock, ReleaseUpdate
    <2> QED BY <1>4, <2>1
  <1>7. CASE Tick
    <2>1. UNCHANGED <<pc, wmPrev>> /\ MayElapse(r)
      BY <1>7 DEF Tick, localVars, Serialised
    <2>2. pc[r] = "except" /\ lease[r] >= 0 => lease'[r] >= 0
      BY <1>0, <1>7, <2>1 DEF Tick, TimePasses, Elapsed, MayElapse, Ended, TypeOK, LockTypeOK
    <2> QED BY <1>4, <2>1, <2>2
  <1>8. CASE Emit \/ UNCHANGED vars
    BY <1>4, <1>8 DEF Emit, vars, lockVars, localVars
  <1> QED BY <1>5, <1>6, <1>7, <1>8 DEF Next, Advance

\* There is at most one run with a lease.
LEMMA OneHolder ==
  ASSUME Serialised, HoldInv, NEW r \in Runs, NEW q \in Runs,
         Loading(r) \/ pc[r] = "read", Loading(q) \/ pc[q] = "read"
  PROVE  r = q
  <1>1. TypeOK
    BY DEF HoldInv, LockInv
  <1>2. lease[r] >= 0 /\ lease[q] >= 0
    BY <1>1 DEF HoldInv, LockInv, LiveOwnerHasLease, Critical, Serialised, TypeOK
  <1> QED BY <1>2 DEF HoldInv, LockInv, LeaseIsRow

\* The rows of the successful runs, and a watermark above them all.
SavedRows == UNION {commits[q] : q \in saved}
Past(w) == \A x \in SavedRows : x <= w

\* The watermark r is about to save covers what has been saved and what r wrote.
Candidate(r) ==
    \/ wmCurrent[r] = None /\ commits[r] = {}
    \/ Past(wmCurrent[r]) /\ \A x \in commits[r] : x <= wmCurrent[r]

\* The batch of r is above its watermark, and r has written no more than it.
Fresh(r) ==
    /\ pc[r] \in BeforeCommit \cup AfterCommit \cup {"except"} => r \notin saved
    /\ \A x \in rowsRead[r] : x > wmPrev[r]
    /\ pc[r] = "finish" => commits[r] = Prepared(r)
    /\ pc[r] = "save" => commits[r] \subseteq rowsRead[r]

\* r started past every row saved before, and saves past them.
Ahead(r) ==
    /\ Loading(r) => Past(wmPrev[r])
    /\ pc[r] = "save" => Candidate(r)

\* The inductive invariant.
SavedInv ==
    /\ HoldInv
    /\ RowsInv
    /\ state.wm # None => Past(state.wm)
    /\ SuccessfulRunsDisjoint
    /\ \A r \in Runs : Fresh(r) /\ Ahead(r)

\* What a write appends, when prepared_df is evaluated once.
LEMMA WriteCommits ==
  ASSUME Pinned, RowsInv, NEW r \in Runs, Write(r)
  PROVE  commits[r] = {} /\ commits' = [commits EXCEPT ![r] = Prepared(r)]
  <1>0. TypeOK
    BY DEF RowsInv
  <1>1. Prepared(r) \subseteq Rows /\ IsFiniteSet(Prepared(r)) /\ commits[r] = {}
    BY <1>0, PreparedRows, RowSetsFinite DEF Write, RowsInv, BatchInv, BeforeCommit
  <1>2. CASE effective[r] = 0
    <2>1. Prepared(r) = {}
      BY <1>1, <1>2, FS_EmptySet DEF Write, RowsInv, BatchInv
    <2> QED BY <1>0, <1>1, <1>2, <2>1 DEF Write, TypeOK
  <1>3. CASE effective[r] # 0
    BY <1>1, <1>3 DEF Write
  <1> QED BY <1>2, <1>3

\* SavedRows and the target are rows.
LEMMA SavedRowsInTarget ==
  ASSUME TypeOK
  PROVE  SavedRows \subseteq Target /\ Target \subseteq Rows
  BY CurrentWatermarkType DEF TypeOK, SavedRows, Target

\* The next run starts after every successful one.
LEMMA StartsPast ==
  ASSUME Watermarked, TypeOK, state.wm # None => Past(state.wm)
  PROVE  Past(CurrentWatermark) /\ Past(MaxOrNone(Target))
  BY SavedRowsInTarget, MaxOrNoneBounds DEF CurrentWatermark, Past

\* Every part of the invariant about another run survives a step that saves
\* nothing and changes none of its variables.
LEMMA OthersKept ==
  ASSUME Pinned, NEW q \in Runs, Fresh(q), Ahead(q), SavedRows' = SavedRows,
         q \in saved' <=> q \in saved,
         pc'[q] = pc[q], wmPrev'[q] = wmPrev[q], wmCurrent'[q] = wmCurrent[q],
         rowsRead'[q] = rowsRead[q], gated'[q] = gated[q], commits'[q] = commits[q]
  PROVE  Fresh(q)' /\ Ahead(q)'
  BY DEF Fresh, Ahead, Candidate, Past, Loading, Prepared

\* A step of r that saves nothing, or at most puts an old watermark back.
LEMMA SavedInvStep ==
  ASSUME Pinned, SavedInv, HoldInv', RowsInv', NEW r \in Runs,
         UNCHANGED saved, SavedRows' = SavedRows,
         \A q \in Runs \ {r} :
            /\ pc'[q] = pc[q] /\ wmPrev'[q] = wmPrev[q] /\ wmCurrent'[q] = wmCurrent[q]
            /\ rowsRead'[q] = rowsRead[q] /\ gated'[q] = gated[q] /\ commits'[q] = commits[q],
         \A q \in saved : commits'[q] = commits[q],
         state'.wm \in {None, state.wm} \/ Past(state'.wm),
         Fresh(r)', Ahead(r)'
  PROVE  SavedInv'
  <1>1. ASSUME NEW q \in Runs, q # r PROVE Fresh(q)' /\ Ahead(q)'
    BY <1>1, OthersKept DEF SavedInv
  <1>2. SuccessfulRunsDisjoint'
    BY DEF SavedInv, SuccessfulRunsDisjoint
  <1>3. (state.wm # None => Past(state.wm))'
    BY DEF SavedInv, Past
  <1> QED BY <1>1, <1>2, <1>3 DEF SavedInv

\* One step per action; only SaveState adds to the saved rows.
LEMMA SavedInvNext ==
  ASSUME Pinned, Watermarked, Serialised
  PROVE  SavedInv /\ [Next]_vars => SavedInv'
  <1> SUFFICES ASSUME SavedInv, [Next]_vars PROVE SavedInv'
    OBVIOUS
  <1> USE DEF Goto, RaiseIn
  <1>0. TypeOK /\ TypeOK' /\ HoldInv /\ HoldInv' /\ RowsInv /\ RowsInv'
    BY TypeNext, HoldInvNext, RowsInvNext DEF SavedInv, RowsInv
  <1>1. ASSUME NEW r \in Runs,
               \/ CheckIdempotency(r) \/ AcquireLock(r) \/ ReadBack(r) \/ ReleaseLock(r)
               \/ LogRun(r) \/ Raise(r) \/ Interrupt(r) \/ Crash(r) \/ RecordFailure(r)
        PROVE  SavedInv'
    <2>1. /\ UNCHANGED <<commits, wmPrev, wmCurrent, rowsRead, gated, saved>>
          /\ \A q \in Runs \ {r} : pc'[q] = pc[q]
      BY <1>0, <1>1 DEF TypeOK, sharedVars, CheckIdempotency, AcquireLock, ReadBack, ReleaseLock,
                  LogRun, Raise, Interrupt, Crash, RecordFailure
    <2>2. SavedRows' = SavedRows
      BY <2>1 DEF SavedRows
    <2>3. state'.wm \in {None, state.wm} \/ Past(state'.wm)
      <3>1. CASE RecordFailure(r)
        BY <3>1 DEF RecordFailure, FailedWatermark, SavedInv, Ahead, Loading
      <3>2. CASE state' = state
        BY <3>2
      <3> QED BY <1>1, <3>1, <3>2
              DEF sharedVars, CheckIdempotency, AcquireLock, ReadBack, ReleaseLock,
                  LogRun, Raise, Interrupt, Crash
    <2>4. /\ pc'[r] \notin AfterCommit
          /\ pc'[r] \in BeforeCommit \cup AfterCommit \cup {"except"} =>
                pc[r] \in BeforeCommit \cup AfterCommit \cup {"except"}
          /\ Loading(r)' => Loading(r)
      BY <1>0, <1>1, <2>1
         DEF TypeOK, CheckIdempotency, AcquireLock, ReadBack, ReleaseLock, LogRun, Raise, Interrupt,
             Crash, RecordFailure, BeforeCommit, AfterCommit, Loading, HoldInv
    <2>5. Fresh(r)' /\ Ahead(r)'
      BY <2>1, <2>2, <2>4 DEF SavedInv, Fresh, Ahead, Past, AfterCommit
    <2> QED BY <1>0, <2>1, <2>2, <2>3, <2>5, SavedInvStep
  <1>2. ASSUME NEW r \in Runs, ReadWatermark(r) PROVE SavedInv'
    <2>1. UNCHANGED <<state, commits, wmCurrent, rowsRead, gated, saved>> /\ SavedRows' = SavedRows
      BY <1>2 DEF ReadWatermark, sharedVars, SavedRows
    <2>2. Past(CurrentWatermark) /\ Past(MaxOrNone(Target))
      BY <1>0, StartsPast DEF SavedInv
    <2>3. /\ Past(wmPrev'[r]) /\ pc'[r] = "prepare" /\ pc[r] = "read"
          /\ \A q \in Runs \ {r} : pc'[q] = pc[q] /\ wmPrev'[q] = wmPrev[q]
      BY <1>0, <1>2, <2>2 DEF ReadWatermark, TypeOK
    <2>4. rowsRead[r] = {}
      BY <1>0, <2>3 DEF RowsInv, BatchInv
    <2>5. Fresh(r)'
      BY <2>1, <2>3, <2>4 DEF SavedInv, Fresh, BeforeCommit
    <2>6. Ahead(r)'
      BY <2>1, <2>3 DEF Ahead, Past
    <2> QED BY <1>0, <2>1, <2>3, <2>5, <2>6, SavedInvStep
  <1>3. ASSUME NEW r \in Runs, Prepare(r) \/ EvaluateQuality(r) PROVE SavedInv'
    <2>1. UNCHANGED <<state, commits, wmPrev, wmCurrent, saved>> /\ SavedRows' = SavedRows
      BY <1>3 DEF Prepare, EvaluateQuality, sharedVars, SavedRows
    <2>2. /\ pc[r] \in {"prepare", "quality"} /\ pc'[r] \in {"quality", "write", "except"}
          /\ \A q \in Runs \ {r} : pc'[q] = pc[q] /\ rowsRead'[q] = rowsRead[q] /\ gated'[q] = gated[q]
      BY <1>0, <1>3 DEF Prepare, EvaluateQuality, TypeOK
    <2>3. \A x \in rowsRead'[r] : x > wmPrev[r]
      <3>1. CASE Prepare(r)
        BY <1>0, <3>1 DEF Prepare, Unread, TypeOK
      <3>2. CASE EvaluateQuality(r)
        BY <3>2 DEF EvaluateQuality, SavedInv, Fresh
      <3> QED BY <1>3, <3>1, <3>2
    <2>4. Fresh(r)'
      BY <2>1, <2>2, <2>3 DEF SavedInv, Fresh, BeforeCommit
    <2>5. Ahead(r)'
      BY <2>1, <2>2 DEF SavedInv, Ahead, Past, Loading
    <2> QED BY <1>0, <2>1, <2>2, <2>4, <2>5, SavedInvStep
  <1>4. ASSUME NEW r \in Runs, Write(r) PROVE SavedInv'
    <2>1. /\ UNCHANGED <<state, wmPrev, wmCurrent, rowsRead, gated, saved>>
          /\ pc[r] = "write" /\ pc'[r] = "finish"
          /\ \A q \in Runs \ {r} : pc'[q] = pc[q]
      BY <1>0, <1>4 DEF Write, TypeOK
    <2>2. commits' = [commits EXCEPT ![r] = Prepared(r)]
      BY <1>0, <1>4, WriteCommits
    <2>3. r \notin saved
      BY <2>1 DEF SavedInv, Fresh, BeforeCommit
    <2>4. (\A q \in Runs \ {r} : commits'[q] = commits[q]) /\ commits'[r] = Prepared(r)
      BY <1>0, <2>2 DEF TypeOK
    <2>5. \A q \in saved : commits'[q] = commits[q]
      BY <1>0, <2>3, <2>4 DEF TypeOK
    <2>6. SavedRows' = SavedRows
      BY <2>1, <2>5 DEF SavedRows
    <2>7. Prepared(r)' = Prepared(r)
      BY <2>1 DEF Prepared
    <2>8. Fresh(r)'
      BY <2>1, <2>3, <2>4, <2>7 DEF SavedInv, Fresh
    <2>9. Ahead(r)'
      BY <2>1, <2>6 DEF SavedInv, Ahead, Past, Loading
    <2> QED BY <1>0, <2>1, <2>4, <2>5, <2>6, <2>8, <2>9, SavedInvStep
  <1>5. ASSUME NEW r \in Runs, Finish(r) PROVE SavedInv'
    <2>1. /\ UNCHANGED <<state, commits, wmPrev, rowsRead, gated, saved>>
          /\ pc[r] = "finish" /\ pc'[r] = "save"
          /\ wmCurrent'[r] = IF rowsRead[r] # {} THEN MaxOrNone(Prepared(r)) ELSE wmPrev[r]
          /\ \A q \in Runs \ {r} : pc'[q] = pc[q] /\ wmCurrent'[q] = wmCurrent[q]
      BY <1>0, <1>5 DEF Finish, sharedVars, TypeOK
    <2>2. SavedRows' = SavedRows
      BY <2>1 DEF SavedRows
    <2>3. /\ commits[r] = Prepared(r) /\ Prepared(r) \subseteq rowsRead[r]
          /\ Past(wmPrev[r]) /\ r \notin saved
          /\ \A x \in rowsRead[r] : x > wmPrev[r]
      BY <2>1 DEF SavedInv, Fresh, Ahead, Loading, Prepared, AfterCommit
    <2>4. Candidate(r)'
      <3>1. CASE Prepared(r) = {} /\ rowsRead[r] # {}
        BY <2>1, <2>3, <3>1 DEF Candidate, MaxOrNone
      <3>2. CASE rowsRead[r] = {}
        BY <2>1, <2>2, <2>3, <3>2 DEF Candidate, Past
      <3>3. CASE Prepared(r) # {}
        <4>1. Prepared(r) \subseteq Rows /\ SavedRows \subseteq Rows
          BY <1>0, PreparedRows, SavedRowsInTarget
        <4>2. /\ wmCurrent'[r] \in Prepared(r)
              /\ \A x \in Prepared(r) : x <= wmCurrent'[r]
          BY <2>1, <2>3, <3>3, <4>1, MaxOrNoneBounds
        <4>3. \A x \in SavedRows : x <= wmCurrent'[r]
          <5>1. wmCurrent'[r] > wmPrev[r] /\ wmCurrent'[r] \in Rows
            BY <2>3, <4>1, <4>2
          <5>2. \A x \in SavedRows : x <= wmPrev[r] /\ x \in Rows
            BY <2>3, <4>1 DEF Past
          <5>3. wmPrev[r] \in Int /\ MaxRow \in Int
            BY <1>0, BoundAssumption DEF TypeOK, Watermarks
          <5> QED BY <5>1, <5>2, <5>3 DEF Rows
        <4> QED BY <2>1, <2>2, <2>3, <4>2, <4>3 DEF Candidate, Past
      <3> QED BY <3>1, <3>2, <3>3
    <2>5. Fresh(r)' /\ Ahead(r)'
      BY <2>1, <2>2, <2>3, <2>4 DEF Fresh, Ahead, Past
    <2> QED BY <1>0, <2>1, <2>2, <2>5, SavedInvStep
  <1>6. ASSUME NEW r \in Runs, SaveState(r) PROVE SavedInv'
    <2>1. /\ UNCHANGED <<commits, wmPrev, wmCurrent, rowsRead, gated>>
          /\ pc[r] = "save" /\ pc'[r] = "release"
          /\ state'.wm = wmCurrent[r] /\ saved' = saved \cup {r}
          /\ \A q \in Runs \ {r} : pc'[q] = pc[q]
      BY <1>0, <1>6 DEF SaveState, TypeOK
    <2>2. SavedRows' = SavedRows \cup commits[r]
      BY <2>1 DEF SavedRows
    <2>3. Candidate(r) /\ Past(wmPrev[r]) /\ \A x \in commits[r] : x > wmPrev[r]
      BY <2>1 DEF SavedInv, Fresh, Ahead, Loading
    <2>4. (state.wm # None => Past(state.wm))'
      BY <2>1, <2>2, <2>3 DEF Candidate, Past
    <2>5. SavedRows \cap commits[r] = {}
      <3>1. SavedRows \subseteq Int /\ wmPrev[r] \in Int
        BY <1>0, SavedRowsInTarget, BoundAssumption DEF TypeOK, Rows, Watermarks
      <3>2. ASSUME NEW x \in SavedRows, x \in commits[r] PROVE FALSE
        <4>1. x <= wmPrev[r] /\ x > wmPrev[r]
          BY <2>3, <3>2 DEF Past
        <4>2. x \in Int /\ wmPrev[r] \in Int
          BY <3>1
        <4> QED BY <4>1, <4>2
      <3> QED BY <3>2
    <2>6. SuccessfulRunsDisjoint'
      <3>1. \A q \in saved : commits[q] \cap commits[r] = {}
        BY <2>5 DEF SavedRows
      <3> QED BY <2>1, <3>1 DEF SavedInv, SuccessfulRunsDisjoint
    <2>7. Fresh(r)' /\ Ahead(r)'
      BY <2>1 DEF SavedInv, Fresh, Ahead, Loading, BeforeCommit, AfterCommit
    <2>8. ASSUME NEW q \in Runs, q # r PROVE Fresh(q)' /\ Ahead(q)'
      <3>1. ~ Loading(q)
        BY <1>0, <2>1, <2>8, OneHolder DEF Loading
      <3>2. pc[q] # "save" /\ ~ Loading(q)'
        BY <2>1, <2>8, <3>1 DEF Loading
      <3> QED BY <2>1, <2>8, <3>2 DEF SavedInv, Fresh, Ahead, Prepared
    <2> QED BY <1>0, <2>4, <2>6, <2>7, <2>8 DEF SavedInv
  <1>7. CASE Tick \/ Emit \/ UNCHANGED vars
    <2>1. UNCHANGED <<state, commits, pc, wmPrev, wmCurrent, rowsRead, gated, saved>>
      BY <1>7 DEF Tick, Emit, vars, sharedVars, localVars
    <2>2. SavedRows' = SavedRows
      BY <2>1 DEF SavedRows
    <2>3. \A q \in Runs : Fresh(q)' /\ Ahead(q)'
      BY <2>1, <2>2, OthersKept DEF SavedInv
    <2> QED BY <1>0, <2>1, <2>2, <2>3 DEF SavedInv, Past, SuccessfulRunsDisjoint
  <1> QED BY <1>1, <1>2, <1>3, <1>4, <1>5, <1>6, <1>7 DEF Next, Advance

LEMMA SavedInvAlways ==
  ASSUME Pinned, Watermarked, Serialised
  PROVE  Spec => []SavedInv
  <1>1. Init => HoldInv
    BY LockInvInit DEF Init, HoldInv, Loading
  <1>2. Init => SavedInv
    BY <1>1, RowsInvInit DEF Init, SavedInv, SuccessfulRunsDisjoint, Fresh, Ahead, Loading
  <1> QED BY <1>2, SavedInvNext, PTL DEF Spec

(***************************************************************************)
(* Where every plan of a watermarked target locks, runs stay within their  *)
(* lease and the batch is evaluated once, no row is appended by two runs   *)
(* that both succeeded (get_watermark under acquire_lock, upsert_state     *)
(* before release_lock).                                                   *)
(***************************************************************************)
THEOREM SuccessIsDisjoint ==
  ASSUME Pinned, Watermarked, Serialised
  PROVE  Spec => []SuccessfulRunsDisjoint
  BY SavedInvAlways, PTL DEF SavedInv
-----------------------------------------------------------------------------
(***************************************************************************)
(* Saved watermarks rise.                                                  *)
(*                                                                         *)
(* Past says of the watermark about to be saved that it is at least as     *)
(* high as the rows that succeeded, not that it is as high as the target,  *)
(* which also has what failed runs committed. When the saved value is NULL *)
(* the target speaks for it, so RisingInv compares with the target: every  *)
(* watermark around is that of a row of the target or NULL (Known), and a  *)
(* run that has read the source has every row of the target in its batch   *)
(* or below its watermark (Complete).                                      *)
(*                                                                         *)
(* That needs one quality gate per target (OneGate). If one plan           *)
(* quarantines bad rows and another lets them through, a run that lets a   *)
(* bad row in and fails leaves the target ahead of anything a quarantining *)
(* run will save.                                                          *)
(***************************************************************************)
\* Bad rows, if there are any, get in under every plan or under none.
OneGate ==
    \/ Bad = {}
    \/ \A p \in Plans : p.quality = "warn"
    \/ \A p \in Plans : p.quality # "warn"

\* The rows that get through the gate.
Loadable == IF \A p \in Plans : p.quality = "warn" THEN Rows ELSE Rows \ Bad

\* The watermarks the target itself can account for.
Marks == Target \cup {None}

\* The watermarks of r come from the target; its batch, from the source.
Known(r) ==
    /\ wmPrev[r] \in Marks
    /\ pc[r] = "save" => wmCurrent[r] \in Marks
    /\ \A x \in rowsRead[r] : x <= produced
    /\ pc[r] \in {"write", "finish"} => Prepared(r) = rowsRead[r] \cap Loadable

\* r passes over no row of the target.
Complete(r) ==
    /\ pc[r] \in {"quality", "write", "finish"} =>
          \A x \in Target : x <= wmPrev[r] \/ x \in rowsRead[r]
    /\ pc[r] = "save" /\ wmCurrent[r] # None => \A x \in Target : x <= wmCurrent[r]

\* The inductive invariant.
RisingInv ==
    /\ SavedInv
    /\ Target \subseteq Loadable /\ \A x \in Target : x <= produced
    /\ state.wm \in Marks
    /\ \A r \in Runs : Known(r) /\ Complete(r)

\* get_watermark, saved value or fallback, returns a mark.
LEMMA CurrentIsMark ==
  ASSUME RisingInv
  PROVE  CurrentWatermark \in Marks /\ MaxOrNone(Target) \in Marks /\ Target \subseteq Rows
  <1>1. TypeOK
    BY DEF RisingInv, SavedInv, RowsInv
  <1>2. Target \subseteq Rows
    BY <1>1, SavedRowsInTarget
  <1>3. MaxOrNone(Target) \in Marks
    BY <1>2, MaxOrNoneBounds DEF Marks, MaxOrNone
  <1> QED BY <1>2, <1>3 DEF CurrentWatermark, RisingInv, Marks

\* A step that leaves the target alone, and of the other runs everything.
LEMMA RisingInvStep ==
  ASSUME RisingInv, SavedInv', NEW r \in Runs, UNCHANGED <<produced, commits>>,
         \A q \in Runs \ {r} :
            /\ pc'[q] = pc[q] /\ wmPrev'[q] = wmPrev[q] /\ wmCurrent'[q] = wmCurrent[q]
            /\ rowsRead'[q] = rowsRead[q] /\ gated'[q] = gated[q],
         Pinned, state'.wm \in Marks, Known(r)', Complete(r)'
  PROVE  RisingInv'
  <1>1. Target' = Target /\ Marks' = Marks
    BY DEF Target, Marks
  <1>2. ASSUME NEW q \in Runs, q # r PROVE Known(q)' /\ Complete(q)'
    <2>1. Prepared(q)' = Prepared(q)
      BY <1>2 DEF Prepared
    <2> QED BY <1>1, <1>2, <2>1 DEF RisingInv, Known, Complete
  <1> QED BY <1>1, <1>2 DEF RisingInv, Loadable

\* One step per action; only Write adds to the target.
LEMMA RisingInvNext ==
  ASSUME Pinned, Watermarked, Serialised, OneGate
  PROVE  RisingInv /\ [Next]_vars => RisingInv'
  <1> SUFFICES ASSUME RisingInv, [Next]_vars PROVE RisingInv'
    OBVIOUS
  <1> USE DEF Goto, RaiseIn
  <1>0. TypeOK /\ TypeOK' /\ SavedInv /\ SavedInv'
    BY TypeNext, SavedInvNext DEF RisingInv, SavedInv, RowsInv
  <1>1. ASSUME NEW r \in Runs,
               \/ CheckIdempotency(r) \/ AcquireLock(r) \/ ReadBack(r) \/ ReleaseLock(r)
               \/ LogRun(r) \/ Raise(r) \/ Interrupt(r) \/ Crash(r) \/ RecordFailure(r) \/ SaveState(r)
        PROVE  RisingInv'
    <2>1. /\ UNCHANGED <<produced, commits, wmPrev, wmCurrent, rowsRead, gated>>
          /\ \A q \in Runs \ {r} : pc'[q] = pc[q]
      BY <1>0, <1>1 DEF TypeOK, sharedVars, CheckIdempotency, AcquireLock, ReadBack, ReleaseLock,
                  LogRun, Raise, Interrupt, Crash, RecordFailure, SaveState
    <2>2. Target' = Target /\ Marks' = Marks
      BY <2>1 DEF Target, Marks
    <2>3. state'.wm \in Marks
      <3>1. CASE RecordFailure(r)
        BY <3>1 DEF RecordFailure, FailedWatermark, RisingInv, Known
      <3>2. CASE SaveState(r)
        BY <3>2 DEF SaveState, RisingInv, Known
      <3>3. CASE state' = state
        BY <3>3 DEF RisingInv
      <3> QED BY <1>1, <3>1, <3>2, <3>3
              DEF sharedVars, CheckIdempotency, AcquireLock, ReadBack, ReleaseLock,
                  LogRun, Raise, Interrupt, Crash
    <2>4. pc'[r] \notin {"quality", "write", "finish", "save"}
      BY <1>0, <1>1
         DEF TypeOK, CheckIdempotency, AcquireLock, ReadBack, ReleaseLock, LogRun, Raise, Interrupt,
             Crash, RecordFailure, SaveState
    <2>5. Known(r)' /\ Complete(r)'
      BY <2>1, <2>2, <2>4 DEF RisingInv, Known, Complete
    <2> QED BY <1>0, <2>1, <2>3, <2>5, RisingInvStep
  <1>2. ASSUME NEW r \in Runs, ReadWatermark(r) PROVE RisingInv'
    <2>1. UNCHANGED <<produced, state, commits, wmCurrent, rowsRead, gated>>
      BY <1>2 DEF ReadWatermark, sharedVars
    <2>2. /\ wmPrev'[r] \in Marks /\ pc'[r] = "prepare"
          /\ \A q \in Runs \ {r} : pc'[q] = pc[q] /\ wmPrev'[q] = wmPrev[q]
      BY <1>0, <1>2, CurrentIsMark DEF ReadWatermark, TypeOK
    <2>3. Marks' = Marks
      BY <2>1 DEF Target, Marks
    <2>4. Known(r)' /\ Complete(r)'
      BY <2>1, <2>2, <2>3 DEF RisingInv, Known, Complete
    <2> QED BY <1>0, <2>1, <2>2, <2>4, RisingInvStep DEF RisingInv
  <1>3. ASSUME NEW r \in Runs, Prepare(r) PROVE RisingInv'
    <2>1. UNCHANGED <<produced, state, commits, wmPrev, wmCurrent, gated>>
      BY <1>3 DEF Prepare, sharedVars
    <2>2. /\ rowsRead'[r] = Unread(wmPrev[r]) /\ pc'[r] = "quality"
          /\ \A q \in Runs \ {r} : pc'[q] = pc[q] /\ rowsRead'[q] = rowsRead[q]
      BY <1>0, <1>3 DEF Prepare, TypeOK
    <2>3. Target' = Target /\ Marks' = Marks
      BY <2>1 DEF Target, Marks
    <2>4. ASSUME NEW x \in Target PROVE x <= wmPrev[r] \/ x \in Unread(wmPrev[r])
      <3>1. x \in Rows /\ x <= produced
        BY <2>4, CurrentIsMark DEF RisingInv
      <3>2. wmPrev[r] \in Int /\ produced \in Int /\ x \in 1 .. produced
        BY <1>0, <3>1, BoundAssumption DEF TypeOK, Watermarks, Rows
      <3> QED BY <3>2 DEF Unread
    <2>5. \A x \in Unread(wmPrev[r]) : x <= produced
      BY <1>0 DEF Unread, TypeOK
    <2>6. Known(r)' /\ Complete(r)'
      BY <2>1, <2>2, <2>3, <2>4, <2>5 DEF RisingInv, Known, Complete
    <2> QED BY <1>0, <2>1, <2>2, <2>6, RisingInvStep DEF RisingInv
  <1>4. ASSUME NEW r \in Runs, EvaluateQuality(r) PROVE RisingInv'
    <2>1. UNCHANGED <<produced, state, commits, wmPrev, wmCurrent, rowsRead>>
      BY <1>4 DEF EvaluateQuality
    <2>2. /\ pc[r] = "quality" /\ pc'[r] \in {"write", "except"}
          /\ \A q \in Runs \ {r} : pc'[q] = pc[q] /\ gated'[q] = gated[q]
      BY <1>0, <1>4 DEF EvaluateQuality, TypeOK
    <2>3. Target' = Target /\ Marks' = Marks
      BY <2>1 DEF Target, Marks
    <2>4. /\ Prepared(r) = rowsRead[r] /\ rowsRead[r] \subseteq Rows
      BY <1>0, <2>2 DEF RisingInv, SavedInv, RowsInv, BatchInv, BeforeCommit, Prepared, TypeOK
    <2>5. plan[r] \in Plans
      BY <1>0 DEF TypeOK
    <2>6. ASSUME pc'[r] = "write" PROVE Prepared(r)' = rowsRead[r] \cap Loadable
      <3>1. CASE gated'[r] = gated[r] /\ (rowsRead[r] \cap Bad = {} \/ plan[r].quality = "warn")
        <4>1. Prepared(r)' = rowsRead[r]
          BY <2>1, <2>4, <3>1 DEF Prepared
        <4> QED BY <2>4, <2>5, <3>1, <4>1 DEF OneGate, Loadable
      <3>2. CASE gated'[r] /\ rowsRead[r] \cap Bad # {} /\ plan[r].quality = "quarantine"
        <4>1. Prepared(r)' = rowsRead[r] \ Bad
          BY <2>1, <3>2 DEF Prepared
        <4>2. Loadable = Rows \ Bad
          BY <2>5, <3>2 DEF Loadable
        <4> QED BY <2>4, <4>1, <4>2
      <3>3. ~ (rowsRead[r] \cap Bad # {} /\ plan[r].quality = "fail")
        BY <1>0, <1>4, <2>4, <2>6 DEF EvaluateQuality, TypeOK
      <3> QED BY <1>0, <1>4, <2>4, <3>1, <3>2, <3>3 DEF EvaluateQuality, TypeOK
    <2>7. Known(r)' /\ Complete(r)'
      BY <2>1, <2>2, <2>3, <2>6 DEF RisingInv, Known, Complete, Loadable
    <2> QED BY <1>0, <2>1, <2>2, <2>7, RisingInvStep DEF RisingInv
  <1>5. ASSUME NEW r \in Runs, Write(r) PROVE RisingInv'
    <2>1. /\ UNCHANGED <<produced, state, wmPrev, wmCurrent, rowsRead, gated>>
          /\ pc[r] = "write" /\ pc'[r] = "finish"
          /\ \A q \in Runs \ {r} : pc'[q] = pc[q]
      BY <1>0, <1>5 DEF Write, TypeOK
    <2>2. commits[r] = {} /\ commits' = [commits EXCEPT ![r] = Prepared(r)]
      BY <1>0, <1>5, WriteCommits DEF SavedInv
    <2>3. Target' = Target \cup Prepared(r)
      BY <1>0, <2>2 DEF Target, TypeOK
    <2>4. \A q \in Runs : Prepared(q)' = Prepared(q)
      BY <2>1 DEF Prepared
    <2>5. /\ Prepared(r) = rowsRead[r] \cap Loadable
          /\ \A x \in rowsRead[r] : x <= produced
          /\ \A x \in Target : x <= wmPrev[r] \/ x \in rowsRead[r]
      BY <2>1 DEF RisingInv, Known, Complete
    <2>6. Target' \subseteq Loadable /\ (\A x \in Target' : x <= produced) /\ Marks \subseteq Marks'
      BY <2>3, <2>5 DEF RisingInv, Marks
    <2>7. \A q \in Runs : Known(q)'
      BY <2>1, <2>4, <2>6 DEF RisingInv, Known, Loadable
    <2>8. Complete(r)'
      BY <2>1, <2>3, <2>5 DEF Complete
    <2>9. ASSUME NEW q \in Runs, q # r PROVE Complete(q)'
      <3>1. ~ Loading(q)
        BY <1>0, <2>1, <2>9, OneHolder DEF Loading, SavedInv
      <3> QED BY <2>1, <2>9, <3>1 DEF Complete, Loading
    <2> QED BY <1>0, <2>1, <2>6, <2>7, <2>8, <2>9 DEF RisingInv, Loadable
  <1>6. ASSUME NEW r \in Runs, Finish(r) PROVE RisingInv'
    <2>1. /\ UNCHANGED <<produced, state, commits, wmPrev, rowsRead, gated>>
          /\ pc[r] = "finish" /\ pc'[r] = "save"
          /\ wmCurrent'[r] = IF rowsRead[r] # {} THEN MaxOrNone(Prepared(r)) ELSE wmPrev[r]
          /\ \A q \in Runs \ {r} : pc'[q] = pc[q] /\ wmCurrent'[q] = wmCurrent[q]
      BY <1>0, <1>6 DEF Finish, sharedVars, TypeOK
    <2>2. Target' = Target /\ Marks' = Marks
      BY <2>1 DEF Target, Marks
    <2>3. /\ Prepared(r) \subseteq Target /\ Prepared(r) = rowsRead[r] \cap Loadable
          /\ Prepared(r) \subseteq Rows /\ Target \subseteq Rows /\ Target \subseteq Loadable
          /\ \A x \in Target : x <= wmPrev[r] \/ x \in rowsRead[r]
          /\ \A x \in rowsRead[r] : x > wmPrev[r]
          /\ wmPrev[r] \in Marks
      BY <1>0, <2>1, PreparedRows, CurrentIsMark
         DEF RisingInv, Known, Complete, SavedInv, Fresh, RowsInv, BatchInv
    <2>4. wmCurrent'[r] \in Marks /\ (wmCurrent'[r] # None => \A x \in Target : x <= wmCurrent'[r])
      <3>1. CASE rowsRead[r] = {}
        BY <2>1, <2>3, <3>1
      <3>2. CASE rowsRead[r] # {} /\ Prepared(r) = {}
        BY <2>1, <3>2 DEF MaxOrNone, Marks
      <3>3. CASE Prepared(r) # {}
        <4>1. /\ wmCurrent'[r] \in Prepared(r)
              /\ \A x \in Prepared(r) : x <= wmCurrent'[r]
          BY <2>1, <2>3, <3>3, MaxOrNoneBounds
        <4>2. ASSUME NEW x \in Target PROVE x <= wmCurrent'[r]
          <5>1. x \in Int /\ wmPrev[r] \in Int /\ wmCurrent'[r] \in Int
            BY <1>0, <2>3, <4>1, BoundAssumption DEF TypeOK, Watermarks, Rows
          <5>2. x \in Prepared(r) \/ x <= wmPrev[r]
            BY <2>3
          <5>3. wmCurrent'[r] > wmPrev[r]
            BY <2>3, <4>1
          <5> QED BY <4>1, <5>1, <5>2, <5>3
        <4> QED BY <2>3, <4>1, <4>2 DEF Marks
      <3> QED BY <3>1, <3>2, <3>3
    <2>5. Known(r)' /\ Complete(r)'
      BY <2>1, <2>2, <2>4 DEF RisingInv, Known, Complete
    <2> QED BY <1>0, <2>1, <2>5, RisingInvStep DEF RisingInv
  <1>7. CASE Tick \/ Emit \/ UNCHANGED vars
    <2>1. UNCHANGED <<state, commits, pc, wmPrev, wmCurrent, rowsRead, gated>>
      BY <1>7 DEF Tick, Emit, vars, sharedVars, localVars
    <2>2. Target' = Target /\ Marks' = Marks
      BY <2>1 DEF Target, Marks
    <2>3. produced \in Int /\ produced' \in {produced, produced + 1}
      BY <1>0, <1>7, BoundAssumption DEF Tick, Emit, vars, sharedVars, TypeOK
    <2>4. \A x \in Rows : x <= produced => x <= produced'
      BY <2>3, BoundAssumption DEF Rows
    <2>5. \A q \in Runs : Prepared(q)' = Prepared(q)
      BY <2>1 DEF Prepared
    <2>6. \A q \in Runs : rowsRead[q] \subseteq Rows
      BY <1>0 DEF TypeOK
    <2>7. \A q \in Runs : Known(q)' /\ Complete(q)'
      BY <2>1, <2>2, <2>4, <2>5, <2>6 DEF RisingInv, Known, Complete, Loadable
    <2> QED BY <1>0, <2>1, <2>2, <2>4, <2>7, CurrentIsMark DEF RisingInv, Loadable
  <1> QED BY <1>1, <1>2, <1>3, <1>4, <1>5, <1>6, <1>7 DEF Next, Advance

\* The one step that saves a success.
LEMMA SaveRises ==
  ASSUME Watermarked, RisingInv, NEW r \in Runs, SaveState(r)
  PROVE  CurrentWatermark' >= CurrentWatermark
  <1>1. /\ Target' = Target /\ pc[r] = "save" /\ state'.wm = wmCurrent[r]
    BY DEF SaveState, Target
  <1>2. /\ CurrentWatermark \in Marks /\ state.wm \in Marks /\ Target \subseteq Rows
        /\ wmCurrent[r] \in Marks
        /\ wmCurrent[r] # None => \A x \in Target : x <= wmCurrent[r]
    BY <1>1, CurrentIsMark DEF RisingInv, Known, Complete
  <1>3. /\ \A x \in Target : x \in Nat
        /\ wmCurrent[r] \in Nat /\ CurrentWatermark \in Nat
    <2>1. \A x \in Target : x \in Nat
      BY <1>2, BoundAssumption DEF Rows
    <2>2. \A x \in Marks : x \in Nat
      BY <2>1 DEF Marks, None
    <2> QED BY <1>2, <2>1, <2>2
  <1>4. CASE wmCurrent[r] # None
    <2>1. CurrentWatermark' = wmCurrent[r]
      BY <1>1, <1>4 DEF CurrentWatermark
    <2>2. CASE CurrentWatermark \in Target
      <3>1. CurrentWatermark <= wmCurrent[r]
        BY <1>2, <1>4, <2>2
      <3> QED BY <1>3, <2>1, <3>1
    <2>3. CASE CurrentWatermark = 0
      BY <1>3, <2>1, <2>3
    <2> QED BY <1>2, <2>2, <2>3 DEF Marks, None
  <1>5. CASE wmCurrent[r] = None
    <2>1. CurrentWatermark' = MaxOrNone(Target)
      BY <1>1, <1>5 DEF CurrentWatermark
    <2>2. MaxOrNone(Target) \in Nat /\ \A x \in Target : x <= MaxOrNone(Target)
      BY <1>2, MaxOrNoneBounds, BoundAssumption DEF Watermarks
    <2>3. CASE CurrentWatermark \in Target
      <3>1. CurrentWatermark <= MaxOrNone(Target)
        BY <2>2, <2>3
      <3> QED BY <1>3, <2>1, <2>2, <3>1
    <2>4. CASE CurrentWatermark = 0
      BY <2>1, <2>2, <2>4
    <2> QED BY <1>2, <2>3, <2>4 DEF Marks, None
  <1> QED BY <1>4, <1>5

(***************************************************************************)
(* Under the same conditions, and one gate per target, a success never     *)
(* saves a watermark below the current one, whether that is the saved      *)
(* value or the maximum of the target (upsert_state after get_watermark).  *)
(***************************************************************************)
THEOREM SuccessRises ==
  ASSUME Pinned, Watermarked, Serialised, OneGate
  PROVE  Spec => SuccessNeverRegresses
  <1>1. Init => RisingInv
    <2> SUFFICES ASSUME Init PROVE RisingInv
      OBVIOUS
    <2>1. Init => SavedInv
      BY LockInvInit, RowsInvInit
         DEF Init, HoldInv, SavedInv, SuccessfulRunsDisjoint, Fresh, Ahead, Loading
    <2>2. Target = {}
      BY DEF Init, Target
    <2> QED BY <2>1, <2>2 DEF Init, RisingInv, Known, Complete, Marks, Loadable
  <1>2. RisingInv /\ [Next]_vars => RisingInv'
    BY RisingInvNext
  <1>3. RisingInv /\ [Next]_vars => [saved' # saved => CurrentWatermark' >= CurrentWatermark]_vars
    <2> SUFFICES ASSUME RisingInv, Next, saved' # saved PROVE CurrentWatermark' >= CurrentWatermark
      BY DEF vars
    <2>1. \E r \in Runs : SaveState(r)
      BY DEF Next, Advance, sharedVars, localVars, CheckIdempotency, AcquireLock, ReadBack, ReadWatermark,
             Prepare, EvaluateQuality, Write, Finish, RecordFailure, ReleaseLock, LogRun,
             Raise, Interrupt, Crash, Tick, Emit
    <2> QED BY <2>1, SaveRises
  <1> QED BY <1>1, <1>2, <1>3, PTL DEF Spec, SuccessNeverRegresses
=============================================================================
