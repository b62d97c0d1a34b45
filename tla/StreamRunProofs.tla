--------------------------- MODULE StreamRunProofs ---------------------------
(***************************************************************************)
(* Proofs about StreamRun, for any number of streams and files and for any *)
(* deployments.                                                            *)
(***************************************************************************)
EXTENDS StreamRun, TLAPS, FiniteSetTheorems, SequenceTheorems

-----------------------------------------------------------------------------
(***************************************************************************)
(* The checkpoint.  Its types cannot be kept without the discipline of the *)
(* queries: one is at work at a time, the batch it is at is planned, and   *)
(* the offsets ascend, so that there are never more batches than files.    *)
(***************************************************************************)
\* Every planned batch has a file, and the next one has later files.
Ascending ==
    \A i \in 1 .. Len(offsets) :
        offsets[i] >= i /\ \A j \in 1 .. Len(offsets) : i < j => offsets[i] < offsets[j]

\* Spark lets one query work on a checkpoint.
OneQuery == \A s, t \in Runs : Live(s) /\ Live(t) => s = t

\* The stages of the driver before it starts its query.
BeforeQuery == {"check", "log_skip", "log_start", "lock", "read_back", "start"}

\* Where a query is, against the checkpoint and the results of its callback.
QueryInv(s) ==
    /\ query[s] \in InBatch => Planned
    /\ pc[s] \in BeforeQuery => query[s] = "none"
    /\ query[s] = "none" => results[s] = 0
    /\ Live(s) => results[s] <= committed
    /\ results[s] <= Len(offsets)
    /\ query[s] = "ended" => Consumed >= upto[s]

\* The inductive invariant.
CheckpointInv == TypeOK /\ Ascending /\ OneQuery /\ \A s \in Runs : QueryInv(s)

LEMMA DeploymentFacts ==
  ASSUME TypeOK
  PROVE  /\ deployment.faults \subseteq FaultKinds
         /\ deployment.plans \subseteq StreamPlanType
         /\ deployment.seesCallback \in BOOLEAN
  BY DeploymentsAssumption DEF TypeOK, DeploymentOK

\* There are at most as many children as batches.
LEMMA ChildrenCounted ==
  ASSUME NEW s \in Runs, TypeOK
  PROVE  Children(s) \in 0 .. MaxFile /\ IsFiniteSet({n \in Batches : childLog[s][n] # "NONE"})
  <1>1. IsFiniteSet(Batches) /\ Cardinality(Batches) = MaxFile
    BY FilesAssumption, FS_Interval DEF Batches
  <1>2. {n \in Batches : childLog[s][n] # "NONE"} \subseteq Batches
    OBVIOUS
  <1>3. /\ IsFiniteSet({n \in Batches : childLog[s][n] # "NONE"})
        /\ Children(s) \in Nat /\ Children(s) <= MaxFile
    BY <1>1, <1>2, FS_Subset, FS_CardinalityType DEF Children
  <1> QED BY <1>3, FilesAssumption

LEMMA OffsetIsFile ==
  ASSUME TypeOK, NEW i \in 1 .. Len(offsets)
  PROVE  offsets[i] \in 1 .. MaxFile
  <1>1. offsets \in Seq(1 .. MaxFile)
    BY DEF TypeOK
  <1> QED BY <1>1, ElementOfSeq

\* The last offset is that of the last batch, and none is above it.
LEMMA LastOffsetBounds ==
  ASSUME TypeOK, Ascending
  PROVE  /\ LastOffset \in 0 .. MaxFile /\ Len(offsets) <= LastOffset
         /\ offsets # <<>> => LastOffset = offsets[Len(offsets)]
         /\ \A i \in 1 .. Len(offsets) : offsets[i] <= LastOffset
  BY FilesAssumption DEF TypeOK, Ascending, LastOffset

LEMMA CheckpointInit == Init => CheckpointInv
  <1> SUFFICES ASSUME Init PROVE CheckpointInv
    OBVIOUS
  <1>1. TypeOK
    BY FilesAssumption, TTLAssumption
       DEF Init, LockInit, TypeOK, LockTypeOK, LockRows, StreamStatuses, ChildStatuses,
           DriverPCs, QueryPCs
  <1>2. Ascending /\ OneQuery /\ \A s \in Runs : QueryInv(s)
    BY DEF Init, Ascending, OneQuery, QueryInv, Live, InBatch
  <1> QED BY <1>1, <1>2 DEF CheckpointInv

\* The steps of the driver thread, of the environment, and those of the query
\* that leave the checkpoint alone.
LEMMA TypeLocal ==
  ASSUME CheckpointInv, NEW s \in Runs,
         \/ CheckStream(s) \/ LogStart(s) \/ AcquireLock(s) \/ ReadBack(s) \/ StartQuery(s)
         \/ AwaitTermination(s) \/ ReleaseLock(s) \/ Measure(s) \/ LogLateStart(s) \/ LogFinish(s)
         \/ RaiseBeforeQuery(s) \/ Interrupt(s) \/ QueryFails(s) \/ Crash(s)
         \/ EndQuery(s) \/ BatchCheckKey(s) \/ BatchSave(s) \/ BatchFails(s)
  PROVE  TypeOK' /\ UNCHANGED <<deployment, arrived, offsets, committed, childLog, appended, plan, results>>
  <1>0. TypeOK
    BY DEF CheckpointInv
  <1>a. /\ LockTypeOK /\ MaxFile \in Nat
        /\ pc \in [Runs -> DriverPCs] /\ status \in [Runs -> ChildStatuses]
        /\ results \in [Runs -> 0 .. MaxFile] /\ measured \in [Runs -> 0 .. MaxFile]
        /\ query \in [Runs -> QueryPCs] /\ upto \in [Runs -> 0 .. MaxFile] /\ arrived \in 0 .. MaxFile
    BY <1>0, FilesAssumption DEF TypeOK
  <1> USE DEF TypeOK, Goto, QueryAt, RaiseIn
  <1>1. UNCHANGED <<deployment, arrived, offsets, committed, childLog, appended, plan, results>>
    BY DEF storeVars, driverVars, queryVars, CheckStream, LogStart, AcquireLock, ReadBack, StartQuery,
           AwaitTermination, ReleaseLock, Measure, LogLateStart, LogFinish, RaiseBeforeQuery,
           Interrupt, QueryFails, Crash, EndQuery, BatchCheckKey, BatchSave, BatchFails
  <1>2. CASE CheckStream(s)
    BY <1>0, <1>2 DEF CheckStream, lockVars, storeVars, queryVars, LockTypeOK, DriverPCs, ChildStatuses
  <1>3. CASE LogStart(s)
    BY <1>0, <1>3 DEF LogStart, lockVars, queryVars, LockTypeOK, DriverPCs, ChildStatuses, StreamStatuses
  <1>4. CASE AcquireLock(s)
    <2>1. LockTypeOK'
      BY <1>a, <1>4, TTLAssumption DEF AcquireLock, AcquireMerge, lockVars, LockTypeOK, LockRows
    <2> QED BY <1>0, <1>4, <2>1 DEF AcquireLock, storeVars, queryVars, DriverPCs
  <1>5. CASE ReadBack(s)
    BY <1>0, <1>5 DEF ReadBack, lockVars, storeVars, queryVars, LockTypeOK, DriverPCs, ChildStatuses
  <1>6. CASE StartQuery(s)
    <2>1. /\ pc' \in [Runs -> DriverPCs] /\ status' \in [Runs -> ChildStatuses]
          /\ query' \in [Runs -> QueryPCs] /\ upto' \in [Runs -> 0 .. MaxFile]
      BY <1>a, <1>6 DEF StartQuery, DriverPCs, ChildStatuses, QueryPCs
    <2> QED BY <1>0, <1>6, <2>1 DEF StartQuery, lockVars, storeVars, LockTypeOK
  <1>7. CASE AwaitTermination(s)
    BY <1>0, <1>7 DEF AwaitTermination, lockVars, storeVars, queryVars, LockTypeOK, DriverPCs, ChildStatuses
  <1>8. CASE ReleaseLock(s)
    <2>1. LockTypeOK'
      BY <1>a, <1>8, TTLAssumption DEF ReleaseLock, ReleaseUpdate, lockVars, LockTypeOK, LockRows
    <2> QED BY <1>0, <1>8, <2>1 DEF ReleaseLock, storeVars, queryVars, DriverPCs
  <1>9. CASE Measure(s)
    <2>1. \A child \in 0 .. MaxFile : StreamMetrics(s, child) \in 0 .. MaxFile
      BY <1>0 DEF StreamMetrics
    <2>2. Children(s) \in 0 .. MaxFile
      BY <1>0, ChildrenCounted
    <2>3. PICK m : /\ measured' = [measured EXCEPT ![s] = m]
                   /\ m = results[s] \/ m = StreamMetrics(s, Children(s)) \/ m = StreamMetrics(s, 0)
      BY <1>9 DEF Measure
    <2>4. m \in 0 .. MaxFile
      BY <1>a, <2>1, <2>2, <2>3
    <2>5. measured' \in [Runs -> 0 .. MaxFile]
      BY <1>0, <2>3, <2>4
    <2> QED BY <1>0, <1>9, <2>5 DEF Measure, lockVars, storeVars, queryVars, LockTypeOK, DriverPCs
  <1>10. CASE LogLateStart(s)
    BY <1>0, <1>10 DEF LogLateStart, lockVars, queryVars, LockTypeOK, DriverPCs, StreamStatuses
  <1>11. CASE LogFinish(s)
    BY <1>0, <1>11 DEF LogFinish, lockVars, queryVars, LockTypeOK, DriverPCs, StreamStatuses
  <1>12. CASE RaiseBeforeQuery(s) \/ Interrupt(s)
    BY <1>0, <1>12
       DEF RaiseBeforeQuery, Interrupt, lockVars, storeVars, queryVars, LockTypeOK, DriverPCs, ChildStatuses
  <1>13. CASE Crash(s)
    BY <1>0, <1>13 DEF Crash, lockVars, storeVars, LockTypeOK, DriverPCs, QueryPCs
  <1>14. CASE QueryFails(s) \/ EndQuery(s) \/ BatchCheckKey(s) \/ BatchSave(s) \/ BatchFails(s)
    BY <1>0, <1>14
       DEF QueryFails, EndQuery, BatchCheckKey, BatchSave, BatchFails, lockVars, storeVars, driverVars,
           LockTypeOK, QueryPCs, InBatch, ChildStatuses
  <1> QED BY <1>1, <1>2, <1>3, <1>4, <1>5, <1>6, <1>7, <1>8, <1>9, <1>10, <1>11, <1>12, <1>13, <1>14

LEMMA CheckpointLocal ==
  ASSUME CheckpointInv, TypeOK', NEW s \in Runs,
         UNCHANGED <<offsets, committed, results>>,
         \A t \in Runs \ {s} : pc'[t] = pc[t] /\ query'[t] = query[t] /\ upto'[t] = upto[t],
         OneQuery', QueryInv(s)'
  PROVE  CheckpointInv'
  <1>1. ASSUME NEW t \in Runs, t # s PROVE QueryInv(t)'
    BY <1>1 DEF CheckpointInv, QueryInv, Planned, Current, Live, Consumed
  <1> QED BY <1>1 DEF CheckpointInv, Ascending

LEMMA CheckpointNext == CheckpointInv /\ [Next]_vars => CheckpointInv'
  <1> SUFFICES ASSUME CheckpointInv, [Next]_vars PROVE CheckpointInv'
    OBVIOUS
  <1>0. TypeOK /\ Ascending /\ OneQuery
    BY DEF CheckpointInv
  <1> USE DEF Goto, QueryAt, RaiseIn
  <1>1. ASSUME NEW s \in Runs,
               \/ CheckStream(s) \/ LogStart(s) \/ AcquireLock(s) \/ ReadBack(s)
               \/ AwaitTermination(s) \/ ReleaseLock(s) \/ Measure(s) \/ LogLateStart(s) \/ LogFinish(s)
               \/ RaiseBeforeQuery(s) \/ Interrupt(s)
        PROVE  CheckpointInv'
    <2>1. TypeOK' /\ UNCHANGED <<offsets, committed, results, query, upto>>
      BY <1>1, TypeLocal
         DEF queryVars, CheckStream, LogStart, AcquireLock, ReadBack, AwaitTermination, ReleaseLock,
             Measure, LogLateStart, LogFinish, RaiseBeforeQuery, Interrupt
    <2>2. /\ \A t \in Runs \ {s} : pc'[t] = pc[t]
          /\ pc'[s] \in BeforeQuery => pc[s] \in BeforeQuery
      BY <1>0, <1>1
         DEF TypeOK, BeforeQuery, CheckStream, LogStart, AcquireLock, ReadBack, AwaitTermination,
             ReleaseLock, Measure, LogLateStart, LogFinish, RaiseBeforeQuery, Interrupt
    <2>3. QueryInv(s)' /\ OneQuery'
      BY <1>0, <2>1, <2>2 DEF CheckpointInv, QueryInv, OneQuery, Planned, Current, Live, Consumed
    <2> QED BY <2>1, <2>2, <2>3, CheckpointLocal
  <1>2. ASSUME NEW s \in Runs, StartQuery(s) PROVE CheckpointInv'
    <2>1. TypeOK' /\ UNCHANGED <<offsets, committed, results>>
      BY <1>2, TypeLocal
    <2>2. /\ \A t \in Runs \ {s} : pc'[t] = pc[t] /\ query'[t] = query[t] /\ upto'[t] = upto[t]
          /\ pc'[s] \notin BeforeQuery /\ pc[s] \in BeforeQuery
          /\ \/ query' = query /\ upto' = upto
             \/ query'[s] = "next" /\ \A t \in Runs : ~ Live(t)
      BY <1>0, <1>2 DEF StartQuery, TypeOK, BeforeQuery
    <2>3. OneQuery'
      BY <1>0, <2>2 DEF OneQuery, Live
    <2>4. results[s] = 0 /\ committed \in Nat /\ query[s] = "none"
      BY <1>0, <2>2 DEF CheckpointInv, QueryInv, TypeOK
    <2>5. QueryInv(s)'
      BY <2>1, <2>2, <2>4 DEF CheckpointInv, QueryInv, Planned, Current, Live, Consumed, InBatch
    <2> QED BY <2>1, <2>2, <2>3, <2>5, CheckpointLocal
  <1>3. ASSUME NEW s \in Runs,
               EndQuery(s) \/ BatchCheckKey(s) \/ BatchSave(s) \/ BatchFails(s) \/ QueryFails(s) \/ Crash(s)
        PROVE  CheckpointInv'
    <2>1. TypeOK' /\ UNCHANGED <<offsets, committed, results, upto>>
      BY <1>3, TypeLocal
         DEF queryVars, EndQuery, BatchCheckKey, BatchSave, BatchFails, QueryFails, Crash
    <2>2. /\ \A t \in Runs \ {s} : pc'[t] = pc[t] /\ query'[t] = query[t]
          /\ pc'[s] \in BeforeQuery => pc[s] \in BeforeQuery /\ pc'[s] = pc[s]
          /\ Live(s)' => Live(s)
          /\ query'[s] \in InBatch => query[s] \in InBatch
          /\ query'[s] = "none" => query[s] = "none"
          /\ query[s] = "none" => query'[s] = "none"
          /\ query'[s] = "ended" => query[s] = "ended" \/ (~ Planned /\ LastOffset >= upto[s])
      BY <1>0, <1>3
         DEF TypeOK, DriverPCs, BeforeQuery, Live, InBatch, driverVars, EndQuery, BatchCheckKey,
             BatchSave, BatchFails, QueryFails, Crash
    <2>3. OneQuery'
      BY <1>0, <2>2 DEF OneQuery, Live
    <2>4. ~ Planned => Consumed = LastOffset
      BY <1>0 DEF TypeOK, Planned, Current, Consumed, LastOffset
    <2>5. QueryInv(s)'
      BY <2>1, <2>2, <2>4 DEF CheckpointInv, QueryInv, Planned, Current, Live, Consumed
    <2> QED BY <2>1, <2>2, <2>3, <2>5, CheckpointLocal
  <1>4. ASSUME NEW s \in Runs, NextBatch(s) PROVE CheckpointInv'
    <2>1. /\ UNCHANGED <<lockVars, deployment, arrived, committed, streamLog, childLog, appended, driverVars, upto, result>>
          /\ query[s] = "next" /\ query'[s] = "key" /\ query' \in [Runs -> QueryPCs]
          /\ \A t \in Runs \ {s} : query'[t] = query[t]
      BY <1>0, <1>4 DEF NextBatch, TypeOK, QueryPCs, InBatch
    <2>2. /\ offsets' \in Seq(1 .. MaxFile) /\ Len(offsets') <= MaxFile
          /\ committed \in 0 .. Len(offsets') /\ Len(offsets') = committed + 1
          /\ Len(offsets) <= Len(offsets') /\ \A i \in 1 .. Len(offsets) : offsets'[i] = offsets[i]
          /\ Ascending'
      <3>1. CASE Planned /\ UNCHANGED offsets
        BY <1>0, <3>1 DEF TypeOK, Ascending, Planned, Current
      <3>2. ASSUME ~ Planned, NEW last \in LastOffset + 1 .. upto[s], offsets' = Append(offsets, last)
            PROVE  /\ offsets' \in Seq(1 .. MaxFile) /\ Len(offsets') <= MaxFile
                   /\ committed \in 0 .. Len(offsets') /\ Len(offsets') = committed + 1
                   /\ Len(offsets) <= Len(offsets') /\ \A i \in 1 .. Len(offsets) : offsets'[i] = offsets[i]
                   /\ Ascending'
        <4>1. /\ LastOffset \in 0 .. MaxFile /\ Len(offsets) <= LastOffset
              /\ \A i \in 1 .. Len(offsets) : offsets[i] <= LastOffset
          BY <1>0, LastOffsetBounds
        <4>2. /\ upto[s] \in 0 .. MaxFile /\ Len(offsets) = committed /\ committed \in Nat
              /\ offsets \in Seq(1 .. MaxFile)
          BY <1>0, <3>2 DEF TypeOK, Planned, Current
        <4>3. last \in 1 .. MaxFile /\ last > LastOffset /\ last >= committed + 1 /\ committed + 1 <= MaxFile
          BY <3>2, <4>1, <4>2, FilesAssumption
        <4>4. /\ offsets' \in Seq(1 .. MaxFile) /\ Len(offsets') = committed + 1
              /\ offsets'[committed + 1] = last
              /\ \A i \in 1 .. committed : offsets'[i] = offsets[i]
          BY <3>2, <4>2, <4>3
        <4>5. Ascending'
          <5>1. SUFFICES ASSUME NEW i \in 1 .. committed + 1
                         PROVE  /\ offsets'[i] >= i
                                /\ \A j \in 1 .. committed + 1 : i < j => offsets'[i] < offsets'[j]
            BY <4>4 DEF Ascending
          <5>2. CASE i = committed + 1
            BY <4>2, <4>3, <4>4, <5>2
          <5>3. CASE i \in 1 .. committed
            <6>1. offsets'[i] = offsets[i] /\ offsets[i] >= i /\ offsets[i] < last /\ offsets[i] \in Int
              <7>1. offsets[i] \in 1 .. MaxFile /\ i \in 1 .. Len(offsets)
                BY <1>0, <4>2, <5>3, OffsetIsFile
              <7>2. offsets[i] >= i /\ offsets[i] <= LastOffset
                BY <1>0, <4>1, <7>1 DEF Ascending
              <7>3. offsets'[i] = offsets[i]
                BY <4>4, <5>3
              <7> QED BY <4>1, <4>3, <7>1, <7>2, <7>3
            <6>2. ASSUME NEW j \in 1 .. committed + 1, i < j PROVE offsets'[i] < offsets'[j]
              <7>1. CASE j = committed + 1
                BY <4>4, <6>1, <7>1
              <7>2. CASE j \in 1 .. committed
                BY <1>0, <4>2, <4>4, <5>3, <6>1, <6>2, <7>2 DEF Ascending
              <7> QED BY <4>2, <7>1, <7>2
            <6> QED BY <6>1, <6>2
          <5> QED BY <4>2, <5>2, <5>3
        <4> QED BY <4>2, <4>3, <4>4, <4>5
      <3> QED BY <1>4, <3>1, <3>2 DEF NextBatch
    <2>3. TypeOK'
      BY <1>0, <2>1, <2>2 DEF TypeOK, lockVars, LockTypeOK, driverVars
    <2>4. OneQuery'
      BY <1>0, <2>1 DEF OneQuery, Live
    <2>5. ASSUME NEW t \in Runs PROVE QueryInv(t)'
      <3>1. Planned' /\ Consumed' = Consumed
        BY <1>0, <2>1, <2>2 DEF TypeOK, Planned, Current, Consumed
      <3>2. results'[t] = results[t] /\ results[t] <= Len(offsets')
        BY <1>0, <2>1, <2>2 DEF CheckpointInv, QueryInv, TypeOK, driverVars
      <3>3. CASE t = s
        BY <2>1, <3>1, <3>2, <3>3 DEF CheckpointInv, QueryInv, driverVars, Live
      <3>4. CASE t # s
        BY <2>1, <3>1, <3>2, <3>4 DEF CheckpointInv, QueryInv, driverVars, Live
      <3> QED BY <3>3, <3>4
    <2> QED BY <2>2, <2>3, <2>4, <2>5 DEF CheckpointInv
  <1>5. ASSUME NEW s \in Runs, BatchWrite(s) \/ BatchLog(s) PROVE CheckpointInv'
    <2>1. /\ UNCHANGED <<lockVars, deployment, arrived, offsets, committed, streamLog, driverVars, upto, result>>
          /\ query[s] \in InBatch /\ query'[s] \in InBatch
          /\ query' \in [Runs -> QueryPCs]
          /\ \A t \in Runs \ {s} : query'[t] = query[t]
      BY <1>0, <1>5 DEF BatchWrite, BatchLog, TypeOK, InBatch, QueryPCs
    <2>2. Current \in Batches
      BY <1>0, <2>1 DEF CheckpointInv, QueryInv, Planned, Current, TypeOK, Batches
    <2>3. childLog' \in [Runs -> [Batches -> ChildStatuses \cup {"NONE"}]] /\ appended' \in [Runs -> SUBSET Batches]
      <3>1. CASE BatchWrite(s)
        BY <1>0, <2>2, <3>1 DEF BatchWrite, TypeOK
      <3>2. CASE BatchLog(s)
        <4>1. childLog' = childLog \/ childLog' = [childLog EXCEPT ![s] = [@ EXCEPT ![Current] = result[s]]]
          BY <3>2 DEF BatchLog
        <4>2. /\ childLog \in [Runs -> [Batches -> ChildStatuses \cup {"NONE"}]]
              /\ result[s] \in ChildStatuses /\ appended \in [Runs -> SUBSET Batches]
          BY <1>0 DEF TypeOK
        <4>3. [childLog[s] EXCEPT ![Current] = result[s]] \in [Batches -> ChildStatuses \cup {"NONE"}]
          BY <2>2, <4>2
        <4>4. childLog' \in [Runs -> [Batches -> ChildStatuses \cup {"NONE"}]]
          BY <4>1, <4>2, <4>3
        <4> QED BY <3>2, <4>2, <4>4 DEF BatchLog
      <3> QED BY <1>5, <3>1, <3>2
    <2>4. TypeOK'
      BY <1>0, <2>1, <2>3 DEF TypeOK, lockVars, LockTypeOK, driverVars
    <2>5. OneQuery'
      BY <1>0, <2>1 DEF OneQuery, Live
    <2>6. QueryInv(s)'
      BY <2>1 DEF CheckpointInv, QueryInv, Planned, Current, Live, Consumed, driverVars, InBatch
    <2> QED BY <2>1, <2>4, <2>5, <2>6, CheckpointLocal DEF driverVars
  <1>6. ASSUME NEW s \in Runs, BatchReturn(s) PROVE CheckpointInv'
    <2>1. /\ UNCHANGED <<lockVars, deployment, arrived, offsets, streamLog, childLog, appended, plan, pc,
                         status, logged, owns, measured, upto, result>>
          /\ Live(s) /\ query[s] \in InBatch /\ query' \in [Runs -> QueryPCs]
          /\ \A t \in Runs \ {s} : query'[t] = query[t] /\ results'[t] = results[t]
      BY <1>0, <1>6 DEF BatchReturn, CountResult, TypeOK, QueryPCs, InBatch, Live
    <2>2. results'[s] \in {results[s], results[s] + 1} /\ results' \in [Runs -> {results[t] : t \in Runs} \cup {results[s] + 1}]
      BY <1>0, <1>6 DEF BatchReturn, CountResult, TypeOK
    <2>3. \/ committed' = committed + 1 /\ query'[s] = "next"
          \/ committed' = committed /\ query'[s] = "failed"
      BY <1>0, <1>6 DEF BatchReturn, TypeOK
    <2>4. /\ Len(offsets) = committed + 1 /\ results[s] <= committed
          /\ committed \in Nat /\ results[s] \in Nat /\ Len(offsets) <= MaxFile
          /\ \A t \in Runs : results[t] \in 0 .. MaxFile
      BY <1>0, <2>1 DEF CheckpointInv, QueryInv, Planned, Current, TypeOK
    <2>5. results' \in [Runs -> 0 .. MaxFile]
      BY <2>2, <2>4, FilesAssumption
    <2>6. TypeOK'
      BY <1>0, <2>1, <2>3, <2>4, <2>5 DEF TypeOK, lockVars, LockTypeOK
    <2>7. OneQuery'
      BY <1>0, <2>1 DEF OneQuery, Live
    <2>8. ASSUME NEW t \in Runs, t # s PROVE QueryInv(t)'
      <3>1. ~ Live(t) /\ ~ Live(t)' /\ query'[t] \notin InBatch
        BY <1>0, <2>1, <2>8 DEF OneQuery, Live
      <3>2. query[t] = "ended" => Consumed' >= upto[t]
        <4>1. SUFFICES ASSUME query[t] = "ended" PROVE Consumed' >= upto[t]
          OBVIOUS
        <4>2. Consumed >= upto[t] /\ upto[t] \in Int
          BY <1>0, <4>1 DEF CheckpointInv, QueryInv, TypeOK
        <4>3. Consumed' >= Consumed /\ Consumed \in Int /\ Consumed' \in Int
          <5>1. \A i \in 1 .. committed + 1 : offsets[i] \in 1 .. MaxFile
            BY <1>0, <2>4, OffsetIsFile
          <5>2. committed >= 1 => offsets[committed + 1] >= offsets[committed]
            BY <1>0, <2>4, <5>1 DEF Ascending
          <5> QED BY <2>1, <2>3, <2>4, <5>1, <5>2, FilesAssumption DEF Consumed
        <4> QED BY <4>2, <4>3
      <3> QED BY <2>1, <2>8, <3>1, <3>2 DEF CheckpointInv, QueryInv
    <2>9. QueryInv(s)'
      BY <2>1, <2>2, <2>3, <2>4 DEF CheckpointInv, QueryInv, Live, InBatch
    <2> QED BY <1>0, <2>1, <2>6, <2>7, <2>8, <2>9 DEF CheckpointInv, Ascending
  <1>7. CASE Tick \/ FileArrives \/ UNCHANGED vars
    <2>1. UNCHANGED <<deployment, offsets, committed, streamLog, childLog, appended, driverVars, queryVars>>
      BY <1>7 DEF Tick, FileArrives, vars, storeVars
    <2>2. arrived' \in 0 .. MaxFile /\ LockTypeOK'
      <3>1. arrived \in 0 .. MaxFile /\ LockTypeOK
        BY <1>0 DEF TypeOK
      <3>2. arrived' \in 0 .. MaxFile
        BY <1>7, <3>1, FilesAssumption DEF Tick, FileArrives, vars, storeVars
      <3>3. LockTypeOK'
        BY <1>7, <3>1, TTLAssumption
           DEF Tick, TimePasses, Elapsed, FileArrives, vars, lockVars, LockTypeOK, LockRows
      <3> QED BY <3>2, <3>3
    <2>3. TypeOK'
      BY <1>0, <2>1, <2>2 DEF TypeOK, driverVars, queryVars
    <2>4. \A s \in Runs : QueryInv(s)'
      BY <2>1 DEF CheckpointInv, QueryInv, Planned, Current, Live, Consumed, driverVars, queryVars
    <2> QED BY <1>0, <2>1, <2>3, <2>4 DEF CheckpointInv, Ascending, OneQuery, Live, queryVars
  <1> QED BY <1>1, <1>2, <1>3, <1>4, <1>5, <1>6, <1>7 DEF Next, Drive, Process

LEMMA CheckpointAlways == Spec => []CheckpointInv
  BY CheckpointInit, CheckpointNext, PTL DEF Spec

(***************************************************************************)
(* Every variable keeps its type; in particular a stream never has more    *)
(* batches in its checkpoint, or more children in the run log, than there  *)
(* are files.                                                              *)
(***************************************************************************)
THEOREM TypeCorrect == Spec => []TypeOK
  BY CheckpointAlways, PTL DEF CheckpointInv
-----------------------------------------------------------------------------
(***************************************************************************)
(* Batches.                                                                *)
(*                                                                         *)
(* NoBatchLost speaks of committed batches. BatchInv follows one from the  *)
(* lookup of its key to its commit: it is appended before it can be        *)
(* logged, its callback returns without raising only for a batch it has    *)
(* appended or found a success of, and a logged success is one of an       *)
(* appended batch. That holds whatever the driver thread does in the       *)
(* meantime, for the callback and Spark's commit do not depend on it.      *)
(***************************************************************************)
InTarget(n) == \E s \in Runs : n \in appended[s]

\* The batch that s is at, and those it has logged.
BatchInv(s) ==
    /\ query[s] \in {"write", "save"} => result[s] = "SUCCESS"
    /\ query[s] = "save" => Current \in appended[s]
    /\ query[s] \in {"log", "return"} /\ result[s] = "SUCCESS" => Current \in appended[s]
    /\ query[s] \in {"log", "return"} /\ result[s] = "SKIPPED" => InTarget(Current)
    /\ \A n \in Batches : childLog[s][n] = "SUCCESS" => n \in appended[s]

\* The inductive invariant.
DataInv == CheckpointInv /\ NoBatchLost /\ \A s \in Runs : BatchInv(s)

\* The steps that neither decide, write, log nor commit a batch.
Quiet ==
    /\ UNCHANGED <<deployment, plan, committed, childLog, appended, result, results>>
    /\ \A s \in Runs : query'[s] = query[s] \/ query'[s] \in {"next", "key", "ended", "failed"}

LEMMA QuietSteps ==
  ASSUME CheckpointInv, [Next]_vars,
         \A s \in Runs : ~ (BatchCheckKey(s) \/ BatchWrite(s) \/ BatchSave(s) \/ BatchFails(s)
                            \/ BatchLog(s) \/ BatchReturn(s))
  PROVE  Quiet
  <1>0. TypeOK
    BY DEF CheckpointInv
  <1>1. ASSUME NEW s \in Runs, Drive(s) \/ RaiseBeforeQuery(s) \/ Interrupt(s) PROVE Quiet
    BY <1>0, <1>1
       DEF Drive, Quiet, TypeOK, QueryAt, storeVars, driverVars, queryVars,
           CheckStream, LogStart, AcquireLock, ReadBack, StartQuery, AwaitTermination, ReleaseLock,
           Measure, LogLateStart, LogFinish, RaiseBeforeQuery, Interrupt
  <1>2. ASSUME NEW s \in Runs, NextBatch(s) \/ EndQuery(s) \/ QueryFails(s) \/ Crash(s) PROVE Quiet
    BY <1>0, <1>2
       DEF Quiet, TypeOK, QueryAt, storeVars, driverVars, NextBatch, EndQuery, QueryFails, Crash
  <1>3. CASE Tick \/ FileArrives \/ UNCHANGED vars
    BY <1>3 DEF Tick, FileArrives, vars, Quiet, storeVars, driverVars, queryVars
  <1> QED BY <1>1, <1>2, <1>3 DEF Next, Process

LEMMA SucceededBatchInTarget ==
  ASSUME DataInv, NEW s \in Runs, BatchSucceeded(s, Current)
  PROVE  InTarget(Current)
  BY DEF BatchSucceeded, BatchKey, InTarget, DataInv, BatchInv

\* The steps that are not quiet are BatchCheckKey, BatchWrite, BatchSave,
\* BatchFails, BatchLog and BatchReturn.
LEMMA DataInvNext == DataInv /\ [Next]_vars => DataInv'
  <1> SUFFICES ASSUME DataInv, [Next]_vars PROVE DataInv'
    OBVIOUS
  <1>0. CheckpointInv /\ CheckpointInv' /\ TypeOK /\ TypeOK'
    BY CheckpointNext DEF DataInv, CheckpointInv
  <1> USE DEF QueryAt
  <1>1. CASE Quiet
    BY <1>0, <1>1 DEF Quiet, DataInv, BatchInv, NoBatchLost, InTarget, Current
  <1>2. ASSUME NEW s \in Runs, BatchCheckKey(s) \/ BatchSave(s) \/ BatchFails(s) PROVE DataInv'
    <2>1. /\ UNCHANGED <<committed, childLog, appended>>
          /\ \A t \in Runs \ {s} : query'[t] = query[t] /\ result'[t] = result[t]
      BY <1>0, <1>2 DEF BatchCheckKey, BatchSave, BatchFails, storeVars, TypeOK
    <2>2. Current' = Current /\ (\A n : InTarget(n)' <=> InTarget(n)) /\ NoBatchLost'
      BY <2>1 DEF Current, InTarget, NoBatchLost, DataInv
    <2>3. BatchInv(s)'
      <3>1. CASE BatchCheckKey(s)
        <4>1. \/ result'[s] = "SKIPPED" /\ query'[s] = "log" /\ BatchSucceeded(s, Current)
              \/ result'[s] = "SUCCESS" /\ query'[s] = "write"
          BY <1>0, <3>1 DEF BatchCheckKey, TypeOK
        <4>2. result'[s] = "SKIPPED" => InTarget(Current)
          BY <4>1, SucceededBatchInTarget
        <4>3. \A n \in Batches : childLog[s][n] = "SUCCESS" => n \in appended[s]
          BY DEF DataInv, BatchInv
        <4> QED BY <2>1, <2>2, <4>1, <4>2, <4>3 DEF BatchInv
      <3>2. CASE BatchSave(s) \/ BatchFails(s)
        BY <1>0, <2>1, <2>2, <3>2 DEF BatchSave, BatchFails, TypeOK, DataInv, BatchInv
      <3> QED BY <1>2, <3>1, <3>2
    <2>4. ASSUME NEW t \in Runs, t # s PROVE BatchInv(t)'
      BY <2>1, <2>2, <2>4 DEF DataInv, BatchInv
    <2> QED BY <1>0, <2>2, <2>3, <2>4 DEF DataInv
  <1>3. ASSUME NEW s \in Runs, BatchWrite(s) PROVE DataInv'
    <2>1. /\ UNCHANGED <<committed, childLog, result>>
          /\ query[s] = "write" /\ query'[s] = "save"
          /\ \A t \in Runs \ {s} : query'[t] = query[t] /\ appended'[t] = appended[t]
          /\ appended'[s] = appended[s] \cup {Current}
      BY <1>0, <1>3 DEF BatchWrite, TypeOK
    <2>2. Current' = Current /\ (\A n : InTarget(n) => InTarget(n)') /\ NoBatchLost'
      BY <2>1 DEF Current, InTarget, NoBatchLost, DataInv
    <2>3. \A t \in Runs : BatchInv(t)'
      BY <2>1, <2>2 DEF DataInv, BatchInv
    <2> QED BY <1>0, <2>2, <2>3 DEF DataInv
  <1>4. ASSUME NEW s \in Runs, BatchLog(s) PROVE DataInv'
    <2>1. /\ UNCHANGED <<committed, appended, result>>
          /\ query[s] = "log" /\ query'[s] = "return"
          /\ \A t \in Runs \ {s} : query'[t] = query[t] /\ childLog'[t] = childLog[t]
          /\ \A n \in Batches : childLog'[s][n] # childLog[s][n] => n = Current /\ childLog'[s][n] = result[s]
      BY <1>0, <1>4 DEF BatchLog, TypeOK
    <2>2. Current' = Current /\ (\A n : InTarget(n)' <=> InTarget(n)) /\ NoBatchLost'
      BY <2>1 DEF Current, InTarget, NoBatchLost, DataInv
    <2>3. \A t \in Runs : BatchInv(t)'
      BY <2>1, <2>2 DEF DataInv, BatchInv
    <2> QED BY <1>0, <2>2, <2>3 DEF DataInv
  <1>5. ASSUME NEW s \in Runs, BatchReturn(s) PROVE DataInv'
    <2>1. /\ UNCHANGED <<childLog, appended, result>>
          /\ query[s] = "return" /\ query'[s] \in {"failed", "next"}
          /\ \A t \in Runs \ {s} : query'[t] = query[t]
          /\ committed' = committed \/ (result[s] # "FAILED" /\ committed' = committed + 1)
      BY <1>0, <1>5 DEF BatchReturn, TypeOK
    <2>2. \A t \in Runs \ {s} : query[t] \notin InBatch
      BY <1>0, <2>1 DEF CheckpointInv, OneQuery, Live, InBatch
    <2>3. \A t \in Runs : BatchInv(t)'
      BY <2>1, <2>2 DEF DataInv, BatchInv, InBatch
    <2>4. result[s] # "FAILED" => InTarget(Current)
      BY <1>0, <2>1 DEF DataInv, BatchInv, InTarget, TypeOK, ChildStatuses
    <2>5. NoBatchLost'
      BY <1>0, <2>1, <2>4 DEF DataInv, NoBatchLost, InTarget, Current, TypeOK
    <2> QED BY <1>0, <2>3, <2>5 DEF DataInv
  <1> QED BY <1>0, <1>1, <1>2, <1>3, <1>4, <1>5, QuietSteps

(***************************************************************************)
(* A batch that Spark has committed is in the target, whatever streams     *)
(* crashed, were interrupted or failed before, and however often the batch *)
(* was delivered (_process_batch raises on a FAILED result, so that Spark  *)
(* does not commit the batch).                                             *)
(***************************************************************************)
THEOREM CommittedIsInTarget == Spec => []NoBatchLost
  <1>1. Init => DataInv
    BY CheckpointInit DEF Init, DataInv, BatchInv, NoBatchLost
  <1>2. DataInv => NoBatchLost
    BY DEF DataInv
  <1> QED BY <1>1, <1>2, DataInvNext, PTL DEF Spec
-----------------------------------------------------------------------------
(***************************************************************************)
(* Reruns.                                                                 *)
(*                                                                         *)
(* Two successes of a batch under one prefix need a second callback that   *)
(* looked its key up before the first one logged. OneQuery leaves no room  *)
(* for that: between the lookup and the log of a batch, no other query is  *)
(* live. So whoever is ingesting a batch has seen that it has no success   *)
(* (FirstSuccess), and still is right when it logs. A stream without a key *)
(* has a prefix of its own, its stream_run_id, and is left out.            *)
(***************************************************************************)
\* Batch keys of the two streams can be equal.
SamePrefix(s, t) == plan[s].key # NoKey /\ plan[s].key = plan[t].key

\* A batch being ingested has no success under its prefix.
FirstSuccess(s) ==
    query[s] \in {"write", "save"} \/ (query[s] = "log" /\ result[s] = "SUCCESS") =>
        \A t \in Runs : SamePrefix(s, t) => childLog[t][Current] # "SUCCESS"

\* The inductive invariant.
RerunInv ==
    /\ CheckpointInv
    /\ "control" \notin deployment.faults =>
          /\ \A s, t \in Runs, n \in Batches :
                s # t /\ childLog[s][n] = "SUCCESS" /\ childLog[t][n] = "SUCCESS" => ~ SamePrefix(s, t)
          /\ \A s \in Runs : FirstSuccess(s)

LEMMA RerunInvNext == RerunInv /\ [Next]_vars => RerunInv'
  <1> SUFFICES ASSUME RerunInv, [Next]_vars PROVE RerunInv'
    OBVIOUS
  <1>0. CheckpointInv /\ CheckpointInv' /\ TypeOK /\ TypeOK'
    BY CheckpointNext DEF RerunInv, CheckpointInv
  <1> USE DEF QueryAt
  <1>1. CASE Quiet
    BY <1>0, <1>1 DEF Quiet, RerunInv, FirstSuccess, SamePrefix, Current
  <1>2. ASSUME NEW s \in Runs, BatchCheckKey(s) PROVE RerunInv'
    <2>1. /\ UNCHANGED <<deployment, plan, committed, childLog>>
          /\ \A t \in Runs \ {s} : query'[t] = query[t] /\ result'[t] = result[t]
      BY <1>0, <1>2 DEF BatchCheckKey, storeVars, driverVars, TypeOK
    <2>2. "control" \notin deployment.faults => FirstSuccess(s)'
      <3>1. SUFFICES ASSUME "control" \notin deployment.faults,
                            query'[s] # "log" \/ result'[s] = "SUCCESS", NEW t \in Runs, SamePrefix(s, t)
                     PROVE  childLog[t][Current] # "SUCCESS"
        BY <2>1 DEF FirstSuccess, SamePrefix, Current
      <3>2. ~ BatchSucceeded(s, Current)
        BY <1>0, <1>2, <3>1 DEF BatchCheckKey, TypeOK
      <3>3. Current \in Batches /\ BatchKey(t, Current) = BatchKey(s, Current)
        BY <1>0, <1>2, <3>1
           DEF BatchCheckKey, CheckpointInv, QueryInv, InBatch, Planned, Current, TypeOK, Batches,
               BatchKey, SamePrefix
      <3> QED BY <3>2, <3>3 DEF BatchSucceeded
    <2> QED BY <1>0, <2>1, <2>2 DEF RerunInv, FirstSuccess, SamePrefix, Current
  <1>3. ASSUME NEW s \in Runs, BatchWrite(s) \/ BatchSave(s) \/ BatchFails(s) PROVE RerunInv'
    <2>1. /\ UNCHANGED <<deployment, plan, committed, childLog>>
          /\ \A t \in Runs \ {s} : query'[t] = query[t] /\ result'[t] = result[t]
          /\ query[s] \in {"write", "save"}
      BY <1>0, <1>3 DEF BatchWrite, BatchSave, BatchFails, storeVars, driverVars, TypeOK
    <2> QED BY <1>0, <2>1 DEF RerunInv, FirstSuccess, SamePrefix, Current
  <1>4. ASSUME NEW s \in Runs, BatchLog(s) PROVE RerunInv'
    <2>1. /\ UNCHANGED <<deployment, plan, committed, result>>
          /\ query[s] = "log" /\ query'[s] = "return"
          /\ \A t \in Runs \ {s} : query'[t] = query[t] /\ childLog'[t] = childLog[t]
          /\ \A n \in Batches : childLog'[s][n] # childLog[s][n] => n = Current /\ childLog'[s][n] = result[s]
      BY <1>0, <1>4 DEF BatchLog, TypeOK, driverVars
    <2>2. \A t \in Runs \ {s} : query[t] \notin InBatch
      BY <1>0, <2>1 DEF CheckpointInv, OneQuery, Live, InBatch
    <2>3. \A t \in Runs : FirstSuccess(t)'
      BY <2>1, <2>2 DEF FirstSuccess, InBatch
    <2>4. ASSUME "control" \notin deployment.faults,
                 NEW t \in Runs \ {s}, NEW n \in Batches, childLog'[s][n] = "SUCCESS", childLog[t][n] = "SUCCESS"
          PROVE  ~ SamePrefix(s, t)
      <3>1. CASE childLog[s][n] = "SUCCESS"
        BY <2>4, <3>1 DEF RerunInv
      <3>2. CASE childLog[s][n] # "SUCCESS"
        BY <2>1, <2>4, <3>2 DEF RerunInv, FirstSuccess
      <3> QED BY <3>1, <3>2
    <2>5. ASSUME "control" \notin deployment.faults,
                 NEW u \in Runs, NEW t \in Runs, NEW n \in Batches, u # t,
                 childLog'[u][n] = "SUCCESS", childLog'[t][n] = "SUCCESS"
          PROVE  ~ SamePrefix(u, t)
      <3>1. CASE u = s
        BY <2>1, <2>4, <2>5, <3>1
      <3>2. CASE t = s
        BY <2>1, <2>4, <2>5, <3>2 DEF SamePrefix
      <3>3. CASE u # s /\ t # s
        BY <2>1, <2>5, <3>3 DEF RerunInv
      <3> QED BY <3>1, <3>2, <3>3
    <2> QED BY <1>0, <2>1, <2>3, <2>5 DEF RerunInv, SamePrefix
  <1>5. ASSUME NEW s \in Runs, BatchReturn(s) PROVE RerunInv'
    <2>1. /\ UNCHANGED <<deployment, plan, childLog, result>>
          /\ query[s] = "return" /\ query'[s] \in {"failed", "next"}
          /\ \A t \in Runs \ {s} : query'[t] = query[t]
      BY <1>0, <1>5 DEF BatchReturn, TypeOK
    <2>2. \A t \in Runs \ {s} : query[t] \notin InBatch
      BY <1>0, <2>1 DEF CheckpointInv, OneQuery, Live, InBatch
    <2>3. \A t \in Runs : FirstSuccess(t)'
      BY <2>1, <2>2 DEF FirstSuccess, InBatch
    <2> QED BY <1>0, <2>1, <2>3 DEF RerunInv, SamePrefix
  <1> QED BY <1>0, <1>1, <1>2, <1>3, <1>4, <1>5, QuietSteps

(***************************************************************************)
(* Streams with one idempotency key do not both log a success of one batch *)
(* (the batch key of _process_batch, looked up by find_idempotent_run), as *)
(* long as the control tables can be read.                                 *)
(***************************************************************************)
THEOREM RerunsDoNotRepeat == Spec => []NoDuplicateReruns
  <1>1. Init => RerunInv
    BY CheckpointInit DEF Init, RerunInv, FirstSuccess
  <1>2. RerunInv => NoDuplicateReruns
    BY DEF RerunInv, NoDuplicateReruns, Undisturbed, SamePrefix
  <1> QED BY <1>1, <1>2, RerunInvNext, PTL DEF Spec
-----------------------------------------------------------------------------
(***************************************************************************)
(* The driver thread.                                                      *)
(*                                                                         *)
(* The status of a stream is SUCCESS by default, as that of ingest_plan    *)
(* is. DriverInv shows that it is so in the finally clause only when       *)
(* awaitTermination has returned from a query that ended: a query that     *)
(* failed, and any exception before it, went through the except clause.    *)
(* Interrupts do not, and are excluded. CheckpointInv then says that the   *)
(* query that ended had committed every batch up to its snapshot.          *)
(***************************************************************************)
\* What the status of s says of its query.
DriverInv(s) ==
    /\ Live(s) => pc[s] = "await"
    /\ pc[s] \in {"check", "log_start", "lock", "read_back", "start", "await"} => status[s] = "SUCCESS"
    /\ pc[s] = "log_skip" => status[s] = "SKIPPED"
    /\ status[s] = "SKIPPED" => query[s] = "none"
    /\ pc[s] \in {"release", "measure", "relog", "finish", "done"} /\ status[s] = "SUCCESS" =>
          query[s] = "ended"
    /\ streamLog[s] = "SUCCESS" => query[s] = "ended"

\* The inductive invariant.
DriversInv ==
    /\ CheckpointInv
    /\ "interrupt" \notin deployment.faults => \A s \in Runs : DriverInv(s)

LEMMA DriversInvNext == DriversInv /\ [Next]_vars => DriversInv'
  <1> SUFFICES ASSUME DriversInv, [Next]_vars PROVE DriversInv'
    OBVIOUS
  <1>0. CheckpointInv /\ CheckpointInv' /\ TypeOK /\ TypeOK'
    BY CheckpointNext DEF DriversInv, CheckpointInv
  <1>a. /\ pc \in [Runs -> DriverPCs] /\ status \in [Runs -> ChildStatuses]
        /\ query \in [Runs -> QueryPCs] /\ streamLog \in [Runs -> StreamStatuses \cup {"NONE"}]
    BY <1>0 DEF TypeOK
  <1> USE DEF QueryAt, Goto, RaiseIn
  <1>1. deployment' = deployment
    BY DEF Next, vars, Drive, Process, storeVars, CheckStream, LogStart, AcquireLock, ReadBack, StartQuery,
           AwaitTermination, ReleaseLock, Measure, LogLateStart, LogFinish, RaiseBeforeQuery,
           Interrupt, QueryFails, Crash, NextBatch, EndQuery, BatchCheckKey, BatchWrite, BatchSave,
           BatchFails, BatchLog, BatchReturn, Tick, FileArrives
  <1>2. SUFFICES ASSUME "interrupt" \notin deployment.faults PROVE \A s \in Runs : DriverInv(s)'
    BY <1>0, <1>1 DEF DriversInv
  <1>3. \A s \in Runs : DriverInv(s)
    BY <1>2 DEF DriversInv
  <1>4. ASSUME NEW s \in Runs, UNCHANGED <<pc[s], status[s], query[s], streamLog[s]>> PROVE DriverInv(s)'
    BY <1>3, <1>4 DEF DriverInv, Live
  <1>5. ASSUME NEW s \in Runs,
               \/ CheckStream(s) \/ LogStart(s) \/ AcquireLock(s) \/ ReadBack(s) \/ StartQuery(s)
               \/ RaiseBeforeQuery(s)
        PROVE  \A t \in Runs : DriverInv(t)'
    <2>1. \A t \in Runs \ {s} : UNCHANGED <<pc[t], status[t], query[t], streamLog[t]>>
      BY <1>a, <1>5
         DEF storeVars, queryVars, CheckStream, LogStart, AcquireLock, ReadBack, StartQuery,
             RaiseBeforeQuery
    <2>2. pc[s] \in BeforeQuery /\ query[s] = "none" /\ ~ Live(s)
      BY <1>0, <1>5
         DEF CheckpointInv, QueryInv, BeforeQuery, Live, InBatch, CheckStream, LogStart, AcquireLock,
             ReadBack, StartQuery, RaiseBeforeQuery
    <2>3. \/ query'[s] = "none"
          \/ query'[s] = "next" /\ pc'[s] = "await"
      BY <1>a, <1>5, <2>2
         DEF queryVars, CheckStream, LogStart, AcquireLock, ReadBack, StartQuery, RaiseBeforeQuery
    <2>4. /\ streamLog'[s] = "SUCCESS" => streamLog[s] = "SUCCESS"
          /\ \/ pc'[s] = "log_skip" /\ status'[s] = "SKIPPED"
             \/ pc'[s] = "release" /\ status'[s] \in {"FAILED", "SKIPPED"} /\ query'[s] = "none"
             \/ pc'[s] \in {"log_start", "lock", "read_back", "start", "await"} /\ status'[s] = "SUCCESS"
      BY <1>a, <1>3, <1>5, <2>2
         DEF storeVars, queryVars, CheckStream, LogStart, AcquireLock, ReadBack, StartQuery,
             RaiseBeforeQuery, DriverInv
    <2>5. status'[s] = "SKIPPED" => query'[s] = "none"
      BY <2>3, <2>4
    <2>6. DriverInv(s)'
      BY <1>3, <2>2, <2>3, <2>4, <2>5 DEF DriverInv, Live, InBatch
    <2> QED BY <1>4, <2>1, <2>6
  <1>6. ASSUME NEW s \in Runs,
               \/ AwaitTermination(s) \/ ReleaseLock(s) \/ Measure(s) \/ LogLateStart(s) \/ LogFinish(s)
        PROVE  \A t \in Runs : DriverInv(t)'
    <2>1. /\ query' = query
          /\ \A t \in Runs \ {s} : UNCHANGED <<pc[t], status[t], query[t], streamLog[t]>>
      BY <1>a, <1>6
         DEF storeVars, queryVars, AwaitTermination, ReleaseLock, Measure, LogLateStart, LogFinish
    <2>2. /\ pc'[s] \in {"release", "measure", "relog", "finish", "done"}
          /\ pc[s] \in {"await", "release", "measure", "relog", "finish"}
          /\ pc[s] = "await" => query[s] \in {"ended", "failed"}
          /\ pc[s] = "await" /\ query[s] = "failed" => status'[s] = "FAILED"
          /\ status'[s] \in {status[s], "FAILED"}
          /\ streamLog'[s] \in {streamLog[s], "NONE"} \/ (streamLog'[s] = status[s] /\ pc[s] \in {"relog", "finish"})
      BY <1>a, <1>6
         DEF storeVars, queryVars, AwaitTermination, ReleaseLock, Measure, LogLateStart, LogFinish
    <2>3. DriverInv(s)'
      BY <1>3, <2>1, <2>2 DEF DriverInv, Live, InBatch
    <2> QED BY <1>4, <2>1, <2>3
  <1>7. ASSUME NEW s \in Runs, Process(s) \/ QueryFails(s)
        PROVE  \A t \in Runs : DriverInv(t)'
    <2>1. /\ UNCHANGED <<pc, status, streamLog>>
          /\ Live(s) /\ query'[s] # "none"
          /\ \A t \in Runs \ {s} : UNCHANGED <<pc[t], status[t], query[t], streamLog[t]>>
      BY <1>a, <1>7
         DEF Live, InBatch, storeVars, driverVars, Process, NextBatch, EndQuery, BatchCheckKey,
             BatchWrite, BatchSave, BatchFails, BatchLog, BatchReturn, QueryFails
    <2>2. query[s] \notin {"none", "ended"}
      BY <2>1 DEF Live, InBatch
    <2>3. DriverInv(s)'
      BY <1>3, <2>1, <2>2 DEF DriverInv
    <2> QED BY <1>4, <2>1, <2>3
  <1>8. ASSUME NEW s \in Runs, Crash(s) PROVE \A t \in Runs : DriverInv(t)'
    <2>1. /\ UNCHANGED <<status, streamLog>>
          /\ \A t \in Runs \ {s} : UNCHANGED <<pc[t], status[t], query[t], streamLog[t]>>
          /\ pc'[s] = IF pc[s] = "done" THEN "done" ELSE "crashed"
          /\ query'[s] = IF Live(s) THEN "failed" ELSE query[s]
      BY <1>a, <1>8 DEF storeVars, Crash
    <2>2. DriverInv(s)'
      BY <1>3, <2>1 DEF DriverInv, Live, InBatch
    <2> QED BY <1>4, <2>1, <2>2
  <1>9. CASE Tick \/ FileArrives \/ UNCHANGED vars
    BY <1>4, <1>9 DEF Tick, FileArrives, vars, storeVars, driverVars, queryVars
  <1>10. \A s \in Runs : ~ Interrupt(s)
    BY <1>2 DEF Interrupt
  <1> QED BY <1>5, <1>6, <1>7, <1>8, <1>9, <1>10 DEF Next, Drive

LEMMA DriversInvAlways == Spec => []DriversInv
  <1>1. Init => DriversInv
    BY CheckpointInit DEF Init, DriversInv, DriverInv, Live, InBatch
  <1> QED BY <1>1, DriversInvNext, PTL DEF Spec

(***************************************************************************)
(* A stream that log_stream_finish calls SUCCESS has ingested every file   *)
(* that was there when its query started, unless interrupts pass the       *)
(* except clause by.                                                       *)
(***************************************************************************)
THEOREM LoggedSuccessIsComplete == Spec => []SuccessIsComplete
  <1>1. DriversInv => SuccessIsComplete
    BY DEF DriversInv, DriverInv, SuccessIsComplete, CheckpointInv, QueryInv
  <1> QED BY <1>1, DriversInvAlways, PTL
-----------------------------------------------------------------------------
(***************************************************************************)
(* Metrics.                                                                *)
(*                                                                         *)
(* The driver takes the larger of what its callback appended and of the    *)
(* children in the run log. CountInv shows that the log is never behind: a *)
(* result is appended after its child is logged, so the children are the   *)
(* right number even when the last batch failed before its result was      *)
(* appended. It needs that batches are logged in order, each once per      *)
(* query, which OneQuery and the checkpoint give.                          *)
(***************************************************************************)
\* The children of s in the run log, against its query and its results.
CountInv(s) ==
    /\ query[s] = "none" => \A n \in Batches : childLog[s][n] = "NONE"
    /\ query[s] \in {"next", "key", "write", "save", "log"} =>
          \A n \in Batches : n > committed => childLog[s][n] = "NONE"
    /\ query[s] = "return" => \A n \in Batches : n > Current => childLog[s][n] = "NONE"
    /\ results[s] <= Children(s)
    /\ query[s] = "return" => results[s] + 1 <= Children(s)
    /\ pc[s] \in {"relog", "finish", "done"} => measured[s] = Children(s)

\* The inductive invariant.
MetricsInv ==
    /\ DriversInv
    /\ deployment.faults \cap {"control", "interrupt"} = {} => \A s \in Runs : CountInv(s)

\* Steps that log no child and append no result.
LEMMA CountKept ==
  ASSUME NEW s \in Runs, CountInv(s), UNCHANGED <<childLog[s], results[s], measured[s], pc[s]>>,
         \/ query'[s] = query[s] /\ (committed' = committed \/ ~ Live(s))
         \/ query'[s] \in {"ended", "failed"}
         \/ query[s] \in {"next", "key", "write", "save"} /\ query'[s] \in {"key", "write", "save", "log"}
            /\ committed' = committed
  PROVE  CountInv(s)'
  <1>1. Children(s)' = Children(s)
    BY DEF Children
  <1> QED BY <1>1 DEF CountInv, Live, InBatch, Current

LEMMA MetricsInvNext == MetricsInv /\ [Next]_vars => MetricsInv'
  <1> SUFFICES ASSUME MetricsInv, [Next]_vars PROVE MetricsInv'
    OBVIOUS
  <1>0. DriversInv /\ DriversInv' /\ CheckpointInv /\ TypeOK
    BY DriversInvNext DEF MetricsInv, DriversInv, CheckpointInv
  <1>a. /\ pc \in [Runs -> DriverPCs] /\ query \in [Runs -> QueryPCs]
        /\ results \in [Runs -> 0 .. MaxFile] /\ measured \in [Runs -> 0 .. MaxFile]
        /\ childLog \in [Runs -> [Batches -> ChildStatuses \cup {"NONE"}]] /\ committed \in Nat
        /\ \A s \in Runs : result[s] \in ChildStatuses
    BY <1>0 DEF TypeOK
  <1> USE DEF QueryAt, Goto, RaiseIn
  <1>1. deployment' = deployment
    BY DEF Next, vars, Drive, Process, storeVars, CheckStream, LogStart, AcquireLock, ReadBack, StartQuery,
           AwaitTermination, ReleaseLock, Measure, LogLateStart, LogFinish, RaiseBeforeQuery,
           Interrupt, QueryFails, Crash, NextBatch, EndQuery, BatchCheckKey, BatchWrite, BatchSave,
           BatchFails, BatchLog, BatchReturn, Tick, FileArrives
  <1>2. SUFFICES ASSUME deployment.faults \cap {"control", "interrupt"} = {}
                 PROVE  \A s \in Runs : CountInv(s)'
    BY <1>0, <1>1 DEF MetricsInv
  <1>3. \A s \in Runs : CountInv(s) /\ DriverInv(s)
    BY <1>2 DEF MetricsInv, DriversInv
  <1>4. ASSUME NEW s \in Runs,
               \/ CheckStream(s) \/ LogStart(s) \/ AcquireLock(s) \/ ReadBack(s)
               \/ AwaitTermination(s) \/ ReleaseLock(s) \/ LogLateStart(s) \/ LogFinish(s)
               \/ RaiseBeforeQuery(s) \/ StartQuery(s)
        PROVE  \A t \in Runs : CountInv(t)'
    <2>1. /\ UNCHANGED <<childLog, results, measured, committed>>
          /\ \A t \in Runs \ {s} : pc'[t] = pc[t] /\ query'[t] = query[t]
          /\ pc'[s] \in {"relog", "finish", "done"} => pc[s] \in {"relog", "finish", "done"}
          /\ query'[s] = query[s] \/ (query'[s] = "next" /\ query[s] = "none")
      <3>1. CASE StartQuery(s)
        <4>1. query[s] = "none"
          BY <1>0, <3>1 DEF StartQuery, CheckpointInv, QueryInv, BeforeQuery
        <4> QED BY <1>a, <3>1, <4>1 DEF StartQuery, storeVars
      <3>2. CASE ~ StartQuery(s)
        BY <1>a, <1>4, <3>2
           DEF storeVars, queryVars, CheckStream, LogStart, AcquireLock, ReadBack, AwaitTermination,
               ReleaseLock, LogLateStart, LogFinish, RaiseBeforeQuery
      <3> QED BY <3>1, <3>2
    <2>2. \A t \in Runs \ {s} : CountInv(t)'
      BY <1>3, <2>1, CountKept
    <2>3. Children(s)' = Children(s)
      BY <2>1 DEF Children
    <2>4. CountInv(s)'
      BY <1>3, <2>1, <2>3 DEF CountInv, Current
    <2> QED BY <2>2, <2>4
  <1>5. ASSUME NEW s \in Runs, Measure(s) PROVE \A t \in Runs : CountInv(t)'
    <2>1. /\ UNCHANGED <<childLog, results, query, committed>>
          /\ \A t \in Runs \ {s} : pc'[t] = pc[t] /\ measured'[t] = measured[t]
      BY <1>a, <1>5 DEF Measure, storeVars, queryVars
    <2>2. \A t \in Runs \ {s} : CountInv(t)'
      BY <1>3, <2>1, CountKept
    <2>3. Children(s)' = Children(s) /\ Children(s) \in Nat /\ results[s] \in Nat /\ results[s] <= Children(s)
      BY <1>0, <1>a, <1>3, <2>1, ChildrenCounted DEF Children, CountInv
    <2>4. measured'[s] = IF status[s] = "SKIPPED" THEN results[s] ELSE StreamMetrics(s, Children(s))
      BY <1>a, <1>2, <1>5 DEF Measure
    <2>5. ASSUME status[s] = "SKIPPED" PROVE results[s] = Children(s)
      <3>1. query[s] = "none"
        BY <1>3, <2>5 DEF DriverInv
      <3>2. {n \in Batches : childLog[s][n] # "NONE"} = {}
        BY <1>3, <3>1 DEF CountInv
      <3>3. Children(s) = 0
        BY <3>2, FS_EmptySet DEF Children
      <3> QED BY <2>3, <3>3
    <2>6. StreamMetrics(s, Children(s)) = Children(s)
      BY <2>3 DEF StreamMetrics
    <2>7. measured'[s] = Children(s)
      BY <2>4, <2>5, <2>6
    <2>8. CountInv(s)'
      BY <1>3, <2>1, <2>3, <2>7 DEF CountInv, Current
    <2> QED BY <2>2, <2>8
  <1>6. ASSUME NEW s \in Runs,
               \/ NextBatch(s) \/ EndQuery(s) \/ BatchCheckKey(s) \/ BatchWrite(s) \/ BatchSave(s)
               \/ BatchFails(s) \/ QueryFails(s) \/ Crash(s)
        PROVE  \A t \in Runs : CountInv(t)'
    <2>1. /\ UNCHANGED <<childLog, results, measured, committed>>
          /\ \A t \in Runs \ {s} : pc'[t] = pc[t] /\ query'[t] = query[t]
          /\ pc'[s] = pc[s] \/ pc'[s] = "crashed"
          /\ \/ query'[s] = query[s]
             \/ query'[s] \in {"ended", "failed"}
             \/ query[s] \in {"next", "key", "write", "save"} /\ query'[s] \in {"key", "write", "save", "log"}
      BY <1>a, <1>6
         DEF storeVars, driverVars, NextBatch, EndQuery, BatchCheckKey, BatchWrite, BatchSave, BatchFails,
             QueryFails, Crash
    <2>2. \A t \in Runs \ {s} : CountInv(t)'
      BY <1>3, <2>1, CountKept
    <2>3. Children(s)' = Children(s)
      BY <2>1 DEF Children
    <2>4. CountInv(s)'
      BY <1>3, <2>1, <2>3 DEF CountInv, Current
    <2> QED BY <2>2, <2>4
  <1>7. ASSUME NEW s \in Runs, BatchLog(s) PROVE \A t \in Runs : CountInv(t)'
    <2>1. /\ UNCHANGED <<results, measured, committed, pc>>
          /\ query[s] = "log" /\ query'[s] = "return"
          /\ \A t \in Runs \ {s} : query'[t] = query[t] /\ childLog'[t] = childLog[t]
      BY <1>a, <1>7 DEF BatchLog, driverVars
    <2>2. \A t \in Runs \ {s} : CountInv(t)'
      BY <1>3, <2>1, CountKept
    <2>3. Current \in Batches /\ childLog[s][Current] = "NONE" /\ pc[s] = "await"
      BY <1>0, <1>3, <2>1
         DEF CheckpointInv, QueryInv, InBatch, Planned, Current, TypeOK, Batches, CountInv, DriverInv, Live
    <2>4. childLog' = [childLog EXCEPT ![s] = [@ EXCEPT ![Current] = result[s]]]
      BY <1>2, <1>7 DEF BatchLog
    <2>5. /\ childLog'[s][Current] # "NONE"
          /\ \A n \in Batches : n # Current => childLog'[s][n] = childLog[s][n]
      <3>1. childLog'[s] = [childLog[s] EXCEPT ![Current] = result[s]]
        BY <1>a, <2>4
      <3>2. childLog'[s][Current] = result[s]
        BY <1>a, <2>3, <3>1
      <3> QED BY <1>a, <3>1, <3>2 DEF ChildStatuses
    <2>6. Children(s)' = Children(s) + 1
      <3> DEFINE L == {n \in Batches : childLog[s][n] # "NONE"}
      <3>1. IsFiniteSet(L) /\ Current \notin L
        BY <1>0, <2>3, ChildrenCounted
      <3>2. {n \in Batches : childLog'[s][n] # "NONE"} = L \cup {Current}
        BY <2>3, <2>5
      <3>3. Cardinality(L \cup {Current}) = Cardinality(L) + 1
        BY <3>1, FS_AddElement
      <3> QED BY <3>2, <3>3 DEF Children
    <2>7. results[s] \in Nat /\ Children(s) \in Nat
      <3>1. Children(s) \in 0 .. MaxFile
        BY <1>0, ChildrenCounted
      <3> QED BY <1>a, <3>1
    <2>8. \A n \in Batches : n > Current => childLog'[s][n] = "NONE"
      <3>1. TAKE n \in Batches
      <3>2. n \in Nat /\ (n > Current => n > committed /\ n # Current)
        BY <1>a DEF Batches, Current
      <3> QED BY <1>3, <2>1, <2>5, <3>2 DEF CountInv
    <2>9. Current' = Current
      BY <2>1 DEF Current
    <2>10. CountInv(s)'
      BY <1>3, <2>1, <2>3, <2>6, <2>7, <2>8, <2>9 DEF CountInv
    <2> QED BY <2>2, <2>10
  <1>8. ASSUME NEW s \in Runs, BatchReturn(s) PROVE \A t \in Runs : CountInv(t)'
    <2>1. /\ UNCHANGED <<childLog, measured, pc>>
          /\ query[s] = "return"
          /\ \/ query'[s] = "next" /\ committed' = Current
             \/ query'[s] = "failed"
          /\ \A t \in Runs \ {s} : query'[t] = query[t] /\ results'[t] = results[t]
          /\ results'[s] \in {results[s], results[s] + 1}
      BY <1>a, <1>8 DEF BatchReturn, CountResult, Current
    <2>2. \A t \in Runs \ {s} : ~ Live(t)
      BY <1>0, <2>1 DEF CheckpointInv, OneQuery, Live, InBatch
    <2>3. \A t \in Runs \ {s} : CountInv(t)'
      BY <1>3, <2>1, <2>2, CountKept
    <2>4. Children(s)' = Children(s) /\ pc[s] = "await"
      BY <1>3, <2>1 DEF Children, DriverInv, Live, InBatch
    <2>5. CountInv(s)'
      BY <1>3, <2>1, <2>4 DEF CountInv
    <2> QED BY <2>3, <2>5
  <1>9. CASE Tick \/ FileArrives \/ UNCHANGED vars
    <2>1. UNCHANGED <<childLog, results, measured, committed, pc, query>>
      BY <1>9 DEF Tick, FileArrives, vars, storeVars, driverVars, queryVars
    <2> QED BY <1>3, <2>1, CountKept
  <1>10. \A s \in Runs : ~ Interrupt(s)
    BY <1>2 DEF Interrupt
  <1> QED BY <1>4, <1>5, <1>6, <1>7, <1>8, <1>9, <1>10 DEF Next, Drive, Process

(***************************************************************************)
(* The batches_processed of a stream are the batches its callback logged,  *)
(* failed ones included, whether or not the driver sees the list that the  *)
(* callback appends to (_stream_metrics_from_children).                    *)
(***************************************************************************)
THEOREM MetricsAreComplete == Spec => []MetricsComplete
  <1>1. Init => MetricsInv
    <2> SUFFICES ASSUME Init PROVE MetricsInv
      OBVIOUS
    <2>1. \A s \in Runs : Children(s) = 0
      <3>1. \A s \in Runs : {n \in Batches : childLog[s][n] # "NONE"} = {}
        BY DEF Init
      <3> QED BY <3>1, FS_EmptySet DEF Children
    <2>2. DriversInv
      BY CheckpointInit DEF Init, DriversInv, DriverInv, Live, InBatch
    <2> QED BY <2>1, <2>2 DEF Init, MetricsInv, CountInv
  <1>2. MetricsInv => MetricsComplete
    BY DEF MetricsInv, CountInv, MetricsComplete, Undisturbed
  <1> QED BY <1>1, <1>2, MetricsInvNext, PTL DEF Spec
-----------------------------------------------------------------------------
(***************************************************************************)
(* The lock.                                                               *)
(*                                                                         *)
(* As for ingest_plan: a lease that has not run out is the row             *)
(* (LeaseIsRow), a row that names a stream is its lease (RowIsLease), and  *)
(* a live owner has not outlived its lease unless streams may be slow      *)
(* (LiveOwnerHasLease). The batches take no lock, but they are at the      *)
(* target only while the driver that has it waits for them.                *)
(***************************************************************************)
LeaseIsRow ==
    \A s \in Runs : lease[s] >= 0 =>
        lock.run = s /\ lock.status = "ACTIVE" /\ lock.left = lease[s]

RowIsLease == \A s \in Runs : ReadBackOwns(s) => lease[s] = lock.left

LiveOwnerHasLease ==
    "slow" \notin deployment.faults =>
        \A s \in Runs :
            /\ pc[s] \notin Ended /\ ReadBackOwns(s) => lease[s] >= 0
            /\ AtTarget(s) => lease[s] >= 0

\* The inductive invariant.
LockInv == CheckpointInv /\ LeaseIsRow /\ RowIsLease /\ LiveOwnerHasLease

\* What a step may do to the lock and to the place of a stream.
LocalTo(s) ==
    /\ UNCHANGED <<lockVars, deployment, plan>>
    /\ \A t \in Runs \ {s} : pc'[t] = pc[t]
    /\ pc[s] \in Ended => pc'[s] \in Ended
    /\ AtTarget(s)' => AtTarget(s) \/ ReadBackOwns(s)

\* Every step is local, takes the lock or returns it, or lets time pass.
LEMMA LockSteps ==
  ASSUME TypeOK, [Next]_vars
  PROVE  \/ \E s \in Runs : LocalTo(s)
         \/ \E s \in Runs : AcquireLock(s) /\ Takeable
         \/ \E s \in Runs : ReleaseLock(s) /\ ReleaseUpdate(s)
         \/ Tick
         \/ UNCHANGED <<lockVars, deployment, driverVars>>
  <1> USE DEF Goto, RaiseIn
  <1>a. pc \in [Runs -> DriverPCs]
    BY DEF TypeOK
  <1>1. ASSUME NEW s \in Runs,
               \/ CheckStream(s) \/ LogStart(s) \/ ReadBack(s) \/ StartQuery(s)
               \/ AwaitTermination(s) \/ Measure(s) \/ LogLateStart(s) \/ LogFinish(s)
               \/ RaiseBeforeQuery(s) \/ Interrupt(s) \/ Crash(s)
        PROVE  LocalTo(s)
    <2>1. UNCHANGED <<lockVars, deployment, plan>>
      BY <1>1
         DEF storeVars, driverVars, CheckStream, LogStart, ReadBack, StartQuery, AwaitTermination, Measure,
             LogLateStart, LogFinish, RaiseBeforeQuery, Interrupt, Crash
    <2>2. /\ \A t \in Runs \ {s} : pc'[t] = pc[t]
          /\ pc[s] \in Ended => pc'[s] \in Ended
          /\ pc'[s] \in {"start", "await"} /\ plan[s].lock => pc[s] \in {"start", "await"} \/ ReadBackOwns(s)
      BY <1>a, <1>1
         DEF Ended, CheckStream, LogStart, ReadBack, StartQuery, AwaitTermination, Measure,
             LogLateStart, LogFinish, RaiseBeforeQuery, Interrupt, Crash
    <2> QED BY <2>1, <2>2 DEF LocalTo, AtTarget
  <1>2. ASSUME NEW s \in Runs, AcquireLock(s), ~ Takeable PROVE LocalTo(s)
    BY <1>a, <1>2 DEF AcquireLock, AcquireMerge, storeVars, LocalTo, AtTarget, Ended
  <1>3. ASSUME NEW s \in Runs, ReleaseLock(s), ~ ReleaseUpdate(s) PROVE LocalTo(s)
    BY <1>a, <1>3 DEF ReleaseLock, storeVars, LocalTo, AtTarget, Ended
  <1>4. ASSUME NEW s \in Runs, Process(s) \/ QueryFails(s)
        PROVE  UNCHANGED <<lockVars, deployment, driverVars>> \/ LocalTo(s)
    <2>1. UNCHANGED <<lockVars, deployment, plan, pc>>
      BY <1>4
         DEF storeVars, driverVars, Process, NextBatch, EndQuery, BatchCheckKey, BatchWrite, BatchSave,
             BatchFails, BatchLog, BatchReturn, QueryFails
    <2> QED BY <2>1 DEF LocalTo, AtTarget
  <1>5. CASE FileArrives \/ UNCHANGED vars
    BY <1>5 DEF FileArrives, vars, storeVars
  <1> QED BY <1>1, <1>2, <1>3, <1>4, <1>5 DEF Next, Drive

LEMMA LockInvNext == LockInv /\ [Next]_vars => LockInv'
  <1> SUFFICES ASSUME LockInv, [Next]_vars PROVE LockInv'
    OBVIOUS
  <1> USE DEF Goto, RaiseIn
  <1>0. CheckpointInv /\ CheckpointInv' /\ TypeOK /\ TypeOK' /\ LockTypeOK
    BY CheckpointNext DEF LockInv, CheckpointInv, TypeOK
  <1>a. pc \in [Runs -> DriverPCs]
    BY <1>0 DEF TypeOK
  <1>1. ASSUME NEW s \in Runs, LocalTo(s) PROVE LockInv'
    <2>1. LeaseIsRow' /\ RowIsLease'
      BY <1>1 DEF LockInv, LeaseIsRow, RowIsLease, LocalTo, lockVars, ReadBackOwns
    <2>2. ASSUME "slow" \notin deployment.faults, NEW t \in Runs
          PROVE  /\ pc'[t] \notin Ended /\ ReadBackOwns(t)' => lease'[t] >= 0
                 /\ AtTarget(t)' => lease'[t] >= 0
      <3>1. CASE t = s
        <4>1. AtTarget(s)' => pc[s] \notin Ended
          BY <1>1 DEF LocalTo, AtTarget, Ended
        <4> QED BY <1>1, <2>2, <3>1, <4>1 DEF LockInv, LiveOwnerHasLease, LocalTo, lockVars, ReadBackOwns
      <3>2. CASE t # s
        BY <1>1, <2>2, <3>2 DEF LockInv, LiveOwnerHasLease, LocalTo, lockVars, ReadBackOwns, AtTarget
      <3> QED BY <3>1, <3>2
    <2>3. LiveOwnerHasLease'
      BY <1>1, <2>2 DEF LiveOwnerHasLease, LocalTo
    <2> QED BY <1>0, <2>1, <2>3 DEF LockInv
  <1>2. ASSUME NEW s \in Runs, AcquireLock(s), Takeable PROVE LockInv'
    <2>1. /\ lock' = [status |-> "ACTIVE", run |-> s, left |-> TTL]
          /\ lease' = [lease EXCEPT ![s] = TTL] /\ plan' = plan /\ deployment' = deployment
          /\ pc'[s] = "read_back" /\ \A t \in Runs \ {s} : pc'[t] = pc[t]
      BY <1>a, <1>2 DEF AcquireLock, AcquireMerge, storeVars
    <2>2. \A t \in Runs : lease[t] < 0
      BY <1>0, <1>2 DEF LockInv, LeaseIsRow, Takeable, LockTypeOK
    <2>3. LeaseIsRow' /\ RowIsLease'
      BY <1>0, <2>1, <2>2, TTLAssumption DEF LeaseIsRow, RowIsLease, ReadBackOwns, LockTypeOK
    <2>4. LiveOwnerHasLease'
      BY <1>0, <2>1, <2>2, TTLAssumption
         DEF LockInv, LiveOwnerHasLease, AtTarget, ReadBackOwns, LockTypeOK
    <2> QED BY <1>0, <2>3, <2>4 DEF LockInv
  <1>3. ASSUME NEW s \in Runs, ReleaseLock(s), ReleaseUpdate(s) PROVE LockInv'
    <2>1. /\ plan' = plan /\ deployment' = deployment
          /\ pc'[s] = "measure" /\ \A t \in Runs \ {s} : pc'[t] = pc[t]
      BY <1>a, <1>3 DEF ReleaseLock, storeVars
    <2>2. /\ \A t \in Runs \ {s} : lease'[t] = lease[t]
          /\ lease'[s] = -1
          /\ \A t \in Runs : ReadBackOwns(t)' => ReadBackOwns(t) /\ t # s
          /\ lock'.left = lock.left /\ lock'.run = lock.run
          /\ lock.run # s => lock' = lock
      BY <1>0, <1>3 DEF ReleaseUpdate, ReadBackOwns, LockTypeOK, LockRows
    <2>3. LeaseIsRow' /\ RowIsLease'
      BY <2>2 DEF LockInv, LeaseIsRow, RowIsLease
    <2>4. LiveOwnerHasLease'
      BY <2>1, <2>2 DEF LockInv, LiveOwnerHasLease, AtTarget
    <2> QED BY <1>0, <2>3, <2>4 DEF LockInv
  <1>4. CASE Tick
    <2>1. /\ UNCHANGED <<deployment, plan, pc>>
          /\ \A t \in Runs : ReadBackOwns(t)' <=> ReadBackOwns(t)
          /\ lock'.status = lock.status /\ lock'.run = lock.run /\ lock'.left = Elapsed(lock.left)
          /\ \A t \in Runs : lease'[t] = Elapsed(lease[t])
      BY <1>0, <1>4
         DEF Tick, TimePasses, storeVars, driverVars, ReadBackOwns, LockTypeOK, LockRows
    <2>2. \A t \in Runs : lease[t] \in Int /\ (lease'[t] >= 0 => lease[t] >= 0)
      BY <1>0, <2>1 DEF Elapsed, LockTypeOK
    <2>3. LeaseIsRow' /\ RowIsLease'
      BY <2>1, <2>2 DEF LockInv, LeaseIsRow, RowIsLease
    <2>4. "slow" \notin deployment.faults =>
             \A t \in Runs : pc[t] \notin Ended /\ lease[t] >= 0 => lease'[t] >= 0
      BY <1>4, <2>1, <2>2 DEF Tick, MayElapse, Elapsed
    <2>5. LiveOwnerHasLease'
      BY <2>1, <2>4 DEF LockInv, LiveOwnerHasLease, AtTarget, Ended
    <2> QED BY <1>0, <2>3, <2>5 DEF LockInv
  <1>5. CASE UNCHANGED <<lockVars, deployment, driverVars>>
    BY <1>0, <1>5
       DEF lockVars, driverVars, LockInv, LeaseIsRow, RowIsLease, LiveOwnerHasLease, AtTarget, ReadBackOwns
  <1> QED BY <1>0, <1>1, <1>2, <1>3, <1>4, <1>5, LockSteps

LEMMA LockInvAlways == Spec => []LockInv
  <1>1. Init => LockInv
    BY CheckpointInit
       DEF Init, LockInit, LockInv, LeaseIsRow, RowIsLease, LiveOwnerHasLease, AtTarget, ReadBackOwns
  <1> QED BY <1>1, LockInvNext, PTL DEF Spec

(***************************************************************************)
(* While a batch of a locking stream is at the target, the lock row names  *)
(* its stream, provided no stream outlives its lease (acquire_lock before  *)
(* the query, release_lock after awaitTermination).                        *)
(***************************************************************************)
THEOREM BatchesAreLocked == Spec => []BatchesUnderLock
  <1>1. DriversInv /\ LockInv => BatchesUnderLock
    <2> SUFFICES ASSUME DriversInv, LockInv, Undisturbed, NEW s \in Runs, plan[s].lock, query[s] \in InBatch
                 PROVE  ReadBackOwns(s)
      BY DEF BatchesUnderLock
    <2>1. "slow" \notin deployment.faults /\ "interrupt" \notin deployment.faults
      BY DEF Undisturbed
    <2>2. AtTarget(s)
      BY <2>1 DEF DriversInv, DriverInv, Live, AtTarget
    <2> QED BY <2>1, <2>2 DEF LockInv, LiveOwnerHasLease, LeaseIsRow, ReadBackOwns
  <1> QED BY <1>1, DriversInvAlways, LockInvAlways, PTL
-----------------------------------------------------------------------------
(***************************************************************************)
(* The refinement of Lease.                                                *)
(*                                                                         *)
(* What a step does to the lease depends on the lock and on whether its    *)
(* stream enters or leaves the target, and LockSteps sorts all steps by    *)
(* that: most are local, and take at most their own stream in or out.      *)
(***************************************************************************)
\* The mapping: who has the lease, who is inside, and who is overdue.
Holder == IF Takeable THEN NoRun ELSE lock.run
Inside == {s \in Runs : AtTarget(s)}
Overdue == {s \in Runs : AtTarget(s) /\ lease[s] < 0}

\* A local step is one of the lease, or none.
LEMMA RefineLocal ==
  ASSUME LockInv, NEW s \in Runs, LocalTo(s)
  PROVE  TargetLease!Next \/ UNCHANGED TargetLease!leaseVars
  <1> USE DEF TargetLease!leaseVars
  <1>1. Holder' = Holder /\ UNCHANGED <<lock, lease>>
    BY DEF LocalTo, Holder, Takeable, lockVars
  <1>2. \A t \in Runs \ {s} : AtTarget(t)' <=> AtTarget(t)
    BY DEF LocalTo, AtTarget
  <1>3. CASE AtTarget(s)' <=> AtTarget(s)
    BY <1>1, <1>2, <1>3 DEF Holder
  <1>4. CASE AtTarget(s) /\ ~ AtTarget(s)'
    <2>1. TargetLease!Leave(s)
      BY <1>1, <1>2, <1>4 DEF TargetLease!Leave, Holder
    <2> QED BY <2>1 DEF TargetLease!Next
  <1>5. CASE ~ AtTarget(s) /\ AtTarget(s)'
    <2>1. ReadBackOwns(s) /\ lease[s] = lock.left /\ lock.left \in Int
      BY <1>5 DEF LocalTo, LockInv, RowIsLease, CheckpointInv, TypeOK, LockTypeOK, LockRows
    <2>2. Holder \in {s, NoRun} /\ (Holder = s <=> lease[s] >= 0)
      BY <2>1, NoRunAssumption DEF Holder, Takeable, ReadBackOwns
    <2>3. TargetLease!Enter(s)
      BY <1>1, <1>2, <1>5, <2>1, <2>2 DEF TargetLease!Enter, Holder
    <2> QED BY <2>3 DEF TargetLease!Next
  <1> QED BY <1>3, <1>4, <1>5

LEMMA RefineNext == LockInv /\ [Next]_vars => [TargetLease!Next]_(TargetLease!leaseVars)
  <1> SUFFICES ASSUME LockInv, [Next]_vars
               PROVE  TargetLease!Next \/ UNCHANGED TargetLease!leaseVars
    OBVIOUS
  <1> USE DEF Goto, RaiseIn
  <1>0. TypeOK /\ LockTypeOK /\ pc \in [Runs -> DriverPCs]
    BY DEF LockInv, CheckpointInv, TypeOK
  <1>1. ASSUME NEW s \in Runs, LocalTo(s) PROVE TargetLease!Next \/ UNCHANGED TargetLease!leaseVars
    BY <1>1, RefineLocal
  <1>2. ASSUME NEW s \in Runs, AcquireLock(s), Takeable
        PROVE  TargetLease!Next \/ UNCHANGED TargetLease!leaseVars
    <2>1. Holder = NoRun /\ Holder' = s
      BY <1>2, TTLAssumption DEF AcquireLock, AcquireMerge, Holder, Takeable
    <2>2. ~ AtTarget(s) /\ ~ AtTarget(s)' /\ plan' = plan
      BY <1>0, <1>2 DEF AcquireLock, AtTarget
    <2>3. \A t \in Runs \ {s} : (AtTarget(t)' <=> AtTarget(t)) /\ lease'[t] = lease[t]
      BY <1>0, <1>2, <2>2 DEF AcquireLock, AcquireMerge, AtTarget, LockTypeOK
    <2>4. TargetLease!Grant(s)
      BY <2>1, <2>2, <2>3 DEF TargetLease!Grant, Holder
    <2> QED BY <2>4 DEF TargetLease!Next
  <1>3. ASSUME NEW s \in Runs, ReleaseLock(s), ReleaseUpdate(s)
        PROVE  TargetLease!Next \/ UNCHANGED TargetLease!leaseVars
    <2>1. ~ AtTarget(s) /\ ~ AtTarget(s)' /\ plan' = plan
      BY <1>0, <1>3 DEF ReleaseLock, AtTarget
    <2>2. \A t \in Runs \ {s} : (AtTarget(t)' <=> AtTarget(t)) /\ lease'[t] = lease[t]
      BY <1>0, <1>3, <2>1 DEF ReleaseLock, ReleaseUpdate, AtTarget, LockTypeOK
    <2>3. UNCHANGED <<Inside, Overdue>>
      BY <2>1, <2>2 DEF Inside, Overdue
    <2>4. CASE lock.run = s /\ ~ Takeable
      <3>1. Holder = s /\ Holder' = NoRun
        BY <1>0, <1>3, <2>4 DEF ReleaseUpdate, Holder, Takeable, LockTypeOK, LockRows
      <3>2. TargetLease!Return
        BY <2>1, <2>3, <3>1 DEF TargetLease!Return, Inside, Overdue, Holder
      <3> QED BY <3>2 DEF TargetLease!Next
    <2>5. CASE lock.run # s \/ Takeable
      <3>1. Holder' = Holder
        BY <1>0, <1>3, <2>5 DEF ReleaseUpdate, Holder, Takeable, LockTypeOK, LockRows
      <3> QED BY <2>3, <3>1 DEF TargetLease!leaseVars, Inside, Overdue, Holder
    <2> QED BY <2>4, <2>5
  <1>4. CASE Tick
    <2>1. \A s \in Runs : AtTarget(s)' <=> AtTarget(s)
      BY <1>4 DEF Tick, driverVars, AtTarget
    <2>2. /\ lock.status = "ACTIVE" /\ lock.left \in 0 .. TTL /\ lock.run \in Runs \cup {NoRun}
          /\ lock'.status = lock.status /\ lock'.run = lock.run /\ lock'.left = lock.left - 1
      BY <1>0, <1>4, TTLAssumption DEF Tick, TimePasses, Elapsed, LockTypeOK, LockRows
    <2>3. \A s \in Runs : lease[s] \in -1 .. TTL /\ lease'[s] = IF lease[s] < 0 THEN lease[s] ELSE lease[s] - 1
      BY <1>0, <1>4 DEF Tick, TimePasses, Elapsed, LockTypeOK
    <2>4. /\ \A s \in Runs : lease[s] >= 0 => lock.run = s /\ lock.left = lease[s]
          /\ \A s \in Runs : lock.run = s => lease[s] = lock.left
      BY <2>2 DEF LockInv, LeaseIsRow, RowIsLease, ReadBackOwns
    <2>5. CASE lock.left = 0
      <3>1. Holder = lock.run /\ Holder' = NoRun
        BY <2>2, <2>5 DEF Holder, Takeable
      <3>2. \A s \in Runs : lease'[s] < 0 <=> (lease[s] < 0 \/ lock.run = s)
        BY <2>2, <2>3, <2>4, <2>5, TTLAssumption
      <3>3. Inside' = Inside /\ Overdue' = Overdue \cup ({lock.run} \cap Inside)
        BY <2>1, <3>2 DEF Inside, Overdue
      <3>4. CASE lock.run \in Runs
        <4>1. TargetLease!Expire
          BY <3>1, <3>3, <3>4 DEF TargetLease!Expire, Inside, Overdue, Holder
        <4> QED BY <4>1 DEF TargetLease!Next
      <3>5. CASE lock.run = NoRun
        BY <3>1, <3>3, <3>5, NoRunAssumption DEF TargetLease!leaseVars, Inside, Overdue, Holder
      <3> QED BY <2>2, <3>4, <3>5
    <2>6. CASE lock.left # 0
      <3>1. Holder' = Holder
        BY <2>2, <2>6 DEF Holder, Takeable
      <3>2. \A s \in Runs : lease'[s] < 0 <=> lease[s] < 0
        BY <2>2, <2>3, <2>4, <2>6, TTLAssumption
      <3> QED BY <2>1, <3>1, <3>2 DEF TargetLease!leaseVars, Holder
    <2> QED BY <2>5, <2>6
  <1>5. CASE UNCHANGED <<lockVars, deployment, driverVars>>
    BY <1>5 DEF lockVars, driverVars, TargetLease!leaseVars, Takeable, AtTarget
  <1> QED BY <1>0, <1>1, <1>2, <1>3, <1>4, <1>5, LockSteps

(***************************************************************************)
(* The lock as ingest_stream_plan uses it implements Lease: every step of  *)
(* a stream, its query or its environment is a step of the lease or none.  *)
(***************************************************************************)
THEOREM StreamLockImplementsLease == Spec => ImplementsLease
  <1>1. Init => TargetLease!Init
    <2> SUFFICES ASSUME Init PROVE TargetLease!Init
      OBVIOUS
    <2>1. Holder = NoRun
      BY DEF Init, LockInit, Holder, Takeable
    <2>2. \A s \in Runs : ~ AtTarget(s)
      BY DEF Init, AtTarget
    <2> QED BY <2>1, <2>2 DEF TargetLease!Init, Holder
  <1>2. LockInv /\ [Next]_vars => [TargetLease!Next]_(TargetLease!leaseVars)
    BY RefineNext
  <1> QED BY <1>1, <1>2, LockInvAlways, PTL DEF Spec, ImplementsLease, TargetLease!Spec
=============================================================================
