-------------------------- MODULE ControlTablesProofs --------------------------
(***************************************************************************)
(* Theorems about ControlTables, for any runs, clocks and faults.          *)
(***************************************************************************)
EXTENDS ControlTables, TLAPS

(***************************************************************************)
(* The lock and retention.  A row is ACTIVE only from its MERGE to its     *)
(* release, so that its age is counted from expires_at_utc.                *)
(***************************************************************************)
LockInv ==
    /\ now \in Nat
    /\ lock \in [status : {"NONE", "ACTIVE", "RELEASED"}, run : Runs \cup {NoRun},
                 acquired : Int, expires : Int, released : Int]
    /\ lock.status = "ACTIVE" => lock.released = Never

\* What a step may do to the lock row.
LockStep ==
    lock.status = "ACTIVE" /\ lock.expires >= now =>
        lock' = lock \/ (lock'.run = lock.run /\ lock'.status = "RELEASED")

LEMMA OldLocksAreDead ==
    ASSUME LockInv, LockIsOld
    PROVE  lock.status # "ACTIVE" \/ lock.expires < now
  BY ClockAssumption DEF LockInv, LockIsOld, LockAge, Never

LEMMA LockInductive ==
    ASSUME LockInv, [Next]_vars
    PROVE  LockInv' /\ LockStep
  <1> USE DEF LockInv, LockStep
  <1>1. ASSUME NEW r \in Runs, Advance(r) PROVE LockInv' /\ LockStep
    <2>1. CASE AcquireLock(r)
      BY <2>1, ClockAssumption DEF AcquireLock, Acquirable, LockRow, Never
    <2>2. CASE ReleaseLock(r)
      <3>1. CASE lock.run = r
        <4>1. now' = now /\ lock' = [lock EXCEPT !.status = "RELEASED", !.released = now]
          BY <2>2, <3>1 DEF ReleaseLock
        <4>2. lock' = [status |-> "RELEASED", run |-> lock.run, acquired |-> lock.acquired,
                       expires |-> lock.expires, released |-> now]
          BY <4>1, Zenon
        <4> QED BY <4>1, <4>2
      <3>2. CASE lock.run # r
        BY <2>2, <3>2 DEF ReleaseLock
      <3> QED BY <3>1, <3>2
    <2>3. ASSUME ~AcquireLock(r), ~ReleaseLock(r) PROVE now' = now /\ lock' = lock
      BY <1>1, <2>3 DEF Advance, Begin, CreateTable, ReadColumns, AddColumns, CheckMetadata,
                        RecordMetadata, MetadataConflict, Lookup, Work, LogRun
    <2> QED BY <2>1, <2>2, <2>3
  <1>2. ASSUME NEW r \in Runs, SetupFails(r) \/ Crash(r) PROVE LockInv' /\ LockStep
    BY <1>2 DEF SetupFails, Crash
  <1>3. CASE StartRetention \/ RetentionFails
    BY <1>3 DEF StartRetention, RetentionFails
  <1>4. CASE DeleteOldRows
    <2>1. CASE lock' = NoLock /\ LockIsOld
      BY <1>4, <2>1, OldLocksAreDead, ClockAssumption DEF DeleteOldRows, NoLock, Never
    <2>2. CASE lock' = lock
      BY <1>4, <2>2 DEF DeleteOldRows
    <2> QED BY <1>4, <2>1, <2>2 DEF DeleteOldRows
  <1>5. CASE Tick
    BY <1>5 DEF Tick
  <1>6. CASE UNCHANGED vars
    BY <1>6 DEF vars
  <1> QED BY <1>1, <1>2, <1>3, <1>4, <1>5, <1>6 DEF Next

(***************************************************************************)
(* LiveLockStands: neither retention nor another run's acquire_lock takes  *)
(* a lock that has not expired from its run (maintenance.py, state.py).    *)
(***************************************************************************)
THEOREM LiveLocksStand == Spec => LiveLockStands
  <1>1. Init => LockInv
    BY DEF Init, LockInv, NoLock, Never
  <1>2. LockInv /\ [Next]_vars => LockInv'
    BY LockInductive
  <1>3. LockInv /\ [Next]_vars => [LockStep]_vars
    BY LockInductive
  <1> QED BY <1>1, <1>2, <1>3, PTL DEF Spec, LiveLockStands, LockStep

(***************************************************************************)
(* The setup.  Columns are never taken away, and the place of a run in     *)
(* ensure_ctrl_tables says what is there by now.                           *)
(***************************************************************************)
Exists(t) == "run_id" \in columns[t]
Complete(t, v) == Wanted(t, v) \subseteq columns[t]

\* A run came through the migration, or its release is recorded.
Ready(v) == \A t \in Tables : Complete(t, v)

ColumnNames == {"run_id", "idempotency_key", "skip_reason", "released_at_utc"}

SetupType ==
    /\ columns \in [Tables -> SUBSET ColumnNames]
    /\ \A t \in Tables : columns[t] = NoTable \/ Exists(t)
    /\ recorded \in 0 .. 2
    /\ release \in [Runs -> Releases]
    /\ pc \in [Runs -> {"start"} \cup SetupPCs \cup UsePCs \cup Ended]
    /\ table \in [Runs -> 1 .. 3]
    /\ missing \in [Runs -> SUBSET ColumnNames]

\* The first i - 1 tables of a list.
Before(list, i) == {list[j] : j \in {k \in DOMAIN list : k < i}}

AtStart(r) == pc[r] = "start" => table[r] = 1

AtCreate(r) == pc[r] = "create" => \A t \in Before(Created, table[r]) : Exists(t)

AtColumns(r) ==
    pc[r] \in {"columns", "alter"} =>
        /\ table[r] \in DOMAIN Migrated
        /\ \A t \in Tables : Exists(t)
        /\ \A t \in Before(Migrated, table[r]) : Complete(t, release[r])

AtAlter(r) ==
    pc[r] = "alter" =>
        LET t == Migrated[table[r]] IN Wanted(t, release[r]) \subseteq columns[t] \cup missing[r]

AtUse(r) == pc[r] \in {"metadata", "merge"} \cup UsePCs => Ready(release[r])

Progress(r) == AtStart(r) /\ AtCreate(r) /\ AtColumns(r) /\ AtAlter(r) /\ AtUse(r)

SetupInv ==
    /\ SetupType
    /\ \A r \in Runs : Progress(r)
    /\ recorded # 0 => Ready(recorded)

LEMMA Lists ==
    /\ Created \in Seq(Tables) /\ Migrated \in Seq(Tables)
    /\ Len(Created) = 3 /\ Len(Migrated) = 2
    /\ Tables = {"runs", "locks", "metadata"}
    /\ Created[1] = "runs" /\ Created[2] = "locks" /\ Created[3] = "metadata"
    /\ Migrated[1] = "runs" /\ Migrated[2] = "locks"
    /\ DOMAIN Created = 1 .. 3 /\ DOMAIN Migrated = 1 .. 2
  <1>1. /\ Created[1] = "runs" /\ Created[2] = "locks" /\ Created[3] = "metadata"
        /\ Migrated[1] = "runs" /\ Migrated[2] = "locks"
        /\ Len(Created) = 3 /\ Len(Migrated) = 2
        /\ DOMAIN Created = 1 .. 3 /\ DOMAIN Migrated = 1 .. 2
    BY DEF Created, Migrated
  <1>2. Tables = {"runs", "locks", "metadata"}
    BY <1>1 DEF Tables
  <1> QED BY <1>1, <1>2 DEF Created, Migrated

LEMMA WantedColumns ==
    ASSUME NEW t \in Tables, NEW v
    PROVE  /\ Wanted(t, v) \subseteq ColumnNames
           /\ "run_id" \in Wanted(t, v)
           /\ Wanted("metadata", v) = {"run_id"}
  BY DEF Wanted, ColumnNames

\* What a run has found or made is still there when columns are added.
LEMMA ProgressStays ==
    ASSUME NEW s \in Runs, SetupInv, release' = release,
           \A t \in Tables : columns[t] \subseteq columns'[t],
           pc'[s] = pc[s], table'[s] = table[s], missing'[s] = missing[s]
    PROVE  Progress(s)'
  <1>1. Progress(s)
    BY DEF SetupInv
  <1>2. \A t \in Tables : /\ Exists(t) => Exists(t)'
                          /\ \A v : Complete(t, v) => Complete(t, v)'
    BY DEF Exists, Complete
  <1>3. \A i : Before(Created, i) \subseteq Tables /\ Before(Migrated, i) \subseteq Tables
    BY Lists DEF Before
  <1>4. table[s] \in DOMAIN Migrated => Migrated[table[s]] \in Tables
    BY Lists
  <1>5. \A v : Ready(v) => Ready(v)'
    BY <1>2 DEF Ready
  <1>6. AtStart(s)' /\ AtUse(s)'
    BY <1>1, <1>5 DEF Progress, AtStart, AtUse
  <1>7. AtCreate(s)'
    BY <1>1, <1>2, <1>3 DEF Progress, AtCreate
  <1>8. AtColumns(s)'
    BY <1>1, <1>2, <1>3 DEF Progress, AtColumns
  <1>9. AtAlter(s)'
    BY <1>1, <1>2, <1>4 DEF Progress, AtColumns, AtAlter
  <1> QED BY <1>6, <1>7, <1>8, <1>9 DEF Progress

\* A step of one run: the others keep their place.
LEMMA StepOfOneRun ==
    ASSUME NEW r \in Runs, SetupInv, SetupType', Progress(r)', release' = release,
           \A t \in Tables : columns[t] \subseteq columns'[t],
           \A s \in Runs \ {r} : pc'[s] = pc[s] /\ table'[s] = table[s] /\ missing'[s] = missing[s],
           recorded' = recorded \/ (recorded' = release[r] /\ Ready(release[r]))
    PROVE  SetupInv'
  <1>1. \A s \in Runs : Progress(s)'
    BY ProgressStays
  <1>2. \A v : Ready(v) => Ready(v)'
    BY DEF Ready, Complete
  <1>3. (recorded # 0 => Ready(recorded))'
    BY <1>2 DEF SetupInv
  <1> QED BY <1>1, <1>3 DEF SetupInv

\* A step of one run that ends it, or that goes on using the tables.
LEMMA UseOrEnd ==
    ASSUME NEW r \in Runs, SetupInv, NEW l,
           l \in Ended \/ (l \in UsePCs /\ pc[r] \in UsePCs),
           pc' = [pc EXCEPT ![r] = l],
           UNCHANGED <<columns, recorded, release, table, missing>>
    PROVE  SetupInv'
  <1>1. SetupType'
    BY DEF SetupInv, SetupType, Exists
  <1>2. Progress(r)
    BY DEF SetupInv
  <1>3. pc'[r] = l
    BY DEF SetupInv, SetupType
  <1>4. Progress(r)'
    <2>1. CASE l \in Ended
      BY <2>1, <1>3 DEF Ended, UsePCs, Progress, AtStart, AtCreate, AtColumns, AtAlter, AtUse
    <2>2. CASE l \in UsePCs /\ pc[r] \in UsePCs
      <3>1. Ready(release[r])'
        BY <2>2, <1>2 DEF Progress, AtUse, Ready, Complete
      <3> QED
        BY <3>1, <2>2, <1>3 DEF UsePCs, Progress, AtStart, AtCreate, AtColumns, AtAlter, AtUse
    <2> QED BY <2>1, <2>2
  <1>5. \A s \in Runs \ {r} : pc'[s] = pc[s]
    BY DEF SetupInv, SetupType
  <1> QED BY <1>1, <1>4, <1>5, StepOfOneRun

LEMMA BeginInductive ==
    ASSUME NEW r \in Runs, SetupInv, Begin(r)
    PROVE  SetupInv'
  <1>1. pc' = [pc EXCEPT ![r] = "create"] /\ pc[r] = "start"
    BY DEF Begin, Goto
  <1>2. UNCHANGED <<columns, recorded, release, table, missing>>
    BY DEF Begin, setup
  <1>3. SetupType'
    BY <1>1, <1>2 DEF SetupInv, SetupType, SetupPCs, Exists
  <1>4. pc'[r] = "create" /\ table'[r] = 1
    BY <1>1, <1>2 DEF SetupInv, SetupType, Progress, AtStart
  <1>5. Before(Created, 1) = {}
    BY Lists DEF Before
  <1>6. Progress(r)'
    BY <1>4, <1>5 DEF UsePCs, Progress, AtStart, AtCreate, AtColumns, AtAlter, AtUse
  <1>7. \A s \in Runs \ {r} : pc'[s] = pc[s]
    BY <1>1 DEF SetupInv, SetupType
  <1> QED BY <1>2, <1>3, <1>6, <1>7, StepOfOneRun

LEMMA CreateTableInductive ==
    ASSUME NEW r \in Runs, SetupInv, CreateTable(r)
    PROVE  SetupInv'
  <1> DEFINE i == table[r]
             made == Created[i]
  <1>1. /\ pc[r] = "create" /\ i \in 1 .. 3 /\ made \in Tables
        /\ UNCHANGED <<recorded, release, missing>>
    BY Lists DEF CreateTable, SetupInv, SetupType
  <1>2. /\ columns' \in [Tables -> SUBSET ColumnNames]
        /\ \A t \in Tables : columns[t] \subseteq columns'[t]
        /\ \A t \in Tables : columns'[t] = NoTable \/ Exists(t)'
        /\ "run_id" \in columns'[made]
    <2>1. Wanted(made, release[r]) \subseteq ColumnNames /\ "run_id" \in Wanted(made, release[r])
      BY <1>1, WantedColumns
    <2>2. columns' = IF columns[made] = NoTable
                     THEN [columns EXCEPT ![made] = Wanted(made, release[r])] ELSE columns
      BY DEF CreateTable
    <2>3. columns \in [Tables -> SUBSET ColumnNames]
          /\ \A t \in Tables : columns[t] = {} \/ "run_id" \in columns[t]
      BY DEF SetupInv, SetupType, Exists, NoTable
    <2>4. CASE columns[made] = NoTable
      BY <1>1, <2>1, <2>2, <2>3, <2>4 DEF Exists, NoTable
    <2>5. CASE columns[made] # NoTable
      BY <1>1, <2>2, <2>3, <2>5 DEF Exists, NoTable
    <2> QED BY <2>4, <2>5
  <1>3. \/ i < 3 /\ pc' = [pc EXCEPT ![r] = "create"] /\ table' = [table EXCEPT ![r] = i + 1]
        \/ i = 3 /\ pc' = [pc EXCEPT ![r] = "columns"] /\ table' = [table EXCEPT ![r] = 1]
    BY <1>1, Lists DEF CreateTable, NextTable, Goto
  <1>4. SetupType'
    BY <1>1, <1>2, <1>3 DEF SetupInv, SetupType, SetupPCs
  <1>5. \A t \in Before(Created, i) : Exists(t)'
    <2>1. \A t \in Before(Created, i) : t \in Tables /\ Exists(t)
      BY <1>1, Lists DEF SetupInv, Progress, AtCreate, Before
    <2> QED BY <2>1, <1>2 DEF Exists
  <1>6. \A t \in Before(Created, i + 1) : Exists(t)'
    <2>1. \A t \in Before(Created, i + 1) : t \in Before(Created, i) \/ t = made
      BY <1>1, Lists DEF Before
    <2> QED BY <2>1, <1>2, <1>5 DEF Exists
  <1>7. Progress(r)'
    <2>1. CASE i < 3
      <3>1. pc'[r] = "create" /\ table'[r] = i + 1
        BY <2>1, <1>3 DEF SetupInv, SetupType
      <3>2. AtCreate(r)'
        BY <3>1, <1>6 DEF AtCreate
      <3> QED BY <3>1, <3>2 DEF UsePCs, Progress, AtStart, AtColumns, AtAlter, AtUse
    <2>2. CASE i = 3
      <3>1. pc'[r] = "columns" /\ table'[r] = 1
        BY <2>2, <1>3 DEF SetupInv, SetupType
      <3>2. \A t \in Tables : t \in Before(Created, i + 1)
        BY <2>2, Lists DEF Before
      <3>3. Before(Migrated, 1) = {}
        BY Lists DEF Before
      <3>4. AtColumns(r)'
        BY <3>1, <3>2, <3>3, <1>6, Lists DEF AtColumns
      <3> QED BY <3>1, <3>4 DEF UsePCs, Progress, AtStart, AtCreate, AtAlter, AtUse
    <2> QED BY <1>1, <2>1, <2>2
  <1>8. \A s \in Runs \ {r} : pc'[s] = pc[s] /\ table'[s] = table[s]
    BY <1>3 DEF SetupInv, SetupType
  <1> QED BY <1>1, <1>2, <1>4, <1>7, <1>8, StepOfOneRun

\* The table at the place of the run is complete: it goes on with the next one.
LEMMA TableMigrated ==
    ASSUME NEW r \in Runs, SetupInv, SetupType', UNCHANGED <<recorded, release>>,
           pc[r] \in {"columns", "alter"},
           \A t \in Tables : columns[t] \subseteq columns'[t],
           Wanted(Migrated[table[r]], release[r]) \subseteq columns'[Migrated[table[r]]],
           NextTable(r, Migrated, "columns", "metadata"),
           \A s \in Runs \ {r} : missing'[s] = missing[s]
    PROVE  SetupInv'
  <1> DEFINE i == table[r]
  <1>1. i \in 1 .. 2 /\ Migrated[i] \in Tables
    BY Lists DEF SetupInv, Progress, AtColumns
  <1>2. \A t \in Tables : Exists(t)'
    BY DEF SetupInv, Progress, AtColumns, Exists
  <1>3. \A t \in Before(Migrated, i + 1) : Complete(t, release[r])'
    <2>1. \A t \in Before(Migrated, i) : t \in Tables /\ Complete(t, release[r])
      BY <1>1, Lists DEF SetupInv, Progress, AtColumns, Before
    <2>2. \A t \in Before(Migrated, i + 1) : t \in Before(Migrated, i) \/ t = Migrated[i]
      BY <1>1, Lists DEF Before
    <2> QED BY <2>1, <2>2 DEF Complete
  <1>4. \/ i < 2 /\ pc' = [pc EXCEPT ![r] = "columns"] /\ table' = [table EXCEPT ![r] = i + 1]
        \/ i = 2 /\ pc' = [pc EXCEPT ![r] = "metadata"] /\ table' = [table EXCEPT ![r] = 1]
    BY <1>1, Lists DEF NextTable, Goto
  <1>5. Progress(r)'
    <2>1. CASE i < 2
      <3>1. pc'[r] = "columns" /\ table'[r] = i + 1 /\ i + 1 \in DOMAIN Migrated
        BY <2>1, <1>1, <1>4, Lists DEF SetupInv, SetupType
      <3>2. AtColumns(r)'
        BY <3>1, <1>2, <1>3 DEF AtColumns
      <3> QED BY <3>1, <3>2 DEF UsePCs, Progress, AtStart, AtCreate, AtAlter, AtUse
    <2>2. CASE i = 2
      <3>1. pc'[r] = "metadata"
        BY <2>2, <1>4 DEF SetupInv, SetupType
      <3>2. \A t \in Tables : t \in Before(Migrated, i + 1) \/ t = "metadata"
        BY <2>2, Lists DEF Before
      <3>3. Complete("metadata", release[r])'
        BY <1>2, WantedColumns, Lists DEF Complete, Exists
      <3>4. Ready(release[r])'
        BY <3>2, <3>3, <1>3 DEF Ready
      <3> QED BY <3>1, <3>4 DEF UsePCs, Progress, AtStart, AtCreate, AtColumns, AtAlter, AtUse
    <2> QED BY <1>1, <2>1, <2>2
  <1>6. \A s \in Runs \ {r} : pc'[s] = pc[s] /\ table'[s] = table[s]
    BY <1>4 DEF SetupInv, SetupType
  <1> QED BY <1>5, <1>6, StepOfOneRun

LEMMA ReadColumnsInductive ==
    ASSUME NEW r \in Runs, SetupInv, ReadColumns(r)
    PROVE  SetupInv'
  <1> DEFINE t == Migrated[table[r]]
             lacking == Missing(r, t)
  <1>1. /\ pc[r] = "columns" /\ missing' = [missing EXCEPT ![r] = lacking]
        /\ UNCHANGED <<columns, recorded, release>>
    BY DEF ReadColumns
  <1>2. table[r] \in 1 .. 2 /\ t \in Tables
    BY <1>1, Lists DEF SetupInv, Progress, AtColumns
  <1>3. Wanted(t, release[r]) \subseteq columns[t] \cup lacking /\ lacking \subseteq ColumnNames
    BY <1>2, WantedColumns DEF Missing
  <1>4. \A s \in Runs \ {r} : missing'[s] = missing[s]
    BY <1>1 DEF SetupInv, SetupType
  <1>5. CASE lacking = {}
    <2>1. NextTable(r, Migrated, "columns", "metadata")
      BY <1>5 DEF ReadColumns
    <2>2. SetupType'
      BY <1>1, <1>2, <1>3, <2>1, Lists DEF NextTable, Goto, SetupInv, SetupType, SetupPCs, Exists
    <2>3. Wanted(t, release[r]) \subseteq columns'[t]
      BY <1>1, <1>3, <1>5
    <2> QED BY <1>1, <1>4, <2>1, <2>2, <2>3, TableMigrated
  <1>6. CASE lacking # {}
    <2>1. pc' = [pc EXCEPT ![r] = "alter"] /\ UNCHANGED table
      BY <1>6 DEF ReadColumns, Goto
    <2>2. SetupType'
      BY <1>1, <1>3, <2>1 DEF SetupInv, SetupType, SetupPCs, Exists
    <2>3. pc'[r] = "alter" /\ missing'[r] = lacking
      BY <1>1, <2>1 DEF SetupInv, SetupType
    <2>4. AtColumns(r)'
      BY <1>1, <2>1 DEF SetupInv, Progress, AtColumns, Exists, Complete, Before
    <2>5. AtAlter(r)'
      BY <1>1, <1>3, <2>1, <2>3 DEF AtAlter
    <2>6. Progress(r)'
      BY <2>3, <2>4, <2>5 DEF UsePCs, Progress, AtStart, AtCreate, AtUse
    <2>7. \A s \in Runs \ {r} : pc'[s] = pc[s]
      BY <2>1 DEF SetupInv, SetupType
    <2> QED BY <1>1, <1>4, <2>1, <2>2, <2>6, <2>7, StepOfOneRun
  <1> QED BY <1>5, <1>6

LEMMA AddColumnsInductive ==
    ASSUME NEW r \in Runs, SetupInv, AddColumns(r)
    PROVE  SetupInv'
  <1> DEFINE t == Migrated[table[r]]
  <1>1. /\ pc[r] = "alter" /\ missing' = [missing EXCEPT ![r] = {}]
        /\ UNCHANGED <<recorded, release>>
    BY DEF AddColumns
  <1>2. /\ table[r] \in 1 .. 2 /\ t \in Tables
        /\ Wanted(t, release[r]) \subseteq columns[t] \cup missing[r]
    BY <1>1, Lists DEF SetupInv, Progress, AtColumns, AtAlter
  <1>3. \A s \in Runs \ {r} : missing'[s] = missing[s]
    BY <1>1 DEF SetupInv, SetupType
  <1>4. CASE columns[t] \cap missing[r] = {}
    <2>1. /\ columns' = [columns EXCEPT ![t] = @ \cup missing[r]]
          /\ NextTable(r, Migrated, "columns", "metadata")
      BY <1>4 DEF AddColumns
    <2>2. /\ columns' \in [Tables -> SUBSET ColumnNames]
          /\ \A u \in Tables : columns[u] \subseteq columns'[u]
          /\ \A u \in Tables : columns'[u] = NoTable \/ Exists(u)'
          /\ Wanted(t, release[r]) \subseteq columns'[t]
      <3>1. \A u \in Tables : Exists(u)
        BY <1>1 DEF SetupInv, Progress, AtColumns
      <3> QED BY <1>2, <2>1, <3>1 DEF SetupInv, SetupType, Exists
    <2>3. SetupType'
      BY <1>1, <1>2, <2>1, <2>2, Lists DEF NextTable, Goto, SetupInv, SetupType, SetupPCs
    <2> QED BY <1>1, <1>3, <2>1, <2>2, <2>3, TableMigrated
  <1>5. CASE columns[t] \cap missing[r] # {}
    <2>1. pc' = [pc EXCEPT ![r] = "raised"] /\ UNCHANGED <<columns, table>>
      BY <1>5 DEF AddColumns, Goto
    <2>2. SetupType'
      BY <1>1, <2>1 DEF SetupInv, SetupType, Ended, Exists
    <2>3. pc'[r] = "raised"
      BY <2>1 DEF SetupInv, SetupType
    <2>4. Progress(r)'
      BY <2>3 DEF UsePCs, Progress, AtStart, AtCreate, AtColumns, AtAlter, AtUse
    <2>5. \A s \in Runs \ {r} : pc'[s] = pc[s]
      BY <2>1 DEF SetupInv, SetupType
    <2> QED BY <1>1, <1>3, <2>1, <2>2, <2>4, <2>5, StepOfOneRun
  <1> QED BY <1>4, <1>5

\* The steps around the MERGE of the metadata: what is recorded by then is the
\* release of a run whose columns are in place.
LEMMA MetadataInductive ==
    ASSUME NEW r \in Runs, SetupInv,
           CheckMetadata(r) \/ RecordMetadata(r) \/ MetadataConflict(r)
    PROVE  SetupInv'
  <1>1. PICK l \in {"merge", "lookup", "raised"} : pc' = [pc EXCEPT ![r] = l]
    BY DEF CheckMetadata, RecordMetadata, MetadataConflict, Goto, SetupInv, SetupType
  <1>2. /\ pc[r] \in {"metadata", "merge"}
        /\ recorded' = recorded \/ recorded' = release[r]
        /\ UNCHANGED <<columns, release, table, missing>>
    BY DEF CheckMetadata, RecordMetadata, MetadataConflict
  <1>3. Ready(release[r]) /\ release[r] \in 1 .. 2
    BY <1>2 DEF SetupInv, SetupType, Progress, AtUse, Releases
  <1>4. SetupType'
    BY <1>1, <1>2, <1>3 DEF SetupInv, SetupType, SetupPCs, UsePCs, Ended, Exists
  <1>5. pc'[r] = l
    BY <1>1 DEF SetupInv, SetupType
  <1>6. Ready(release[r])'
    BY <1>2, <1>3 DEF Ready, Complete
  <1>7. Progress(r)'
    BY <1>5, <1>6 DEF UsePCs, Progress, AtStart, AtCreate, AtColumns, AtAlter, AtUse
  <1>8. \A s \in Runs \ {r} : pc'[s] = pc[s]
    BY <1>1 DEF SetupInv, SetupType
  <1> QED BY <1>2, <1>3, <1>4, <1>7, <1>8, StepOfOneRun

LEMMA UseInductive ==
    ASSUME NEW r \in Runs, SetupInv,
           \/ Lookup(r) \/ AcquireLock(r) \/ Work(r) \/ ReleaseLock(r) \/ LogRun(r)
           \/ SetupFails(r) \/ Crash(r)
    PROVE  SetupInv'
  <1>1. UNCHANGED <<columns, recorded, release, table, missing>>
    BY DEF Lookup, AcquireLock, Work, ReleaseLock, LogRun, SetupFails, Crash, setup
  <1>2. CASE Lookup(r) \/ AcquireLock(r) \/ Work(r) \/ ReleaseLock(r)
    <2>1. pc[r] \in UsePCs
      BY <1>2 DEF Lookup, AcquireLock, Work, ReleaseLock, UsePCs
    <2>2. \E l \in {"acquire", "work", "release", "log"} : pc' = [pc EXCEPT ![r] = l]
      BY <1>2 DEF Lookup, AcquireLock, Work, ReleaseLock, Goto
    <2> QED BY <1>1, <2>1, <2>2, UseOrEnd DEF UsePCs
  <1>3. CASE LogRun(r) \/ SetupFails(r) \/ Crash(r)
    <2>1. \E l \in Ended : pc' = [pc EXCEPT ![r] = l]
      BY <1>3 DEF LogRun, SetupFails, Crash, Goto, Ended
    <2> QED BY <1>1, <2>1, UseOrEnd
  <1> QED BY <1>2, <1>3

LEMMA SetupInductive == SetupInv /\ [Next]_vars => SetupInv'
  <1> SUFFICES ASSUME SetupInv, [Next]_vars PROVE SetupInv'
    OBVIOUS
  <1>1. ASSUME NEW r \in Runs, Advance(r) \/ SetupFails(r) \/ Crash(r) PROVE SetupInv'
    BY <1>1, BeginInductive, CreateTableInductive, ReadColumnsInductive, AddColumnsInductive,
       MetadataInductive, UseInductive DEF Advance
  <1>2. ASSUME UNCHANGED <<columns, recorded, release, pc, table, missing>> PROVE SetupInv'
    BY <1>2 DEF SetupInv, SetupType, Progress, AtStart, AtCreate, AtColumns, AtAlter, AtUse,
       Ready, Complete, Exists, Before
  <1>3. CASE StartRetention \/ DeleteOldRows \/ RetentionFails \/ Tick \/ UNCHANGED vars
    BY <1>2, <1>3 DEF StartRetention, DeleteOldRows, RetentionFails, Tick, vars, setup
  <1> QED BY <1>1, <1>3 DEF Next

LEMMA SetupInitially == Init => SetupInv
  <1> SUFFICES ASSUME Init PROVE SetupInv
    OBVIOUS
  <1>1. PICK before \in 0 .. 2 :
            /\ columns = [t \in Tables |-> IF before = 0 THEN NoTable ELSE Wanted(t, before)]
            /\ recorded = before
    BY DEF Init
  <1>2. columns \in [Tables -> SUBSET ColumnNames] /\ \A t \in Tables : columns[t] = NoTable \/ Exists(t)
    BY <1>1, WantedColumns DEF NoTable, Exists
  <1>3. SetupType
    BY <1>1, <1>2 DEF Init, SetupType
  <1>4. \A r \in Runs : pc[r] = "start" /\ table[r] = 1
    BY DEF Init
  <1>5. \A r \in Runs : Progress(r)
    BY <1>4 DEF UsePCs, Progress, AtStart, AtCreate, AtColumns, AtAlter, AtUse
  <1>6. recorded # 0 => Ready(recorded)
    BY <1>1 DEF Ready, Complete
  <1> QED BY <1>3, <1>5, <1>6 DEF SetupInv

(***************************************************************************)
(* TablesAreMigrated: however the setups of runs of two releases           *)
(* interleave, fail or crash, a recorded release and a run that came       *)
(* through ensure_ctrl_tables find their columns in every table            *)
(* (state.py), for any number of runs.                                     *)
(***************************************************************************)
THEOREM MigratedAlways == Spec => []TablesAreMigrated
  <1>1. SetupInv => TablesAreMigrated
    BY DEF SetupInv, TablesAreMigrated, Progress, AtUse, Ready, Complete
  <1> QED BY <1>1, SetupInitially, SetupInductive, PTL DEF Spec

(***************************************************************************)
(* Keys and retention.  NoRepeatWithinRetention speaks of two logged       *)
(* successes.  Stays says where the row of a success is: in the run log,   *)
(* or old enough to be deleted, and then it grows older.  Searched says    *)
(* what a run knows that goes on after its look-up: the successes logged   *)
(* before it started were not there, because retention had deleted them.   *)
(***************************************************************************)
\* Retention may have deleted the row of the success h.
Expired(h) == DateOf(now) - DateOf(h.started) > RetentionDays

\* The successes, as log_run wrote them.
HistoryType ==
    /\ now \in Nat
    /\ started \in [Runs -> Int]
    /\ status \in [Runs -> {"SUCCESS", "FAILED", "SKIPPED"}]
    /\ \A r \in Runs : pc[r] # "start" => started[r] \in 0 .. now
    /\ \A h \in history : /\ h.run \in Runs /\ Keyed(h.run)
                          /\ h.started \in Nat /\ h.logged \in Nat
                          /\ h.started <= h.logged /\ h.logged <= now

Stays ==
    \A h \in history :
        [run |-> h.run, started |-> h.started, status |-> "SUCCESS"] \in runLog \/ Expired(h)

\* A run that may still log a success.
Working(r) ==
    pc[r] \in {"acquire", "work"} \/ (pc[r] \in {"release", "log"} /\ status[r] = "SUCCESS")

Searched(r) ==
    Keyed(r) /\ Working(r) => \A h \in history : started[r] > h.logged => Expired(h)

\* The inductive invariant.
KeyInv ==
    /\ SetupInv /\ HistoryType /\ Stays
    /\ \A r \in Runs : Searched(r)
    /\ NoRepeatWithinRetention

LEMMA DatesRise ==
    ASSUME NEW a \in Nat, NEW b \in Nat, a <= b
    PROVE  DateOf(a) \in Int /\ DateOf(b) \in Int /\ DateOf(a) <= DateOf(b)
  <1> DEFINE p == a \div Day
             q == b \div Day
  <1>1. Day \in Nat /\ Day > 0
    BY ClockAssumption
  <1>2. p \in Int /\ q \in Int /\ p * Day <= a /\ b < (q + 1) * Day
    BY <1>1
  <1>3. ASSUME q < p PROVE FALSE
    <2> HIDE DEF p, q
    <2>1. (q + 1) * Day <= p * Day
      BY <1>1, <1>2, <1>3
    <2> QED BY <2>1, <1>1, <1>2
  <1> QED BY <1>2, <1>3 DEF DateOf

\* What is expired stays expired.
LEMMA ExpiredStays ==
    ASSUME HistoryType, now' \in Nat, now <= now', NEW h \in history, Expired(h)
    PROVE  Expired(h)'
  <1>1. DateOf(now) \in Int /\ DateOf(now') \in Int /\ DateOf(now) <= DateOf(now')
    BY DatesRise DEF HistoryType
  <1>2. DateOf(h.started) \in Int
    BY DatesRise DEF HistoryType
  <1>3. RetentionDays \in Int
    BY ClockAssumption
  <1>4. DateOf(now') - DateOf(h.started) > RetentionDays
    BY <1>1, <1>2, <1>3 DEF Expired
  <1> QED BY <1>4 DEF Expired, DateOf

\* The look-up of a run that goes on has found no row of a success, so that
\* the row of every success is gone.
LEMMA NothingFound ==
    ASSUME KeyInv, NEW r \in Runs, pc[r] = "lookup", Keyed(r), ~FoundSuccess(r)
    PROVE  \A h \in history : Expired(h)
  <1>1. "idempotency_key" \in columns["runs"]
    <2>1. Ready(release[r]) /\ release[r] = 2
      BY DEF KeyInv, SetupInv, Progress, AtUse, UsePCs, Keyed
    <2>2. Wanted("runs", 2) \subseteq columns["runs"]
      BY <2>1, Lists DEF Ready, Complete
    <2> QED BY <2>2 DEF Wanted
  <1>2. \A row \in runLog : ~(row.status = "SUCCESS" /\ Keyed(row.run))
    BY <1>1 DEF FoundSuccess
  <1>3. \A h \in history : Keyed(h.run)
    BY DEF KeyInv, HistoryType
  <1> QED BY <1>2, <1>3 DEF KeyInv, Stays

\* A step that logs nothing: what is expired stays so, no row of a success
\* goes before its time, and no run that had not searched goes on.
LEMMA KeysStand ==
    ASSUME KeyInv, SetupInv', HistoryType', UNCHANGED <<history, release>>, now <= now',
           \A h \in history : LET row == [run |-> h.run, started |-> h.started, status |-> "SUCCESS"]
                              IN row \in runLog => row \in runLog' \/ Expired(h)',
           \A s \in Runs : Keyed(s) /\ Working(s)' =>
               \/ Working(s) /\ started'[s] = started[s]
               \/ \A h \in history : Expired(h)
    PROVE  KeyInv'
  <1>1. \A h \in history : Expired(h) => Expired(h)'
    BY ExpiredStays DEF KeyInv, HistoryType
  <1>2. Stays'
    BY <1>1 DEF KeyInv, Stays
  <1>3. \A s \in Runs : Searched(s)'
    BY <1>1 DEF KeyInv, Searched, Keyed
  <1>4. NoRepeatWithinRetention'
    BY DEF KeyInv, NoRepeatWithinRetention, DateOf
  <1> QED BY <1>2, <1>3, <1>4 DEF KeyInv

\* A step of a run up to its log_run, or the end of one.
LEMMA StepKeepsKeys ==
    ASSUME KeyInv, SetupInv', NEW r \in Runs, NEW l,
           pc' = [pc EXCEPT ![r] = l], l # "start",
           status' \in [Runs -> {"SUCCESS", "FAILED", "SKIPPED"}],
           \A s \in Runs \ {r} : status'[s] = status[s],
           \/ pc[r] = "start" /\ started' = [started EXCEPT ![r] = now]
           \/ pc[r] # "start" /\ started' = started,
           UNCHANGED <<history, runLog, now, release>>,
           Keyed(r) /\ Working(r)' =>
               \/ Working(r) /\ pc[r] # "start"
               \/ \A h \in history : Expired(h)
    PROVE  KeyInv'
  <1>0. pc \in [Runs -> {"start"} \cup SetupPCs \cup UsePCs \cup Ended]
    BY DEF KeyInv, SetupInv, SetupType
  <1>1. HistoryType'
    BY <1>0 DEF KeyInv, HistoryType, Keyed
  <1>2. \A s \in Runs \ {r} : Working(s)' => Working(s) /\ started'[s] = started[s]
    BY <1>0 DEF Working, KeyInv, HistoryType
  <1>3. now <= now'
    BY DEF KeyInv, HistoryType
  <1> QED BY <1>1, <1>2, <1>3, KeysStand

\* log_run of a keyed success: what had been logged before the run started
\* was past its retention, and what is logged now is in the run log.
LEMMA LogKeepsKeys ==
    ASSUME KeyInv, SetupInv', NEW r \in Runs, LogRun(r)
    PROVE  KeyInv'
  <1> DEFINE row == [run |-> r, started |-> started[r], status |-> status[r]]
             new == [run |-> r, started |-> started[r], logged |-> now]
  <1>1. /\ pc[r] = "log" /\ pc' = [pc EXCEPT ![r] = "done"] /\ runLog' = runLog \cup {row}
        /\ UNCHANGED <<now, release, status, started>>
    BY DEF LogRun, Goto
  <1>0. pc \in [Runs -> {"start"} \cup SetupPCs \cup UsePCs \cup Ended]
    BY DEF KeyInv, SetupInv, SetupType
  <1>2. started[r] \in 0 .. now /\ now \in Nat
    BY <1>1 DEF KeyInv, HistoryType
  <1>3. CASE history' = history
    <2>1. ~Working(r)'
      BY <1>0, <1>1 DEF Working
    <2> QED
      <3>1. HistoryType'
        BY <1>0, <1>1, <1>3 DEF KeyInv, HistoryType, Keyed
      <3>2. \A s \in Runs : Working(s)' => Working(s)
        BY <1>0, <1>1, <2>1 DEF Working
      <3> QED BY <1>1, <1>2, <1>3, <3>1, <3>2, KeysStand
  <1>4. CASE status[r] = "SUCCESS" /\ Keyed(r) /\ history' = history \cup {new}
    <2>1. \A h \in history : started[r] > h.logged => Expired(h)
      BY <1>1, <1>4 DEF KeyInv, Searched, Working
    <2>2. HistoryType'
      BY <1>0, <1>1, <1>2, <1>4 DEF KeyInv, HistoryType, Keyed
    <2>3. Stays'
      <3>1. row = [run |-> new.run, started |-> new.started, status |-> "SUCCESS"]
        BY <1>4
      <3>2. \A h \in history : Expired(h) <=> Expired(h)'
        BY <1>1 DEF Expired, DateOf
      <3> QED BY <1>1, <1>4, <3>1, <3>2 DEF KeyInv, Stays
    <2>4. \A s \in Runs : Searched(s)'
      <3> SUFFICES ASSUME NEW s \in Runs, (Keyed(s) /\ Working(s))', NEW h \in history',
                          started'[s] > h.logged
                   PROVE  Expired(h)'
        BY DEF Searched
      <3>1. s # r /\ Working(s) /\ Keyed(s) /\ pc[s] # "start"
        BY <1>0, <1>1 DEF Working, Keyed
      <3>2. started[s] <= now /\ started[s] \in Int
        BY <1>2, <3>1 DEF KeyInv, HistoryType
      <3>3. h \in history
        BY <1>1, <1>2, <1>4, <3>2
      <3> QED BY <1>1, <3>1, <3>3 DEF KeyInv, Searched, Expired, DateOf
    <2>5. NoRepeatWithinRetention'
      <3> SUFFICES ASSUME NEW first \in history', NEW again \in history',
                          again.started > first.logged
                   PROVE  DateOf(again.logged) - DateOf(first.started) > RetentionDays
        BY DEF NoRepeatWithinRetention, DateOf
      <3>1. first \in history
        <4>1. again.started \in Int /\ again.started <= now
          BY <1>2, <1>4 DEF KeyInv, HistoryType
        <4> QED BY <4>1, <1>2, <1>4
      <3>2. CASE again \in history
        BY <3>1, <3>2 DEF KeyInv, NoRepeatWithinRetention
      <3>3. CASE again = new
        BY <2>1, <3>1, <3>3 DEF Expired
      <3> QED BY <1>4, <3>2, <3>3
    <2> QED BY <2>2, <2>3, <2>4, <2>5 DEF KeyInv
  <1> QED BY <1>3, <1>4 DEF LogRun

LEMMA AdvanceKeepsKeys ==
    ASSUME KeyInv, SetupInv', NEW r \in Runs, Advance(r) \/ SetupFails(r) \/ Crash(r)
    PROVE  KeyInv'
  <1>0. /\ pc \in [Runs -> {"start"} \cup SetupPCs \cup UsePCs \cup Ended]
        /\ status \in [Runs -> {"SUCCESS", "FAILED", "SKIPPED"}]
    BY DEF KeyInv, SetupInv, SetupType, HistoryType
  <1>1. CASE Begin(r)
    <2>1. ~Working(r)'
      BY <1>0, <1>1 DEF Begin, Goto, Working
    <2> QED BY <1>0, <1>1, <2>1, StepKeepsKeys DEF Begin, Goto
  <1>2. CASE \/ CreateTable(r) \/ ReadColumns(r) \/ AddColumns(r) \/ CheckMetadata(r)
             \/ RecordMetadata(r) \/ MetadataConflict(r)
    <2>1. /\ UNCHANGED <<history, runLog, now, release, status, started>>
          /\ pc[r] # "start"
      BY <1>2 DEF CreateTable, ReadColumns, AddColumns, CheckMetadata, RecordMetadata, MetadataConflict
    <2>2. PICK l \in {"create", "columns", "alter", "metadata", "merge", "lookup", "raised"} :
              pc' = [pc EXCEPT ![r] = l]
      <3>1. CASE CreateTable(r) \/ ReadColumns(r) \/ AddColumns(r)
        BY <3>1 DEF CreateTable, ReadColumns, AddColumns, NextTable, Goto
      <3>2. CASE CheckMetadata(r) \/ RecordMetadata(r)
        BY <3>2 DEF CheckMetadata, RecordMetadata, Goto
      <3>3. CASE MetadataConflict(r)
        <4>1. pc[r] = "merge" /\ pc = [pc EXCEPT ![r] = "merge"]
          BY <1>0, <3>3 DEF MetadataConflict
        <4> QED BY <4>1, <3>3 DEF MetadataConflict, Goto
      <3> QED BY <1>2, <3>1, <3>2, <3>3
    <2>3. ~Working(r)'
      BY <1>0, <2>2 DEF Working
    <2> QED BY <1>0, <2>1, <2>2, <2>3, StepKeepsKeys
  <1>3. CASE Lookup(r)
    <2>1. /\ pc[r] = "lookup"
          /\ UNCHANGED <<history, runLog, now, release, started>>
      BY <1>3 DEF Lookup
    <2>2. CASE FoundSuccess(r)
      <3>1. pc' = [pc EXCEPT ![r] = "log"] /\ status' = [status EXCEPT ![r] = "SKIPPED"]
        BY <1>3, <2>2 DEF Lookup, Goto
      <3>2. ~Working(r)'
        BY <1>0, <3>1 DEF Working
      <3> QED BY <1>0, <2>1, <3>1, <3>2, StepKeepsKeys
    <2>3. CASE ~FoundSuccess(r)
      <3>1. pc' = [pc EXCEPT ![r] = "acquire"] /\ status' = status
        BY <1>3, <2>3 DEF Lookup, Goto
      <3>2. Keyed(r) => \A h \in history : Expired(h)
        BY <2>1, <2>3, NothingFound
      <3> QED BY <1>0, <2>1, <3>1, <3>2, StepKeepsKeys
    <2> QED BY <2>2, <2>3
  <1>4. CASE AcquireLock(r) \/ Work(r) \/ ReleaseLock(r)
    <2>1. /\ pc[r] \in {"acquire", "work", "release"}
          /\ UNCHANGED <<history, runLog, now, release, started>>
      BY <1>4 DEF AcquireLock, Work, ReleaseLock
    <2>2. /\ \E l \in {"work", "release", "log"} : pc' = [pc EXCEPT ![r] = l]
          /\ status' \in [Runs -> {"SUCCESS", "FAILED", "SKIPPED"}]
          /\ \A s \in Runs \ {r} : status'[s] = status[s]
      BY <1>0, <1>4 DEF AcquireLock, Work, ReleaseLock, Goto
    <2>3. Working(r)' => Working(r)
      <3>1. CASE pc[r] \in {"acquire", "work"}
        BY <3>1 DEF Working
      <3>2. CASE ReleaseLock(r)
        BY <1>0, <3>2 DEF ReleaseLock, Goto, Working
      <3> QED BY <1>4, <3>1, <3>2 DEF AcquireLock, Work
    <2> QED BY <2>1, <2>2, <2>3, StepKeepsKeys
  <1>5. CASE LogRun(r)
    BY <1>5, LogKeepsKeys
  <1>6. CASE SetupFails(r) \/ Crash(r)
    <2>1. /\ pc[r] \in SetupPCs \cup UsePCs
          /\ UNCHANGED <<history, runLog, now, release, status, started>>
          /\ \E l \in {"raised", "crashed"} : pc' = [pc EXCEPT ![r] = l]
      BY <1>6 DEF SetupFails, Crash, Goto
    <2>2. ~Working(r)' /\ pc[r] # "start"
      BY <1>0, <2>1 DEF Working, SetupPCs, UsePCs
    <2> QED BY <1>0, <2>1, <2>2, StepKeepsKeys
  <1> QED BY <1>1, <1>2, <1>3, <1>4, <1>5, <1>6 DEF Advance

LEMMA KeyInductive == KeyInv /\ [Next]_vars => KeyInv'
  <1> SUFFICES ASSUME KeyInv, [Next]_vars PROVE KeyInv'
    OBVIOUS
  <1>1. SetupInv'
    BY SetupInductive DEF KeyInv
  <1>2. ASSUME NEW r \in Runs, Advance(r) \/ SetupFails(r) \/ Crash(r) PROVE KeyInv'
    BY <1>1, <1>2, AdvanceKeepsKeys
  <1>3. CASE StartRetention \/ DeleteOldRows \/ RetentionFails \/ Tick \/ UNCHANGED vars
    <2>1. UNCHANGED <<history, release, pc, status, started>>
      BY <1>3 DEF StartRetention, DeleteOldRows, RetentionFails, Tick, vars
    <2>2. now' \in Nat /\ now <= now'
      BY <1>3 DEF StartRetention, DeleteOldRows, RetentionFails, Tick, vars, KeyInv, HistoryType
    <2>3. HistoryType'
      BY <2>1, <2>2 DEF KeyInv, HistoryType, Keyed
    <2>4. \A s \in Runs : Working(s)' <=> Working(s)
      BY <2>1 DEF Working
    <2>5. ASSUME NEW h \in history,
                 [run |-> h.run, started |-> h.started, status |-> "SUCCESS"] \in runLog
          PROVE  \/ [run |-> h.run, started |-> h.started, status |-> "SUCCESS"] \in runLog'
                 \/ Expired(h)'
      <3> DEFINE row == [run |-> h.run, started |-> h.started, status |-> "SUCCESS"]
      <3>1. CASE DeleteOldRows
        <4>1. CASE ~RunIsOld(row)
          BY <2>5, <3>1, <4>1 DEF DeleteOldRows
        <4>2. CASE RunIsOld(row)
          <5>1. now' = now
            BY <3>1 DEF DeleteOldRows
          <5>2. DateOf(h.started) \in Int /\ DateOf(now) \in Int
            BY DatesRise DEF KeyInv, HistoryType
          <5>3. RetentionDays \in Int
            BY ClockAssumption
          <5>4. Expired(h)
            BY <4>2, <5>2, <5>3 DEF RunIsOld, Expired
          <5> QED BY <5>1, <5>4 DEF Expired, DateOf
        <4> QED BY <4>1, <4>2
      <3>2. CASE ~DeleteOldRows
        BY <1>3, <2>5, <3>2 DEF StartRetention, RetentionFails, Tick, vars
      <3> QED BY <3>1, <3>2
    <2> QED BY <1>1, <2>1, <2>2, <2>3, <2>4, <2>5, KeysStand
  <1> QED BY <1>2, <1>3 DEF Next

(***************************************************************************)
(* NoRepeatWithinRetention: whatever retention deletes meanwhile, a run    *)
(* that starts after a keyed success has been logged finds it until the    *)
(* retention of the success is over (find_idempotent_run in state.py,      *)
(* maintenance.py).  It is the search before the work that counts, so the  *)
(* theorem needs no lock.                                                  *)
(***************************************************************************)
THEOREM KeysOutliveRetention == Spec => []NoRepeatWithinRetention
  <1>1. Init => KeyInv
    <2> SUFFICES ASSUME Init PROVE KeyInv
      OBVIOUS
    <2>1. SetupInv
      BY SetupInitially
    <2>2. HistoryType
      BY DEF Init, HistoryType, Never
    <2>3. Stays /\ (\A r \in Runs : Searched(r)) /\ NoRepeatWithinRetention
      BY DEF Init, Stays, Searched, NoRepeatWithinRetention
    <2> QED BY <2>1, <2>2, <2>3 DEF KeyInv
  <1>2. KeyInv => NoRepeatWithinRetention
    BY DEF KeyInv
  <1> QED BY <1>1, <1>2, KeyInductive, PTL DEF Spec

(***************************************************************************)
(* The race of the setups.  A run that is turned away has been overtaken:  *)
(* its ALTER finds a column another run has added, its MERGE a commit of   *)
(* another run.  Whoever added the column is past that table, whoever      *)
(* committed is through.  Of the runs turned away at the latest place, one *)
(* had been overtaken by a run beyond it.                                  *)
(***************************************************************************)
\* A run has come through.
GotThrough == \E r \in Runs : pc[r] \in UsePCs \cup {"done"}

\* r is done with the first i tables of Migrated.
Past(r, i) ==
    \/ pc[r] \in {"metadata", "merge"}
    \/ pc[r] \in {"columns", "alter", "raised"} /\ table[r] > i

\* r is about to be turned away, or has been, by a run that is past its table.
Overtaken(r) ==
    \/ pc[r] = "raised"
    \/ pc[r] = "alter" /\ columns[Migrated[table[r]]] \cap missing[r] # {}

\* The inductive invariant.
RaceInv ==
    /\ SetupInv
    /\ unlucky = {} /\ ~GotThrough =>
          /\ outdated = {}
          /\ \A r \in Runs : Overtaken(r) =>
                table[r] \in DOMAIN Migrated /\ \E s \in Runs : Past(s, table[r])

\* Once a run is through, one is, until a fault hits it.
LEMMA ThroughStays ==
    ASSUME SetupInv, [Next]_vars, unlucky' = {}
    PROVE  unlucky = {} /\ (GotThrough => GotThrough')
  <1>0. pc \in [Runs -> {"start"} \cup SetupPCs \cup UsePCs \cup Ended]
    BY DEF SetupInv, SetupType
  <1>1. CASE UNCHANGED <<pc, unlucky>>
    BY <1>1 DEF GotThrough
  <1>2. ASSUME NEW r \in Runs, Advance(r) PROVE unlucky = {} /\ (GotThrough => GotThrough')
    <2>1. unlucky' = unlucky
      BY <1>2 DEF Advance, Begin, CreateTable, ReadColumns, AddColumns, CheckMetadata,
         RecordMetadata, MetadataConflict, Lookup, AcquireLock, Work, ReleaseLock, LogRun
    <2>2. \A s \in Runs \ {r} : pc'[s] = pc[s]
      BY <1>0, <1>2 DEF Advance, Begin, CreateTable, ReadColumns, AddColumns, CheckMetadata,
         RecordMetadata, MetadataConflict, Lookup, AcquireLock, Work, ReleaseLock, LogRun,
         NextTable, Goto
    <2>3. CASE pc[r] \in UsePCs \cup {"done"}
      <3>1. Lookup(r) \/ AcquireLock(r) \/ Work(r) \/ ReleaseLock(r) \/ LogRun(r)
        BY <1>2, <2>3 DEF UsePCs, Advance, Begin, CreateTable, ReadColumns, AddColumns,
           CheckMetadata, RecordMetadata, MetadataConflict
      <3>2. pc'[r] \in UsePCs \cup {"done"}
        BY <1>0, <3>1 DEF UsePCs, Lookup, AcquireLock, Work, ReleaseLock, LogRun, Goto
      <3> QED BY <2>1, <3>2 DEF GotThrough
    <2>4. CASE pc[r] \notin UsePCs \cup {"done"}
      BY <2>1, <2>2, <2>4 DEF GotThrough
    <2> QED BY <2>3, <2>4
  <1>3. ASSUME NEW r \in Runs, SetupFails(r) \/ Crash(r) PROVE FALSE
    BY <1>3 DEF SetupFails, Crash
  <1>4. CASE StartRetention \/ DeleteOldRows \/ RetentionFails \/ Tick \/ UNCHANGED vars
    BY <1>1, <1>4 DEF StartRetention, DeleteOldRows, RetentionFails, Tick, vars
  <1> QED BY <1>2, <1>3, <1>4 DEF Next

\* A step that keeps every run past the tables it is past, and turns away
\* only those it overtakes itself.
LEMMA RaceGoesOn ==
    ASSUME RaceInv, SetupInv', unlucky = {}, ~GotThrough, outdated' = {},
           \A s \in Runs, i \in 1 .. 2 : Past(s, i) => Past(s, i)',
           \A s \in Runs : Overtaken(s)' =>
               /\ table'[s] = table[s]
               /\ \/ Overtaken(s)
                  \/ table[s] \in DOMAIN Migrated /\ \E v \in Runs : Past(v, table[s])'
    PROVE  RaceInv'
  <1>1. ASSUME NEW s \in Runs, Overtaken(s)'
        PROVE  (table[s] \in DOMAIN Migrated)' /\ \E v \in Runs : Past(v, table[s])'
    <2>1. CASE Overtaken(s)
      <3>1. PICK v \in Runs : table[s] \in 1 .. 2 /\ Past(v, table[s])
        BY <2>1, Lists DEF RaceInv
      <3>2. PICK i \in 1 .. 2 : i = table[s] /\ table'[s] = i
        BY <1>1, <3>1
      <3>3. Past(v, i)'
        BY <3>1, <3>2
      <3> QED BY <3>2, <3>3, Lists DEF Past, Migrated
    <2>2. CASE ~Overtaken(s)
      BY <1>1, <2>2 DEF Migrated
    <2> QED BY <2>1, <2>2
  <1> QED BY <1>1 DEF RaceInv

\* The same for a step of r alone.
LEMMA RunGoesOn ==
    ASSUME RaceInv, SetupInv', unlucky = {}, ~GotThrough, outdated' = {}, NEW r \in Runs,
           \A s \in Runs \ {r} : pc'[s] = pc[s] /\ table'[s] = table[s] /\ missing'[s] = missing[s],
           \A i \in 1 .. 2 : Past(r, i) => Past(r, i)',
           Overtaken(r)' => Overtaken(r) /\ table'[r] = table[r],
           \A s \in Runs \ {r} : pc[s] = "alter" =>
               LET t == Migrated[table[s]]
               IN columns'[t] = columns[t] \/ Past(r, table[s])'
    PROVE  RaceInv'
  <1>1. \A s \in Runs, i \in 1 .. 2 : Past(s, i) => Past(s, i)'
    BY DEF Past
  <1>2. ASSUME NEW s \in Runs, Overtaken(s)'
        PROVE  /\ table'[s] = table[s]
               /\ \/ Overtaken(s)
                  \/ table[s] \in DOMAIN Migrated /\ \E v \in Runs : Past(v, table[s])'
    <2>1. CASE s = r
      BY <1>2, <2>1
    <2>2. CASE s # r /\ pc[s] # "alter"
      BY <1>2, <2>2 DEF Overtaken
    <2>3. CASE s # r /\ pc[s] = "alter"
      <3>1. table[s] \in DOMAIN Migrated
        BY <2>3 DEF RaceInv, SetupInv, Progress, AtColumns
      <3> QED BY <1>2, <2>3, <3>1 DEF Overtaken
    <2> QED BY <2>1, <2>2, <2>3
  <1> QED BY <1>1, <1>2, RaceGoesOn

LEMMA RaceInductive == RaceInv /\ [Next]_vars => RaceInv'
  <1> SUFFICES ASSUME RaceInv, [Next]_vars PROVE RaceInv'
    OBVIOUS
  <1>1. SetupInv /\ SetupInv'
    BY SetupInductive DEF RaceInv
  <1>2. SUFFICES ASSUME unlucky' = {}, ~GotThrough' PROVE RaceInv'
    BY <1>1 DEF RaceInv
  <1>3. unlucky = {} /\ ~GotThrough
    BY <1>1, <1>2, ThroughStays
  <1>4. outdated = {} /\ \A r \in Runs : pc[r] \notin UsePCs /\ pc'[r] \notin UsePCs
    BY <1>2, <1>3 DEF RaceInv, GotThrough
  <1>5. /\ pc \in [Runs -> {"start"} \cup SetupPCs \cup UsePCs \cup Ended]
        /\ table \in [Runs -> 1 .. 3] /\ missing \in [Runs -> SUBSET ColumnNames]
        /\ columns \in [Tables -> SUBSET ColumnNames]
    BY <1>1 DEF SetupInv, SetupType
  <1>6. ASSUME NEW r \in Runs, Begin(r) \/ CreateTable(r) PROVE RaceInv'
    <2>1. /\ pc[r] \in {"start", "create"} /\ outdated' = outdated /\ missing' = missing
          /\ \A s \in Runs \ {r} : pc'[s] = pc[s] /\ table'[s] = table[s]
          /\ pc'[r] \in {"create", "columns"}
      BY <1>5, <1>6 DEF Begin, CreateTable, NextTable, Goto, setup
    <2>2. ASSUME NEW s \in Runs, pc[s] = "alter"
          PROVE  columns'[Migrated[table[s]]] = columns[Migrated[table[s]]]
      <3>1. table[s] \in DOMAIN Migrated /\ \A t \in Tables : Exists(t)
        BY <1>1, <2>2 DEF SetupInv, Progress, AtColumns
      <3>2. columns' = columns
        <4>1. CASE Begin(r)
          BY <4>1 DEF Begin
        <4>2. CASE CreateTable(r)
          <5>1. Created[table[r]] \in Tables
            BY <1>5, Lists
          <5>2. columns[Created[table[r]]] # NoTable
            BY <3>1, <5>1 DEF Exists, NoTable
          <5> QED BY <4>2, <5>2 DEF CreateTable
        <4> QED BY <1>6, <4>1, <4>2
      <3> QED BY <3>2
    <2>3. ~Overtaken(r)' /\ \A i \in 1 .. 2 : ~Past(r, i)
      BY <2>1 DEF Overtaken, Past
    <2> QED BY <1>1, <1>3, <1>4, <2>1, <2>2, <2>3, RunGoesOn
  <1>7. ASSUME NEW r \in Runs, ReadColumns(r) PROVE RaceInv'
    <2> DEFINE t == Migrated[table[r]]
               lacking == Missing(r, t)
    <2>1. /\ pc[r] = "columns" /\ outdated' = outdated /\ columns' = columns
          /\ missing' = [missing EXCEPT ![r] = lacking]
          /\ \A s \in Runs \ {r} : missing'[s] = missing[s]
      BY <1>5, <1>7 DEF ReadColumns
    <2>2. table[r] \in 1 .. 2
      BY <1>1, <2>1, Lists DEF SetupInv, Progress, AtColumns
    <2>3. CASE lacking # {}
      <3>1. pc' = [pc EXCEPT ![r] = "alter"] /\ table' = table
        BY <1>7, <2>3 DEF ReadColumns, Goto
      <3>2. ~Overtaken(r)'
        BY <1>5, <2>1, <3>1 DEF Overtaken, Missing
      <3>3. \A i \in 1 .. 2 : Past(r, i) => Past(r, i)'
        BY <1>5, <2>1, <3>1 DEF Past
      <3>4. \A s \in Runs \ {r} : pc'[s] = pc[s]
        BY <1>5, <3>1
      <3> QED BY <1>1, <1>3, <1>4, <2>1, <3>1, <3>2, <3>3, <3>4, RunGoesOn
    <2>4. CASE lacking = {}
      <3>1. \/ table[r] < 2 /\ pc' = [pc EXCEPT ![r] = "columns"]
               /\ table' = [table EXCEPT ![r] = table[r] + 1]
            \/ pc' = [pc EXCEPT ![r] = "metadata"] /\ table' = [table EXCEPT ![r] = 1]
        BY <1>7, <2>4, Lists DEF ReadColumns, NextTable, Goto
      <3>2. ~Overtaken(r)'
        BY <1>5, <3>1 DEF Overtaken
      <3>3. \A i \in 1 .. 2 : Past(r, i) => Past(r, i)'
        BY <1>5, <2>1, <2>2, <3>1 DEF Past
      <3>4. \A s \in Runs \ {r} : pc'[s] = pc[s] /\ table'[s] = table[s]
        BY <1>5, <3>1
      <3> QED BY <1>1, <1>3, <1>4, <2>1, <3>2, <3>3, <3>4, RunGoesOn
    <2> QED BY <2>3, <2>4
  <1>8. ASSUME NEW r \in Runs, AddColumns(r) PROVE RaceInv'
    <2> DEFINE t == Migrated[table[r]]
    <2>1. /\ pc[r] = "alter" /\ outdated' = outdated
          /\ \A s \in Runs \ {r} : missing'[s] = missing[s]
      BY <1>5, <1>8 DEF AddColumns
    <2>2. table[r] \in 1 .. 2
      BY <1>1, <2>1, Lists DEF SetupInv, Progress, AtColumns
    <2>3. CASE columns[t] \cap missing[r] # {}
      <3>1. pc' = [pc EXCEPT ![r] = "raised"] /\ table' = table /\ columns' = columns
        BY <1>8, <2>3 DEF AddColumns, Goto
      <3>2. Overtaken(r)
        BY <2>1, <2>3 DEF Overtaken
      <3>3. \A i \in 1 .. 2 : Past(r, i) => Past(r, i)'
        BY <1>5, <2>1, <3>1 DEF Past
      <3>4. \A s \in Runs \ {r} : pc'[s] = pc[s]
        BY <1>5, <3>1
      <3> QED BY <1>1, <1>3, <1>4, <2>1, <3>1, <3>2, <3>3, <3>4, RunGoesOn
    <2>4. CASE columns[t] \cap missing[r] = {}
      <3>1. columns' = [columns EXCEPT ![t] = columns[t] \cup missing[r]]
        BY <1>8, <2>4 DEF AddColumns
      <3>2. \/ table[r] < 2 /\ pc' = [pc EXCEPT ![r] = "columns"]
               /\ table' = [table EXCEPT ![r] = table[r] + 1]
            \/ pc' = [pc EXCEPT ![r] = "metadata"] /\ table' = [table EXCEPT ![r] = 1]
        BY <1>8, <2>4, Lists DEF AddColumns, NextTable, Goto
      <3>3. ~Overtaken(r)'
        BY <1>5, <3>2 DEF Overtaken
      <3>4. \A i \in 1 .. 2 : Past(r, i) => Past(r, i)'
        BY <1>5, <2>1, <2>2, <3>2 DEF Past
      <3>5. PICK i \in 1 .. 2 : i = table[r] /\ Past(r, i)'
        BY <1>5, <2>1, <2>2, <3>2 DEF Past
      <3>6. ASSUME NEW s \in Runs \ {r}, pc[s] = "alter"
            PROVE  columns'[Migrated[table[s]]] = columns[Migrated[table[s]]]
                   \/ Past(r, table[s])'
        <4>1. table[s] \in 1 .. 2
          BY <1>1, <3>6, Lists DEF SetupInv, Progress, AtColumns
        <4>2. CASE table[s] = table[r]
          <5>1. table'[s] = i
            BY <1>5, <3>2, <3>5, <4>2
          <5> QED BY <3>5, <5>1 DEF Past
        <4>3. CASE table[s] # table[r]
          BY <1>5, <2>2, <3>1, <4>1, <4>3, Lists
        <4> QED BY <4>2, <4>3
      <3>7. \A s \in Runs \ {r} : pc'[s] = pc[s] /\ table'[s] = table[s]
        BY <1>5, <3>2
      <3> QED BY <1>1, <1>3, <1>4, <2>1, <3>3, <3>4, <3>6, <3>7, RunGoesOn
    <2> QED BY <2>3, <2>4
  <1>9. ASSUME NEW r \in Runs, CheckMetadata(r) PROVE RaceInv'
    <2>1. /\ pc[r] = "metadata" /\ outdated' = {}
          /\ UNCHANGED <<columns, table, missing>>
      BY <1>4, <1>9 DEF CheckMetadata
    <2>2. pc' = [pc EXCEPT ![r] = "merge"]
      <3>1. pc' # [pc EXCEPT ![r] = "lookup"]
        BY <1>4, <1>5 DEF UsePCs
      <3> QED BY <1>9, <3>1 DEF CheckMetadata, Goto
    <2>3. ~Overtaken(r)' /\ \A i \in 1 .. 2 : Past(r, i)'
      BY <1>5, <2>2 DEF Overtaken, Past
    <2>4. \A s \in Runs \ {r} : pc'[s] = pc[s]
      BY <1>5, <2>2
    <2> QED BY <1>1, <1>3, <2>1, <2>3, <2>4, RunGoesOn
  <1>10. ASSUME NEW r \in Runs, RecordMetadata(r) \/ MetadataConflict(r) PROVE FALSE
    <2>1. CASE RecordMetadata(r)
      BY <1>4, <1>5, <2>1 DEF RecordMetadata, Goto, UsePCs
    <2>2. CASE MetadataConflict(r)
      BY <1>4, <2>2 DEF MetadataConflict
    <2> QED BY <1>10, <2>1, <2>2
  <1>11. ASSUME NEW r \in Runs,
                Lookup(r) \/ AcquireLock(r) \/ Work(r) \/ ReleaseLock(r) \/ LogRun(r)
         PROVE  FALSE
    BY <1>4, <1>11 DEF UsePCs, Lookup, AcquireLock, Work, ReleaseLock, LogRun
  <1>12. ASSUME NEW r \in Runs, SetupFails(r) \/ Crash(r) PROVE FALSE
    BY <1>2, <1>12 DEF SetupFails, Crash
  <1>13. CASE StartRetention \/ DeleteOldRows \/ RetentionFails \/ Tick \/ UNCHANGED vars
    <2>1. UNCHANGED <<columns, pc, table, missing, outdated>>
      BY <1>13 DEF StartRetention, DeleteOldRows, RetentionFails, Tick, vars, setup
    <2>2. \A s \in Runs : (Overtaken(s)' <=> Overtaken(s)) /\ \A i : Past(s, i)' <=> Past(s, i)
      BY <2>1 DEF Overtaken, Past
    <2> QED BY <1>1, <1>3, <1>4, <2>1, <2>2, RaceGoesOn
  <1> QED
    BY <1>6, <1>7, <1>8, <1>9, <1>10, <1>11, <1>12, <1>13 DEF Next, Advance

(***************************************************************************)
(* SomebodyGetsThrough: the runs that set up the tables at the same time   *)
(* turn one another away, by a column that is there already or a commit    *)
(* that came between (_add_columns_if_missing, _record_ctrl_metadata), but *)
(* never all of them, however many they are and of whichever release.      *)
(***************************************************************************)
THEOREM RaceHasWinner ==
    ASSUME Runs # {}
    PROVE  Spec => []SomebodyGetsThrough
  <1>1. Init => RaceInv
    <2> SUFFICES ASSUME Init PROVE RaceInv
      OBVIOUS
    <2>1. SetupInv /\ outdated = {} /\ \A r \in Runs : pc[r] = "start"
      BY SetupInitially DEF Init
    <2> QED BY <2>1 DEF RaceInv, Overtaken
  <1>2. RaceInv => SomebodyGetsThrough
    <2> SUFFICES ASSUME RaceInv, unlucky = {}, \A r \in Runs : pc[r] = "raised" PROVE FALSE
      BY DEF SomebodyGetsThrough
    <2>1. ~GotThrough
      BY DEF GotThrough, UsePCs
    <2>2. ASSUME NEW r \in Runs
          PROVE  table[r] \in 1 .. 2 /\ \E s \in Runs : table[s] > table[r]
      BY <2>1, Lists DEF RaceInv, Overtaken, Past
    <2>3. PICK r \in Runs : TRUE
      OBVIOUS
    <2>4. PICK s \in Runs : table[s] > table[r]
      BY <2>2
    <2>5. PICK v \in Runs : table[v] > table[s]
      BY <2>2
    <2> QED BY <2>2, <2>4, <2>5
  <1> QED BY <1>1, <1>2, RaceInductive, PTL DEF Spec
=============================================================================
